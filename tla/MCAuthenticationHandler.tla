----------------------- MODULE MCAuthenticationHandler -----------------------
(* A small instance of AuthenticationHandler for TLC.                      *)
EXTENDS AuthenticationHandler

CONSTANTS u1, noUser, k1, k2, noKey, unsigned

EmptyString == [bearer |-> FALSE, user |-> noUser, sigOf |-> <<FALSE, noUser>>,
                sigKey |-> unsigned, size |-> 0, nul |-> FALSE]

(* "u1.<signature of u1 under k1>", as the header documents it             *)
Token == [bearer |-> FALSE, user |-> u1, sigOf |-> <<FALSE, u1>>,
          sigKey |-> k1, size |-> 20, nul |-> FALSE]
BearerToken == [Token EXCEPT !.bearer = TRUE, !.size = 27]

(* The same, signed under the empty key.                                   *)
EmptyKeyToken == [Token EXCEPT !.sigKey = noKey]

MCStrings == {EmptyString, Token, BearerToken, EmptyKeyToken}
MCManaged == {Token}

(* The second configuration asks for no prefix and finds Token too short.  *)
MCDefault == [minLength |-> 16, requireBearer |-> TRUE, ttl |-> 1, maxFailed |-> 2]
MCConfigs == {MCDefault,
              [minLength |-> 21, requireBearer |-> FALSE, ttl |-> 0, maxFailed |-> 1]}
=============================================================================
