------------------------------ MODULE MCAdapter ------------------------------
(* Small instances of MCPAdapter for TLC.                                  *)
EXTENDS MCPAdapter

CONSTANTS u1, noUser, k1, noKey, unsigned

EmptyString == [bearer |-> FALSE, user |-> noUser, sigOf |-> <<FALSE, noUser>>,
                sigKey |-> unsigned, size |-> 0, nul |-> FALSE]

(* "u1.<signature of u1>", the same behind "Bearer ", a credential whose   *)
(* signature covers the prefix, and what is left of that without prefix    *)
Token == [bearer |-> FALSE, user |-> u1, sigOf |-> <<FALSE, u1>>,
          sigKey |-> k1, size |-> 20, nul |-> FALSE]
BearerToken == [Token EXCEPT !.bearer = TRUE, !.size = 27]
PrefixSigned == [BearerToken EXCEPT !.sigOf = <<TRUE, u1>>]
PrefixSignedRest == [PrefixSigned EXCEPT !.bearer = FALSE, !.size = 20]

MCStrings == {EmptyString, Token, BearerToken, PrefixSigned, PrefixSignedRest}

MCDefault == [minLength |-> 16, requireBearer |-> TRUE, ttl |-> 1, maxFailed |-> 1]
MCBareTokens == [minLength |-> 0, requireBearer |-> FALSE, ttl |-> 0, maxFailed |-> 2]

MCIds == {1, -1}
BothForms == {PrefixSigned, PrefixSignedRest}
BareForm == {PrefixSignedRest}
OneConfig == {MCDefault}
TwoConfigs == {MCDefault, MCBareTokens}

Request(id, method, auth) ==
    [text |-> "message", is_request |-> TRUE, id |-> id, method |-> method,
     auth |-> auth, params |-> TRUE, name |-> TRUE, metacharacters |-> FALSE]

(* Every kind of line, without credentials.                                *)
Plain(id, method) == Request(id, method, EmptyString)
ProtocolLines ==
    {BlankLine, [BlankLine EXCEPT !.text = "cr"], [BlankLine EXCEPT !.text = "malformed"],
     [Plain(1, "other") EXCEPT !.is_request = FALSE], Plain(NoId, "other"),
     Plain(1, "other"), Plain(1, "initialize"), Plain(1, "tools/list"),
     Plain(1, "tools/call"), Plain(-1, "tools/call"),
     [Plain(1, "tools/call") EXCEPT !.params = FALSE],
     [Plain(1, "tools/call") EXCEPT !.name = FALSE],
     [Plain(1, "tools/call") EXCEPT !.metacharacters = TRUE]}

(* Tool calls with each kind of credential.                                *)
CredentialLines ==
    {Request(1, "tools/call", PrefixSigned), Request(1, "tools/call", Token),
     Request(1, "tools/call", BearerToken), Request(1, "initialize", PrefixSigned)}

AllLines == ProtocolLines \cup CredentialLines

GoodTool == [nameLength |-> 256, nameControl |-> FALSE, descriptionLength |-> 4096,
             paramCount |-> 0, params |-> {}]
PoisonedTool == [GoodTool EXCEPT !.descriptionLength = 4097]
MCToolLists == {{}, {GoodTool}, {GoodTool, PoisonedTool}}
=============================================================================
