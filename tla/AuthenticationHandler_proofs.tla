--------------------- MODULE AuthenticationHandler_proofs ---------------------
(***************************************************************************)
(* Proofs about AuthenticationHandler, for every set of strings, secrets,  *)
(* configurations and clients and for every bound.                         *)
(***************************************************************************)
EXTENDS AuthenticationHandler, TLAPS

(* A token found dead at the start of the call stays revoked, or expired   *)
(* while nobody is about to renew it or to configure the handler; of       *)
(* decode_token only revocation counts.                                    *)
Decoding == {"verify", "hmac", "is_revoked", "ttl", "is_expired", "decoded"}

DeadStaysDead ==
    /\ call.dead =>
         \/ IsRevoked(call.token)
         \/ /\ config.ttl > 0
            /\ IsExpired(call.token)
            /\ control.op \notin {"configure", "register_token"}
    /\ call.pc \in Decoding =>
         call.token = call.text /\ (call.dead => IsRevoked(call.token))
    /\ call.pc \in {"allowed", "ttl", "is_expired", "decoded"} => ~call.dead

(* Until the signature is checked, keys holds every secret a read may      *)
(* still meet, and so does seen once token_secret_ has been tested; the    *)
(* empty key is among them only while the secret is being replaced.  From  *)
(* then on the signature is known to be good under one of them.            *)
SignatureKnown ==
    /\ call.pc = "verify" => VisibleKeys \subseteq call.keys /\ Splits(call.text)
    /\ call.pc = "hmac" =>
         /\ VisibleKeys \subseteq call.seen
         /\ call.seen \subseteq call.keys
         /\ NoSecret \in call.seen => TornSecret \in call.seen
         /\ Splits(call.text)
    /\ call.pc \in Decoding \ {"verify", "hmac"} =>
         /\ call.text.sigOf = UserPart(call.text)
         /\ UserPart(call.text) # NoIdentity
         /\ call.text.sigKey \in call.keys
         /\ call.text.sigKey \in Secrets \/ TornSecret \in call.keys

(* The count is below its bound when it is about to grow.                  *)
CounterHasRoom ==
    control.op = "record_failure" => failed_attempts[control.client] < MaxFailures

IInv == TypeOK /\ DeadStaysDead /\ SignatureKnown /\ CounterHasRoom

-------------------------------------------------------------------------------
(* The operator that holds the mutex has arguments of the right kind.      *)
LEMMA ControlArguments ==
    ASSUME control \in ControlOps
    PROVE  /\ control.op = "configure" => control.config \in Configs
           /\ control.op = "set_token_secret" => control.secret \in Secrets \cup {NoSecret}
           /\ control.op = "register_token" => control.token \in ManagedTokens /\ control.at \in Times
           /\ control.op = "revoke_token" => control.token \in ManagedTokens
           /\ control.op \in {"record_failure", "reset_failures"} => control.client \in Clients
BY DEF ControlOps, Free

(* What a new handler looks like satisfies the invariant.                  *)
LEMMA InitInv == Init => IInv
<1> SUFFICES ASSUME Init PROVE IInv
  OBVIOUS
<1> USE DEF Init
<1>1. Idle \in CallRecords
  BY StringsAssumption DEF Idle, CallRecords
<1>2. TypeOK
  <2>1. 0 \in Times /\ 0 \in 0 .. MaxFailures
    BY BoundsAssumption DEF Times
  <2>2. control \in ControlOps
    BY DEF ControlOps
  <2> QED BY <1>1, <2>1, <2>2, ConfigsAssumption DEF TypeOK
<1>3. call.pc = "idle" /\ call.dead = FALSE
  BY DEF Idle
<1>4. DeadStaysDead /\ SignatureKnown
  BY <1>3 DEF DeadStaysDead, SignatureKnown, Decoding
<1>5. CounterHasRoom
  BY DEF CounterHasRoom, Free
<1> QED BY <1>2, <1>4, <1>5 DEF IInv

(* Taking the mutex keeps the types.                                       *)
LEMMA BeginType == TypeOK /\ ControlBegin => TypeOK'
<1> SUFFICES ASSUME TypeOK, ControlBegin PROVE TypeOK'
  OBVIOUS
<1>1. /\ UNCHANGED <<handlerVars, now>>
      /\ control' \in ControlOps
  <2>1. CASE \E c \in Configs : BeginConfigure(c)
    BY <2>1 DEF BeginConfigure, Acquire, ControlOps
  <2>2. CASE \E s \in ManagedTokens, at \in Times : BeginRegisterToken(s, at)
    BY <2>2 DEF BeginRegisterToken, Acquire, ControlOps
  <2>3. CASE \E s \in ManagedTokens : BeginRevokeToken(s)
    BY <2>3 DEF BeginRevokeToken, Acquire, ControlOps
  <2>4. CASE \E k \in Secrets \cup {NoSecret} : BeginSetTokenSecret(k)
    BY <2>4 DEF BeginSetTokenSecret, Acquire, ControlOps
  <2>5. CASE \E c \in Clients : BeginRecordFailure(c) \/ BeginResetFailures(c)
    BY <2>5 DEF BeginRecordFailure, BeginResetFailures, Acquire, ControlOps
  <2> QED BY <2>1, <2>2, <2>3, <2>4, <2>5 DEF ControlBegin
<1>2. call' \in CallRecords
  <2>1. call \in CallRecords
    BY DEF TypeOK
  <2>2. CASE UNCHANGED call
    BY <2>1, <2>2
  <2>3. CASE NoLongerExpired
    BY <2>1, <2>3 DEF NoLongerExpired, CallRecords
  <2>4. CASE \E k \in Secrets \cup {NoSecret} : BeginSetTokenSecret(k)
    <3>1. PICK k \in Secrets \cup {NoSecret} : BeginSetTokenSecret(k)
      BY <2>4
    <3>2. /\ call.seen \cup {k, TornSecret} \in SUBSET Keys
          /\ call.keys \cup {k, TornSecret} \in SUBSET Keys
      BY <2>1 DEF CallRecords, Keys
    <3> QED BY <2>1, <3>1, <3>2 DEF BeginSetTokenSecret, CallRecords
  <2> QED
    BY <2>2, <2>3, <2>4 DEF ControlBegin, BeginConfigure, BeginRegisterToken,
       BeginRevokeToken, BeginRecordFailure, BeginResetFailures
<1> QED
  BY <1>1, <1>2 DEF TypeOK, handlerVars, tokenVars

(* Applying a change keeps the types; a failure count has room to grow.    *)
LEMMA EndType == TypeOK /\ CounterHasRoom /\ ControlEnd => TypeOK'
<1> SUFFICES ASSUME TypeOK, CounterHasRoom, ControlEnd PROVE TypeOK'
  OBVIOUS
<1> USE DEF TypeOK, Release
<1>0. Free \in ControlOps
  BY DEF ControlOps
<1>1. CASE EndConfigure
  BY <1>0, <1>1, ControlArguments DEF EndConfigure, tokenVars
<1>2. CASE EndSetTokenSecret
  BY <1>0, <1>2, ControlArguments DEF EndSetTokenSecret, tokenVars
<1>3. CASE EndRegisterToken
  BY <1>0, <1>3, ControlArguments DEF EndRegisterToken
<1>4. CASE EndRevokeToken
  BY <1>0, <1>4, ControlArguments, StringsAssumption DEF EndRevokeToken
<1>5. CASE EndRecordFailure
  <2>1. failed_attempts[control.client] + 1 \in 0 .. MaxFailures
    BY <1>5, ControlArguments, BoundsAssumption DEF EndRecordFailure, CounterHasRoom
  <2>2. failed_attempts' \in [Clients -> 0 .. MaxFailures]
    BY <1>5, <2>1 DEF EndRecordFailure, FailuresAfter
  <2> QED
    BY <1>0, <1>5, <2>2 DEF EndRecordFailure, tokenVars
<1>6. CASE EndResetFailures
  <2>1. 0 \in 0 .. MaxFailures
    BY BoundsAssumption
  <2> QED
    BY <1>0, <1>6, <2>1 DEF EndResetFailures, tokenVars
<1> QED
  BY <1>1, <1>2, <1>3, <1>4, <1>5, <1>6 DEF ControlEnd

(* What may be seen of the secret is a key.                                *)
LEMMA VisibleType == TypeOK => VisibleKeys \subseteq Keys
BY ControlArguments DEF VisibleKeys, VisibleSecrets, SecretChanging, Keys, TypeOK

(* What the reader does keeps the types.                                   *)
Reader ==
    \/ \E text \in Strings : ValidateBegin(text) \/ DecodeBegin(text)
    \/ CallStep \/ RaceFault \/ Return

LEMMA ReaderType == TypeOK /\ Reader => TypeOK' /\ ReadOnly
<1> SUFFICES ASSUME TypeOK, Reader PROVE TypeOK' /\ ReadOnly
  OBVIOUS
<1>1. ReadOnly
  BY DEF Reader, CallStep, ValidateBegin, DecodeBegin, ValidateFormat, ValidateLookup,
         DecodeVerify, DecodeHmac, DecodeRevoked, DecodeTtl, DecodeExpired, RaceFault, Return
<1>2. call' \in CallRecords
  <2>0. call \in CallRecords
    BY DEF TypeOK
  <2>1. ASSUME NEW text \in Strings, ValidateBegin(text) PROVE call' \in CallRecords
    <3>1. PICK known \in VisibleConfigured, cfg \in VisibleConfigs :
            call' = [pc    |-> IF known /\ Credential(text, cfg.requireBearer) # Empty
                               THEN "format" ELSE "denied",
                     text  |-> text, token |-> Credential(text, cfg.requireBearer), seen |-> {},
                     dead  |-> DeadNow(Credential(text, cfg.requireBearer)), keys |-> {}]
      BY <2>1 DEF ValidateBegin
    <3>2. Credential(text, cfg.requireBearer) \in Strings
      BY StringsAssumption DEF Credential
    <3>3. DeadNow(Credential(text, cfg.requireBearer)) \in BOOLEAN
      BY DEF DeadNow, IsRevoked, IsExpired
    <3> QED BY <3>1, <3>2, <3>3 DEF CallRecords, Busy, Verdicts
  <2>2. ASSUME NEW text \in Strings, DecodeBegin(text) PROVE call' \in CallRecords
    <3>1. VisibleKeys \subseteq Keys
      BY VisibleType
    <3>2. IsRevoked(text) \in BOOLEAN
      BY DEF IsRevoked
    <3> QED BY <2>2, <3>1, <3>2 DEF DecodeBegin, CallRecords, Busy, Verdicts
  <2>3. CASE DecodeVerify
    BY <2>0, <2>3, VisibleType DEF DecodeVerify, Undecoded, CallRecords, Busy, Verdicts
  <2>6. ASSUME NEW pc \in Busy \cup Verdicts,
                call' = [call EXCEPT !.pc = pc] \/ call' = [call EXCEPT !.pc = pc, !.seen = {}]
        PROVE  call' \in CallRecords
    BY <2>0, <2>6 DEF CallRecords
  <2>7. CASE ValidateFormat \/ ValidateLookup
    BY <2>6, <2>7 DEF ValidateFormat, ValidateLookup, Deny, Busy, Verdicts
  <2>8. CASE DecodeHmac
    BY <2>6, <2>8 DEF DecodeHmac, Busy, Verdicts
  <2>9. CASE DecodeRevoked \/ DecodeTtl \/ DecodeExpired
    BY <2>6, <2>9 DEF DecodeRevoked, DecodeTtl, DecodeExpired, Undecoded, Busy, Verdicts
  <2>4. CASE RaceFault
    BY <2>0, <2>4 DEF RaceFault, CallRecords
  <2>5. CASE Return
    BY <2>5, StringsAssumption DEF Return, Idle, CallRecords
  <2> QED BY <2>1, <2>2, <2>3, <2>4, <2>5, <2>7, <2>8, <2>9 DEF Reader, CallStep
<1> QED BY <1>1, <1>2 DEF TypeOK, ReadOnly, handlerVars, tokenVars

(* Taking the mutex changes nothing of the handler, and of the call in     *)
(* progress only what it remembers.                                        *)
LEMMA BeginFrame ==
    ASSUME TypeOK, ControlBegin
    PROVE  /\ UNCHANGED <<handlerVars, now>> /\ control.op = "none"
           /\ UNCHANGED <<call.pc, call.text, call.token>>
<1>0. call \in CallRecords
  BY DEF TypeOK
<1>1. CASE (\E c \in Configs : BeginConfigure(c))
           \/ (\E s \in ManagedTokens, at \in Times : BeginRegisterToken(s, at))
  BY <1>0, <1>1 DEF BeginConfigure, BeginRegisterToken, Acquire, MutexFree, Free,
     NoLongerExpired, CallRecords
<1>2. CASE \E s \in ManagedTokens : BeginRevokeToken(s)
  BY <1>2 DEF BeginRevokeToken, Acquire, MutexFree, Free
<1>3. CASE \E k \in Secrets \cup {NoSecret} : BeginSetTokenSecret(k)
  <2>1. PICK k \in Secrets \cup {NoSecret} : BeginSetTokenSecret(k)
    BY <1>3
  <2> QED BY <1>0, <2>1 DEF BeginSetTokenSecret, Acquire, MutexFree, Free, CallRecords
<1>4. CASE \E c \in Clients : BeginRecordFailure(c) \/ BeginResetFailures(c)
  BY <1>4 DEF BeginRecordFailure, BeginResetFailures, Acquire, MutexFree, Free
<1> QED BY <1>1, <1>2, <1>3, <1>4 DEF ControlBegin

(* Operators taking the mutex keep a dead token dead.                      *)
LEMMA BeginDead == IInv /\ ControlBegin => DeadStaysDead'
<1> SUFFICES ASSUME IInv, ControlBegin PROVE DeadStaysDead'
  OBVIOUS
<1> USE DEF DeadStaysDead, IsRevoked, IsExpired, ExpiredUnder
<1>0. /\ DeadStaysDead
      /\ call \in CallRecords
      /\ UNCHANGED <<config, revoked_tokens, token_issue_times, now>>
      /\ control.op = "none"
  BY BeginFrame DEF IInv, TypeOK, handlerVars, tokenVars
<1>1. CASE (\E c \in Configs : BeginConfigure(c))
           \/ (\E s \in ManagedTokens, at \in Times : BeginRegisterToken(s, at))
  <2>1. NoLongerExpired
    BY <1>1 DEF BeginConfigure, BeginRegisterToken
  <2>2. /\ UNCHANGED <<call.pc, call.text, call.token>>
        /\ call'.dead = (call.dead /\ call.token \in revoked_tokens)
    BY <1>0, <2>1 DEF NoLongerExpired, CallRecords
  <2> QED BY <1>0, <2>2
<1>2. CASE \E s \in ManagedTokens : BeginRevokeToken(s)
  BY <1>0, <1>2 DEF BeginRevokeToken, Acquire
<1>3. CASE \E k \in Secrets \cup {NoSecret} : BeginSetTokenSecret(k)
  BY <1>0, <1>3 DEF BeginSetTokenSecret, Acquire, CallRecords
<1>4. CASE \E c \in Clients : BeginRecordFailure(c) \/ BeginResetFailures(c)
  BY <1>0, <1>4 DEF BeginRecordFailure, BeginResetFailures, Acquire
<1> QED BY <1>1, <1>2, <1>3, <1>4 DEF ControlBegin

(* So do the changes they apply: a revocation may forget the issue time    *)
(* the token is dead by, but then the token is revoked.                    *)
LEMMA EndDead == IInv /\ ControlEnd => DeadStaysDead'
<1> SUFFICES ASSUME IInv, ControlEnd PROVE DeadStaysDead'
  OBVIOUS
<1> USE DEF DeadStaysDead, IsRevoked, IsExpired, ExpiredUnder, IInv, TypeOK
<1>0. UNCHANGED call /\ control' = Free /\ Free.op = "none" /\ UNCHANGED now
  BY DEF ControlEnd, EndConfigure, EndSetTokenSecret, EndRegisterToken, EndRevokeToken,
         EndRecordFailure, EndResetFailures, Release, Free
<1>1. CASE EndConfigure
  BY <1>0, <1>1 DEF EndConfigure, tokenVars
<1>2. CASE EndRegisterToken
  BY <1>0, <1>2 DEF EndRegisterToken
<1>3. CASE EndRevokeToken
  <2>1. revoked_tokens' = revoked_tokens \cup {control.token} /\ UNCHANGED config
    BY <1>3 DEF EndRevokeToken
  <2>2. \A s \in Strings : s # control.token => token_issue_times'[s] = token_issue_times[s]
    BY <1>3 DEF EndRevokeToken
  <2>3. call.token \in Strings
    BY DEF CallRecords
  <2> QED BY <1>0, <2>1, <2>2, <2>3
<1>4. CASE EndSetTokenSecret \/ EndRecordFailure \/ EndResetFailures
  BY <1>0, <1>4 DEF EndSetTokenSecret, EndRecordFailure, EndResetFailures, tokenVars
<1> QED BY <1>1, <1>2, <1>3, <1>4 DEF ControlEnd

(* And the reader does not let one through.                                *)
LEMMA ReaderDead == IInv /\ Reader => DeadStaysDead'
<1> SUFFICES ASSUME IInv, Reader PROVE DeadStaysDead'
  OBVIOUS
<1> USE DEF IInv, TypeOK
<1>0. UNCHANGED <<config, revoked_tokens, token_issue_times, now, control>>
  BY ReaderType DEF ReadOnly, handlerVars, tokenVars
<1>1. ASSUME NEW text \in Strings, ValidateBegin(text) PROVE DeadStaysDead'
  <2>1. PICK known \in VisibleConfigured, cfg \in VisibleConfigs :
          call' = [pc    |-> IF known /\ Credential(text, cfg.requireBearer) # Empty
                             THEN "format" ELSE "denied",
                   text  |-> text, token |-> Credential(text, cfg.requireBearer), seen |-> {},
                   dead  |-> DeadNow(Credential(text, cfg.requireBearer)), keys |-> {}]
    BY <1>1 DEF ValidateBegin
  <2> QED BY <1>0, <2>1 DEF DeadStaysDead, DeadNow, IsRevoked, IsExpired, ExpiredUnder, Decoding
<1>2. ASSUME NEW text \in Strings, DecodeBegin(text) PROVE DeadStaysDead'
  <2>1. /\ call'.pc \in {"verify", "undecoded"}
        /\ call'.text = text /\ call'.token = text /\ call'.dead = IsRevoked(text)
    BY <1>2 DEF DecodeBegin
  <2> QED BY <1>0, <2>1 DEF DeadStaysDead, IsRevoked, Decoding
<1>3. CASE ValidateFormat
  <2>1. call'.pc \in {"lookup", "denied"} /\ UNCHANGED <<call.text, call.token, call.dead>>
    BY <1>3 DEF ValidateFormat, Deny, CallRecords
  <2> QED BY <1>0, <2>1 DEF DeadStaysDead, IsRevoked, IsExpired, ExpiredUnder, Decoding
<1>4. CASE ValidateLookup
  <2>1. /\ call'.pc \in {"allowed", "denied"} /\ UNCHANGED <<call.text, call.token, call.dead>>
        /\ call'.pc = "allowed" => Acceptable(call.token)
    BY <1>4 DEF ValidateLookup, Deny, CallRecords
  <2> QED BY <1>0, <2>1 DEF DeadStaysDead, Acceptable, IsRevoked, IsExpired, ExpiredUnder, Decoding
<1>5. CASE DecodeVerify \/ DecodeHmac
  <2>1. /\ call.pc \in {"verify", "hmac"} /\ call'.pc \in {"hmac", "is_revoked", "undecoded"}
        /\ UNCHANGED <<call.text, call.token, call.dead>>
    BY <1>5 DEF DecodeVerify, DecodeHmac, Undecoded, CallRecords
  <2> QED BY <1>0, <2>1 DEF DeadStaysDead, IsRevoked, IsExpired, ExpiredUnder, Decoding
<1>6. CASE DecodeRevoked
  <2>1. /\ call.pc = "is_revoked" /\ call'.pc \in {"ttl", "undecoded"}
        /\ UNCHANGED <<call.text, call.token, call.dead>>
        /\ call'.pc = "ttl" => ~IsRevoked(call.text)
    BY <1>6 DEF DecodeRevoked, Undecoded, CallRecords
  <2> QED BY <1>0, <2>1 DEF DeadStaysDead, IsRevoked, IsExpired, ExpiredUnder, Decoding
<1>7. CASE DecodeTtl \/ DecodeExpired
  <2>1. /\ call.pc \in {"ttl", "is_expired"}
        /\ call'.pc \in {"is_expired", "decoded", "undecoded"}
        /\ UNCHANGED <<call.text, call.token, call.dead>>
    BY <1>7 DEF DecodeTtl, DecodeExpired, CallRecords
  <2> QED BY <1>0, <2>1 DEF DeadStaysDead, IsRevoked, IsExpired, ExpiredUnder, Decoding
<1>8. CASE RaceFault \/ Return
  <2>1. \/ call'.pc = "crashed" /\ UNCHANGED <<call.text, call.token, call.dead>>
        \/ call'.pc = "idle" /\ call'.dead = FALSE
    BY <1>8 DEF RaceFault, Return, Idle, CallRecords
  <2> QED BY <1>0, <2>1 DEF DeadStaysDead, IsRevoked, IsExpired, ExpiredUnder, Decoding
<1> QED BY <1>1, <1>2, <1>3, <1>4, <1>5, <1>6, <1>7, <1>8 DEF Reader, CallStep

(* Time only makes tokens older.                                           *)
LEMMA TickInv == IInv /\ Tick => IInv'
<1> SUFFICES ASSUME IInv, Tick PROVE IInv'
  OBVIOUS
<1> USE DEF IInv
<1>1. now \in Nat /\ now' = now + 1 /\ UNCHANGED <<handlerVars, control, call>>
  BY BoundsAssumption DEF Tick, TypeOK, Times
<1>2. TypeOK'
  BY <1>1, BoundsAssumption DEF TypeOK, Tick, Times, handlerVars, tokenVars
<1>3. IsExpired(call.token) => IsExpired(call.token)'
  <2>1. call.token \in Strings /\ config.ttl \in Nat
    BY ConfigsAssumption DEF TypeOK, CallRecords, ConfigRecords
  <2>2. token_issue_times[call.token] # NotRegistered => token_issue_times[call.token] \in Nat
    BY <2>1, BoundsAssumption DEF TypeOK, Times
  <2> QED BY <1>1, <2>1, <2>2 DEF IsExpired, ExpiredUnder, handlerVars, tokenVars
<1>4. DeadStaysDead'
  BY <1>1, <1>3 DEF DeadStaysDead, IsRevoked, handlerVars, tokenVars
<1>5. SignatureKnown' /\ CounterHasRoom'
  BY <1>1 DEF SignatureKnown, VisibleKeys, VisibleSecrets, SecretChanging, CounterHasRoom,
     handlerVars, tokenVars
<1> QED BY <1>2, <1>4, <1>5

(* The secrets in force during a call are remembered, and a signature is   *)
(* accepted under one of them only.                                        *)
LEMMA SignatureStep == IInv /\ (ControlBegin \/ ControlEnd \/ Reader) => SignatureKnown'
<1> SUFFICES ASSUME IInv, ControlBegin \/ ControlEnd \/ Reader PROVE SignatureKnown'
  OBVIOUS
<1> USE DEF IInv, TypeOK, SignatureKnown, VisibleKeys, VisibleSecrets, SecretChanging,
           Decoding
<1>0. call \in CallRecords
  OBVIOUS
<1>1. CASE ControlBegin
  <2>1. /\ UNCHANGED token_secret /\ control.op = "none"
        /\ UNCHANGED <<call.pc, call.text>>
    BY <1>1, BeginFrame DEF handlerVars
  <2>2. CASE \E k \in Secrets \cup {NoSecret} : BeginSetTokenSecret(k)
    <3>1. PICK k \in Secrets \cup {NoSecret} : BeginSetTokenSecret(k)
      BY <2>2
    <3>2. /\ control' = [op |-> "set_token_secret", secret |-> k]
          /\ call'.keys = IF call.pc \in {"verify", "hmac"}
                          THEN call.keys \cup {k, TornSecret} ELSE call.keys
          /\ call'.seen = IF call.pc = "hmac"
                          THEN call.seen \cup {k, TornSecret} ELSE call.seen
      BY <1>0, <3>1 DEF BeginSetTokenSecret, Acquire, CallRecords
    <3> QED BY <2>1, <3>2
  <2>3. CASE ~ \E k \in Secrets \cup {NoSecret} : BeginSetTokenSecret(k)
    <3>1. control'.op # "set_token_secret" /\ UNCHANGED <<call.keys, call.seen>>
      BY <1>0, <1>1, <2>3 DEF ControlBegin, BeginConfigure, BeginRegisterToken,
         BeginRevokeToken, BeginRecordFailure, BeginResetFailures, Acquire,
         NoLongerExpired, CallRecords
    <3> QED BY <2>1, <3>1
  <2> QED BY <2>2, <2>3
<1>2. CASE ControlEnd
  <2>1. UNCHANGED call /\ control' = Free /\ Free.op = "none"
    BY <1>2 DEF ControlEnd, EndConfigure, EndSetTokenSecret, EndRegisterToken, EndRevokeToken,
       EndRecordFailure, EndResetFailures, Release, Free
  <2>2. token_secret' \in VisibleSecrets
    BY <1>2, ControlArguments DEF ControlEnd, EndConfigure,
       EndSetTokenSecret, EndRegisterToken, EndRevokeToken, EndRecordFailure, EndResetFailures
  <2> QED BY <2>1, <2>2
<1>3. CASE Reader
  <2>0. UNCHANGED <<token_secret, control>>
    BY <1>3, ReaderType DEF ReadOnly, handlerVars
  <2>1. ASSUME NEW text \in Strings, DecodeBegin(text) PROVE SignatureKnown'
    <3>1. /\ call'.text = text /\ call'.keys = VisibleKeys
          /\ call'.pc = "verify" => Splits(text)
          /\ call'.pc \in {"verify", "undecoded"}
      BY <2>1 DEF DecodeBegin
    <3> QED BY <2>0, <3>1
  <2>2. CASE DecodeVerify
    <3>1. /\ call.pc = "verify" /\ call'.pc \in {"hmac", "undecoded"}
          /\ UNCHANGED <<call.text, call.keys>>
          /\ call'.pc = "hmac" => call'.seen = VisibleKeys
      BY <1>0, <2>2 DEF DecodeVerify, Undecoded, CallRecords
    <3>2. ASSUME call'.pc = "hmac"
          PROVE  \E key \in VisibleSecrets : key # NoSecret
      BY <1>0, <2>2, <3>2 DEF DecodeVerify, Undecoded, CallRecords
    <3>3. call'.pc = "hmac" /\ NoSecret \in VisibleKeys => TornSecret \in VisibleKeys
      BY <3>2, SecretsAssumption
    <3> QED BY <2>0, <3>1, <3>3
  <2>5. CASE DecodeHmac
    <3>1. call.pc = "hmac" /\ call'.pc \in {"is_revoked", "undecoded"}
          /\ UNCHANGED <<call.text, call.keys>>
      BY <1>0, <2>5 DEF DecodeHmac, CallRecords
    <3>2. ASSUME call'.pc = "is_revoked"
          PROVE  \E key \in call.seen : VerifySignature(call.text, key)
      BY <1>0, <2>5, <3>2 DEF DecodeHmac, CallRecords
    <3>3. call.seen \subseteq Keys
      BY <1>0 DEF CallRecords
    <3> QED BY <3>1, <3>2, <3>3 DEF VerifySignature, Splits, Keys
  <2>3. CASE DecodeRevoked \/ DecodeTtl \/ DecodeExpired
    <3>1. /\ call.pc \in {"is_revoked", "ttl", "is_expired"}
          /\ call'.pc \in {"ttl", "is_expired", "decoded", "undecoded"}
          /\ UNCHANGED <<call.text, call.keys>>
      BY <1>0, <2>3 DEF DecodeRevoked, DecodeTtl, DecodeExpired, Undecoded, CallRecords
    <3> QED BY <3>1
  <2>4. CASE \/ \E text \in Strings : ValidateBegin(text)
             \/ ValidateFormat \/ ValidateLookup \/ RaceFault \/ Return
    <3>1. call'.pc \notin Decoding
      BY <1>0, <2>4 DEF ValidateBegin, ValidateFormat, ValidateLookup, Deny, RaceFault,
         Return, Idle, CallRecords
    <3> QED BY <3>1
  <2> QED BY <1>3, <2>1, <2>2, <2>3, <2>4, <2>5 DEF Reader, CallStep
<1> QED BY <1>1, <1>2, <1>3

(* A count that is about to grow has been checked against its bound.       *)
LEMMA CounterStep == IInv /\ (ControlBegin \/ ControlEnd \/ Reader) => CounterHasRoom'
<1> SUFFICES ASSUME IInv, ControlBegin \/ ControlEnd \/ Reader PROVE CounterHasRoom'
  OBVIOUS
<1>1. CASE ControlBegin
  <2>1. UNCHANGED failed_attempts
    BY <1>1, BeginFrame DEF IInv, handlerVars
  <2>2. control'.op = "record_failure" =>
          \E c \in Clients : BeginRecordFailure(c)
    <3>1. (\E k \in Secrets \cup {NoSecret} : BeginSetTokenSecret(k))
            => control'.op # "record_failure"
      BY DEF BeginSetTokenSecret, Acquire
    <3> QED BY <1>1, <3>1 DEF ControlBegin, BeginConfigure, BeginRegisterToken,
       BeginRevokeToken, BeginResetFailures, Acquire
  <2> QED BY <2>1, <2>2 DEF BeginRecordFailure, Acquire, CounterHasRoom
<1>2. CASE ControlEnd
  BY <1>2 DEF ControlEnd, EndConfigure, EndSetTokenSecret, EndRegisterToken, EndRevokeToken,
     EndRecordFailure, EndResetFailures, Release, Free, CounterHasRoom
<1>3. CASE Reader
  BY <1>3, ReaderType DEF ReadOnly, handlerVars, IInv, CounterHasRoom
<1> QED BY <1>1, <1>2, <1>3

-------------------------------------------------------------------------------
(* The invariant is inductive.                                             *)
LEMMA StepInv == IInv /\ [Next]_authVars => IInv'
<1> SUFFICES ASSUME IInv, [Next]_authVars PROVE IInv'
  OBVIOUS
<1>1. CASE ControlBegin
  BY <1>1, BeginType, BeginDead, SignatureStep, CounterStep DEF IInv
<1>2. CASE ControlEnd
  BY <1>2, EndType, EndDead, SignatureStep, CounterStep DEF IInv
<1>3. CASE Reader
  BY <1>3, ReaderType, ReaderDead, SignatureStep, CounterStep DEF IInv
<1>4. CASE Tick
  BY <1>4, TickInv
<1>5. CASE UNCHANGED authVars
  BY <1>5 DEF IInv, TypeOK, DeadStaysDead, SignatureKnown, CounterHasRoom, IsRevoked,
     IsExpired, ExpiredUnder, VisibleKeys, VisibleSecrets, SecretChanging, authVars, handlerVars, tokenVars
<1> QED BY <1>1, <1>2, <1>3, <1>4, <1>5 DEF Next, Reader, Crashed

THEOREM InvariantHolds == Spec => []IInv
<1> QED BY InitInv, StepInv, PTL DEF Spec

(* Every variable stays in its type: in particular no failure count leaves *)
(* its range and no issue time is recorded for a string nobody presents.   *)
THEOREM TypeCorrect == Spec => []TypeOK
<1>1. IInv => TypeOK
  BY DEF IInv
<1> QED BY <1>1, InvariantHolds, PTL

(* A token dead when its call began is refused, for every set of strings,  *)
(* every configuration and every interleaving with the operators.          *)
THEOREM DeadTokensAreRefused == Spec => []DeadTokenRefused
<1>1. IInv => DeadTokenRefused
  BY DEF IInv, DeadStaysDead, DeadTokenRefused
<1> QED BY <1>1, InvariantHolds, PTL

(* A decoded identity is one that was signed, for that very user part and  *)
(* under a key in force before the signature was checked; a secret, unless *)
(* the secret was being replaced meanwhile.                                *)
THEOREM IdentitiesAreSigned == Spec => []DecodedIdentity
<1>1. IInv => DecodedIdentity
  BY DEF IInv, SignatureKnown, Decoding, DecodedIdentity
<1> QED BY <1>1, InvariantHolds, PTL

(* A lockout ends only by a reset of that client or a new configuration.   *)
THEOREM LockoutsHold == Spec => LockoutHolds
<1> DEFINE Lockout ==
      \A c \in Clients : IsLockedOut(c) /\ ~IsLockedOut(c)' =>
        \/ control = [op |-> "reset_failures", client |-> c]
        \/ control.op = "configure"
<1>1. ASSUME IInv, [Next]_authVars PROVE [Lockout]_authVars
  <2> SUFFICES ASSUME NEW c \in Clients, IsLockedOut(c), ~IsLockedOut(c)'
               PROVE  \/ control = [op |-> "reset_failures", client |-> c]
                      \/ control.op = "configure"
    OBVIOUS
  <2>1. /\ failed_attempts[c] \in Nat /\ config.maxFailed \in Int /\ control \in ControlOps
        /\ failed_attempts \in [Clients -> 0 .. MaxFailures]
    BY <1>1, ConfigsAssumption, BoundsAssumption DEF IInv, TypeOK, ConfigRecords
  <2>2. ~ UNCHANGED <<config, failed_attempts>>
    BY DEF IsLockedOut
  <2>3. CASE EndConfigure
    BY <2>3 DEF EndConfigure
  <2>4. CASE EndRecordFailure
    BY <2>1, <2>4 DEF EndRecordFailure, FailuresAfter, IsLockedOut
  <2>5. CASE EndResetFailures
    <3>1. control.client = c
      BY <2>1, <2>5 DEF EndResetFailures, IsLockedOut
    <3> QED BY <2>1, <2>5, <3>1 DEF EndResetFailures, ControlOps, Free
  <2>6. EndConfigure \/ EndRecordFailure \/ EndResetFailures
    <3>1. Reader \/ Tick \/ ControlBegin \/ Crashed \/ UNCHANGED authVars
            => UNCHANGED <<config, failed_attempts>>
      BY <1>1, ReaderType DEF IInv, ReadOnly, Tick, Crashed, authVars, handlerVars, ControlBegin,
         BeginConfigure, BeginRegisterToken, BeginRevokeToken, BeginSetTokenSecret,
         BeginRecordFailure, BeginResetFailures, Acquire
    <3>2. EndSetTokenSecret \/ EndRegisterToken \/ EndRevokeToken
            => UNCHANGED <<config, failed_attempts>>
      BY DEF EndSetTokenSecret, EndRegisterToken, EndRevokeToken
    <3> QED BY <1>1, <2>2, <3>1, <3>2 DEF Next, Reader, ControlEnd
  <2> QED BY <2>3, <2>4, <2>5, <2>6
<1> QED BY <1>1, InvariantHolds, PTL DEF Spec, LockoutHolds

===============================================================================
