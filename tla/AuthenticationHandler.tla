------------------------ MODULE AuthenticationHandler ------------------------
(***************************************************************************)
(* The AuthenticationHandler of the toolkit: the object that decides       *)
(* whether the credential presented with a request is acceptable           *)
(* (validate_request) and whom it names (decode_token), and that operators *)
(* change while requests are being served (configure, register_token,      *)
(* revoke_token, set_token_secret, record_failure, reset_failures).        *)
(*                                                                         *)
(* Each mutator runs under mutex_ and is modelled by two steps: one that   *)
(* takes the mutex, one that applies the change and releases it.  The code *)
(* reads config_, configured_, token_secret_ and, from decode_token, the   *)
(* issue times without the mutex: such a read, made while a mutator is     *)
(* between its two steps, sees the old value, the new one or, for the      *)
(* bytes of a string or a hash map, anything the build may produce.        *)
(*                                                                         *)
(* One thread validates and decodes (the dispatch loop of the adapter).    *)
(* Reads change no state of the handler, so a second reader would add no   *)
(* behaviour to the first.  The mutators may be any number of threads:     *)
(* the mutex admits one of them at a time.                                 *)
(***************************************************************************)
EXTENDS Integers, FiniteSets

CONSTANTS
    UserIds,          \* what can stand before the first dot of a token
    NoUser,           \* the empty user id
    Secrets,          \* non-empty HMAC keys
    NoSecret,         \* the empty token_secret_
    TornSecret,       \* the bytes of a token_secret_ that is being replaced
    NoSignature,      \* a string has no dot, or nothing after it
    Strings,          \* the strings presented to the handler
    ManagedTokens,    \* those of them that operators register or revoke
    Empty,            \* the empty string
    Configs,          \* the AuthConfig values operators choose from
    DefaultConfig,    \* the AuthConfig a new handler holds
    Clients,          \* client ids of the failed-attempt counters
    NotRegistered,    \* no issue time is recorded
    MaxTime,          \* bound of the clock
    MaxFailures       \* bound of a failed-attempt counter

PrefixLength == 7     \* "Bearer "

Times == 0 .. MaxTime

(* A string is described by what the handler can tell of it: whether it    *)
(* starts with "Bearer ", what follows up to the first dot (user), for     *)
(* which user part and with which key the text after the dot was signed    *)
(* (NoSecret: with the empty key, which takes no secret), its length, and  *)
(* whether it contains a NUL.                                              *)
StringRecords ==
    [bearer : BOOLEAN, user : UserIds \cup {NoUser},
     sigOf  : BOOLEAN \X (UserIds \cup {NoUser}),
     sigKey : Secrets \cup {NoSecret, TornSecret, NoSignature},
     size   : Nat, nul : BOOLEAN]

ConfigRecords ==
    [minLength : Nat, requireBearer : BOOLEAN, ttl : Nat, maxFailed : Int]

HasBearer(s) == s.bearer /\ s.size > PrefixLength

(* What extract_bearer returns.                                            *)
ExtractBearer(s) ==
    IF HasBearer(s) THEN [s EXCEPT !.bearer = FALSE, !.size = @ - PrefixLength]
                    ELSE Empty

ASSUME StringsAssumption ==
    /\ Strings \subseteq StringRecords
    /\ Empty \in Strings
    /\ ManagedTokens \subseteq Strings
    /\ \A s \in Strings : s.size = 0 <=> s = Empty
    /\ \A s \in Strings : ExtractBearer(s) \in Strings

ASSUME ConfigsAssumption ==
    /\ Configs \subseteq ConfigRecords
    /\ DefaultConfig \in Configs

ASSUME SecretsAssumption ==
    /\ NoSecret \notin Secrets
    /\ TornSecret \notin Secrets \cup {NoSecret}
    /\ NoSignature \notin Secrets \cup {NoSecret, TornSecret}

ASSUME BoundsAssumption ==
    /\ MaxTime \in Nat
    /\ MaxFailures \in Nat
    /\ NotRegistered \notin Nat

VARIABLES
    config, configured, token_secret,
    revoked_tokens,      \* a set of strings
    token_issue_times,   \* string -> time of issue, or NotRegistered
    failed_attempts,     \* client -> count, 0 when the map has no entry
    control,             \* the mutator that holds mutex_, or Free
    now,                 \* steady_clock
    call                 \* the reader's progress, see CallRecords

tokenVars == <<revoked_tokens, token_issue_times>>
handlerVars == <<config, configured, token_secret, tokenVars, failed_attempts>>
authVars == <<handlerVars, control, now, call>>

-----------------------------------------------------------------------------
(* The mutex and the mutators.                                             *)

Free == [op |-> "none"]

ControlOps ==
    {Free} \cup [op : {"configure"}, config : Configs]
           \cup [op : {"set_token_secret"}, secret : Secrets \cup {NoSecret}]
           \cup [op : {"register_token"}, token : ManagedTokens, at : Times]
           \cup [op : {"revoke_token"}, token : ManagedTokens]
           \cup [op : {"record_failure", "reset_failures"}, client : Clients]

MutexFree == control = Free

(* The process has not died of a race.                                     *)
Running == call.pc # "crashed"

(* The reader.  pc names the next thing the call does: "format", "lookup"  *)
(* in validate_request; "verify", "hmac", "is_revoked", "ttl",             *)
(* "is_expired" in decode_token; then the verdict until the caller takes   *)
(* it.  text is the argument, token what is left of it after               *)
(* extract_bearer, seen the secrets an unlocked read may have met since    *)
(* the last test of token_secret_.  Two fields are history: dead says that *)
(* the token looked up was already revoked or expired when the call began  *)
(* and that nobody has started to renew it or to change the configuration  *)
(* since; keys holds the secrets that were in force, or half replaced, at  *)
(* some moment from the start of the call to the check of the signature.   *)
Verdicts == {"allowed", "denied", "decoded", "undecoded"}
Busy == {"format", "lookup", "verify", "hmac", "is_revoked", "ttl", "is_expired"}
Keys == Secrets \cup {NoSecret, TornSecret}

CallRecords ==
    [pc   : {"idle", "crashed"} \cup Busy \cup Verdicts,
     text : Strings, token : Strings, seen : SUBSET Keys,
     dead : BOOLEAN, keys : SUBSET Keys]

Idle == [pc |-> "idle", text |-> Empty, token |-> Empty, seen |-> {},
         dead |-> FALSE, keys |-> {}]

TypeOK ==
    /\ config \in Configs
    /\ configured \in BOOLEAN
    /\ token_secret \in Secrets \cup {NoSecret}
    /\ revoked_tokens \subseteq Strings
    /\ token_issue_times \in [Strings -> Times \cup {NotRegistered}]
    /\ failed_attempts \in [Clients -> 0 .. MaxFailures]
    /\ control \in ControlOps
    /\ now \in Times
    /\ call \in CallRecords

Init ==
    /\ config = DefaultConfig
    /\ configured = FALSE
    /\ token_secret = NoSecret
    /\ revoked_tokens = {}
    /\ token_issue_times = [s \in Strings |-> NotRegistered]
    /\ failed_attempts = [c \in Clients |-> 0]
    /\ control = Free
    /\ now = 0
    /\ call = Idle

IsRevoked(s) == s \in revoked_tokens

ExpiredUnder(s, cfg) ==
    /\ token_issue_times[s] # NotRegistered
    /\ now - token_issue_times[s] > cfg.ttl

IsExpired(s) == ExpiredUnder(s, config)

IsLockedOut(c) ==
    /\ failed_attempts[c] # 0
    /\ failed_attempts[c] >= config.maxFailed

(* What an unlocked read may see.                                          *)
VisibleConfigs ==
    {config} \cup (IF control.op = "configure" THEN {control.config} ELSE {})

VisibleConfigured ==
    {configured} \cup (IF control.op = "configure" THEN {TRUE} ELSE {})

SecretChanging == control.op = "set_token_secret"

(* The length of the secret is the old one or the new one ...              *)
VisibleSecrets ==
    {token_secret} \cup (IF SecretChanging THEN {control.secret} ELSE {})

(* ... and its bytes may be of neither.                                    *)
VisibleKeys ==
    VisibleSecrets \cup (IF SecretChanging THEN {TornSecret} ELSE {})

IssueTimesChanging == control.op \in {"register_token", "revoke_token"}

(* What is_expired answers without the mutex: anything while the map is    *)
(* being changed; otherwise the age against token_ttl as it reads it.      *)
VisibleExpiry(s) ==
    IF IssueTimesChanging THEN BOOLEAN ELSE {ExpiredUnder(s, cfg) : cfg \in VisibleConfigs}

-----------------------------------------------------------------------------
(* Mutators, first step: take the mutex.  The history of the call in       *)
(* progress is brought up to date here, because from here on the reader    *)
(* may see the new value.                                                  *)

Acquire(op) ==
    /\ Running
    /\ MutexFree
    /\ control' = op
    /\ UNCHANGED <<handlerVars, now>>

(* A renewal or a reconfiguration: only revocation stays final.            *)
NoLongerExpired == call' = [call EXCEPT !.dead = @ /\ IsRevoked(call.token)]

BeginConfigure(c) ==
    /\ Acquire([op |-> "configure", config |-> c])
    /\ NoLongerExpired

BeginRegisterToken(s, at) ==
    /\ Acquire([op |-> "register_token", token |-> s, at |-> at])
    /\ NoLongerExpired

BeginRevokeToken(s) == Acquire([op |-> "revoke_token", token |-> s]) /\ UNCHANGED call

BeginSetTokenSecret(k) ==
    /\ Acquire([op |-> "set_token_secret", secret |-> k])
    /\ call' = [call EXCEPT
                   !.seen = IF call.pc = "hmac" THEN @ \cup {k, TornSecret} ELSE @,
                   !.keys = IF call.pc \in {"verify", "hmac"} THEN @ \cup {k, TornSecret}
                                                         ELSE @]

BeginRecordFailure(c) ==
    /\ failed_attempts[c] < MaxFailures
    /\ Acquire([op |-> "record_failure", client |-> c])
    /\ UNCHANGED call

BeginResetFailures(c) == Acquire([op |-> "reset_failures", client |-> c]) /\ UNCHANGED call

(* Mutators, second step: apply the change and release the mutex.          *)

(* Faulty variant: revoke_token returns with the mutex held.               *)
ReleaseNotRevoke ==
    Running /\ control' = IF control.op = "revoke_token" THEN control ELSE Free

Release == Running /\ control' = Free

EndConfigure ==
    /\ control.op = "configure"
    /\ config' = control.config
    /\ configured' = TRUE
    /\ Release
    /\ UNCHANGED <<token_secret, tokenVars, failed_attempts, now, call>>

(* Faulty variant: the end of the lifetime is stored, not the beginning.   *)
EndRegisterDeadline ==
    /\ control.op = "register_token"
    /\ token_issue_times' = [token_issue_times EXCEPT ![control.token] = control.at + config.ttl]
    /\ Release
    /\ UNCHANGED <<config, configured, token_secret, revoked_tokens, failed_attempts, now, call>>

EndRegisterToken ==
    /\ control.op = "register_token"
    /\ token_issue_times' = [token_issue_times EXCEPT ![control.token] = control.at]
    /\ Release
    /\ UNCHANGED <<config, configured, token_secret, revoked_tokens, failed_attempts, now, call>>

EndRevokeToken ==
    /\ control.op = "revoke_token"
    /\ revoked_tokens' = revoked_tokens \cup {control.token}
    /\ token_issue_times' = [token_issue_times EXCEPT ![control.token] = NotRegistered]
    /\ Release
    /\ UNCHANGED <<config, configured, token_secret, failed_attempts, now, call>>

EndSetTokenSecret ==
    /\ control.op = "set_token_secret"
    /\ token_secret' = control.secret
    /\ Release
    /\ UNCHANGED <<config, configured, tokenVars, failed_attempts, now, call>>

(* Faulty variant: the count starts over once the limit is reached.        *)
FailuresStartOver(c) ==
    IF IsLockedOut(c) THEN 0 ELSE failed_attempts[c] + 1

FailuresAfter(c) == failed_attempts[c] + 1

EndRecordFailure ==
    /\ control.op = "record_failure"
    /\ failed_attempts' = [failed_attempts EXCEPT ![control.client]
                                = FailuresAfter(control.client)]
    /\ Release
    /\ UNCHANGED <<config, configured, token_secret, tokenVars, now, call>>

EndResetFailures ==
    /\ control.op = "reset_failures"
    /\ failed_attempts' = [failed_attempts EXCEPT ![control.client] = 0]
    /\ Release
    /\ UNCHANGED <<config, configured, token_secret, tokenVars, now, call>>

ControlEnd ==
    \/ EndConfigure \/ EndSetTokenSecret
    \/ EndRegisterToken \/ EndRevokeToken
    \/ EndRecordFailure \/ EndResetFailures

-----------------------------------------------------------------------------
(* validate_request.                                                       *)

(* A step of the reader changes nothing of the handler.                    *)
ReadOnly == UNCHANGED <<handlerVars, control, now>>

Deny == call' = [call EXCEPT !.pc = "denied"]

(* Dead at the start of a call: refused unless an operator intervenes.  An *)
(* operator who has already taken the mutex may still do so.               *)
DeadNow(s) ==
    \/ IsRevoked(s)
    \/ /\ control.op \notin {"configure", "register_token"}
       /\ config.ttl > 0
       /\ IsExpired(s)

(* The part of the text that is looked up, Empty when it has to be refused.*)
Credential(text, requireBearer) ==
    IF requireBearer THEN ExtractBearer(text) ELSE text

(* configured_, the empty text and require_bearer_prefix.                  *)
ValidateBegin(text) ==
    /\ call.pc = "idle"
    /\ \E known \in VisibleConfigured, cfg \in VisibleConfigs :
         LET token == Credential(text, cfg.requireBearer)
         IN call' = [pc    |-> IF known /\ token # Empty THEN "format" ELSE "denied",
                     text  |-> text, token |-> token, seen |-> {},
                     dead  |-> DeadNow(token), keys |-> {}]
    /\ ReadOnly

WellFormed(s, minLength) == s.size >= minLength /\ ~s.nul

(* validate_format.                                                        *)
ValidateFormat ==
    /\ call.pc = "format"
    /\ \E cfg \in VisibleConfigs :
         IF WellFormed(call.token, cfg.minLength)
         THEN call' = [call EXCEPT !.pc = "lookup"]
         ELSE Deny
    /\ ReadOnly

(* Faulty variant: an issue time makes a token good again.                 *)
AcceptableReissued(s) ==
    /\ IsRevoked(s) => token_issue_times[s] # NotRegistered
    /\ ~(config.ttl > 0 /\ IsExpired(s))

(* What validate_request still asks, under the mutex.                      *)
Acceptable(s) ==
    /\ ~IsRevoked(s)
    /\ ~(config.ttl > 0 /\ IsExpired(s))

ValidateLookup ==
    /\ call.pc = "lookup"
    /\ MutexFree
    /\ IF Acceptable(call.token)
       THEN call' = [call EXCEPT !.pc = "allowed"]
       ELSE Deny
    /\ ReadOnly

-----------------------------------------------------------------------------
(* decode_token.  It works on the whole text, a leading "Bearer "          *)
(* included: that prefix is then part of what stands before the dot.       *)

UserPart(s) == <<s.bearer, s.user>>
NoIdentity == <<FALSE, NoUser>>

Undecoded == call' = [call EXCEPT !.pc = "undecoded"]

(* There is a dot, and text on both sides of it.                           *)
Splits(s) == s.sigKey # NoSignature /\ UserPart(s) # NoIdentity

(* The guards before the signature; token_secret_ is tested here, again    *)
(* before the HMAC, and read for it.                                       *)
DecodeBegin(text) ==
    /\ call.pc = "idle"
    /\ \E key \in VisibleSecrets :
         call' = [pc    |-> IF key # NoSecret /\ text # Empty /\ Splits(text)
                            THEN "verify" ELSE "undecoded",
                  text  |-> text, token |-> text, seen |-> {},
                  dead  |-> IsRevoked(text),
                  keys  |-> VisibleKeys]
    /\ ReadOnly

(* compute_token_signature: the test of token_secret_.                     *)
DecodeVerify ==
    /\ call.pc = "verify"
    /\ \E key \in VisibleSecrets :
         IF key # NoSecret
         THEN call' = [call EXCEPT !.pc = "hmac", !.seen = VisibleKeys]
         ELSE Undecoded
    /\ ReadOnly

(* Faulty variant: a signature that was good under any key will do.        *)
VerifySignatureAnyKey(s, key) == s.sigOf = UserPart(s)

(* verify_token_signature, once the HMAC is computed under the key.        *)
VerifySignature(s, key) == s.sigKey = key /\ s.sigOf = UserPart(s)

(* The arguments of HMAC: data() and size() of token_secret_, then the     *)
(* bytes themselves.  Each of these reads happens at some moment since the *)
(* test, so the key is one that was to be seen since then: the empty one   *)
(* too, where size() came after set_token_secret("").                      *)
DecodeHmac ==
    /\ call.pc = "hmac"
    /\ \E key \in call.seen :
         call' = [call EXCEPT !.pc = IF VerifySignature(call.text, key)
                                     THEN "is_revoked" ELSE "undecoded",
                              !.seen = {}]
    /\ ReadOnly

(* is_revoked takes the mutex.                                             *)
DecodeRevoked ==
    /\ call.pc = "is_revoked"
    /\ MutexFree
    /\ IF IsRevoked(call.text)
       THEN Undecoded
       ELSE call' = [call EXCEPT !.pc = "ttl"]
    /\ ReadOnly

(* token_ttl > 0, read without the mutex.                                  *)
DecodeTtl ==
    /\ call.pc = "ttl"
    /\ \E cfg \in VisibleConfigs :
         call' = [call EXCEPT !.pc = IF cfg.ttl > 0 THEN "is_expired" ELSE "decoded"]
    /\ ReadOnly

(* is_expired, which takes no mutex either.                                *)
DecodeExpired ==
    /\ call.pc = "is_expired"
    /\ \E expired \in VisibleExpiry(call.text) :
         call' = [call EXCEPT !.pc = IF expired THEN "undecoded" ELSE "decoded"]
    /\ ReadOnly

(* A read of a string or a hash map that is being changed may also fault:  *)
(* the bytes behind data() may be freed while the HMAC is computed.        *)
Racing ==
    \/ call.pc = "is_expired" /\ IssueTimesChanging
    \/ call.pc = "hmac" /\ TornSecret \in call.seen

RaceFault ==
    /\ Racing
    /\ call' = [call EXCEPT !.pc = "crashed"]
    /\ ReadOnly

(* The caller takes the verdict.                                           *)
Return ==
    /\ call.pc \in Verdicts
    /\ call' = Idle
    /\ ReadOnly

CallStep ==
    \/ ValidateFormat \/ ValidateLookup
    \/ DecodeVerify \/ DecodeHmac \/ DecodeRevoked \/ DecodeTtl \/ DecodeExpired

Tick ==
    /\ Running
    /\ now < MaxTime
    /\ now' = now + 1
    /\ UNCHANGED <<handlerVars, control, call>>

-----------------------------------------------------------------------------
ControlBegin ==
    \/ \E c \in Configs : BeginConfigure(c)
    \/ \E s \in ManagedTokens, at \in Times : BeginRegisterToken(s, at)
    \/ \E s \in ManagedTokens : BeginRevokeToken(s)
    \/ \E k \in Secrets \cup {NoSecret} : BeginSetTokenSecret(k)
    \/ \E c \in Clients : BeginRecordFailure(c) \/ BeginResetFailures(c)

Crashed == ~Running /\ UNCHANGED authVars

Next ==
    \/ \E text \in Strings : ValidateBegin(text) \/ DecodeBegin(text)
    \/ CallStep \/ RaceFault \/ Return
    \/ ControlBegin \/ ControlEnd \/ Tick
    \/ Crashed

(* The thread that validates keeps running, and a mutator that holds the   *)
(* mutex releases it: neither waits for anything else.                     *)
Fairness == WF_authVars(CallStep) /\ WF_authVars(ControlEnd)

Spec == Init /\ [][Next]_authVars /\ Fairness

-----------------------------------------------------------------------------
(* A token that was already revoked, or already expired, when              *)
(* validate_request was called is refused, whatever operators do while the *)
(* call runs, short of registering a token again or changing the           *)
(* configuration; and a revoked one is refused even then.  A token revoked *)
(* before decode_token was called names nobody.                            *)
DeadTokenRefused == call.pc \in {"allowed", "decoded"} => ~call.dead

(* decode_token names a user only on a signature made for exactly that     *)
(* user, with a key that was in force at some moment of the call before    *)
(* the signature was checked; and, unless the secret was being replaced    *)
(* then, with one that is a secret.  The reads of token_secret_ may differ,*)
(* so the key of the HMAC need not be the secret the call was entered with.*)
DecodedIdentity ==
    call.pc = "decoded" =>
        /\ call.text.sigOf = UserPart(call.text)
        /\ UserPart(call.text) # NoIdentity
        /\ call.text.sigKey \in call.keys
        /\ call.text.sigKey \in Secrets \/ TornSecret \in call.keys


(* A client that is locked out stays so until its failures are reset or    *)
(* the limit is configured anew: record_failure never unlocks it.          *)
LockoutHolds ==
    [][\A c \in Clients : IsLockedOut(c) /\ ~IsLockedOut(c)' =>
         \/ control = [op |-> "reset_failures", client |-> c]
         \/ control.op = "configure"]_authVars

(* Operators eventually leave the handler alone: a std::mutex gives no     *)
(* thread a turn that others keep taking from it.                          *)
EventuallyQuiet == <>[][MutexFree => MutexFree']_control

(* Then a call in progress reaches its verdict: no operator is left        *)
(* holding the mutex.                                                      *)
CallsFinish == EventuallyQuiet => (call.pc \in Busy ~> call.pc \notin Busy)

(* What the comment in is_expired asks: "Caller must hold mutex_".  The    *)
(* lookup never runs while the issue times are being changed.              *)
IssueTimesReadUnderMutex == call.pc = "is_expired" => ~IssueTimesChanging

=============================================================================
