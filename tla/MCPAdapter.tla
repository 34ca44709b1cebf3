------------------------------ MODULE MCPAdapter ------------------------------
(***************************************************************************)
(* The server loop of the toolkit (MCPAdapter): read a line from stdin,    *)
(* parse it, authenticate and authorize the request it holds, handle it    *)
(* and write one line of reply.  The handler of credentials is the module  *)
(* AuthenticationHandler: the dispatch loop makes its calls step by step   *)
(* while operators change the handler from other threads or from tools.    *)
(*                                                                         *)
(* A line is described by what the loop can tell of it; see LineRecords.   *)
(***************************************************************************)
EXTENDS Integers, Sequences, RbacPolicy

CONSTANTS
    UserIds, NoUser, Secrets, NoSecret, TornSecret, NoSignature, Strings,
    ManagedTokens, Empty, Configs, DefaultConfig, Clients, NotRegistered, MaxTime, MaxFailures,
    Ids,                \* request ids
    Null,               \* "id": null
    NoId,               \* the message has no id
    Lines,              \* the input lines considered
    ToolLists,          \* what list_tools() may return: sets of definitions
    PolicyActions,      \* actions that permissions are granted for
    NoPointer,          \* the null User pointer
    MaxLines            \* bound of the number of lines read

VARIABLES
    config, configured, token_secret, revoked_tokens, token_issue_times,
    failed_attempts, control, now, call,   \* the AuthenticationHandler
    auth_enabled, rbac_enabled, policy,
    stage,         \* where the loop is
    line,          \* the line read last
    lines_read,
    user,          \* current_user of dispatch
    argument,      \* the User pointer given to call_tool
    out,           \* the replies written
    guards,        \* history: the protections that were on when line was read
    line_revoked   \* history: see RevokedWhenRead

Auth == INSTANCE AuthenticationHandler

authVars == <<config, configured, token_secret, revoked_tokens,
              token_issue_times, failed_attempts, control, now, call>>
flagVars == <<auth_enabled, rbac_enabled, policy>>
loopVars == <<stage, line, lines_read, user, argument, out, guards, line_revoked>>
vars == <<authVars, flagVars, loopVars>>

-----------------------------------------------------------------------------
(* Lines.  text: "empty", "cr" (a lone carriage return), "malformed" (the  *)
(* parser refuses it) or "message".  Of a message: is_request (it has a    *)
(* method), id, method, auth (what extract_auth_token finds, Empty for     *)
(* nothing), and of its params what handle_tools_call asks: whether there  *)
(* are any, whether they name a tool, and whether the arguments hold a     *)
(* metacharacter, plain or encoded.                                        *)
LineRecords ==
    [text : {"empty", "cr", "malformed", "message"},
     is_request : BOOLEAN, id : Ids \cup {NoId},
     method : {"initialize", "tools/list", "tools/call", "other"},
     auth : Strings, params : BOOLEAN, name : BOOLEAN, metacharacters : BOOLEAN]

BlankLine ==
    [text |-> "empty", is_request |-> FALSE, id |-> NoId, method |-> "other",
     auth |-> Empty, params |-> FALSE, name |-> FALSE, metacharacters |-> FALSE]

(* A tool definition by the sizes and characters that are examined.        *)
ToolParamRecords ==
    [nameLength : Nat, nameControl : BOOLEAN, descriptionLength : Nat,
     type : {"string", "integer", "boolean", "number", "unknown"}]
ToolRecords ==
    [nameLength : Nat, nameControl : BOOLEAN, descriptionLength : Nat,
     paramCount : Nat, params : SUBSET ToolParamRecords]

ASSUME HandlerAssumption ==
    /\ Auth!StringsAssumption
    /\ Auth!ConfigsAssumption
    /\ Auth!SecretsAssumption
    /\ Auth!BoundsAssumption

ASSUME LinesAssumption ==
    /\ Lines \subseteq LineRecords
    /\ Null \notin Ids
    /\ NoId \notin Ids \cup {Null}
    /\ MaxLines \in Nat

(* Clean name: not empty, no control character, at most 256 long.          *)
CleanName(d) == d.nameLength \in 1 .. 256 /\ ~d.nameControl

(* validate_tool_definition.                                               *)
ValidToolDefinition(d) ==
    /\ CleanName(d)
    /\ d.descriptionLength <= 4096
    /\ d.paramCount <= 256
    /\ \A p \in d.params :
         CleanName(p) /\ p.type # "unknown" /\ p.descriptionLength <= 1024

(* Users: id <<TRUE, u>> is "Bearer u", the user part of a text that       *)
(* carries the prefix.                                                     *)
Nobody == [user_id |-> Auth!NoIdentity, authenticated |-> FALSE, role |-> GUEST]
UserRecords ==
    [user_id : BOOLEAN \X (UserIds \cup {NoUser}), authenticated : BOOLEAN, role : Roles]

(* Replies: kind "result", or the reason of an error.                      *)
ReplyRecords ==
    [id : Ids \cup {Null},
     kind : {"result", "parse", "auth", "unauthorized", "params", "method", "tools"}]

(* Where the loop is: at a step of its own, or inside one of the functions *)
(* that the subclass overrides: extract_auth_token, list_tools, call_tool. *)
Callbacks == {"extract", "list", "tool"}
Stages == {"setup", "getline", "parse", "auth", "validate", "decode", "identify",
           "authorize", "handle", "stopped", "failed"} \cup Callbacks
Processing == Stages \ {"setup", "getline", "stopped", "failed"}

Protections == {"auth", "rbac"}

TypeOK ==
    /\ Auth!TypeOK
    /\ auth_enabled \in BOOLEAN
    /\ rbac_enabled \in BOOLEAN
    /\ policy \subseteq Permissions(PolicyActions)
    /\ stage \in Stages
    /\ line \in Lines \cup {BlankLine}
    /\ lines_read \in 0 .. MaxLines
    /\ user \in UserRecords
    /\ argument \in UserRecords \cup {NoPointer}
    /\ out \in Seq(ReplyRecords)
    /\ guards \subseteq Protections
    /\ line_revoked \in BOOLEAN

Init ==
    /\ Auth!Init
    /\ auth_enabled = FALSE
    /\ rbac_enabled = FALSE
    /\ policy = {}
    /\ stage = "setup"
    /\ line = BlankLine
    /\ lines_read = 0
    /\ user = Nobody
    /\ argument = NoPointer
    /\ out = <<>>
    /\ guards = {}
    /\ line_revoked = FALSE

-----------------------------------------------------------------------------
(* Set-up, by the thread that will call run() or, as both functions are    *)
(* public and nothing stops it, later by any other.  configure_auth        *)
(* configures the handler (steps of Auth) and then sets _auth_enabled;     *)
(* rbac() sets _rbac_enabled.                                              *)

Serving == stage \notin {"stopped", "failed"}

EnableAuth ==
    /\ Serving
    /\ configured
    /\ auth_enabled' = TRUE
    /\ UNCHANGED <<authVars, rbac_enabled, policy, loopVars>>

EnableRbac ==
    /\ Serving
    /\ rbac_enabled' = TRUE
    /\ UNCHANGED <<authVars, auth_enabled, policy, loopVars>>

AddPermission(perm) ==
    /\ rbac_enabled /\ Serving
    /\ policy' = policy \cup {perm}
    /\ UNCHANGED <<authVars, auth_enabled, rbac_enabled, loopVars>>

Run ==
    /\ stage = "setup"
    /\ stage' = "getline"
    /\ UNCHANGED <<authVars, flagVars, line, lines_read, user, argument, out, guards, line_revoked>>

(* Operators at work on the handler, and the clock.                        *)
Control ==
    /\ Serving
    /\ Auth!ControlBegin
    /\ line_revoked' = (line_revoked /\ (control'.op = "configure" => Auth!IsRevoked(line.auth)))
    /\ UNCHANGED <<flagVars, stage, line, lines_read, user, argument, out, guards>>

ControlEnd == Serving /\ Auth!ControlEnd /\ UNCHANGED <<flagVars, loopVars>>

Tick == Serving /\ Auth!Tick /\ UNCHANGED <<flagVars, loopVars>>

-----------------------------------------------------------------------------
(* The end of a line's processing: the locals of dispatch are gone.        *)
Finish ==
    /\ stage' = "getline"
    /\ line' = BlankLine
    /\ user' = Nobody
    /\ argument' = NoPointer
    /\ guards' = {}
    /\ line_revoked' = FALSE
    /\ UNCHANGED lines_read

Reply(id, kind) == out' = Append(out, [id |-> id, kind |-> kind]) /\ Finish

(* Faulty variant: the id of the request is not passed on.                 *)
AnswerWithoutId(kind) == Reply(Null, kind)

(* send_error and the replies of the handlers.                             *)
Answer(kind) == Reply(line.id, kind)

Goto(next) ==
    /\ stage' = next
    /\ UNCHANGED <<line, lines_read, argument, out, guards, line_revoked>>

(* The credential of the line, in the form it is presented or in the form  *)
(* the configuration in force would look up, is already revoked.  While a  *)
(* new configuration is being installed only the former counts.            *)
RevokedWhenRead(l) ==
    \/ Auth!IsRevoked(l.auth)
    \/ /\ control.op # "configure"
       /\ Auth!IsRevoked(Auth!Credential(l.auth, config.requireBearer))

Protected == {g \in Protections : IF g = "auth" THEN auth_enabled ELSE rbac_enabled}

(* getline; empty lines are skipped.                                       *)
ReadLine(l) ==
    /\ stage = "getline"
    /\ lines_read < MaxLines
    /\ lines_read' = lines_read + 1
    /\ IF l.text = "empty"
       THEN UNCHANGED <<stage, line, guards, line_revoked>>
       ELSE /\ stage' = "parse"
            /\ line' = l
            /\ guards' = Protected
            /\ line_revoked' = RevokedWhenRead(l)
    /\ UNCHANGED <<authVars, flagVars, user, argument, out>>

EndOfInput ==
    /\ stage = "getline"
    /\ stage' = "stopped"
    /\ UNCHANGED <<authVars, flagVars, line, lines_read, user, argument, out, guards, line_revoked>>

(* A line of a single carriage return is empty only once it is stripped,   *)
(* which happens after the test for empty lines.                           *)
Parses(l) == l.text = "message"

(* Faulty variant: notifications are taken for requests.                   *)
WantsReplyAlways(l) == l.is_request

(* What dispatch does not drop at once: bare responses and notifications.  *)
WantsReply(l) == l.is_request /\ l.id # NoId

(* Parse the line and enter dispatch.                                      *)
ParseLine ==
    /\ stage = "parse"
    /\ \/ ~Parses(line) /\ Reply(Null, "parse")
       \/ Parses(line) /\ ~WantsReply(line) /\ Finish /\ UNCHANGED out
       \/ Parses(line) /\ WantsReply(line) /\ Goto("auth") /\ user' = Nobody
    /\ UNCHANGED <<authVars, flagVars>>

Authenticate ==
    /\ stage = "auth"
    /\ Goto(IF auth_enabled THEN "extract" ELSE "authorize")
    /\ UNCHANGED <<authVars, flagVars, user>>

(* extract_auth_token returns.                                             *)
TokenExtracted ==
    /\ stage = "extract"
    /\ \/ line.auth = Empty /\ Answer("auth") /\ UNCHANGED authVars
       \/ line.auth # Empty /\ Auth!ValidateBegin(line.auth)
                            /\ Goto("validate") /\ UNCHANGED user
    /\ UNCHANGED flagVars

AuthCall ==
    /\ stage \in {"validate", "identify"}
    /\ Auth!CallStep
    /\ UNCHANGED <<flagVars, loopVars>>

AuthFault ==
    /\ stage = "identify"
    /\ Auth!RaceFault
    /\ stage' = "failed"
    /\ UNCHANGED <<flagVars, line, lines_read, user, argument, out, guards, line_revoked>>

Validated ==
    /\ stage = "validate"
    /\ \/ call.pc = "denied" /\ Answer("auth")
       \/ call.pc = "allowed" /\ Goto("decode") /\ UNCHANGED user
    /\ Auth!Return
    /\ UNCHANGED flagVars

Decode ==
    /\ stage = "decode"
    /\ Auth!DecodeBegin(line.auth)
    /\ Goto("identify")
    /\ UNCHANGED <<flagVars, user>>

Identified ==
    /\ stage = "identify"
    /\ \/ call.pc = "undecoded" /\ Answer("auth")
       \/ /\ call.pc = "decoded"
          /\ user' = [user_id |-> Auth!UserPart(line.auth), authenticated |-> TRUE, role |-> USER]
          /\ Goto("authorize")
    /\ Auth!Return
    /\ UNCHANGED flagVars

(* Faulty variant: an empty policy is taken to restrict nothing.           *)
PermittedByEmptyPolicy ==
    rbac_enabled /\ auth_enabled /\ policy # {} => CheckPermission(policy, user, line.method)

(* Both flags are read again here.                                         *)
Permitted ==
    rbac_enabled /\ auth_enabled => CheckPermission(policy, user, line.method)

Authorize ==
    /\ stage = "authorize"
    /\ IF Permitted THEN Goto("handle") /\ UNCHANGED user
                    ELSE Answer("unauthorized")
    /\ UNCHANGED <<authVars, flagVars>>

HandleInitialize ==
    /\ stage = "handle" /\ line.method = "initialize"
    /\ Answer("result")
    /\ UNCHANGED <<authVars, flagVars>>

HandleToolsList ==
    /\ stage = "handle" /\ line.method = "tools/list"
    /\ Goto("list")
    /\ UNCHANGED <<authVars, flagVars, user>>

(* list_tools returns; every definition is validated before any is sent.   *)
ToolsListed ==
    /\ stage = "list"
    /\ \E tools \in ToolLists :
         Answer(IF \A t \in tools : ValidToolDefinition(t) THEN "result" ELSE "tools")
    /\ UNCHANGED <<authVars, flagVars>>

HandleUnknown ==
    /\ stage = "handle" /\ line.method = "other"
    /\ Answer("method")
    /\ UNCHANGED <<authVars, flagVars>>

(* The checks of handle_tools_call before the tool is entered.             *)
CallAccepted(l) == l.params /\ l.name /\ ~l.metacharacters

(* _auth_enabled is read once more for the User pointer.                   *)
UserPointer == IF auth_enabled THEN user ELSE NoPointer

HandleToolsCall ==
    /\ stage = "handle" /\ line.method = "tools/call"
    /\ IF CallAccepted(line)
       THEN /\ stage' = "tool"
            /\ argument' = UserPointer
            /\ UNCHANGED <<line, lines_read, user, out, guards, line_revoked>>
       ELSE Answer("params")
    /\ UNCHANGED <<authVars, flagVars>>

(* call_tool returns, with or without isError.                             *)
ToolReturns ==
    /\ stage = "tool"
    /\ Answer("result")
    /\ UNCHANGED <<authVars, flagVars>>

(* Any of the three throws: nothing above them catches.                    *)
CallbackThrows ==
    /\ stage \in Callbacks
    /\ stage' = "failed"
    /\ UNCHANGED <<authVars, flagVars, line, lines_read, user, argument, out, guards, line_revoked>>

LoopStep ==
    \/ ParseLine \/ Authenticate \/ AuthCall \/ Validated \/ Decode \/ Identified
    \/ Authorize \/ HandleInitialize \/ HandleToolsList \/ HandleUnknown
    \/ HandleToolsCall

-----------------------------------------------------------------------------
(* The process is gone: run() returned or an exception left it.            *)
Ended == ~Serving /\ UNCHANGED vars

Next ==
    \/ EnableAuth \/ EnableRbac
    \/ \E perm \in Permissions(PolicyActions) : AddPermission(perm)
    \/ Run \/ (\E l \in Lines : ReadLine(l)) \/ EndOfInput
    \/ LoopStep \/ AuthFault
    \/ TokenExtracted \/ ToolsListed \/ ToolReturns \/ CallbackThrows
    \/ Control \/ ControlEnd \/ Tick
    \/ Ended

(* The thread in run() proceeds with a line it has read, and a mutator     *)
(* gives the mutex back.  Nothing makes input arrive, a function of the    *)
(* subclass return or an operator act.                                     *)
Fairness == WF_vars(LoopStep) /\ WF_vars(ControlEnd)

Spec == Init /\ [][Next]_vars /\ Fairness

-----------------------------------------------------------------------------
(* The reply the loop owes, and the server as its client sees it.  What is *)
(* no message is owed a reply with a null id, and so is a line of a single *)
(* carriage return.  A request is owed one under its id, if it has one, be *)
(* it -1.                                                                  *)
Due ==
    IF stage \notin Processing THEN NoId
    ELSE IF line.text # "message" THEN Null
    ELSE IF line.is_request THEN line.id
    ELSE NoId

(* The request is in hands that may end the process.                       *)
Lent == stage \in Callbacks \/ (stage = "identify" /\ Auth!Racing)

JsonRpc == INSTANCE JsonRpcServer
           WITH due <- Due, lent <- Lent, replies <- [i \in DOMAIN out |-> out[i].id],
                open <- Serving, Nothing <- NoId

(* The loop keeps the promise of JsonRpcServer: one reply per request, in  *)
(* order, under its id; one null-id reply per line that cannot be parsed;  *)
(* none for bare responses and messages without an id.  It ends at the end *)
(* of the input, or while the subclass has the request or decode_token     *)
(* reads what an operator is changing, and nowhere else.  This is what the *)
(* code does.  README.md:273 says that `"id": -1` is "treated as           *)
(* notification", and mcp_adapter.cpp:70 that the loop strips the carriage *)
(* return of "Windows-style CRLF", but after its test for blank lines: a   *)
(* blank line that ends in CRLF is answered as one that cannot be parsed.  *)
RpcPromise == JsonRpc!Spec

Admitted == {"authorize", "handle", "list", "tool"}

(* A request whose line was read with authentication on gets past it only  *)
(* under a signature made for the very identity it is given, and never     *)
(* with a credential that was revoked before its line was read, in the     *)
(* presented form or in the one looked up: the two calls between reading   *)
(* and admitting leave no gap for operators' changes to undo this.         *)
AdmittedIsAuthentic ==
    "auth" \in guards /\ stage \in Admitted =>
        /\ user.authenticated
        /\ user.user_id = line.auth.sigOf
        /\ user.user_id = Auth!UserPart(line.auth)
        /\ ~line_revoked

(* Whatever is switched on or granted while the request is on its way: a   *)
(* tool entered for a line that was read with authentication on is given   *)
(* the user that was authenticated, and if roles were on too, one whom the *)
(* policy still permits the call when the tool runs.                       *)
ToolIsPermitted ==
    stage = "tool" /\ "auth" \in guards =>
        /\ argument = user
        /\ "rbac" \in guards => CheckPermission(policy, argument, "tools/call")

(* What the comment on call_tool says of its user: the "authenticated user *)
(* [...]; null if auth disabled".                                          *)
ToolUserIsAuthenticated ==
    stage = "tool" => argument = NoPointer \/ argument.authenticated

(* Once operators leave the handler alone, a line that has been read is    *)
(* answered, dropped or in the hands of the subclass.                      *)
EventuallyQuiet == <>[][Auth!MutexFree => Auth!MutexFree']_control
LineHandled ==
    EventuallyQuiet =>
        (stage \in Processing \ Callbacks ~> stage \notin Processing \ Callbacks)

(* A credential in the two forms the header documents: "Bearer <token>",   *)
(* where the token is "user_id.signature" and the signature that of the    *)
(* user_id; good in every other respect, and no operator at work.          *)
DocumentedCredential(s) ==
    LET token == Auth!ExtractBearer(s)
    IN /\ s.bearer
       /\ token.sigOf = Auth!UserPart(token) /\ Auth!Splits(token)
       /\ token.sigKey = token_secret /\ call.keys = {token_secret}
       /\ Auth!MutexFree
       /\ \A f \in {s, token} : ~Auth!IsRevoked(f) /\ ~Auth!IsExpired(f)

(* Such a credential is not refused.                                       *)
DocumentedTokenIsDecoded ==
    stage = "identify" /\ call.pc = "undecoded" => ~DocumentedCredential(line.auth)

=============================================================================
