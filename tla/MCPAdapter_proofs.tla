-------------------------- MODULE MCPAdapter_proofs --------------------------
(***************************************************************************)
(* Proofs about the loop of MCPAdapter, for every set of lines, tokens and *)
(* configurations: it implements JsonRpcServer and, for the protections    *)
(* that were on when the line was read, runs no tool that the policy does  *)
(* not permit and admits no forged or revoked credential.                  *)
(***************************************************************************)
EXTENDS MCPAdapter, TLAPS

(* Where dispatch has decided to answer the request of the line.           *)
Dispatched == Processing \ {"parse"}

(* What the loop knows of its line, whatever the handler does.             *)
LoopInv ==
    /\ stage \in Stages
    /\ line \in Lines \cup {BlankLine}
    /\ out \in Seq(ReplyRecords)
    /\ stage \in Dispatched => Parses(line) /\ WantsReply(line)

(* The steps of the system by what they do to the loop.                    *)
Elsewhere == UNCHANGED <<stage, line, out>>
Start == stage = "setup" /\ stage' = "getline" /\ UNCHANGED <<line, out>>
Read == stage = "getline" /\ stage' = "parse" /\ line' \in Lines /\ UNCHANGED out
Stop == stage = "getline" /\ stage' = "stopped" /\ UNCHANGED <<line, out>>
Advance ==
    /\ stage \in Processing /\ Parses(line) /\ WantsReply(line)
    /\ stage' \in Dispatched /\ UNCHANGED <<line, out>>
Ignore ==
    /\ stage = "parse" /\ Parses(line) /\ ~WantsReply(line)
    /\ Finish /\ UNCHANGED out
Refuse == stage = "parse" /\ ~Parses(line) /\ Reply(Null, "parse")
ReplyKinds == {"result", "parse", "auth", "unauthorized", "params", "method", "tools"}
Respond == stage \in Dispatched /\ \E kind \in ReplyKinds : Reply(line.id, kind)
Break == stage \in Dispatched /\ Lent /\ stage' = "failed" /\ UNCHANGED <<line, out>>

(* The ids of the replies.                                                 *)
ReplyIds == [i \in DOMAIN out |-> out[i].id]

-------------------------------------------------------------------------------
LEMMA BlankLineFacts == BlankLine.text = "empty" /\ ~Parses(BlankLine)
BY DEF BlankLine, Parses

LEMMA LineId ==
    ASSUME LoopInv, stage \in Dispatched
    PROVE  line.id \in Ids
BY LinesAssumption, BlankLineFacts DEF LoopInv, LineRecords, WantsReply

(* An answered line adds one reply, under the id given, and frees the loop.*)
LEMMA ReplyAppends ==
    ASSUME LoopInv, NEW id \in Ids \cup {Null}, NEW kind \in ReplyKinds, Reply(id, kind)
    PROVE  /\ out' \in Seq(ReplyRecords)
           /\ ReplyIds' = Append(ReplyIds, id)
           /\ stage' = "getline" /\ line' = BlankLine
<1>1. out' = Append(out, [id |-> id, kind |-> kind]) /\ out \in Seq(ReplyRecords)
  BY DEF Reply, LoopInv
<1>2. [id |-> id, kind |-> kind] \in ReplyRecords
  BY DEF ReplyRecords, ReplyKinds
<1>3. stage' = "getline" /\ line' = BlankLine
  BY DEF Reply, Finish
<1>4. ReplyIds' = Append(ReplyIds, id)
  BY <1>1, <1>2 DEF ReplyIds
<1> QED BY <1>1, <1>2, <1>3, <1>4

(* A step within dispatch goes on to a later stage or answers.             *)
LEMMA DispatchSteps ==
    ASSUME LoopInv, LoopStep PROVE Elsewhere \/ Advance \/ Ignore \/ Refuse \/ Respond
<1> USE DEF LoopInv, Goto, Answer
<1>1. CASE ParseLine
  BY <1>1 DEF ParseLine, Refuse, Ignore, Advance, Dispatched, Processing, Stages
<1>2. CASE Authenticate
  BY <1>2 DEF Authenticate, Advance, Dispatched, Processing, Stages, Callbacks
<1>3. CASE AuthCall
  BY <1>3 DEF AuthCall, loopVars, Elsewhere
<1>4. CASE Validated
  BY <1>4 DEF Validated, Respond, ReplyKinds, Advance, Dispatched, Processing, Stages
<1>5. CASE Decode
  BY <1>5 DEF Decode, Advance, Dispatched, Processing, Stages
<1>6. CASE Identified
  BY <1>6 DEF Identified, Respond, ReplyKinds, Advance, Dispatched, Processing, Stages
<1>7. CASE Authorize
  BY <1>7 DEF Authorize, Respond, ReplyKinds, Advance, Dispatched, Processing, Stages
<1>8. CASE HandleInitialize \/ HandleUnknown
  BY <1>8 DEF HandleInitialize, HandleUnknown, Respond, ReplyKinds,
     Dispatched, Processing, Stages
<1>10. CASE HandleToolsList
  BY <1>10 DEF HandleToolsList, Advance, Dispatched, Processing, Stages, Callbacks
<1>9. CASE HandleToolsCall
  BY <1>9 DEF HandleToolsCall, Respond, ReplyKinds, Advance, Dispatched, Processing, Stages,
     Callbacks
<1> QED
  BY <1>1, <1>2, <1>3, <1>4, <1>5, <1>6, <1>7, <1>8, <1>9, <1>10 DEF LoopStep

(* Every step of the system, as the loop sees it.                          *)
LEMMA StepKinds ==
    ASSUME LoopInv, [Next]_vars
    PROVE  \/ Elsewhere \/ Start \/ Read \/ Stop \/ Advance
           \/ Ignore \/ Refuse \/ Respond \/ Break
<1>1. CASE LoopStep
  BY <1>1, DispatchSteps
<1>2. CASE Run
  BY <1>2 DEF Run, Start
<1>3. CASE \E l \in Lines : ReadLine(l)
  BY <1>3 DEF ReadLine, Read, Elsewhere
<1>4. CASE EndOfInput
  BY <1>4 DEF EndOfInput, Stop
<1>5. CASE AuthFault \/ CallbackThrows
  BY <1>5 DEF AuthFault, CallbackThrows, Auth!RaceFault, Break, Lent, Dispatched, Processing,
     Stages, Callbacks
<1>6. CASE TokenExtracted
  BY <1>6 DEF TokenExtracted, Answer, Goto, Respond, ReplyKinds, Advance, LoopInv, Dispatched,
     Processing, Stages, Callbacks
<1>8. CASE ToolsListed \/ ToolReturns
  BY <1>8 DEF ToolsListed, ToolReturns, Answer, Respond, ReplyKinds, Dispatched, Processing,
     Stages, Callbacks
<1>7. CASE \/ EnableAuth \/ EnableRbac \/ Control \/ ControlEnd \/ Tick \/ Ended
           \/ \E perm \in Permissions(PolicyActions) : AddPermission(perm)
           \/ UNCHANGED vars
  BY <1>7 DEF EnableAuth, EnableRbac, Control, ControlEnd, Tick, Ended, AddPermission,
     vars, loopVars, Elsewhere
<1> QED BY <1>1, <1>2, <1>3, <1>4, <1>5, <1>6, <1>7, <1>8 DEF Next

LEMMA LoopInvInit == Init => LoopInv
BY DEF Init, LoopInv, Stages, Callbacks, Dispatched, Processing

LEMMA LoopInvStep == LoopInv /\ [Next]_vars => LoopInv'
<1> SUFFICES ASSUME LoopInv, [Next]_vars PROVE LoopInv'
  OBVIOUS
<1> USE DEF LoopInv, Parses, WantsReply
<1>0. {"getline", "parse", "stopped", "failed"} \subseteq Stages
      /\ Dispatched \subseteq Stages
      /\ {"getline", "parse", "stopped", "failed"} \cap Dispatched = {}
  BY DEF Stages, Callbacks, Dispatched, Processing
<1>1. CASE Elsewhere
  BY <1>1 DEF Elsewhere
<1>2. CASE Start \/ Read \/ Stop \/ Break
  BY <1>0, <1>2 DEF Start, Read, Stop, Break
<1>3. CASE Advance
  BY <1>0, <1>3 DEF Advance
<1>4. CASE Ignore
  BY <1>0, <1>4 DEF Ignore, Finish
<1>5. CASE Refuse
  BY <1>0, <1>5, ReplyAppends DEF Refuse, ReplyKinds
<1>6. CASE Respond
  BY <1>0, <1>6, LineId, ReplyAppends DEF Respond
<1> QED BY <1>1, <1>2, <1>3, <1>4, <1>5, <1>6, StepKinds

(* What the client's view of the loop is, stage by stage.                  *)
LEMMA ViewOfStages ==
    ASSUME LoopInv
    PROVE  /\ Lent \in BOOLEAN
           /\ stage \in {"setup", "getline"} => Due = NoId /\ Serving
           /\ stage \in {"stopped", "failed"} => Due = NoId /\ ~Serving
           /\ stage \in Processing => Serving
           /\ stage \notin Dispatched => ~Lent
           /\ stage \in Dispatched => Due = line.id
           /\ stage = "parse" /\ ~Parses(line) => Due = Null
           /\ stage = "parse" /\ Parses(line) /\ ~WantsReply(line) => Due = NoId
           /\ stage = "parse" /\ Parses(line) /\ WantsReply(line) => Due = line.id
BY DEF LoopInv, Due, Parses, WantsReply, Lent, Auth!Racing, Serving, Dispatched, Processing, Stages, Callbacks

(* Where what is owed stays what it is, the request is lent, taken back or *)
(* left where it is.                                                       *)
LEMMA OnlyLends ==
    ASSUME LoopInv, LoopInv', UNCHANGED <<Due, ReplyIds, Serving>>, Lent' = Lent \/ Due \in Ids,
           Serving
    PROVE  JsonRpc!Next \/ UNCHANGED <<Due, Lent, ReplyIds, Serving>>
BY ViewOfStages DEF JsonRpc!Next, JsonRpc!Lend, ReplyIds, Lent

(* Every step of the loop is a step of JsonRpcServer or changes nothing    *)
(* the client can see.                                                     *)
LEMMA StepRefines ==
    LoopInv /\ [Next]_vars => [JsonRpc!Next]_(JsonRpc!rpcVars)
<1> SUFFICES ASSUME LoopInv, [Next]_vars
             PROVE  JsonRpc!Next \/ UNCHANGED <<Due, Lent, ReplyIds, Serving>>
  BY DEF JsonRpc!rpcVars, ReplyIds
<1>0. LoopInv'
  BY LoopInvStep
<1>a. NoId \notin Ids \cup {Null} /\ Null \notin Ids
  BY LinesAssumption
<1>1. CASE Elsewhere
  <2>1. UNCHANGED <<Due, ReplyIds, Serving, stage>>
    BY <1>1 DEF Elsewhere, Due, ReplyIds, Serving
  <2>2. CASE stage \in Dispatched
    BY <1>0, <2>1, <2>2, LineId, ViewOfStages, OnlyLends DEF Dispatched
  <2>3. CASE stage \notin Dispatched
    <3>1. ~Lent /\ ~Lent'
      BY <2>1, <2>3 DEF Lent, LoopInv, Dispatched, Processing, Stages, Callbacks
    <3>2. Lent' = Lent
      BY <3>1 DEF Lent, Auth!Racing
    <3> QED BY <2>1, <3>2
  <2> QED BY <2>2, <2>3
<1>2. CASE Start
  BY <1>0, <1>2, ViewOfStages DEF Start, Due, ReplyIds, Serving, Lent, Callbacks, Processing, Stages
<1>3. CASE Read
  <2>1. Due = NoId /\ Serving /\ Serving' /\ ReplyIds' = ReplyIds
    BY <1>3, ViewOfStages DEF Read, ReplyIds, Serving
  <2>2. Due' \in Ids \cup {Null, NoId} /\ Lent' = Lent
    BY <1>3, LinesAssumption DEF Read, Due, Lent, Callbacks, LineRecords, WantsReply, Parses
  <2> QED BY <2>1, <2>2 DEF JsonRpc!Next, JsonRpc!Receive, ReplyIds
<1>4. CASE Stop
  <2>1. Due = NoId /\ Due' = NoId /\ Serving /\ Serving' = FALSE /\ ReplyIds' = ReplyIds
    BY <1>4 DEF Stop, Due, ReplyIds, Serving, Processing, Stages
  <2>2. Lent' = Lent
    BY <1>4 DEF Stop, Lent, Callbacks
  <2> QED BY <2>1, <2>2 DEF JsonRpc!Next, JsonRpc!EndOfInput, ReplyIds
<1>5. CASE Advance
  <2>1. UNCHANGED <<Due, ReplyIds, Serving>>
    BY <1>5 DEF Advance, Parses, Due, ReplyIds, Serving, Dispatched, Processing, Stages, Callbacks
  <2>2. Due = line.id /\ Serving
    BY <1>5, ViewOfStages DEF Advance, Dispatched
  <2>3. line.id \in Ids
    BY <1>5, LinesAssumption, BlankLineFacts DEF Advance, LoopInv, LineRecords, WantsReply
  <2> QED BY <1>0, <2>1, <2>2, <2>3, OnlyLends
<1>6. CASE Ignore
  BY <1>6 DEF Ignore, Parses, WantsReply, Finish, Due, ReplyIds, Serving, Lent, Callbacks, Processing, Stages
<1>7. CASE Refuse
  <2>1. Due = Null /\ Serving
    BY <1>7, ViewOfStages DEF Refuse, Serving
  <2>2. ReplyIds' = Append(ReplyIds, Null) /\ stage' = "getline"
    BY <1>7, ReplyAppends DEF Refuse, ReplyKinds
  <2>3. Due' = NoId /\ Serving' /\ Lent' = FALSE
    BY <2>2 DEF Due, Serving, Lent, Callbacks, Processing, Stages
  <2> QED BY <1>a, <2>1, <2>2, <2>3 DEF JsonRpc!Next, JsonRpc!Reply, ReplyIds
<1>8. CASE Respond
  <2>1. Due = line.id /\ line.id \in Ids /\ Serving
    BY <1>8, ViewOfStages, LineId DEF Respond, Dispatched
  <2>2. ReplyIds' = Append(ReplyIds, line.id) /\ stage' = "getline"
    BY <1>8, <2>1, ReplyAppends DEF Respond
  <2>3. Due' = NoId /\ Serving' /\ Lent' = FALSE
    BY <2>2 DEF Due, Serving, Lent, Callbacks, Processing, Stages
  <2> QED BY <1>a, <2>1, <2>2, <2>3 DEF JsonRpc!Next, JsonRpc!Reply, ReplyIds
<1>9. CASE Break
  <2>1. Due = line.id /\ line.id \in Ids /\ Serving /\ Lent
    BY <1>9, ViewOfStages, LineId DEF Break, Dispatched
  <2>2. Due' = NoId /\ Serving' = FALSE /\ ReplyIds' = ReplyIds /\ Lent' = FALSE
    BY <1>9 DEF Break, Due, Serving, Lent, Callbacks, Processing, Stages, ReplyIds
  <2> QED BY <2>1, <2>2 DEF JsonRpc!Next, JsonRpc!Fail, ReplyIds
<1> QED BY <1>1, <1>2, <1>3, <1>4, <1>5, <1>6, <1>7, <1>8, <1>9, StepKinds

LEMMA InitRefines == Init => JsonRpc!Init
BY DEF Init, JsonRpc!Init, Due, Serving, Lent, Processing, Stages, Callbacks

(* The loop implements JsonRpcServer: the client gets exactly the replies  *)
(* it is owed, in order and under their ids, whatever the lines are, with  *)
(* authentication and roles or without, early or late configuration, and   *)
(* whatever the operators do; and it fails only with a request that the    *)
(* subclass has, or in a racing read of decode_token.                      *)
THEOREM LoopKeepsRpcPromise == Spec => RpcPromise
<1>1. Init => JsonRpc!Init /\ LoopInv
  BY InitRefines, LoopInvInit
<1>2. LoopInv /\ [Next]_vars => LoopInv' /\ [JsonRpc!Next]_(JsonRpc!rpcVars)
  BY LoopInvStep, StepRefines
<1> QED BY <1>1, <1>2, PTL DEF Spec, RpcPromise, JsonRpc!Spec

-------------------------------------------------------------------------------
(* A protection that was on when the line was read stays on.               *)
GuardsStand ==
    /\ "auth" \in guards => auth_enabled
    /\ "rbac" \in guards => rbac_enabled

LEMMA GuardsStandStep == GuardsStand /\ [Next]_vars => GuardsStand'
<1> SUFFICES ASSUME GuardsStand, [Next]_vars PROVE GuardsStand'
  OBVIOUS
<1> USE DEF GuardsStand
<1>1. CASE \/ EnableAuth \/ EnableRbac
           \/ \E perm \in Permissions(PolicyActions) : AddPermission(perm)
           \/ Control \/ ControlEnd \/ Tick \/ Ended \/ UNCHANGED vars \/ AuthCall
  BY <1>1 DEF EnableAuth, EnableRbac, AddPermission, Control, ControlEnd, Tick, Ended, vars,
     AuthCall, flagVars, loopVars
<1>2. CASE \E l \in Lines : ReadLine(l)
  BY <1>2 DEF ReadLine, Protected, Protections, flagVars
<1>3. CASE Run \/ EndOfInput \/ AuthFault \/ CallbackThrows
  BY <1>3 DEF Run, EndOfInput, AuthFault, CallbackThrows, flagVars
<1>4. CASE \/ ParseLine \/ Authenticate \/ Validated \/ Decode \/ Identified \/ Authorize
           \/ HandleInitialize \/ HandleToolsList \/ HandleUnknown \/ HandleToolsCall
           \/ TokenExtracted \/ ToolsListed \/ ToolReturns
  BY <1>4 DEF ParseLine, Authenticate, Validated, Decode, Identified, Authorize,
     HandleInitialize, HandleToolsList, HandleUnknown, HandleToolsCall, TokenExtracted,
     ToolsListed, ToolReturns, Answer, Reply, Finish, Goto, flagVars
<1> QED BY <1>1, <1>2, <1>3, <1>4 DEF Next, LoopStep

(* Nothing between the role check and the tool takes a permission away: a  *)
(* policy only grows, and the user that is handed on is the one that was   *)
(* checked.                                                                *)
PermittedInv ==
    /\ GuardsStand
    /\ stage \in {"handle", "list", "tool"} /\ Protections \subseteq guards =>
         CheckPermission(policy, user, line.method)
    /\ stage = "tool" => line.method = "tools/call" /\ ("auth" \in guards => argument = user)

LEMMA PermissionsStay ==
    ASSUME CheckPermission(policy, user, line.method), UNCHANGED <<user, line>>,
           policy \subseteq policy'
    PROVE  CheckPermission(policy, user, line.method)'
BY DEF CheckPermission, HasSufficientRole

LEMMA PermittedInvStep == PermittedInv /\ [Next]_vars => PermittedInv'
<1> SUFFICES ASSUME PermittedInv, [Next]_vars PROVE PermittedInv'
  OBVIOUS
<1> USE GuardsStandStep DEF PermittedInv
<1>1. ASSUME UNCHANGED <<user, line, guards>>, policy \subseteq policy',
             stage' \in {"handle", "list", "tool"} => stage \in {"handle", "list", "tool"}
      PROVE  stage' \in {"handle", "list", "tool"} /\ Protections \subseteq guards' =>
               CheckPermission(policy, user, line.method)'
  BY <1>1, PermissionsStay
<1>2. CASE \/ EnableAuth \/ EnableRbac
           \/ \E perm \in Permissions(PolicyActions) : AddPermission(perm)
           \/ Control \/ ControlEnd \/ Tick \/ Ended \/ UNCHANGED vars \/ AuthCall
  <2>1. UNCHANGED <<user, line, stage, guards, argument>> /\ policy \subseteq policy'
    BY <1>2 DEF EnableAuth, EnableRbac, AddPermission, Control, ControlEnd, Tick, Ended, AuthCall,
       vars, flagVars, loopVars
  <2> QED BY <1>1, <2>1
<1>3. CASE \/ Run \/ (\E l \in Lines : ReadLine(l)) \/ EndOfInput \/ AuthFault \/ CallbackThrows
           \/ ParseLine \/ Authenticate \/ Validated \/ Decode \/ Identified
           \/ HandleInitialize \/ HandleUnknown \/ TokenExtracted \/ ToolsListed \/ ToolReturns
  <2>1. stage' \notin {"handle", "list", "tool"}
    BY <1>3 DEF Run, ReadLine, EndOfInput, AuthFault, CallbackThrows, ParseLine, Authenticate,
       Validated, Decode, Identified, HandleInitialize, HandleUnknown, TokenExtracted,
       ToolsListed, ToolReturns, Answer, Reply, Finish, Goto
  <2> QED BY <2>1
<1>4. CASE Authorize
  <2>1. CASE Permitted /\ Goto("handle") /\ UNCHANGED user
    <3>1. UNCHANGED <<policy, user, line, guards>> /\ stage' = "handle"
      BY <1>4, <2>1 DEF Authorize, Goto, flagVars
    <3>2. Protections \subseteq guards => CheckPermission(policy, user, line.method)
      BY <2>1 DEF Permitted, GuardsStand, Protections
    <3> QED
      BY <3>1, <3>2, PermissionsStay
  <2>2. CASE Answer("unauthorized")
    BY <2>2 DEF Answer, Reply, Finish
  <2> QED
    BY <1>4, <2>1, <2>2 DEF Authorize
<1>5. CASE HandleToolsList
  <2>1. UNCHANGED <<policy, user, line, guards>> /\ stage = "handle" /\ stage' = "list"
    BY <1>5 DEF HandleToolsList, Goto, flagVars
  <2> QED BY <1>1, <2>1
<1>6. CASE HandleToolsCall
  <2>1. CASE Answer("params")
    BY <2>1 DEF Answer, Reply, Finish
  <2>2. CASE stage' = "tool" /\ argument' = UserPointer /\ UNCHANGED <<line, user, guards>>
    <3>1. UNCHANGED policy /\ stage = "handle" /\ line.method = "tools/call"
      BY <1>6 DEF HandleToolsCall, flagVars
    <3>2. "auth" \in guards => argument' = user
      BY <2>2 DEF UserPointer, GuardsStand
    <3> QED
      BY <1>1, <2>2, <3>1, <3>2
  <2> QED
    BY <1>6, <2>1, <2>2 DEF HandleToolsCall
<1> QED
  BY <1>2, <1>3, <1>4, <1>5, <1>6 DEF Next, LoopStep

(* The user that was authenticated is the one the tool gets, and the       *)
(* permission found by the role check stands when it runs, for lines read  *)
(* with the protections on and whatever is configured later.               *)
THEOREM ToolsArePermitted == Spec => []ToolIsPermitted
<1>1. Init => PermittedInv
  BY DEF Init, PermittedInv, GuardsStand
<1>2. PermittedInv /\ [Next]_vars => PermittedInv'
  BY PermittedInvStep
<1>3. PermittedInv => ToolIsPermitted
  BY DEF PermittedInv, ToolIsPermitted, Protections
<1> QED BY <1>1, <1>2, <1>3, PTL DEF Spec

-------------------------------------------------------------------------------
(* A credential revoked when its line was read: while no new configuration *)
(* is on its way, the form that is looked up is still revoked, otherwise   *)
(* the form that is presented.  Every test that the two calls make of it   *)
(* is one that it fails.                                                   *)
PresentedRevoked == Auth!IsRevoked(line.auth)

LookedUp == Auth!Credential(line.auth, config.requireBearer)

RevokedStill ==
    line_revoked =>
        PresentedRevoked \/ (control.op # "configure" /\ Auth!IsRevoked(LookedUp))

CallIsRecord ==
    call = [pc |-> call.pc, text |-> call.text, token |-> call.token,
            seen |-> call.seen, dead |-> call.dead, keys |-> call.keys]

ValidateLooksUp ==
    stage = "validate" /\ line_revoked /\ ~PresentedRevoked =>
        /\ call.pc # "allowed"
        /\ call.pc \in {"format", "lookup"} => call.token = LookedUp

DecodeKnows ==
    /\ stage = "decode" => (line_revoked => PresentedRevoked)
    /\ stage = "identify" =>
         /\ call.text = line.auth
         /\ line_revoked => PresentedRevoked
         /\ call.pc \in {"is_revoked", "ttl", "is_expired", "decoded"} =>
              line.auth.sigOf = Auth!UserPart(line.auth)
         /\ call.pc \in {"ttl", "is_expired", "decoded"} => ~line_revoked

CredentialInv ==
    /\ CallIsRecord /\ RevokedStill /\ ValidateLooksUp /\ DecodeKnows
    /\ GuardsStand /\ AdmittedIsAuthentic

(* What operators do to it when they take the mutex, and when they release *)
(* it.                                                                     *)
LEMMA OperatorsTakeMutex ==
    ASSUME CallIsRecord, Auth!ControlBegin
    PROVE  /\ UNCHANGED <<config, revoked_tokens, call.pc, call.text, call.token>>
           /\ control.op = "none"
           /\ CallIsRecord'
<1> USE DEF Auth!Acquire, Auth!MutexFree, Auth!Free, Auth!handlerVars, Auth!tokenVars
<1>1. UNCHANGED <<config, revoked_tokens>> /\ control.op = "none"
  <2>1. (\E k \in Secrets \cup {NoSecret} : Auth!BeginSetTokenSecret(k)) => \E op : Auth!Acquire(op)
    BY DEF Auth!BeginSetTokenSecret
  <2> QED BY <2>1 DEF Auth!ControlBegin, Auth!BeginConfigure, Auth!BeginRegisterToken,
     Auth!BeginRevokeToken, Auth!BeginRecordFailure, Auth!BeginResetFailures
<1>2. CASE UNCHANGED call
  BY <1>1, <1>2 DEF CallIsRecord
<1>3. CASE Auth!NoLongerExpired
  BY <1>1, <1>3 DEF CallIsRecord, Auth!NoLongerExpired
<1>4. CASE \E k \in Secrets \cup {NoSecret} : Auth!BeginSetTokenSecret(k)
  BY <1>1, <1>4 DEF CallIsRecord, Auth!BeginSetTokenSecret
<1> QED
  BY <1>2, <1>3, <1>4 DEF Auth!ControlBegin, Auth!BeginConfigure, Auth!BeginRegisterToken,
     Auth!BeginRevokeToken, Auth!BeginRecordFailure, Auth!BeginResetFailures

LEMMA OperatorsReleaseMutex ==
    ASSUME Auth!ControlEnd
    PROVE  /\ UNCHANGED call
           /\ revoked_tokens \subseteq revoked_tokens'
           /\ control.op = "configure" \/ UNCHANGED config
           /\ control'.op = "none"
BY DEF Auth!ControlEnd, Auth!EndConfigure, Auth!EndSetTokenSecret, Auth!EndRegisterToken,
   Auth!EndRevokeToken, Auth!EndRecordFailure, Auth!EndResetFailures, Auth!Release, Auth!Free,
   Auth!tokenVars

(* The steps of a call change the call alone.                              *)
LEMMA CallsOnlyRead ==
    ASSUME Auth!ReadOnly
    PROVE  UNCHANGED <<config, revoked_tokens, control>>
BY DEF Auth!ReadOnly, Auth!handlerVars, Auth!tokenVars

LEMMA CallSteps ==
    ASSUME CallIsRecord, Auth!CallStep
    PROVE  /\ UNCHANGED <<config, revoked_tokens, control, call.text, call.token>>
           /\ CallIsRecord'
           /\ \/ call.pc = "format" /\ call'.pc = "lookup"
              \/ call.pc = "lookup" /\ call'.pc = "allowed" /\ ~Auth!IsRevoked(call.token)
              \/ call.pc = "verify" /\ call'.pc = "hmac"
              \/ call.pc = "hmac" /\ call'.pc = "is_revoked"
                 /\ call.text.sigOf = Auth!UserPart(call.text)
              \/ call.pc = "is_revoked" /\ call'.pc = "ttl" /\ ~Auth!IsRevoked(call.text)
              \/ call.pc = "ttl" /\ call'.pc \in {"is_expired", "decoded"}
              \/ call.pc = "is_expired" /\ call'.pc = "decoded"
              \/ call'.pc \in {"denied", "undecoded"}
<1> USE DEF CallIsRecord, Auth!Deny, Auth!Undecoded
<1>1. UNCHANGED <<config, revoked_tokens, control>>
  BY CallsOnlyRead DEF Auth!CallStep, Auth!ValidateFormat, Auth!ValidateLookup,
     Auth!DecodeVerify, Auth!DecodeHmac, Auth!DecodeRevoked, Auth!DecodeTtl, Auth!DecodeExpired
<1>2. CASE Auth!ValidateFormat
  BY <1>1, <1>2 DEF Auth!ValidateFormat
<1>3. CASE Auth!ValidateLookup
  BY <1>1, <1>3 DEF Auth!ValidateLookup, Auth!Acceptable
<1>4. CASE Auth!DecodeVerify
  BY <1>1, <1>4 DEF Auth!DecodeVerify
<1>5. CASE Auth!DecodeHmac
  BY <1>1, <1>5 DEF Auth!DecodeHmac, Auth!VerifySignature
<1>6. CASE Auth!DecodeRevoked
  BY <1>1, <1>6 DEF Auth!DecodeRevoked
<1>7. CASE Auth!DecodeTtl \/ Auth!DecodeExpired
  BY <1>1, <1>7 DEF Auth!DecodeTtl, Auth!DecodeExpired
<1> QED
  BY <1>2, <1>3, <1>4, <1>5, <1>6, <1>7 DEF Auth!CallStep

(* At the end of a line nothing is left to be claimed.                     *)
LEMMA FinishedIsClean ==
    ASSUME CallIsRecord', Finish
    PROVE  CredentialInv'
BY DEF Finish, CredentialInv, RevokedStill, ValidateLooksUp, DecodeKnows, AdmittedIsAuthentic,
   GuardsStand, Admitted

(* What the loop's line and the handler determine.                         *)
LEMMA Kept ==
    ASSUME UNCHANGED <<config, revoked_tokens, line>>
    PROVE  /\ PresentedRevoked' = PresentedRevoked
           /\ LookedUp' = LookedUp
           /\ Auth!IsRevoked(LookedUp)' = Auth!IsRevoked(LookedUp)
BY DEF PresentedRevoked, LookedUp, Auth!IsRevoked, Auth!Credential, Auth!ExtractBearer,
   Auth!HasBearer, Auth!PrefixLength

(* Revocation is final for the form that is presented, and for the one     *)
(* that is looked up as long as the configuration stands.                  *)
LEMMA RevokedKept ==
    ASSUME revoked_tokens \subseteq revoked_tokens', UNCHANGED line
    PROVE  /\ PresentedRevoked => PresentedRevoked'
           /\ UNCHANGED config =>
                /\ LookedUp' = LookedUp
                /\ Auth!IsRevoked(LookedUp) => Auth!IsRevoked(LookedUp)'
BY DEF PresentedRevoked, LookedUp, Auth!IsRevoked, Auth!Credential, Auth!ExtractBearer,
   Auth!HasBearer, Auth!PrefixLength

(* Operators at work on the handler while the loop stands still.           *)
LEMMA OperatorsMove ==
    ASSUME CredentialInv, CallIsRecord', GuardsStand', UNCHANGED <<stage, line, user, guards>>,
           UNCHANGED <<call.pc, call.text, call.token>>,
           revoked_tokens \subseteq revoked_tokens',
           control.op = "configure" \/ UNCHANGED config,
           line_revoked' => line_revoked /\ (control'.op = "configure" => PresentedRevoked)
    PROVE  CredentialInv'
<1> USE DEF CredentialInv
<1>1. PresentedRevoked => PresentedRevoked'
  BY RevokedKept
<1>2. line_revoked' /\ ~PresentedRevoked =>
        /\ LookedUp' = LookedUp /\ Auth!IsRevoked(LookedUp)'
        /\ control'.op # "configure"
  BY RevokedKept DEF RevokedStill
<1>3. RevokedStill'
  BY <1>1, <1>2 DEF RevokedStill
<1>4. ValidateLooksUp'
  BY <1>1, <1>2 DEF ValidateLooksUp
<1>5. DecodeKnows'
  BY <1>1 DEF DecodeKnows, Auth!UserPart
<1>6. AdmittedIsAuthentic'
  BY DEF AdmittedIsAuthentic, Auth!UserPart
<1> QED BY <1>3, <1>4, <1>5, <1>6

(* The two calls, step by step.                                            *)
LEMMA CallsKeepIt ==
    ASSUME CredentialInv, AuthCall
    PROVE  CredentialInv'
<1> USE DEF CredentialInv
<1>1. /\ UNCHANGED <<flagVars, loopVars, config, revoked_tokens, control, call.text, call.token>>
      /\ CallIsRecord'
  BY CallSteps DEF AuthCall
<1>2. UNCHANGED <<stage, line, user, guards, line_revoked>> /\ GuardsStand'
  BY <1>1 DEF flagVars, loopVars, GuardsStand
<1>3. /\ PresentedRevoked' = PresentedRevoked
      /\ LookedUp' = LookedUp
      /\ Auth!IsRevoked(LookedUp)' = Auth!IsRevoked(LookedUp)
  BY <1>1, <1>2, Kept
<1>4. RevokedStill'
  BY <1>1, <1>2, <1>3 DEF RevokedStill
<1>5. ValidateLooksUp'
  <2> SUFFICES ASSUME stage = "validate", line_revoked, ~PresentedRevoked
      PROVE  /\ call'.pc # "allowed"
             /\ call'.pc \in {"format", "lookup"} => call'.token = LookedUp
    BY <1>1, <1>2, <1>3 DEF ValidateLooksUp
  <2>1. Auth!IsRevoked(LookedUp)
    BY DEF RevokedStill
  <2> QED
    BY <1>1, <2>1, CallSteps DEF AuthCall, ValidateLooksUp
<1>6. DecodeKnows'
  <2>1. stage = "identify" /\ ~Auth!IsRevoked(call.text) => ~line_revoked
    BY DEF DecodeKnows, PresentedRevoked
  <2>2. stage' = "decode" => (line_revoked' => PresentedRevoked')
    BY <1>2, <1>3 DEF AuthCall
  <2>3. ASSUME stage = "identify"
        PROVE  /\ call'.text = line.auth
               /\ line_revoked => PresentedRevoked
               /\ call'.pc \in {"is_revoked", "ttl", "is_expired", "decoded"} =>
                    line.auth.sigOf = Auth!UserPart(line.auth)
               /\ call'.pc \in {"ttl", "is_expired", "decoded"} => ~line_revoked
    BY <1>1, <2>1, <2>3, CallSteps DEF AuthCall, DecodeKnows
  <2> QED
    BY <1>2, <1>3, <2>2, <2>3 DEF DecodeKnows, Auth!UserPart
<1>7. AdmittedIsAuthentic'
  BY <1>2 DEF AdmittedIsAuthentic, Auth!UserPart
<1> QED BY <1>1, <1>2, <1>4, <1>5, <1>6, <1>7

(* A verdict taken ends the line, or moves it on by what the call has shown.*)
LEMMA VerdictsKeepIt ==
    ASSUME CredentialInv, Validated \/ Identified
    PROVE  CredentialInv'
<1> USE DEF CredentialInv
<1>1. UNCHANGED <<config, revoked_tokens, control, flagVars>> /\ CallIsRecord'
  BY DEF Validated, Identified, Auth!Return, Auth!Idle, Auth!ReadOnly, Auth!handlerVars,
     Auth!tokenVars, flagVars, CallIsRecord
<1>2. CASE Finish
  BY <1>1, <1>2, FinishedIsClean
<1>3. CASE Validated /\ ~Finish
  <2>1. /\ stage = "validate" /\ call.pc = "allowed" /\ stage' = "decode"
        /\ UNCHANGED <<line, guards, line_revoked>>
    BY <1>3 DEF Validated, Answer, Reply, Goto
  <2>2. /\ PresentedRevoked' = PresentedRevoked
        /\ Auth!IsRevoked(LookedUp)' = Auth!IsRevoked(LookedUp)
    BY <1>1, <2>1, Kept
  <2>3. RevokedStill' /\ ValidateLooksUp'
    BY <1>1, <2>1, <2>2 DEF RevokedStill, ValidateLooksUp
  <2>4. DecodeKnows'
    BY <2>1, <2>2 DEF ValidateLooksUp, DecodeKnows
  <2>5. AdmittedIsAuthentic' /\ GuardsStand'
    BY <1>1, <2>1 DEF AdmittedIsAuthentic, Admitted, GuardsStand, flagVars
  <2> QED BY <1>1, <2>3, <2>4, <2>5
<1>4. CASE Identified /\ ~Finish
  <2>1. /\ stage = "identify" /\ call.pc = "decoded" /\ stage' = "authorize"
        /\ user' = [user_id |-> Auth!UserPart(line.auth), authenticated |-> TRUE, role |-> USER]
        /\ UNCHANGED <<line, guards, line_revoked>>
    BY <1>4 DEF Identified, Answer, Reply, Goto
  <2>2. /\ PresentedRevoked' = PresentedRevoked
        /\ Auth!IsRevoked(LookedUp)' = Auth!IsRevoked(LookedUp)
    BY <1>1, <2>1, Kept
  <2>3. RevokedStill' /\ ValidateLooksUp' /\ DecodeKnows'
    BY <1>1, <2>1, <2>2 DEF RevokedStill, ValidateLooksUp, DecodeKnows
  <2>4. ~line_revoked /\ line.auth.sigOf = Auth!UserPart(line.auth)
    BY <2>1 DEF DecodeKnows
  <2>5. AdmittedIsAuthentic' /\ GuardsStand'
    BY <1>1, <2>1, <2>4 DEF AdmittedIsAuthentic, Auth!UserPart, GuardsStand, flagVars
  <2> QED BY <1>1, <2>3, <2>5
<1> QED BY <1>2, <1>3, <1>4

(* The calls begin.                                                        *)
LEMMA BeginningsKeepIt ==
    ASSUME CredentialInv,
           \/ stage = "extract" /\ Auth!ValidateBegin(line.auth) /\ Goto("validate")
           \/ stage = "decode" /\ Auth!DecodeBegin(line.auth) /\ Goto("identify"),
           UNCHANGED <<flagVars, user>>
    PROVE  CredentialInv'
<1> USE DEF CredentialInv
<1>1. /\ UNCHANGED <<config, revoked_tokens, control, line, guards, line_revoked>>
      /\ CallIsRecord'
      /\ stage' \in {"validate", "identify"}
  BY DEF Auth!ValidateBegin, Auth!DecodeBegin, Auth!ReadOnly, Auth!handlerVars,
     Auth!tokenVars, Goto, CallIsRecord
<1>2. /\ PresentedRevoked' = PresentedRevoked
      /\ LookedUp' = LookedUp
      /\ Auth!IsRevoked(LookedUp)' = Auth!IsRevoked(LookedUp)
  BY <1>1, Kept
<1>3. RevokedStill'
  BY <1>1, <1>2 DEF RevokedStill
<1>4. AdmittedIsAuthentic' /\ GuardsStand'
  BY <1>1 DEF AdmittedIsAuthentic, Admitted, GuardsStand, flagVars
<1>5. CASE stage = "extract" /\ Auth!ValidateBegin(line.auth) /\ Goto("validate")
  <2>1. control.op # "configure" => call'.token = LookedUp
    BY <1>5 DEF Auth!ValidateBegin, Auth!VisibleConfigs, LookedUp
  <2>2. call'.pc \in {"format", "denied"} /\ stage' = "validate"
    BY <1>5 DEF Auth!ValidateBegin, Goto
  <2>3. ValidateLooksUp'
    BY <1>1, <1>2, <2>1, <2>2 DEF ValidateLooksUp, RevokedStill
  <2> QED BY <1>1, <1>3, <1>4, <2>2, <2>3 DEF DecodeKnows
<1>6. CASE stage = "decode" /\ Auth!DecodeBegin(line.auth) /\ Goto("identify")
  <2>1. /\ call'.text = line.auth /\ call'.pc \in {"verify", "undecoded"}
        /\ stage' = "identify"
    BY <1>6 DEF Auth!DecodeBegin, Goto
  <2>2. DecodeKnows'
    BY <1>1, <1>2, <1>6, <2>1 DEF DecodeKnows
  <2> QED BY <1>1, <1>3, <1>4, <2>1, <2>2 DEF ValidateLooksUp
<1> QED BY <1>5, <1>6

(* The loop goes on with its line, outside the two calls, and leaves the   *)
(* handler alone.                                                          *)
LEMMA StageMoves ==
    ASSUME CredentialInv, UNCHANGED <<config, revoked_tokens, control>>, CallIsRecord',
           GuardsStand', UNCHANGED <<line, line_revoked>>,
           stage' \notin {"validate", "decode", "identify"},
           stage' \in Admitted /\ "auth" \in guards' =>
             stage \in Admitted /\ UNCHANGED <<user, guards>>
    PROVE  CredentialInv'
<1>1. RevokedStill'
  BY Kept DEF CredentialInv, RevokedStill
<1>2. ValidateLooksUp' /\ DecodeKnows'
  BY DEF ValidateLooksUp, DecodeKnows
<1>3. AdmittedIsAuthentic'
  BY DEF CredentialInv, AdmittedIsAuthentic, Auth!UserPart
<1> QED BY <1>1, <1>2, <1>3 DEF CredentialInv

(* Nothing moves that the invariant speaks of.                             *)
LEMMA Standstill ==
    ASSUME CredentialInv, UNCHANGED <<config, revoked_tokens, control, call>>, GuardsStand',
           UNCHANGED <<stage, line, user, guards, line_revoked>>
    PROVE  CredentialInv'
<1>1. CallIsRecord'
  BY DEF CredentialInv, CallIsRecord
<1>2. line_revoked' => line_revoked /\ (control'.op = "configure" => PresentedRevoked)
  BY DEF CredentialInv, RevokedStill
<1> QED BY <1>1, <1>2, OperatorsMove

LEMMA CredentialInvStep ==
    CredentialInv /\ [Next]_vars => CredentialInv'
<1> SUFFICES ASSUME CredentialInv, [Next]_vars PROVE CredentialInv'
  OBVIOUS
<1>a. CallIsRecord /\ GuardsStand'
  BY GuardsStandStep DEF CredentialInv
<1>b. ASSUME UNCHANGED authVars
      PROVE  CallIsRecord' /\ UNCHANGED <<config, revoked_tokens, control, call>>
  <2>1. UNCHANGED <<config, revoked_tokens, control, call>>
    BY <1>b DEF authVars
  <2> QED BY <1>a, <2>1 DEF CallIsRecord
<1>1. CASE Control
  <2>1. /\ Auth!ControlBegin
        /\ UNCHANGED <<stage, line, user, guards>>
    BY <1>1 DEF Control, flagVars
  <2>2. /\ UNCHANGED <<config, revoked_tokens, call.pc, call.text, call.token>>
        /\ CallIsRecord'
    BY <1>a, <2>1, OperatorsTakeMutex
  <2>3. line_revoked' => line_revoked /\ (control'.op = "configure" => PresentedRevoked)
    BY <1>1 DEF Control, PresentedRevoked
  <2>4. revoked_tokens \subseteq revoked_tokens' /\ UNCHANGED config
    BY <2>2
  <2> QED BY <1>a, <2>1, <2>2, <2>3, <2>4, OperatorsMove
<1>2. CASE ControlEnd
  <2>1. /\ Auth!ControlEnd
        /\ UNCHANGED <<stage, line, user, guards, line_revoked>>
    BY <1>2 DEF ControlEnd, flagVars, loopVars
  <2>2. /\ UNCHANGED call
        /\ revoked_tokens \subseteq revoked_tokens'
        /\ control.op = "configure" \/ UNCHANGED config
        /\ control'.op = "none"
    BY <2>1, OperatorsReleaseMutex
  <2>3. CallIsRecord'
    BY <1>a, <2>2 DEF CallIsRecord
  <2> QED BY <1>a, <2>1, <2>2, <2>3, OperatorsMove
<1>3. CASE Tick \/ EnableAuth \/ EnableRbac \/ Ended \/ UNCHANGED vars
           \/ (\E perm \in Permissions(PolicyActions) : AddPermission(perm))
  <2>1. /\ UNCHANGED <<config, revoked_tokens, control, call>>
        /\ UNCHANGED <<stage, line, user, guards, line_revoked>>
    BY <1>3 DEF Tick, EnableAuth, EnableRbac, AddPermission, Ended, Auth!Tick, Auth!handlerVars,
       Auth!tokenVars, vars, authVars, flagVars, loopVars
  <2> QED BY <1>a, <2>1, Standstill
<1>5. CASE Run \/ EndOfInput \/ CallbackThrows
  <2>1. /\ stage' \in {"getline", "stopped", "failed"} /\ UNCHANGED authVars
        /\ UNCHANGED <<line, line_revoked>>
    BY <1>5 DEF Run, EndOfInput, CallbackThrows
  <2> QED BY <1>a, <1>b, <2>1, StageMoves DEF Admitted
<1>6. ASSUME NEW l \in Lines, ReadLine(l) PROVE CredentialInv'
  <2>1. UNCHANGED authVars /\ UNCHANGED user
    BY <1>6 DEF ReadLine, flagVars
  <2>2. CASE l.text = "empty"
    BY <1>6, <1>a, <1>b, <2>1, <2>2, Standstill DEF ReadLine
  <2>3. CASE l.text # "empty"
    <3>1. stage' = "parse" /\ line' = l /\ line_revoked' = RevokedWhenRead(l)
      BY <1>6, <2>3 DEF ReadLine
    <3>2. UNCHANGED <<config, revoked_tokens, control>>
      BY <1>b, <2>1
    <3>3. /\ PresentedRevoked' <=> Auth!IsRevoked(l.auth)
          /\ Auth!IsRevoked(LookedUp)' <=>
               Auth!IsRevoked(Auth!Credential(l.auth, config.requireBearer))
      BY <3>1, <3>2 DEF PresentedRevoked, LookedUp, Auth!IsRevoked, Auth!Credential,
         Auth!ExtractBearer, Auth!HasBearer, Auth!PrefixLength
    <3>4. RevokedStill'
      BY <3>1, <3>2, <3>3 DEF RevokedStill, RevokedWhenRead
    <3> QED
      BY <1>a, <1>b, <2>1, <3>1, <3>4 DEF CredentialInv, ValidateLooksUp, DecodeKnows,
         AdmittedIsAuthentic, Admitted
  <2> QED BY <2>2, <2>3
<1>7. CASE AuthFault
  <2>1. /\ stage' = "failed" /\ UNCHANGED <<line, line_revoked>>
        /\ UNCHANGED <<config, revoked_tokens, control>> /\ CallIsRecord'
    BY <1>a, <1>7 DEF AuthFault, Auth!RaceFault, Auth!ReadOnly, Auth!handlerVars,
       Auth!tokenVars, CallIsRecord
  <2> QED BY <1>a, <2>1, StageMoves DEF Admitted
<1>8. CASE UNCHANGED authVars /\ Finish
  BY <1>b, <1>8, FinishedIsClean
<1>9. CASE ParseLine
  <2>1. CASE Goto("auth")
    BY <1>a, <1>b, <1>9, <2>1, StageMoves DEF ParseLine, Goto, Admitted
  <2> QED BY <1>8, <1>9, <2>1 DEF ParseLine, Reply
<1>10. CASE Authenticate
  <2>1. /\ stage = "auth" /\ stage' \in {"extract", "authorize"}
        /\ stage' = "authorize" => ~auth_enabled
        /\ UNCHANGED <<line, guards, line_revoked>>
    BY <1>10 DEF Authenticate, Goto
  <2>2. stage' = "authorize" => "auth" \notin guards'
    BY <2>1 DEF CredentialInv, GuardsStand
  <2> QED BY <1>a, <1>b, <1>10, <2>1, <2>2, StageMoves DEF Authenticate, Admitted
<1>17. CASE TokenExtracted
  <2>1. CASE Auth!ValidateBegin(line.auth) /\ Goto("validate") /\ UNCHANGED user
    BY <1>17, <2>1, BeginningsKeepIt DEF TokenExtracted
  <2> QED BY <1>8, <1>17, <2>1 DEF TokenExtracted, Answer, Reply
<1>11. CASE AuthCall
  BY <1>11, CallsKeepIt
<1>12. CASE Validated \/ Identified
  BY <1>12, VerdictsKeepIt
<1>13. CASE Decode
  BY <1>13, BeginningsKeepIt DEF Decode
<1>14. CASE Authorize
  <2>1. CASE Goto("handle") /\ UNCHANGED user
    BY <1>a, <1>b, <1>14, <2>1, StageMoves DEF Authorize, Goto, Admitted
  <2> QED BY <1>8, <1>14, <2>1 DEF Authorize, Answer, Reply
<1>15. CASE HandleToolsCall
  <2>1. CASE stage' = "tool"
    <3>1. stage = "handle" /\ UNCHANGED <<user, line, guards, line_revoked>>
          /\ UNCHANGED authVars
      BY <1>15, <2>1 DEF HandleToolsCall, Answer, Reply, Finish
    <3> QED BY <1>a, <1>b, <2>1, <3>1, StageMoves DEF Admitted
  <2> QED BY <1>8, <1>15, <2>1 DEF HandleToolsCall, Answer, Reply
<1>16. CASE HandleInitialize \/ ToolsListed \/ HandleUnknown \/ ToolReturns
  BY <1>8, <1>16 DEF HandleInitialize, ToolsListed, HandleUnknown, ToolReturns, Answer, Reply
<1>18. CASE HandleToolsList
  <2>1. stage = "handle" /\ stage' = "list" /\ UNCHANGED <<user, line, guards, line_revoked>>
        /\ UNCHANGED authVars
    BY <1>18 DEF HandleToolsList, Goto
  <2> QED BY <1>a, <1>b, <2>1, StageMoves DEF Admitted
<1> QED
  BY <1>1, <1>2, <1>3, <1>5, <1>6, <1>7, <1>9, <1>10, <1>11, <1>12, <1>13, <1>14, <1>15,
     <1>16, <1>17, <1>18 DEF Next, LoopStep

(* Whoever is admitted, with authentication on when the line was read, has *)
(* presented a signature made for just the identity given, and no          *)
(* credential that was revoked before; whatever is configured meanwhile.   *)
THEOREM AdmittedAreAuthentic == Spec => []AdmittedIsAuthentic
<1>1. Init => CredentialInv
  BY DEF Init, Auth!Init, Auth!Idle, CredentialInv, CallIsRecord, RevokedStill, ValidateLooksUp,
     DecodeKnows, AdmittedIsAuthentic, Admitted, GuardsStand
<1>2. CredentialInv /\ [Next]_vars => CredentialInv'
  BY CredentialInvStep
<1>3. CredentialInv => AdmittedIsAuthentic
  BY DEF CredentialInv
<1> QED BY <1>1, <1>2, <1>3, PTL DEF Spec

-------------------------------------------------------------------------------
(* The handler within the loop: every step of the system is one of the     *)
(* handler or leaves it alone, so what is proved of the handler alone      *)
(* holds for the one that the loop calls.  The proofs about it come from   *)
(* a second instance, of which the operators are the same.                 *)
Handler == INSTANCE AuthenticationHandler_proofs

LEMMA SameTypes ==
    Auth!TypeOK <=> Handler!TypeOK
BY DEF
   Auth!TypeOK, Auth!ControlOps, Auth!CallRecords, Auth!Times, Auth!Free, Auth!Busy,
   Auth!Verdicts, Auth!Keys, Handler!TypeOK, Handler!ControlOps, Handler!CallRecords, Handler!Times,
   Handler!Free, Handler!Busy, Handler!Verdicts, Handler!Keys

LEMMA SameInit ==
    Auth!Init <=> Handler!Init
BY DEF
   Auth!Init, Auth!Idle, Auth!Free, Handler!Init, Handler!Idle, Handler!Free

LEMMA SameControlBegin ==
    Auth!ControlBegin <=> Handler!ControlBegin
BY DEF
   Auth!ControlBegin, Auth!BeginConfigure, Auth!BeginRegisterToken, Auth!BeginRevokeToken,
   Auth!BeginSetTokenSecret, Auth!BeginRecordFailure, Auth!BeginResetFailures, Auth!Acquire,
   Auth!Running, Auth!MutexFree, Auth!Free, Auth!NoLongerExpired, Auth!IsRevoked, Auth!Busy,
   Auth!Times, Auth!handlerVars, Auth!tokenVars, Handler!ControlBegin, Handler!BeginConfigure,
   Handler!BeginRegisterToken, Handler!BeginRevokeToken, Handler!BeginSetTokenSecret,
   Handler!BeginRecordFailure, Handler!BeginResetFailures, Handler!Acquire, Handler!Running,
   Handler!MutexFree, Handler!Free, Handler!NoLongerExpired, Handler!IsRevoked, Handler!Busy,
   Handler!Times, Handler!handlerVars, Handler!tokenVars

LEMMA SameControlEnd ==
    Auth!ControlEnd <=> Handler!ControlEnd
BY DEF
   Auth!ControlEnd, Auth!EndConfigure, Auth!EndSetTokenSecret, Auth!EndRegisterToken,
   Auth!EndRevokeToken, Auth!EndRecordFailure, Auth!EndResetFailures, Auth!Release,
   Auth!Running, Auth!Free, Auth!FailuresAfter, Auth!handlerVars, Auth!tokenVars,
   Handler!ControlEnd, Handler!EndConfigure, Handler!EndSetTokenSecret,
   Handler!EndRegisterToken, Handler!EndRevokeToken, Handler!EndRecordFailure,
   Handler!EndResetFailures, Handler!Release, Handler!Running, Handler!Free,
   Handler!FailuresAfter, Handler!handlerVars, Handler!tokenVars

LEMMA SameTick ==
    Auth!Tick <=> Handler!Tick
BY DEF
   Auth!Tick, Auth!Running, Auth!handlerVars, Auth!tokenVars, Handler!Tick, Handler!Running,
   Handler!handlerVars, Handler!tokenVars

LEMMA SameValidateBegin ==
    ASSUME NEW text \in Strings
    PROVE  Auth!ValidateBegin(text) <=> Handler!ValidateBegin(text)
BY DEF
   Auth!ValidateBegin, Auth!Credential, Auth!ExtractBearer, Auth!HasBearer, Auth!PrefixLength,
   Auth!DeadNow, Auth!IsRevoked, Auth!IsExpired, Auth!ExpiredUnder, Auth!ReadOnly, Auth!VisibleConfigs,
   Auth!VisibleConfigured, Auth!handlerVars, Auth!tokenVars, Handler!ValidateBegin,
   Handler!Credential, Handler!ExtractBearer, Handler!HasBearer, Handler!PrefixLength,
   Handler!DeadNow, Handler!IsRevoked, Handler!IsExpired, Handler!ExpiredUnder,
   Handler!ReadOnly, Handler!VisibleConfigs, Handler!VisibleConfigured, Handler!handlerVars, Handler!tokenVars

LEMMA SameDecodeBegin ==
    ASSUME NEW text \in Strings
    PROVE  Auth!DecodeBegin(text) <=> Handler!DecodeBegin(text)
BY DEF
   Auth!DecodeBegin, Auth!UserPart, Auth!NoIdentity, Auth!Splits, Auth!IsRevoked, Auth!ReadOnly,
   Auth!VisibleSecrets, Auth!VisibleKeys, Auth!SecretChanging, Auth!handlerVars,
   Auth!tokenVars, Handler!DecodeBegin, Handler!UserPart,
   Handler!NoIdentity, Handler!Splits, Handler!IsRevoked, Handler!ReadOnly,
   Handler!VisibleSecrets, Handler!VisibleKeys, Handler!SecretChanging, Handler!handlerVars,
   Handler!tokenVars

LEMMA SameCallStep ==
    Auth!CallStep <=> Handler!CallStep
BY DEF
   Auth!CallStep, Auth!ValidateFormat, Auth!WellFormed, Auth!Deny, Auth!ValidateLookup,
   Auth!Acceptable, Auth!MutexFree, Auth!Free, Auth!DecodeVerify, Auth!DecodeHmac,
   Auth!VerifySignature, Auth!DecodeRevoked, Auth!DecodeTtl, Auth!DecodeExpired,
   Auth!Undecoded, Auth!UserPart, Auth!IsRevoked, Auth!IsExpired, Auth!ExpiredUnder,
   Auth!ReadOnly, Auth!VisibleConfigs, Auth!VisibleSecrets, Auth!VisibleKeys,
   Auth!SecretChanging, Auth!VisibleExpiry, Auth!IssueTimesChanging, Auth!handlerVars,
   Auth!tokenVars, Handler!CallStep, Handler!ValidateFormat, Handler!WellFormed,
   Handler!Deny, Handler!ValidateLookup, Handler!Acceptable, Handler!MutexFree, Handler!Free,
   Handler!DecodeVerify, Handler!DecodeHmac, Handler!VerifySignature, Handler!DecodeRevoked,
   Handler!DecodeTtl, Handler!DecodeExpired, Handler!Undecoded, Handler!UserPart,
   Handler!IsRevoked, Handler!IsExpired, Handler!ExpiredUnder, Handler!ReadOnly,
   Handler!VisibleConfigs, Handler!VisibleSecrets, Handler!VisibleKeys,
   Handler!SecretChanging, Handler!VisibleExpiry, Handler!IssueTimesChanging,
   Handler!handlerVars, Handler!tokenVars

LEMMA SameEnds ==
    /\ Auth!RaceFault <=> Handler!RaceFault
    /\ Auth!Return <=> Handler!Return
BY DEF
   Auth!RaceFault, Auth!Racing, Auth!Return, Auth!Verdicts, Auth!Idle,
   Auth!IssueTimesChanging, Auth!ReadOnly, Auth!handlerVars, Auth!tokenVars,
   Handler!RaceFault, Handler!Racing, Handler!Return, Handler!Verdicts, Handler!Idle,
   Handler!IssueTimesChanging, Handler!ReadOnly, Handler!handlerVars, Handler!tokenVars

(* A step of the system as the handler sees it.                            *)
LEMMA HandlerSteps ==
    ASSUME LoopInv, [Next]_vars
    PROVE  \/ \E text \in Strings : Auth!ValidateBegin(text) \/ Auth!DecodeBegin(text)
           \/ Auth!CallStep \/ Auth!RaceFault \/ Auth!Return
           \/ Auth!ControlBegin \/ Auth!ControlEnd \/ Auth!Tick
           \/ UNCHANGED authVars
<1>1. line.auth \in Strings
  BY LinesAssumption, HandlerAssumption DEF LoopInv, LineRecords, BlankLine, Auth!StringsAssumption
<1>2. CASE Control \/ ControlEnd \/ Tick
  BY <1>2 DEF Control, ControlEnd, Tick
<1>3. CASE TokenExtracted \/ Decode
  BY <1>1, <1>3 DEF TokenExtracted, Decode
<1>4. CASE AuthCall \/ AuthFault \/ Validated \/ Identified
  BY <1>4 DEF AuthCall, AuthFault, Validated, Identified
<1>5. CASE \/ EnableAuth \/ EnableRbac \/ Run \/ (\E l \in Lines : ReadLine(l)) \/ EndOfInput
           \/ \E perm \in Permissions(PolicyActions) : AddPermission(perm)
  BY <1>5 DEF EnableAuth, EnableRbac, Run, ReadLine, EndOfInput, AddPermission
<1>6. CASE \/ ParseLine \/ Authenticate \/ Authorize \/ HandleInitialize \/ HandleToolsList
           \/ HandleUnknown \/ HandleToolsCall \/ ToolsListed \/ ToolReturns \/ CallbackThrows
  BY <1>6 DEF ParseLine, Authenticate, Authorize, HandleInitialize, HandleToolsList,
     HandleUnknown, HandleToolsCall, ToolsListed, ToolReturns, CallbackThrows
<1>7. CASE Ended \/ UNCHANGED vars
  BY <1>7 DEF Ended, vars
<1> QED
  BY <1>2, <1>3, <1>4, <1>5, <1>6, <1>7 DEF Next, LoopStep

LEMMA HandlerNext ==
    LoopInv /\ [Next]_vars => [Handler!Next]_(Handler!authVars)
<1> SUFFICES ASSUME LoopInv, [Next]_vars PROVE Handler!Next \/ UNCHANGED Handler!authVars
  OBVIOUS
<1>1. CASE UNCHANGED authVars
  BY <1>1 DEF authVars, Handler!authVars, Handler!handlerVars, Handler!tokenVars
<1>2. CASE \E text \in Strings : Auth!ValidateBegin(text) \/ Auth!DecodeBegin(text)
  BY <1>2, SameValidateBegin, SameDecodeBegin DEF Handler!Next
<1> QED
  BY <1>1, <1>2, HandlerSteps, SameControlBegin, SameControlEnd, SameTick, SameCallStep, SameEnds
     DEF Handler!Next

LEMMA HandlerInvStep ==
    LoopInv /\ Handler!IInv /\ [Next]_vars => Handler!IInv'
<1>1. Handler!IInv /\ [Handler!Next]_(Handler!authVars) => Handler!IInv'
  BY Handler!StepInv, HandlerAssumption
     DEF Auth!StringsAssumption, Auth!ConfigsAssumption, Auth!SecretsAssumption,
         Auth!BoundsAssumption, Auth!StringRecords, Handler!StringRecords, Auth!ExtractBearer,
         Handler!ExtractBearer, Auth!HasBearer, Handler!HasBearer, Auth!PrefixLength,
         Handler!PrefixLength, Auth!ConfigRecords, Handler!ConfigRecords
<1> QED BY <1>1, HandlerNext

LEMMA HandlerInvInit == Init => Handler!IInv
<1>1. Handler!Init => Handler!IInv
  BY Handler!InitInv, HandlerAssumption
     DEF Auth!StringsAssumption, Auth!ConfigsAssumption, Auth!SecretsAssumption,
         Auth!BoundsAssumption, Auth!StringRecords, Handler!StringRecords, Auth!ExtractBearer,
         Handler!ExtractBearer, Auth!HasBearer, Handler!HasBearer, Auth!PrefixLength,
         Handler!PrefixLength, Auth!ConfigRecords, Handler!ConfigRecords
<1> QED BY <1>1, SameInit DEF Init

(* The system runs the handler: with the loop as its caller it behaves as  *)
(* it does alone, with any caller (validate_request and decode_token in    *)
(* dispatch, the operators through auth_handler()).                        *)
THEOREM LoopRunsTheHandler == Spec => Auth!Init /\ [][Auth!Next]_(Auth!authVars)
<1>1. Init => Auth!Init /\ LoopInv
  BY LoopInvInit DEF Init
<1>2. LoopInv /\ [Next]_vars => LoopInv' /\ [Auth!Next]_(Auth!authVars)
  <2> SUFFICES ASSUME LoopInv, [Next]_vars PROVE Auth!Next \/ UNCHANGED Auth!authVars
    BY LoopInvStep
  <2>1. CASE UNCHANGED authVars
    BY <2>1 DEF authVars, Auth!authVars, Auth!handlerVars, Auth!tokenVars
  <2> QED BY <2>1, HandlerSteps DEF Auth!Next
<1> QED BY <1>1, <1>2, PTL DEF Spec

(* The calls that dispatch makes accept no token that was dead when they   *)
(* began, and name nobody without a signature made for that identity under *)
(* a key in force during the call: under a secret, unless operators were   *)
(* replacing the secret between the start of the call and the check.       *)
THEOREM CallsOfTheLoopAreSound == Spec => [](Auth!DeadTokenRefused /\ Auth!DecodedIdentity)
<1>1. Handler!IInv => Auth!DeadTokenRefused /\ Auth!DecodedIdentity
  BY DEF Handler!IInv, Handler!DeadStaysDead, Handler!SignatureKnown, Handler!Decoding,
     Auth!DeadTokenRefused, Auth!DecodedIdentity, Auth!UserPart, Handler!UserPart,
     Auth!NoIdentity, Handler!NoIdentity
<1> DEFINE Sound == Auth!DeadTokenRefused /\ Auth!DecodedIdentity
<1>2. Handler!IInv => Sound
  BY <1>1
<1> HIDE DEF Sound
<1>3. Spec => []Sound
  BY <1>2, LoopInvInit, LoopInvStep, HandlerInvInit, HandlerInvStep, PTL DEF Spec
<1> QED BY <1>3 DEF Sound

(* The rest of the types.                                                  *)
LocalsType ==
    /\ auth_enabled \in BOOLEAN /\ rbac_enabled \in BOOLEAN /\ line_revoked \in BOOLEAN
    /\ guards \subseteq Protections
    /\ policy \subseteq Permissions(PolicyActions)
    /\ lines_read \in 0 .. MaxLines
    /\ user \in UserRecords
    /\ argument \in UserRecords \cup {NoPointer}

LEMMA UserTypes ==
    ASSUME LoopInv
    PROVE  /\ Nobody \in UserRecords
           /\ [user_id |-> Auth!UserPart(line.auth), authenticated |-> TRUE, role |-> USER]
                \in UserRecords
<1>1. line.auth \in Auth!StringRecords
  BY LinesAssumption, HandlerAssumption DEF LoopInv, LineRecords, BlankLine, Auth!StringsAssumption
<1>2. Auth!UserPart(line.auth) \in BOOLEAN \X (UserIds \cup {NoUser})
  BY <1>1 DEF Auth!UserPart, Auth!StringRecords
<1> QED BY <1>2 DEF Nobody, UserRecords, Roles, Auth!NoIdentity

LEMMA LocalsStep == LoopInv /\ LocalsType /\ [Next]_vars => LocalsType'
<1> SUFFICES ASSUME LoopInv, LocalsType, [Next]_vars PROVE LocalsType'
  OBVIOUS
<1> USE UserTypes DEF LocalsType
<1>1. CASE EnableAuth \/ EnableRbac
  BY <1>1 DEF EnableAuth, EnableRbac, loopVars
<1>2. CASE \E perm \in Permissions(PolicyActions) : AddPermission(perm)
  BY <1>2 DEF AddPermission, loopVars
<1>3. CASE Control
  BY <1>3 DEF Control, flagVars, Auth!IsRevoked
<1>4. CASE ControlEnd \/ Tick \/ AuthCall \/ Ended \/ UNCHANGED vars
  BY <1>4 DEF ControlEnd, Tick, AuthCall, Ended, vars, flagVars, loopVars
<1>5. ASSUME NEW l \in Lines, ReadLine(l) PROVE LocalsType'
  <2>1. RevokedWhenRead(l) \in BOOLEAN
    BY DEF RevokedWhenRead, Auth!IsRevoked
  <2>2. line_revoked' \in BOOLEAN
    BY <1>5, <2>1 DEF ReadLine
  <2>3. lines_read' \in 0 .. MaxLines
    BY <1>5, LinesAssumption DEF ReadLine
  <2>4. guards' \subseteq Protections
    BY <1>5 DEF ReadLine, Protected
  <2> QED BY <1>5, <2>2, <2>3, <2>4 DEF ReadLine, flagVars
<1>6. CASE Run \/ EndOfInput \/ AuthFault \/ CallbackThrows
  BY <1>6 DEF Run, EndOfInput, AuthFault, CallbackThrows, flagVars
<1>7. CASE \/ ParseLine \/ Authenticate \/ TokenExtracted \/ Validated \/ Decode \/ Authorize
           \/ HandleInitialize \/ HandleToolsList \/ HandleUnknown
  BY <1>7 DEF ParseLine, Authenticate, TokenExtracted, Validated, Decode, Authorize,
     HandleInitialize, HandleToolsList, HandleUnknown, Answer, Reply, Finish, Goto, flagVars
<1>10. CASE ToolsListed \/ ToolReturns
  BY <1>10 DEF ToolsListed, ToolReturns, Answer, Reply, Finish, flagVars
<1>8. CASE Identified
  BY <1>8 DEF Identified, Answer, Reply, Finish, Goto, flagVars
<1>9. CASE HandleToolsCall
  BY <1>9 DEF HandleToolsCall, UserPointer, Answer, Reply, Finish, flagVars
<1> QED
  BY <1>1, <1>2, <1>3, <1>4, <1>5, <1>6, <1>7, <1>8, <1>9, <1>10 DEF Next, LoopStep

(* Handler, flags, policy, loop and replies keep their types, for every    *)
(* set of lines, tokens, configurations and permissions.                   *)
THEOREM TypeCorrect == Spec => []TypeOK
<1>1. Init => LocalsType
  <2> SUFFICES ASSUME Init PROVE LocalsType
    OBVIOUS
  <2>1. Nobody \in UserRecords
    BY LoopInvInit, UserTypes
  <2>2. 0 \in 0 .. MaxLines
    BY LinesAssumption
  <2> QED BY <2>1, <2>2 DEF Init, LocalsType, Protections
<1>2. LoopInv /\ LocalsType /\ Handler!IInv => TypeOK
  BY SameTypes DEF LoopInv, LocalsType, Handler!IInv, TypeOK
<1> QED
  BY <1>1, <1>2, LoopInvInit, LoopInvStep, HandlerInvInit, HandlerInvStep, LocalsStep, PTL DEF Spec

===============================================================================
