---------------------------- MODULE JsonRpcServer ----------------------------
(***************************************************************************)
(* What a client on the other end of the pipe is promised, whatever the    *)
(* requests mean: the server takes one input at a time, owes at most one   *)
(* reply for it, sends that reply before it takes the next, and sends      *)
(* nothing it does not owe.  It stops at the end of the input; it fails,   *)
(* if it does, while it works on a request and has lent that request to    *)
(* code that may end the process.                                          *)
(***************************************************************************)
EXTENDS Sequences

CONSTANTS
    Ids,      \* request ids
    Null,     \* the id of the reply to an input that could not be read
    Nothing   \* no reply is owed

VARIABLES due, lent, replies, open

rpcVars == <<due, lent, replies, open>>

Init ==
    /\ due = Nothing
    /\ lent = FALSE
    /\ replies = <<>>
    /\ open = TRUE

Receive ==
    /\ open
    /\ due = Nothing
    /\ due' \in Ids \cup {Null}
    /\ UNCHANGED <<lent, replies, open>>

(* The request is lent, or taken back.                                     *)
Lend ==
    /\ open
    /\ due \in Ids
    /\ lent' = ~lent
    /\ UNCHANGED <<due, replies, open>>

Reply ==
    /\ open
    /\ due # Nothing
    /\ replies' = Append(replies, due)
    /\ due' = Nothing
    /\ lent' = FALSE
    /\ UNCHANGED open

EndOfInput ==
    /\ open
    /\ due = Nothing
    /\ open' = FALSE
    /\ UNCHANGED <<due, lent, replies>>

Fail ==
    /\ open
    /\ due \in Ids /\ lent
    /\ open' = FALSE
    /\ due' = Nothing
    /\ lent' = FALSE
    /\ UNCHANGED replies

Next == Receive \/ Lend \/ Reply \/ EndOfInput \/ Fail

Spec == Init /\ [][Next]_rpcVars

=============================================================================
