---------------------------- MODULE MCToolCallParts ----------------------------
(* A small instance of ToolCallParts for TLC.                              *)
EXTENDS ToolCallParts

CONSTANTS t1, t2, p1, p2, nobody

MCAlphabet ==
    "rules" :> {"'", "a", " ", ";", "\\", "\n"}
    @@ "path" :> {"a", "b", "/", ".", "~", "l", "%2e", "%2E", ":", "\\", "%2f"}
    @@ "response" :> {"/", " ", "B", "ypass", "\n", "^H", "^[", "\\"}

MCMaxText == ("rules" :> 5) @@ ("path" :> 4) @@ ("response" :> 5)

(* Values of arguments, and rules: strict, not strict, two for one name.   *)
MCValues == {<<"a">>, <<"a", ";">>, <<".", ".">>, <<"~", "/">>, <<"a", "<">>, <<"a", "%3b">>, <<>>}
MCMatching == "word" :> {<<"a">>, <<"a", ";">>}
Rule(a, pattern, shell, traversal) ==
    [arg |-> a, pattern |-> pattern, shell |-> shell, traversal |-> traversal]
MCRuleSets ==
    {[required |-> {Rule("x", "none", FALSE, FALSE)}, optional |-> {}, strict |-> TRUE],
     [required |-> {Rule("x", "none", TRUE, TRUE)}, optional |-> {Rule("y", "word", TRUE, FALSE)},
      strict |-> TRUE],
     [required |-> {Rule("x", "none", TRUE, TRUE), Rule("x", "word", FALSE, TRUE)},
      optional |-> {}, strict |-> FALSE]}

(* /a is the base, /ab only starts like it, /a/l and /l are links.         *)
MCLinks == (<<<<"a">>, <<"l">>>> :> <<<<"a", "b">>>>) @@ (<<<<"l">>>> :> <<<<"a">>>>)
MCPathConfigs == [base : {<<<<"a">>>>, <<>>, NoBase}, absolute : BOOLEAN]

(* The owner or nobody, in the group or not, of the two roles that matter; *)
(* and an administrator who is not authenticated.                          *)
MCUsers ==
    {u \in Users : u.authenticated /\ u.role # GUEST}
        \cup {u \in Users : ~u.authenticated /\ u.role = ADMIN /\ u.group_ids = Groups}
MCRequests == [user : MCUsers, action : Actions]
=============================================================================
