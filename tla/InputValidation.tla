---------------------------- MODULE InputValidation ----------------------------
(***************************************************************************)
(* The rules for the arguments of tools.  A value is a sequence of         *)
(* characters; a URL escape such as %3b is one of them, and so is the      *)
(* grave accent.                                                           *)
(***************************************************************************)
EXTENDS Integers, Sequences, FiniteSets

CONSTANTS
    Tools, ArgNames,
    Values,      \* the values of arguments considered
    RuleSets,    \* what is registered for a tool: see RuleSetRecords
    NoRules,     \* nothing is
    NoPattern,   \* the empty regular expression
    Matching     \* for each other expression the values it matches

VARIABLES
    rules,       \* the rules of each tool
    given        \* history: the rules given last for each tool

rulesVars == <<rules, given>>

(* An expression that std::regex refuses matches nothing.                  *)
ArgumentRules ==
    [arg : ArgNames, pattern : {NoPattern} \cup DOMAIN Matching,
     shell : BOOLEAN, traversal : BOOLEAN]
RuleSetRecords == [required : SUBSET ArgumentRules, optional : SUBSET ArgumentRules, strict : BOOLEAN]

ASSUME ValuesAssumption == Values \subseteq Seq(STRING)
ASSUME RulesAssumption ==
    \A s \in RuleSets :
      s.strict \in BOOLEAN /\ s.required \cup s.optional \subseteq ArgumentRules

(* The arguments of a call: some names with their values.                  *)
Arguments == UNION {[names -> Values] : names \in SUBSET ArgNames}

Metacharacters == {";", "|", "&", "$", "(", ")", "grave", " ", "\n", "\r"}
EncodedMetacharacters ==
    {"%3b", "%3B", "%7c", "%7C", "%26", "%24", "%28", "%29", "%60",
     "%3c", "%3C", "%3e", "%3E", "%0a", "%0A", "%0d", "%0D"}

HasOneOf(v, S) == \E i \in DOMAIN v : v[i] \in S
HasPair(v, a, b) == \E i \in 1 .. Len(v) - 1 : v[i] = a /\ v[i + 1] = b

ContainsShellMetacharacters(v) == HasOneOf(v, Metacharacters)
ContainsPathTraversal(v) == HasPair(v, ".", ".") \/ HasPair(v, "~", "/")
ContainsEncodedMetacharacters(v) == HasOneOf(v, EncodedMetacharacters)

(* Faulty variant: the return value of the traversal test is dropped.      *)
ValidateArgumentNoTraversal(rule, v) ==
    /\ rule.shell \/ ~ContainsShellMetacharacters(v)
    /\ ~ContainsEncodedMetacharacters(v)
    /\ rule.pattern = NoPattern \/ v \in Matching[rule.pattern]

ValidateArgument(rule, v) ==
    /\ rule.shell \/ ~ContainsShellMetacharacters(v)
    /\ rule.traversal \/ ~ContainsPathTraversal(v)
    /\ ~ContainsEncodedMetacharacters(v)
    /\ rule.pattern = NoPattern \/ v \in Matching[rule.pattern]

(* validate_arguments; a tool without rules takes anything.                *)
ValidateArguments(tool, args) ==
    LET r == rules[tool]
    IN \/ r = NoRules
       \/ /\ \A rule \in r.required :
               rule.arg \in DOMAIN args /\ ValidateArgument(rule, args[rule.arg])
          /\ \A rule \in r.optional :
               rule.arg \in DOMAIN args => ValidateArgument(rule, args[rule.arg])
          /\ r.strict => DOMAIN args \subseteq {rule.arg : rule \in r.required \cup r.optional}

(* Faulty variant: what is within quotes already is not quoted again.      *)
QuotedOnce(c) == <<c>>

(* A single quote ends the quoting, follows escaped, and starts it anew.   *)
QuotedChar(c) == IF c = "'" THEN <<"'", "\\", "'", "'">> ELSE <<c>>

EscapeShellArgument(arg) ==
    LET quoted[n \in 0 .. Len(arg)] ==
            IF n = 0 THEN <<>> ELSE quoted[n - 1] \o QuotedChar(arg[n])
    IN <<"'">> \o quoted[Len(arg)] \o <<"'">>

RulesInit ==
    /\ rules = [t \in Tools |-> NoRules]
    /\ given = [t \in Tools |-> NoRules]

StoredRules(tool, new) == new

RegisterToolRules(tool, new) ==
    /\ rules' = [rules EXCEPT ![tool] = StoredRules(tool, new)]
    /\ given' = [given EXCEPT ![tool] = new]

RulesNext == \E t \in Tools, new \in RuleSets : RegisterToolRules(t, new)

-----------------------------------------------------------------------------
(* "Characters that have special meaning in shell: ; | & $ ( ) ` < > \n    *)
(* \r" (input_validation.cpp:112).                                         *)
ShellCharacters == {";", "|", "&", "$", "(", ")", "grave", "<", ">", "\n", "\r"}
Redirections == {"<", ">"}

(* What leads out of a directory.                                          *)
Steps == {<<".", ".">>, <<"~", "/">>}

(* What a rule demands of a value.  The special characters it forbids are  *)
(* a blank and those of the comment, but for the redirections: the list    *)
(* in the code (:113) has no < and no >.                                   *)
Obeys(rule, v) ==
    /\ \A i \in DOMAIN v :
         /\ v[i] \in {" "} \cup (ShellCharacters \ Redirections) => rule.shell
         /\ v[i] \notin EncodedMetacharacters
         /\ \A j \in DOMAIN v : j = i + 1 /\ <<v[i], v[j]>> \in Steps => rule.traversal
    /\ rule.pattern # NoPattern => v \in Matching[rule.pattern]

(* A call is accepted if and only if it holds every argument demanded and, *)
(* if the rules are strict, no unknown one, and each value follows every   *)
(* rule for it: no special character and no step out of a directory unless *)
(* it is allowed, no encoded character at all, and the pattern.  Two rules *)
(* for one argument both count, and the rules that count are those given   *)
(* last, not those given first or any mixture.                             *)
AcceptedCallsFollowRules ==
    \A t \in Tools, args \in Arguments :
      LET r == given[t]
          rulesFor(a) == {rule \in r.required \cup r.optional : rule.arg = a}
      IN r # NoRules =>
           (ValidateArguments(t, args) <=>
              /\ {rule.arg : rule \in r.required} \subseteq DOMAIN args
              /\ \A a \in DOMAIN args :
                   /\ r.strict => rulesFor(a) # {}
                   /\ \A rule \in rulesFor(a) : Obeys(rule, args[a]))

(* How a POSIX shell splits a text into words: blanks separate, what is in *)
(* single quotes is taken as it is, a backslash outside takes the next     *)
(* character; any other special character outside of quotes is none of a   *)
(* word.  The words, or what went wrong.  It has read the first i - 1      *)
(* characters, is in a mode and has the beginning of a word.               *)
Modes == {"blank", "bare", "quoted"}

AtEnd(mode, word) ==
    CASE mode = "blank" -> <<>>
      [] mode = "bare" -> <<word>>
      [] mode = "quoted" -> <<<<"unbalanced">>>>

ShellWords(t) ==
    LET read[s \in (Nat \ {0}) \X Modes \X Seq({t[i] : i \in DOMAIN t})] ==
            LET i == s[1]
                mode == s[2]
                word == s[3]
            IN IF i > Len(t) THEN AtEnd(mode, word)
               ELSE IF t[i] = "'"
                    THEN read[<<i + 1, IF mode = "quoted" THEN "bare" ELSE "quoted", word>>]
               ELSE IF mode = "quoted" THEN read[<<i + 1, "quoted", Append(word, t[i])>>]
               ELSE IF t[i] = "\\" /\ i < Len(t)
                    THEN read[<<i + 2, "bare", Append(word, t[i + 1])>>]
               ELSE IF t[i] = " "
                    THEN (IF mode = "bare" THEN <<word>> ELSE <<>>) \o read[<<i + 1, "blank", <<>>>>]
               ELSE IF t[i] \in Metacharacters THEN <<<<"special">>>>
               ELSE read[<<i + 1, "bare", Append(word, t[i])>>]
    IN read[<<1, "blank", <<>>>>]

(* A shell takes an escaped argument for one word, and that word is the    *)
(* argument, whatever quotes, blanks and special characters it holds.      *)
EscapedIsOneWord(arg) == ShellWords(EscapeShellArgument(arg)) = <<arg>>

=============================================================================
