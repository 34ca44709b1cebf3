------------------------------ MODULE JsonParser ------------------------------
(***************************************************************************)
(* The JSON reader of the toolkit: MCPMessage::parse and the class         *)
(* JsonParser.  Positions count from 1, a failed scan returns the position *)
(* Fail, and a span <<from, to>> holds the bytes from .. to - 1.           *)
(***************************************************************************)
EXTENDS JsonBytes

CONSTANTS
    IntMax,     \* the largest int
    MaxDepth,   \* kMaxDepth
    MaxBytes    \* max_bytes

ASSUME ReaderLimits == IntMax \in Nat /\ MaxDepth \in Nat \ {0} /\ MaxBytes \in Nat

Fail == 0
NoSpan == <<0, 0>>

Spaces == {" ", "\t", "\n", "\r", "\f"}   \* isspace, the vertical tab apart
DigitValue(c) == CHOOSE n \in 0 .. 9 : Digits[n + 1] = c

At(t, p, c) == p \in DOMAIN t /\ t[p] = c
In(t, p, S) == p \in DOMAIN t /\ t[p] \in S

(* The first position from p on, up to the end of t, that is not in S.     *)
SkipAll(t, p, S) == Min({Len(t) + 1} \cup {q \in p .. Len(t) : t[q] \notin S})

SkipWs(t, p) == SkipAll(t, p, Spaces)

(* Position after the closing quote of the string whose content begins at  *)
(* p: a backslash takes the next byte with it.                             *)
StringEnd(t, p) ==
    LET end[q \in Nat] ==
            IF q > Len(t) THEN Fail
            ELSE IF t[q] = Quote THEN q + 1
            ELSE IF t[q] # Backslash THEN end[q + 1]
            ELSE IF q = Len(t) THEN Fail
            ELSE end[q + 2]
    IN end[p]

SkipString(t, p) == IF At(t, p, Quote) THEN StringEnd(t, p + 1) ELSE Fail

(* Faulty variant: brackets in strings are counted.                        *)
ContainerEndBlind(t, p, depth, open, close) ==
    LET end[s \in Nat \X Nat] ==
            LET q == s[1]
                inside == s[2]
            IN IF inside = 0 THEN q
               ELSE IF q > Len(t) \/ inside > MaxDepth THEN Fail
               ELSE IF t[q] = open THEN end[<<q + 1, inside + 1>>]
               ELSE IF t[q] = close THEN end[<<q + 1, inside - 1>>]
               ELSE end[<<q + 1, inside>>]
    IN end[<<p, depth>>]

(* Position after the bracket that closes the container around p, which is *)
(* depth brackets deep.  Only the container's own kind of bracket counts.  *)
ContainerEnd(t, p, depth, open, close) ==
    LET end[s \in Nat \X Nat] ==
            LET q == s[1]
                inside == s[2]
            IN IF inside = 0 THEN q
               ELSE IF q > Len(t) THEN Fail
               ELSE IF t[q] = Quote
                    THEN IF SkipString(t, q) = Fail THEN Fail ELSE end[<<SkipString(t, q), inside>>]
               ELSE IF t[q] = open
                    THEN IF inside + 1 > MaxDepth THEN Fail ELSE end[<<q + 1, inside + 1>>]
               ELSE end[<<q + 1, IF t[q] = close THEN inside - 1 ELSE inside>>]
    IN end[<<p, depth>>]

SkipContainer(t, p, open, close) ==
    IF At(t, p, open) THEN ContainerEnd(t, p + 1, 1, open, close) ELSE Fail

(* A number: digits are demanded only after a minus sign.                  *)
NumberEnd(t, p) ==
    LET first == IF t[p] = "-" THEN p + 1 ELSE p
        fraction[q \in Nat] == IF At(t, q, ".") THEN SkipAll(t, q + 1, DigitSet) ELSE q
        exponent[q \in Nat] ==
            IF ~In(t, q, {"e", "E"}) THEN q
            ELSE SkipAll(t, IF In(t, q + 1, {"+", "-"}) THEN q + 2 ELSE q + 1, DigitSet)
    IN IF ~In(t, first, DigitSet) THEN Fail
       ELSE exponent[fraction[SkipAll(t, first, DigitSet)]]

(* Position after the value at or behind p.                                *)
SkipValue(t, p) ==
    LET q == SkipWs(t, p)
    IN IF At(t, q, Quote) THEN SkipString(t, q)
       ELSE IF At(t, q, "{") THEN SkipContainer(t, q, "{", "}")
       ELSE IF At(t, q, "[") THEN SkipContainer(t, q, "[", "]")
       ELSE IF In(t, q, {"true", "false", "null"}) THEN q + 1
       ELSE IF In(t, q, DigitSet \cup {"-"}) THEN NumberEnd(t, q)
       ELSE Fail

(* The string at or behind p: the position after it and its content.       *)
ParseString(t, p) ==
    LET q == SkipWs(t, p)
        end == SkipString(t, q)
    IN [end |-> end, span |-> IF end = Fail THEN NoSpan ELSE <<q + 1, end - 1>>]

Decimal(t, from, to) ==
    LET value[q \in from - 1 .. to - 1] ==
            IF q < from THEN 0 ELSE 10 * value[q - 1] + DigitValue(t[q])
    IN value[to - 1]

(* Faulty variant: the limit is tested before the last digit is added.     *)
ParseIntLate(t, p) ==
    LET q == SkipWs(t, p)
        first == IF At(t, q, "-") THEN q + 1 ELSE q
        end == SkipAll(t, first, DigitSet)
        value == Decimal(t, first, end)
    IN IF ~In(t, first, DigitSet) \/ value \div 10 > IntMax THEN [end |-> Fail, num |-> 0]
       ELSE [end |-> end, num |-> IF At(t, q, "-") THEN -value ELSE value]

(* Only the digits are compared with the largest int, whatever the sign.   *)
ParseInt(t, p) ==
    LET q == SkipWs(t, p)
        first == IF At(t, q, "-") THEN q + 1 ELSE q
        end == SkipAll(t, first, DigitSet)
        value == Decimal(t, first, end)
    IN IF ~In(t, first, DigitSet) \/ value > IntMax THEN [end |-> Fail, num |-> 0]
       ELSE [end |-> end, num |-> IF At(t, q, "-") THEN -value ELSE value]

-----------------------------------------------------------------------------
NewMessage ==
    [method |-> NoSpan, id |-> <<>>, params |-> NoSpan, result |-> NoSpan,
     code |-> 0, message |-> NoSpan,
     request |-> FALSE, response |-> FALSE, error |-> FALSE, valid |-> FALSE]

Spans == Nat \X Nat
Messages ==
    [method : Spans, id : Seq(Int), params : Spans, result : Spans, code : Int, message : Spans,
     request : BOOLEAN, response : BOOLEAN, error : BOOLEAN, valid : BOOLEAN]

(* The name of a member whose key starts at p: that of this model is one   *)
(* element.  And the position behind the colon.                            *)
KeyName(t, p) == IF At(t, p + 2, Quote) THEN t[p + 1] ELSE "other"

KeyEnd(t, p) ==
    LET colon == SkipWs(t, SkipString(t, p))
    IN IF SkipString(t, p) = Fail \/ ~At(t, colon, ":") THEN Fail ELSE colon + 1

(* How far an object has been read: where to go on, and the message so     *)
(* far.  After a value that ends before p that is behind a comma, or at    *)
(* the end of the object.  The message is msg then; a scan that fails      *)
(* leaves it as it was, old (of a string without its end the code keeps    *)
(* where it begins, but no length).                                        *)
Progress == [at : Nat, msg : Messages]

Behind(t) ==
    [p \in Nat |->
        LET next == SkipWs(t, p)
        IN IF p = Fail \/ ~In(t, next, {",", "}"}) THEN Fail
           ELSE IF t[next] = "," THEN next + 1 ELSE next]

After(t, p, old, msg) == [at |-> Behind(t)[p], msg |-> IF p = Fail THEN old ELSE msg]

(* The value at p of a member of the error object.                         *)
ReadErrorMember(t, p, name, msg) ==
    CASE name = "code" -> After(t, ParseInt(t, p).end, msg, [msg EXCEPT !.code = ParseInt(t, p).num])
      [] name = "message" ->
           After(t, ParseString(t, p).end, msg, [msg EXCEPT !.message = ParseString(t, p).span])
      [] OTHER -> After(t, SkipValue(t, p), msg, msg)

(* The error object from p on: members up to the closing brace, which may  *)
(* follow a comma.                                                         *)
ErrorMembers(t, p, msg) ==
    LET rest[s \in Progress] ==
            LET q == SkipWs(t, s.at)
                read[r \in Nat] == ReadErrorMember(t, r, KeyName(t, q), s.msg)
            IN IF s.at = Fail THEN s
               ELSE IF At(t, q, "}")
                    THEN After(t, q + 1, s.msg, [s.msg EXCEPT !.error = TRUE, !.response = TRUE])
               ELSE IF KeyEnd(t, q) = Fail THEN [at |-> Fail, msg |-> s.msg]
               ELSE rest[read[KeyEnd(t, q)]]
    IN rest[[at |-> p, msg |-> msg]]

(* The value at p of a member of the message.                              *)
ReadMember(t, p, name, msg) ==
    LET any == SkipValue(t, p)
        start == SkipWs(t, p)
        string == ParseString(t, p)
        int == ParseInt(t, p)
    IN CASE name = "method" ->
              After(t, string.end, msg, [msg EXCEPT !.method = string.span, !.request = TRUE])
         [] name = "id" -> After(t, int.end, msg, [msg EXCEPT !.id = <<int.num>>])
         [] name = "params" -> After(t, any, msg, [msg EXCEPT !.params = <<start, any>>])
         [] name = "result" ->
              After(t, any, [msg EXCEPT !.response = TRUE],
                    [msg EXCEPT !.result = <<start, any>>, !.response = TRUE])
         [] name = "error" ->
              IF ~At(t, start, "{") THEN [at |-> Fail, msg |-> msg] ELSE ErrorMembers(t, start + 1, msg)
         [] OTHER -> After(t, any, msg, msg)

(* The message from p on, like the error object.  One that is not valid    *)
(* keeps what was read of it.                                              *)
Members(t, p) ==
    LET rest[s \in Progress] ==
            LET q == SkipWs(t, s.at)
                read[r \in Nat] == ReadMember(t, r, KeyName(t, q), s.msg)
            IN IF s.at = Fail THEN [s.msg EXCEPT !.valid = FALSE]
               ELSE IF At(t, q, "}") THEN [s.msg EXCEPT !.valid = TRUE]
               ELSE IF KeyEnd(t, q) = Fail THEN [s.msg EXCEPT !.valid = FALSE]
               ELSE rest[read[KeyEnd(t, q)]]
    IN rest[[at |-> p, msg |-> NewMessage]]

ParseErrorCode == -32700

(* MCPMessage::parse.  What follows the closing brace is not looked at.    *)
Parse(t) ==
    LET open == SkipWs(t, 1)
    IN IF Len(t) > MaxBytes THEN [NewMessage EXCEPT !.code = ParseErrorCode]
       ELSE IF ~At(t, open, "{") THEN NewMessage
       ELSE Members(t, open + 1)

=============================================================================
