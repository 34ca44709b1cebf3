------------------------------ MODULE JsonBuilder ------------------------------
(***************************************************************************)
(* The JSON writer of the toolkit: a text is built call by call.  The      *)
(* caller keeps to the grammar: members in objects, elements in arrays,    *)
(* everything closed in its turn.                                          *)
(***************************************************************************)
EXTENDS JsonBytes, SequencesExt

CONSTANTS
    Calls,        \* the calls that add something: see CallRecords
    Texts,        \* the texts written as strings: sequences of bytes
    Doubles,      \* what "%.15g" makes of the doubles written
    RawValues,    \* the texts written as they are
    MaxCalls      \* bound of the number of calls between two resets

VARIABLES
    buffer,    \* the text built
    nesting,   \* the open containers: for each the member that opened it
    ledger     \* history: the members written, in what, and where their values are

vars == <<buffer, nesting, ledger>>

(* within: the key of the container the caller adds to, "top" for the      *)
(* message itself.                                                         *)
CallRecords ==
    [op : {"field"}, within : STRING, key : STRING, value : Texts]
      \cup [op : {"number"}, within : STRING, key : STRING, value : Int]
      \cup [op : {"double"}, within : STRING, key : STRING, value : Doubles]
      \cup [op : {"bool"}, within : STRING, key : STRING, value : BOOLEAN]
      \cup [op : {"raw"}, within : STRING, key : STRING, value : RawValues]
      \cup [op : {"object", "array"}, within : STRING, key : STRING]
      \cup [op : {"element"}, within : STRING, value : Texts]
      \cup [op : {"rawElement"}, within : STRING, value : RawValues]

ASSUME CallsAssumption == Calls \subseteq CallRecords /\ MaxCalls \in Nat
ASSUME TextsAssumption == Texts \cup Doubles \cup RawValues \subseteq Seq(STRING)

(* Faulty variant: backslashes are written as they are.                    *)
EscapeCharNoBackslash(c) ==
    IF c \in DOMAIN Letter \ {Backslash} THEN <<Backslash, Letter[c]>>
    ELSE IF c \in OtherControls THEN <<Backslash, "u0001">>
    ELSE <<c>>

EscapeChar(c) ==
    IF c \in DOMAIN Letter THEN <<Backslash, Letter[c]>>
    ELSE IF c \in OtherControls THEN <<Backslash, "u0001">>
    ELSE <<c>>

Escaped(s) == LET c == CString(s) IN FlattenSeq([i \in DOMAIN c |-> EscapeChar(c[i])])

NumberText(n) ==
    LET digits[m \in Nat] ==
            IF m < 10 THEN <<Digits[m + 1]>> ELSE Append(digits[m \div 10], Digits[(m % 10) + 1])
    IN IF n < 0 THEN <<"-">> \o digits[-n] ELSE digits[n]

-----------------------------------------------------------------------------
Init ==
    /\ buffer = <<>>
    /\ nesting = <<>>
    /\ ledger = <<>>

(* The comma before a member or element, unless the container has just     *)
(* been opened.                                                            *)
Comma(openers) == IF buffer = <<>> \/ Last(buffer) \in openers THEN <<>> ELSE <<",">>

Container == IF Last(nesting) = 0 THEN "top" ELSE ledger[Last(nesting)].key
InArray == Last(nesting) # 0 /\ ledger[Last(nesting)].op = "array"

(* A call the caller may make here; calls are bounded.                     *)
MayAdd(c) ==
    /\ c \in Calls /\ Len(ledger) < MaxCalls
    /\ nesting # <<>> /\ c.within = Container

(* Add a member; its value is text.  The key is not escaped.               *)
PutMember(c, text, openers) ==
    LET head == Comma(openers) \o <<Quote, c.key, Quote, ":">>
        from == Len(buffer) + Len(head) + 1
    IN /\ MayAdd(c) /\ ~InArray
       /\ buffer' = buffer \o head \o text
       /\ ledger' = Append(ledger, [op |-> c.op, key |-> c.key, parent |-> Last(nesting),
                                    value |-> IF c.op \in {"object", "array"} THEN <<>> ELSE c.value,
                                    from |-> from, to |-> from + Len(text)])

PutElement(c, text) ==
    /\ MayAdd(c) /\ InArray
    /\ buffer' = buffer \o Comma({"["}) \o text
    /\ ledger' = Append(ledger, [op |-> c.op, key |-> "", parent |-> Last(nesting), value |-> c.value,
                                 from |-> Len(buffer') - Len(text) + 1, to |-> Len(buffer') + 1])
    /\ UNCHANGED nesting

StartObject ==
    /\ buffer = <<>>
    /\ buffer' = <<"{">>
    /\ nesting' = <<0>>
    /\ UNCHANGED ledger

EndObject ==
    /\ nesting = <<0>>
    /\ buffer' = Append(buffer, "}")
    /\ nesting' = <<>>
    /\ UNCHANGED ledger

AddField(c) ==
    /\ c.op = "field"
    /\ PutMember(c, <<Quote>> \o Escaped(c.value) \o <<Quote>>, {"{"})
    /\ UNCHANGED nesting

AddFieldNumber(c) ==
    c.op = "number" /\ PutMember(c, NumberText(c.value), {"{"}) /\ UNCHANGED nesting

AddFieldDouble(c) ==
    c.op = "double" /\ PutMember(c, c.value, {"{"}) /\ UNCHANGED nesting

AddFieldBool(c) ==
    /\ c.op = "bool"
    /\ PutMember(c, <<IF c.value THEN "true" ELSE "false">>, {"{"})
    /\ UNCHANGED nesting

AddFieldRaw(c) ==
    c.op = "raw" /\ PutMember(c, c.value, {"{", "["}) /\ UNCHANGED nesting

AddObjectField(c) ==
    /\ c.op = "object"
    /\ PutMember(c, <<"{">>, {"{"})
    /\ nesting' = Append(nesting, Len(ledger) + 1)

AddArrayField(c) ==
    /\ c.op = "array"
    /\ PutMember(c, <<"[">>, {"{"})
    /\ nesting' = Append(nesting, Len(ledger) + 1)

(* Close the innermost container, the message itself apart.                *)
CloseField(op, bracket) ==
    /\ Len(nesting) > 1 /\ ledger[Last(nesting)].op = op
    /\ buffer' = Append(buffer, bracket)
    /\ ledger' = [ledger EXCEPT ![Last(nesting)].to = Len(buffer) + 2]
    /\ nesting' = Front(nesting)

CloseObjectField == CloseField("object", "}")
CloseArrayField == CloseField("array", "]")

AddArrayElement(c) ==
    c.op = "element" /\ PutElement(c, <<Quote>> \o Escaped(c.value) \o <<Quote>>)

AddArrayElementRaw(c) == c.op = "rawElement" /\ PutElement(c, c.value)

Reset ==
    /\ buffer # <<>>
    /\ buffer' = <<>>
    /\ nesting' = <<>>
    /\ ledger' = <<>>

Next ==
    \/ StartObject \/ EndObject \/ CloseObjectField \/ CloseArrayField \/ Reset
    \/ \E c \in Calls :
         \/ AddField(c) \/ AddFieldNumber(c) \/ AddFieldDouble(c) \/ AddFieldBool(c)
         \/ AddFieldRaw(c) \/ AddObjectField(c) \/ AddArrayField(c)
         \/ AddArrayElement(c) \/ AddArrayElementRaw(c)

Spec == Init /\ [][Next]_vars

=============================================================================
