----------------------------- MODULE JsonMessages -----------------------------
(***************************************************************************)
(* Writer, reader and searches together: what JsonBuilder has built,       *)
(* whole or cut off, is given to MCPMessage::parse, and the params of the  *)
(* message to the searches of the adapter.  The ledger of the writer says  *)
(* what they should find.                                                  *)
(***************************************************************************)
EXTENDS JsonBuilder, ParamsExtraction

Message == Parse(buffer)
Whole == nesting = <<>> /\ buffer # <<>>

Span(i) == <<ledger[i].from, ledger[i].to>>
Content(i) == <<ledger[i].from + 1, ledger[i].to - 1>>

Children(i) == {j \in DOMAIN ledger : ledger[j].parent = i}
TopMembers == Children(0)

LastMember(key) == Max({0} \cup {i \in TopMembers : ledger[i].key = key})
LastOfError(key) ==
    Max({0} \cup UNION {{j \in Children(i) : ledger[j].key = key} :
                        i \in {k \in TopMembers : ledger[k].key = "error"}})

-----------------------------------------------------------------------------
(* Nesting told from the text alone: whether a byte stands in a string,    *)
(* behind a backslash in one, or plainly; and the brackets open around it. *)
Openers == {"{", "["}
Closers == {"}", "]"}
Structure == {Quote} \cup Openers \cup Closers

Plain(open) == [mode |-> "plain", open |-> open]
Broken == [mode |-> "broken", open |-> <<>>]
Opener(c) == IF c = "}" THEN "{" ELSE "["

(* What stands open behind the byte c, if s does before it.                *)
Opened(s, c) ==
    CASE s.mode = "escape" -> [s EXCEPT !.mode = "string"]
      [] s.mode = "string" ->
           [s EXCEPT !.mode = CASE c = Quote -> "plain" [] c = Backslash -> "escape"
                                [] OTHER -> "string"]
      [] s.mode = "plain" /\ c = Quote -> [s EXCEPT !.mode = "string"]
      [] s.mode = "plain" /\ c \in Openers -> Plain(Append(s.open, c))
      [] s.mode = "plain" /\ c \in Closers ->
           IF s.open # <<>> /\ Last(s.open) = Opener(c) THEN Plain(Front(s.open)) ELSE Broken
      [] OTHER -> s

(* What stands open before each byte of t, and behind the last one.        *)
OpenAt(t) ==
    LET at[q \in 1 .. Len(t) + 1] ==
            IF q = 1 THEN Plain(<<>>) ELSE Opened(at[q - 1], t[q - 1])
    IN at

(* A number as "%.15g" writes it, point and exp being where its fraction   *)
(* and its exponent begin, and what it makes of one that is not finite.    *)
IsNumber(t) ==
    \E first \in {1, 2}, point, exp \in 1 .. Len(t) + 1 :
      LET digits(p, q) == \A k \in p .. q - 1 : t[k] \in DigitSet
      IN /\ first = 2 <=> At(t, 1, "-")
         /\ first < point /\ point <= exp /\ digits(first, point)
         /\ point < exp => t[point] = "." /\ digits(point + 1, exp)
         /\ exp <= Len(t) =>
              /\ t[exp] \in {"e", "E"}
              /\ digits(IF In(t, exp + 1, {"+", "-"}) THEN exp + 2 ELSE exp + 1, Len(t) + 1)

NotFinite == {<<"nan">>, <<"-", "nan">>, <<"inf">>, <<"-", "inf">>}

(* One JSON value, as far as strings and brackets go.                      *)
IsValue(t) ==
    \/ t \in {<<"true">>, <<"false">>, <<"null">>}
    \/ IsNumber(t)
    \/ /\ In(t, 1, Structure)
       /\ \A q \in 2 .. Len(t) + 1 : OpenAt(t)[q] = Plain(<<>>) <=> q = Len(t) + 1

(* The caller's part of the grammar: keys, which are written as they are,  *)
(* need no escape, and what is given raw is one value.                     *)
ASSUME KeysAssumption == \A c \in Calls : "key" \in DOMAIN c => c.key \notin {Quote, Backslash}
ASSUME DoublesAssumption == \A t \in Doubles : IsNumber(t) \/ t \in NotFinite
ASSUME RawAssumption == \A t \in RawValues : IsValue(t)

(* How many brackets of a kind stand open at once within a span.           *)
Depth(span, open) ==
    LET at == OpenAt(buffer)
        around == Len(at[span[1]].open)
        inside(p) == {k \in around + 1 .. Len(at[p].open) : at[p].open[k] = open}
    IN Max({0} \cup {Cardinality(inside(p)) : p \in span[1] .. span[2]})

(* A value of the depth the reader takes, and of a kind it knows.          *)
AnyValueReadable(i) ==
    /\ \A bracket \in Openers :
         buffer[ledger[i].from] = bracket => Depth(Span(i), bracket) <= MaxDepth
    /\ ledger[i].op = "double" => ledger[i].value \notin NotFinite

StringReadable(i) == At(buffer, ledger[i].from, Quote)

(* An int is one by its text, whichever call wrote it; what it is, is told *)
(* by the ledger if it was written as one.                                 *)
Negative(i) == At(buffer, ledger[i].from, "-")
FirstDigit(i) == IF Negative(i) THEN ledger[i].from + 1 ELSE ledger[i].from
IntOf(i) ==
    LET digits == Decimal(buffer, FirstDigit(i), ledger[i].to)
    IN IF ledger[i].op = "number" THEN ledger[i].value ELSE IF Negative(i) THEN -digits ELSE digits

IntReadable(i) ==
    /\ FirstDigit(i) < ledger[i].to
    /\ \A q \in FirstDigit(i) .. ledger[i].to - 1 : buffer[q] \in DigitSet
    /\ IntOf(i) \in -IntMax .. IntMax

InErrorReadable(i) ==
    CASE ledger[i].key = "code" -> IntReadable(i)
      [] ledger[i].key = "message" -> StringReadable(i)
      [] OTHER -> AnyValueReadable(i)

Readable(i) ==
    CASE ledger[i].key = "method" -> StringReadable(i)
      [] ledger[i].key = "id" -> IntReadable(i)
      [] ledger[i].key = "error" ->
           ledger[i].op = "object" /\ \A j \in Children(i) : InErrorReadable(j)
      [] OTHER -> AnyValueReadable(i)

(* What the reader takes from a message: the id, the code and the spans    *)
(* that were written, the last of several members of one name.             *)
AsWritten(message) ==
    LET spanOf(i) == IF i = 0 THEN NoSpan ELSE Span(i)
        contentOf(i) == IF i = 0 THEN NoSpan ELSE Content(i)
        id == LastMember("id")
        code == LastOfError("code")
    IN /\ message.method = contentOf(LastMember("method"))
       /\ message.id = (IF id = 0 THEN <<>> ELSE <<IntOf(id)>>)
       /\ message.params = spanOf(LastMember("params"))
       /\ message.result = spanOf(LastMember("result"))
       /\ message.code = (IF code = 0 THEN 0 ELSE IntOf(code))
       /\ message.message = contentOf(LastOfError("message"))
       /\ message.request <=> LastMember("method") # 0
       /\ message.error <=> LastMember("error") # 0
       /\ message.response <=> LastMember("error") # 0 \/ LastMember("result") # 0

(* Of an error that is given raw the ledger does not know the members.     *)
ErrorIsKnown == \A i \in TopMembers : ledger[i].key = "error" => ledger[i].op # "raw"

(* The toolkit reads back what it wrote, AsWritten.  A message is refused  *)
(* just when it is too long, or holds a method that is no string, an id or *)
(* code that is no integer or out of range, as the least int is, an error  *)
(* that is no object, a double that is not finite or a value nested too    *)
(* deeply.  One that is too long carries the code of a parse error.  That  *)
(* an id beyond the int is refused is what the code does; the test at      *)
(* TestMcp.cpp:749 has "Max int64 ID parsed".                              *)
MessageRoundTrip ==
    \A message \in {Message} :
      Whole /\ ErrorIsKnown =>
        /\ message.valid <=>
             Len(buffer) <= MaxBytes /\ \A i \in TopMembers : Readable(i)
        /\ message.valid => AsWritten(message)
        /\ Len(buffer) > MaxBytes => message.code = ParseErrorCode

(* A message of which the end is missing, wherever it is cut off, is never *)
(* taken for a message.                                                    *)
PartialMessageIsRefused ==
    /\ \A message \in {Message} : ~Whole => ~message.valid
    /\ Whole => \A text \in {SubSeq(buffer, 1, n) : n \in 0 .. Len(buffer) - 1} : ~Parse(text).valid

-----------------------------------------------------------------------------
SearchedKeys == {"name", "arguments", "auth_token"}
Within(found, span) ==
    found = NoSpan \/ (found[1] \in span[1] .. span[2] /\ found[2] \in found[1] .. span[2])

(* Whatever the params hold, the searches of the adapter return nothing    *)
(* that reaches beyond them: also where they come upon the key inside of a *)
(* string, or skip a byte after a backslash.                               *)
ExtractionStaysInside ==
    \A message \in {Message} :
      message.valid /\ message.params # NoSpan =>
        \A key \in SearchedKeys :
          /\ Within(ExtractString(buffer, message.params, key), message.params)
          /\ Within(ExtractValueSpan(buffer, message.params, key), message.params)

(* A member of the params is found, with exactly the value it was written  *)
(* with, if nothing before it in the params, no nested member and no       *)
(* string, is its name in quotes; a search for a string needs that of what *)
(* comes after it as well if the value is no string.  A name that does not *)
(* occur is not found.                                                     *)
MembersAreFound ==
    \A message \in {Message} :
      message.valid /\ message.params # NoSpan =>
        \A key \in SearchedKeys :
          LET places == KeyPlaces(buffer, message.params, key)
              found == ExtractValueSpan(buffer, message.params, key)
              string == IF key = "auth_token" THEN ExtractAuthToken(buffer, message)
                        ELSE ExtractString(buffer, message.params, key)
          IN /\ places = {} => found = NoSpan /\ string = NoSpan
             /\ \A i \in Children(LastMember("params")) :
                  ledger[i].key = key /\ Min(places) + 4 = ledger[i].from =>
                    /\ found = Span(i)
                    /\ At(buffer, ledger[i].from, Quote) => string = Content(i)
                    /\ ~At(buffer, ledger[i].from, Quote) /\ Cardinality(places) = 1 => string = NoSpan

-----------------------------------------------------------------------------
(* A text written as a string is one string to the reader, ends where the  *)
(* writer ended it, and means what was written up to the first null byte,  *)
(* or to the end if there is none: the writer takes a C string, though     *)
(* test_security_fixes.cpp:41 has "Null byte escaped".  An int is read as  *)
(* the int it is; the reader refuses those of which the digits exceed the  *)
(* largest one, the least int among them.                                  *)
ValuesSurvive ==
    \A i \in DOMAIN ledger :
      /\ ledger[i].op \in {"field", "element"} =>
           LET written == ledger[i].value
               meant == Unescaped(SubSeq(buffer, ledger[i].from + 1, ledger[i].to - 2))
           IN /\ ParseString(buffer, ledger[i].from) = [end |-> ledger[i].to, span |-> Content(i)]
              /\ \E n \in 0 .. Len(written) :
                   /\ meant = SubSeq(written, 1, n)
                   /\ \A k \in 1 .. n : written[k] # Nul
                   /\ n = Len(written) \/ written[n + 1] = Nul
      /\ ledger[i].op = "number" =>
           ParseInt(buffer, ledger[i].from) =
             IF ledger[i].value \in -IntMax .. IntMax
             THEN [end |-> ledger[i].to, num |-> ledger[i].value]
             ELSE [end |-> Fail, num |-> 0]

=============================================================================
