--------------------------- MODULE ParamsExtraction ---------------------------
(***************************************************************************)
(* How the adapter takes a tool's name, its arguments and the credential   *)
(* out of the params of a request: extract_string and extract_value_span   *)
(* search the bytes of a span for the key in quotes.                       *)
(***************************************************************************)
EXTENDS JsonParser

Blanks == {" ", "\t", "\n", "\r"}

(* Faulty variant: the search goes on to the end of the whole line.        *)
LimitOfLine(t, span) == Len(t) + 1

(* The position after the last byte that may be looked at.                 *)
Limit(t, span) == span[2]

SkipBlanks(t, p, limit) == Min({limit} \cup {q \in p .. limit - 1 : t[q] \notin Blanks})

Inside(t, p, limit, c) == p < limit /\ t[p] = c

(* The key stands in quotes at p.                                          *)
KeyAt(t, p, limit, key) ==
    p + 2 < limit /\ t[p] = Quote /\ t[p + 1] = key /\ t[p + 2] = Quote

KeyPlaces(t, span, key) ==
    {p \in span[1] .. Limit(t, span) - 1 : KeyAt(t, p, Limit(t, span), key)}

(* Where the value behind a key at p starts, if a colon follows the key.   *)
ValueBehind(t, p, limit) ==
    LET colon == SkipBlanks(t, p + 3, limit)
    IN IF Inside(t, colon, limit, ":") THEN SkipBlanks(t, colon + 1, limit) ELSE limit

(* The closing quote of the string whose content starts at p.              *)
ClosingQuote(t, p, limit) ==
    LET scan[q \in Nat] ==
            IF q >= limit \/ t[q] = Quote THEN q
            ELSE IF t[q] = Backslash /\ q + 1 < limit THEN scan[q + 2]
            ELSE scan[q + 1]
    IN scan[p]

(* The content of the string behind the first occurrence of the key that   *)
(* is followed by a colon and a string.                                    *)
ExtractString(t, span, key) ==
    LET limit == Limit(t, span)
        hits == {p \in KeyPlaces(t, span, key) :
                   Inside(t, ValueBehind(t, p, limit), limit, Quote)}
        start == ValueBehind(t, Min(hits), limit) + 1
        close == ClosingQuote(t, start, limit)
    IN IF hits = {} \/ close >= limit THEN NoSpan ELSE <<start, close>>

(* Where the raw value that starts at p is taken to end.                   *)
RawStringEnd(t, p, limit) ==
    LET scan[q \in Nat] ==
            IF q >= limit THEN q
            ELSE IF t[q] = Quote THEN q + 1
            ELSE scan[IF t[q] = Backslash THEN q + 2 ELSE q + 1]
    IN scan[p + 1]

RawContainerEnd(t, p, limit, open, close) ==
    LET scan[s \in Nat \X Int] ==
            LET q == s[1]
                depth == s[2]
            IN IF q >= limit THEN q
               ELSE IF t[q] = Quote THEN scan[<<RawStringEnd(t, q, limit), depth>>]
               ELSE IF t[q] = open THEN scan[<<q + 1, depth + 1>>]
               ELSE IF t[q] = close
                    THEN IF depth = 1 THEN q + 1 ELSE scan[<<q + 1, depth - 1>>]
               ELSE scan[<<q + 1, depth>>]
    IN scan[<<p, 0>>]

RawValueEnd(t, p, limit) ==
    CASE t[p] = "{" -> RawContainerEnd(t, p, limit, "{", "}")
      [] t[p] = "[" -> RawContainerEnd(t, p, limit, "[", "]")
      [] t[p] = Quote -> RawStringEnd(t, p, limit)
      [] OTHER -> Min({limit} \cup {q \in p .. limit - 1 : t[q] \in {",", "}", "]"}})

(* Faulty variant: the last occurrence of the key is taken.                *)
ExtractValueSpanLast(t, span, key) ==
    LET limit == Limit(t, span)
        places == KeyPlaces(t, span, key)
        start == ValueBehind(t, Max(places), limit)
    IN IF places = {} \/ start >= limit THEN NoSpan
       ELSE <<start, RawValueEnd(t, start, limit)>>

(* The value behind the first occurrence of the key; nothing if no colon   *)
(* follows that one, whatever comes later.                                 *)
ExtractValueSpan(t, span, key) ==
    LET limit == Limit(t, span)
        places == KeyPlaces(t, span, key)
        start == ValueBehind(t, Min(places), limit)
    IN IF places = {} \/ start >= limit THEN NoSpan
       ELSE <<start, RawValueEnd(t, start, limit)>>

(* extract_auth_token; Empty for none.                                     *)
ExtractAuthToken(t, msg) == ExtractString(t, msg.params, "auth_token")

=============================================================================
