--------------------------- MODULE ResponseSanitizer ---------------------------
(***************************************************************************)
(* What becomes of the response of a tool before it is returned.  Texts    *)
(* are sequences of bytes; the words of the patterns are one element each, *)
(* split where the last letter of an escape can take the place of their    *)
(* first.                                                                  *)
(***************************************************************************)
EXTENDS JsonParser, SequencesExt

CONSTANT MaxResponse   \* max_response_size

ASSUME ResponseAssumption == MaxResponse \in Nat

Refused == <<"error">>   \* an empty text and an error message

InjectionPatterns ==
    {<<"ignore", " ", "previous">>, <<"f", "orget", " ", "about">>, <<"d", "isregard">>,
     <<"override">>, <<"b", "ypass">>, <<"instead", " ", "do", " ", "this">>,
     <<"n", "ow", " ", "you", " ", "are">>, <<"you", " ", "are", " ", "n", "ow">>}

TruncationMark == <<"\n", "[OUTPUT", " ", "TRUNCATED]">>
PathMark == <<"/", "[PATH]">>

Capitals == [c \in {"B", "N", "F", "D"} |->
               CASE c = "B" -> "b" [] c = "N" -> "n" [] c = "F" -> "f" [] OTHER -> "d"]

(* Faulty variant: the case is left as it is.                              *)
LowerNothing(t) == t

Lower(t) == [i \in DOMAIN t |-> IF t[i] \in DOMAIN Capitals THEN Capitals[t[i]] ELSE t[i]]

Occurs(pattern, t, i) ==
    i + Len(pattern) - 1 <= Len(t) /\ SubSeq(t, i, i + Len(pattern) - 1) = pattern

ContainsInjectionPatterns(t) ==
    \E pattern \in InjectionPatterns, i \in DOMAIN t : Occurs(pattern, Lower(t), i)

(* The position of the first space from p on, or behind the end.           *)
PathEnd(t, p) == Min({Len(t) + 1} \cup {q \in p .. Len(t) : t[q] = " "})

(* Only a path at the start, or behind white space, with two slashes.      *)
LooksLikePath(t, p) ==
    /\ t[p] = "/"
    /\ p = 1 \/ In(t, p - 1, Spaces)
    /\ Cardinality({q \in p .. PathEnd(t, p) - 1 : t[q] = "/"}) >= 2

(* redact_paths: from the left; what is put in is not looked at again.     *)
RedactPaths(t) ==
    LET rest[p \in Nat] ==
            IF p > Len(t) THEN <<>>
            ELSE IF LooksLikePath(t, p) THEN PathMark \o rest[PathEnd(t, p)]
            ELSE <<t[p]>> \o rest[p + 1]
    IN rest[1]

(* Faulty variant: backslashes are left alone.                             *)
EscapeControlNoBackslash(c) ==
    IF c \in DOMAIN Codes \ {Backslash} THEN <<Backslash, Codes[c]>> ELSE <<c>>

(* \u0000 and the like are one element behind their backslash, the codes   *)
(* that end in a letter are two.                                           *)
EscapeControl(c) ==
    CASE c \in DOMAIN Codes -> <<Backslash, Codes[c]>>
      [] c = "^[" -> <<Backslash, "u001", "b">>
      [] OTHER -> <<c>>

EscapeControlCharacters(t) == FlattenSeq([i \in DOMAIN t |-> EscapeControl(t[i])])

Truncate(t) == IF Len(t) > MaxResponse THEN SubSeq(t, 1, MaxResponse) \o TruncationMark ELSE t

(* The size, the patterns, the paths, the escapes: in this order.          *)
Sanitize(t, config) ==
    LET cut == Truncate(t)
        redacted == IF config.redact THEN RedactPaths(cut) ELSE cut
    IN IF Len(t) > MaxResponse /\ ~config.truncate THEN Refused
       ELSE IF ContainsInjectionPatterns(cut) THEN Refused
       ELSE IF config.escape THEN EscapeControlCharacters(redacted)
       ELSE redacted

SanitizeConfigs == [truncate : BOOLEAN, redact : BOOLEAN, escape : BOOLEAN]

-----------------------------------------------------------------------------
(* What the content of a JSON string means, with the code of ESC.          *)
Meaning(t) ==
    LET joined[p \in Nat] ==
            IF p > Len(t) THEN <<>>
            ELSE IF Occurs(<<Backslash, "u001", "b">>, t, p) THEN <<"^[">> \o joined[p + 3]
            ELSE IF t[p] = Backslash THEN <<Decoded(t[p + 1])>> \o joined[p + 2]
            ELSE <<t[p]>> \o joined[p + 1]
    IN joined[1]

(* A response that is let through with its control characters escaped can  *)
(* be put between quotes as it is: it is one string to the reader of the   *)
(* toolkit, and means the text that was cut and redacted, so that neither  *)
(* cut nor redaction ever halves an escape.  One that was cut is as long   *)
(* as the limit and the mark before redaction, ends with the last word of  *)
(* the mark, and keeps the whole mark unless a path ran into it.           *)
SanitizedTextIsExact(t) ==
    \A config \in SanitizeConfigs :
      LET r == Sanitize(t, config)
          quoted == <<Quote>> \o r \o <<Quote>>
          cut == Truncate(t)
          meant == IF config.redact THEN RedactPaths(cut) ELSE cut
          told == IF config.escape THEN Meaning(r) ELSE r
      IN r # Refused =>
           /\ config.escape => SkipString(quoted, 1) = Len(quoted) + 1
           /\ told = meant
           /\ Len(t) > MaxResponse =>
                /\ Len(cut) = MaxResponse + Len(TruncationMark)
                /\ IsSuffix(<<" ", "TRUNCATED]">>, told)
                /\ \/ IsSuffix(TruncationMark, told)
                   \/ IsSuffix(PathMark \o <<" ", "TRUNCATED]">>, told)

(* Nothing that is let through means a text with a pattern, in whatever    *)
(* case, or, redacted, one with a path of two slashes at its start or      *)
(* behind white space: neither redaction nor the mark brings about what    *)
(* was looked for before.  The escaped text holds a pattern only where its *)
(* first letter is the last of an escape.  Only slashes make a path: a     *)
(* text without one means what it did, a path of Windows included, though  *)
(* the comment at response_sanitizer.cpp:77 says "Also redact Windows      *)
(* paths".                                                                 *)
ReleasedTextIsClean(t) ==
    \A config \in SanitizeConfigs :
      LET r == Sanitize(t, config)
          told == IF config.escape THEN Meaning(r) ELSE r
          lower(u) == [i \in DOMAIN u |-> IF u[i] \in {"B", "N", "F", "D"} THEN Capitals[u[i]] ELSE u[i]]
          holds(u, i) == \E pattern \in InjectionPatterns : Occurs(pattern, lower(u), i)
      IN r # Refused =>
           /\ \A i \in DOMAIN told : ~holds(told, i)
           /\ config.redact =>
                \A i, j \in DOMAIN told :
                  i < j /\ told[i] = "/" /\ told[j] = "/" /\ (i = 1 \/ told[i - 1] \in Spaces) =>
                    \E k \in i .. j : told[k] = " "
           /\ (\A i \in DOMAIN t : t[i] # "/") => told = Truncate(t)
           /\ \A i \in DOMAIN r : holds(r, i) => i > 1 /\ r[i - 1] \in {Backslash, "u001"}

=============================================================================
