------------------------------ MODULE JsonBytes ------------------------------
(***************************************************************************)
(* Texts as the reader, the writer and the sanitizer of the toolkit see    *)
(* them: sequences of bytes.  Names, literals and the code of a \u escape, *)
(* which are compared, written or skipped as a whole, are one element.     *)
(***************************************************************************)
EXTENDS Integers, Sequences, FiniteSetsExt, TLC

Quote == "\""
Backslash == "\\"
Nul == "^@"
Digits == <<"0", "1", "2", "3", "4", "5", "6", "7", "8", "9">>
DigitSet == {Digits[i] : i \in DOMAIN Digits}

(* Control characters without, and all with, a letter of their own.        *)
OtherControls == {"^A"}
Letter == [c \in {"\n", "\r", "\t", "\f", "^H", Quote, Backslash} |->
             CASE c = "\n" -> "n" [] c = "\r" -> "r" [] c = "\t" -> "t" [] c = "\f" -> "f"
               [] c = "^H" -> "b" [] OTHER -> c]
Controls == OtherControls \cup (DOMAIN Letter \ {Quote, Backslash})

(* What a C string holds of s.                                             *)
CString(s) == SubSeq(s, 1, Min({Len(s)} \cup {i - 1 : i \in {j \in DOMAIN s : s[j] = Nul}}))

(* The escape codes, the control character, or quote or backslash, that    *)
(* one stands for, and what the content t of a JSON string means.          *)
Codes == [c \in DOMAIN Letter \cup OtherControls \cup {Nul} |->
            CASE c = Nul -> "u0000" [] c = "^A" -> "u0001" [] OTHER -> Letter[c]]

Decoded(code) == CHOOSE x \in DOMAIN Codes : Codes[x] = code

Unescaped(t) ==
    LET text[p \in Nat] ==
            IF p > Len(t) THEN <<>>
            ELSE IF t[p] # Backslash THEN <<t[p]>> \o text[p + 1]
            ELSE <<Decoded(t[p + 1])>> \o text[p + 2]
    IN text[1]

=============================================================================
