------------------------- MODULE JsonMessages_proofs -------------------------
(***************************************************************************)
(* What the reader and the searches of the adapter do with every text: the *)
(* scans end inside of the text, what is taken from the params lies in the *)
(* params, a text written as a string is read as what it was, a number     *)
(* written by its digits as the number it was, and no part of a message is *)
(* taken for one.  The scans are recursive functions over positions: that  *)
(* such a function exists, and what it computes, is shown by induction     *)
(* over a measure, the number of bytes left.  And what the writer has      *)
(* built, whole, is read back member by member: the text is laid out as    *)
(* the ledger says, whichever calls were made.                             *)
(***************************************************************************)
EXTENDS JsonMessages, FiniteSetTheorems, SequenceTheorems, TLAPS

(* Every non-empty set of natural numbers has a least element.             *)
LEMMA Least ==
    ASSUME NEW S, S \subseteq Nat, S # {}
    PROVE  \E n \in S : \A k \in S : n <= k
  <1> DEFINE segment(n) == 1 .. n
             T == {segment(n) : n \in S}
             R == StrictSubsetOrdering(Nat)
  <1>1. T \subseteq FiniteSubsetsOf(Nat)
    <2>1. ASSUME NEW n \in S PROVE 1 .. n \in FiniteSubsetsOf(Nat)
      <3>1. n \in Nat
        OBVIOUS
      <3>2. 1 .. n \subseteq Nat
        BY <3>1
      <3>3. IsFiniteSet(1 .. n)
        BY <3>1, 1 \in Int, n \in Int, FS_Interval
      <3> QED
        BY <3>2, <3>3 DEF FiniteSubsetsOf
    <2> QED
      BY <2>1
  <1>2. PICK x \in T : \A y \in T : <<y, x>> \notin R
    <2>1. IsWellFoundedOn(R, FiniteSubsetsOf(Nat))
      BY FS_StrictSubsetOrderingWellFounded
    <2>2. T # {}
      OBVIOUS
    <2> HIDE DEF T, R
    <2> QED
      BY <1>1, <2>1, <2>2, WFMin
  <1>3. PICK n \in S : x = 1 .. n
    BY <1>2
  <1>4. ASSUME NEW k \in S, ~(n <= k) PROVE FALSE
    <2>1. 1 .. k \in T
      OBVIOUS
    <2>2. n \in Nat /\ k \in Nat /\ k < n
      BY <1>4
    <2>3. 1 .. k \subseteq 1 .. n
      BY <2>2
    <2>4. n \in 1 .. n /\ n \notin 1 .. k
      BY <2>2
    <2>5. <<1 .. k, 1 .. n>> \in R
      BY <2>2, <2>3, <2>4 DEF StrictSubsetOrdering
    <2> QED
      BY <1>2, <1>3, <2>1, <2>5
  <1> QED
    BY <1>3, <1>4

(* Induction, for a set of numbers.                                        *)
LEMMA Induction ==
    ASSUME NEW S, 0 \in S, \A n \in Nat : n \in S => n + 1 \in S
    PROVE  Nat \subseteq S
  <1> SUFFICES ASSUME Nat \ S # {} PROVE FALSE
    OBVIOUS
  <1>1. PICK n \in Nat \ S : \A k \in Nat \ S : n <= k
    BY Least, Nat \ S \subseteq Nat
  <1>2. n # 0
    OBVIOUS
  <1>3. n - 1 \in Nat /\ (n - 1) + 1 = n /\ ~(n <= n - 1)
    BY <1>2
  <1>4. n - 1 \in S
    BY <1>1, <1>3
  <1> QED
    BY <1>1, <1>3, <1>4

(* Induction over things that have a measure.                              *)
LEMMA MeasureInduction ==
    ASSUME NEW S, NEW measure \in [S -> Nat], NEW P,
           \A s \in S : (\A r \in S : measure[r] < measure[s] => r \in P) => s \in P
    PROVE  S \subseteq P
  <1> DEFINE Bad == S \ P
             Sizes == {measure[r] : r \in Bad}
  <1> SUFFICES ASSUME Bad # {} PROVE FALSE
    OBVIOUS
  <1>1. Sizes \subseteq Nat
    OBVIOUS
  <1>2. Sizes # {}
    OBVIOUS
  <1>3. PICK k \in Sizes : \A l \in Sizes : k <= l
    <2> HIDE DEF Sizes
    <2> QED
      BY <1>1, <1>2, Least
  <1>4. PICK s \in Bad : measure[s] = k
    BY <1>3
  <1>5. ASSUME NEW r \in S, measure[r] < measure[s] PROVE r \in P
    <2> SUFFICES ASSUME r \in Bad PROVE FALSE
      OBVIOUS
    <2>1. measure[r] \in Sizes
      OBVIOUS
    <2>2. measure[r] \in Nat /\ measure[s] \in Nat /\ measure[s] <= measure[r]
      BY <1>3, <1>4, <2>1
    <2> QED
      BY <1>5, <2>2
  <1> QED
    BY <1>5

(* A function on S with values in T may be defined by Body, what it is at  *)
(* s, if that depends on its values at places of smaller measure only.     *)
Grounded(S, T, measure, Body) ==
    /\ T # {}
    /\ measure \in [S -> Nat]
    /\ Body \in [[S -> T] -> [S -> T]]
    /\ \A f, g \in [S -> T], s \in S :
         (\A r \in S : measure[r] < measure[s] => f[r] = g[r]) => Body[f][s] = Body[g][s]

LEMMA Recursion ==
    ASSUME NEW S, NEW T, NEW measure, NEW Body, Grounded(S, T, measure, Body)
    PROVE  \E f \in [S -> T] : f = Body[f]
  <1> USE DEF Grounded
  <1> DEFINE
        Upto(n) == {s \in S : measure[s] <= n}
        Good(n, f) == f \in [S -> T] /\ \A s \in Upto(n) : f[s] = Body[f][s]
  <1>1. ASSUME NEW a \in Nat, NEW b \in Nat, NEW f, NEW g, Good(a, f), Good(b, g)
        PROVE  \A s \in Upto(a) \cap Upto(b) : f[s] = g[s]
    <2> DEFINE Bad == {r \in Upto(a) \cap Upto(b) : f[r] # g[r]}
               Sizes == {measure[r] : r \in Bad}
    <2> SUFFICES ASSUME Bad # {} PROVE FALSE
      OBVIOUS
    <2>1. PICK k \in Sizes : \A l \in Sizes : k <= l
      <3>1. Sizes \subseteq Nat
        OBVIOUS
      <3>2. Sizes # {}
        OBVIOUS
      <3> HIDE DEF Sizes
      <3> QED
        BY <3>1, <3>2, Least
    <2>2. PICK r \in Bad : measure[r] = k
      BY <2>1
    <2>3. ASSUME NEW p \in S, measure[p] < measure[r] PROVE f[p] = g[p]
      <3>1. measure[p] \in Nat /\ measure[r] \in Nat /\ measure[r] <= a /\ measure[r] <= b
        OBVIOUS
      <3>2. p \in Upto(a) \cap Upto(b)
        BY <3>1, <2>3
      <3>3. p \notin Bad
        <4> SUFFICES ASSUME p \in Bad PROVE FALSE
          OBVIOUS
        <4>1. measure[p] \in Sizes
          OBVIOUS
        <4>2. k <= measure[p]
          BY <4>1, <2>1
        <4> QED
          BY <3>1, <4>2, <2>2, <2>3
      <3> QED
        BY <3>2, <3>3
    <2>4. Body[f][r] = Body[g][r]
      BY <1>1, <2>3
    <2>5. f[r] = Body[f][r] /\ g[r] = Body[g][r]
      BY <1>1
    <2> QED
      BY <2>4, <2>5
  <1>2. \A n \in Nat : \E f : Good(n, f)
    <2> DEFINE N == {n \in Nat : \E f : Good(n, f)}
    <2>1. PICK t : t \in T
      OBVIOUS
    <2> DEFINE e == [s \in S |-> t]
    <2>2. e \in [S -> T]
      BY <2>1
    <2>3. 0 \in N
      <3>1. Good(0, Body[e])
        <4>1. Body[e] \in [S -> T] /\ Body[Body[e]] \in [S -> T]
          BY <2>2
        <4>2. ASSUME NEW s \in Upto(0) PROVE Body[e][s] = Body[Body[e]][s]
          <5>1. measure[s] = 0 /\ \A r \in S : measure[r] \in Nat
            OBVIOUS
          <5>2. \A r \in S : ~(measure[r] < measure[s])
            BY <5>1
          <5> HIDE DEF e
          <5> QED
            BY <5>2, <4>1, <2>2
        <4> QED
          BY <4>1, <4>2
      <3> QED
        BY <3>1
    <2>4. ASSUME NEW n \in Nat, n \in N PROVE n + 1 \in N
      <3>1. PICK f : Good(n, f)
        BY <2>4
      <3>2. Body[f] \in [S -> T] /\ f \in [S -> T]
        BY <3>1
      <3>3. ASSUME NEW s \in Upto(n + 1) PROVE Body[f][s] = Body[Body[f]][s]
        <4>1. \A r \in S : measure[r] \in Nat
          OBVIOUS
        <4>2. \A r \in S : measure[r] < measure[s] => r \in Upto(n)
          BY <4>1
        <4>3. \A r \in S : measure[r] < measure[s] => f[r] = Body[f][r]
          BY <4>2, <3>1
        <4> QED
          BY <3>2, <4>3
      <3>4. n + 1 \in Nat
        OBVIOUS
      <3> QED
        BY <3>2, <3>3, <3>4
    <2> HIDE DEF N
    <2>5. Nat \subseteq N
      BY <2>3, <2>4, Induction
    <2> QED
      BY <2>5 DEF N
  <1> DEFINE F(n) == CHOOSE f : Good(n, f)
             h == [s \in S |-> F(measure[s])[s]]
  <1>3. \A n \in Nat : Good(n, F(n))
    <2> HIDE DEF Good
    <2> QED
      BY <1>2
  <1> HIDE DEF F
  <1>4. \A s \in S : measure[s] \in Nat /\ s \in Upto(measure[s])
    OBVIOUS
  <1>5. h \in [S -> T]
    BY <1>3, <1>4
  <1>6. ASSUME NEW s \in S PROVE h[s] = Body[h][s]
    <2>1. Good(measure[s], F(measure[s]))
      BY <1>3, <1>4
    <2>2. ASSUME NEW r \in S, measure[r] < measure[s] PROVE h[r] = F(measure[s])[r]
      <3>1. Good(measure[r], F(measure[r]))
        BY <1>3, <1>4
      <3>2. r \in Upto(measure[r]) \cap Upto(measure[s])
        BY <1>4, <2>2
      <3>3. F(measure[r])[r] = F(measure[s])[r]
        <4> HIDE DEF Good, Upto
        <4> QED
          BY <1>1, <1>4, <2>1, <3>1, <3>2
      <3> QED
        BY <3>3
    <2>3. Body[h][s] = Body[F(measure[s])][s]
      <3> HIDE DEF h
      <3> QED
        BY <1>5, <2>1, <2>2
    <2> QED
      BY <1>4, <2>1, <2>3
  <1> HIDE DEF h
  <1>7. h = Body[h]
    <2>1. Body[h] \in [S -> T]
      BY <1>5
    <2> QED
      BY <1>5, <1>6, <2>1
  <1> QED
    BY <1>5, <1>7

-----------------------------------------------------------------------------
(* The scans of the reader: whatever bytes a text holds, a scan fails or   *)
(* ends behind where it began and not behind the end of the text.          *)
IsText(t) == Len(t) \in Nat /\ DOMAIN t = 1 .. Len(t)

(* The number of bytes from a position on.                                 *)
BytesLeft(t) == [q \in Nat |-> IF q > Len(t) THEN 0 ELSE Len(t) + 1 - q]

LEMMA BytesLeftType ==
    ASSUME NEW t, IsText(t)
    PROVE  BytesLeft(t) \in [Nat -> Nat]
  BY DEF BytesLeft, IsText

LEMMA FewerBytesLeft ==
    ASSUME NEW t, IsText(t), NEW q \in Nat, NEW r \in Nat, q <= Len(t), q < r
    PROVE  BytesLeft(t)[r] < BytesLeft(t)[q]
  BY DEF BytesLeft, IsText

LEMMA InText ==
    ASSUME NEW t, IsText(t), NEW p \in Nat
    PROVE  /\ \A c : At(t, p, c) => p <= Len(t) /\ p + 1 \in Nat /\ p + 1 <= Len(t) + 1
           /\ \A S : In(t, p, S) => p <= Len(t) /\ p + 1 \in Nat /\ p + 1 <= Len(t) + 1
  BY DEF At, In, IsText

LEMMA MinIsLeast ==
    ASSUME NEW S, S \subseteq Nat, S # {}
    PROVE  Min(S) \in S /\ \A x \in S : Min(S) <= x
  BY Least DEF Min

LEMMA SkipAllBounds ==
    ASSUME NEW t, IsText(t), NEW p \in Nat, NEW S
    PROVE  /\ SkipAll(t, p, S) \in Nat
           /\ SkipAll(t, p, S) <= Len(t) + 1
           /\ p <= Len(t) + 1 \/ SkipAll(t, p, S) <= Len(t) => p <= SkipAll(t, p, S)
           /\ p <= Len(t) /\ t[p] \in S => p < SkipAll(t, p, S)
           /\ \A q \in p .. SkipAll(t, p, S) - 1 : t[q] \in S
  <1> DEFINE stops == {Len(t) + 1} \cup {q \in p .. Len(t) : t[q] \notin S}
             end == Min(stops)
  <1>1. Len(t) \in Nat
    BY DEF IsText
  <1>2. stops \subseteq Nat /\ Len(t) + 1 \in stops
    BY <1>1
  <1>3. end \in stops /\ \A x \in stops : end <= x
    <2> HIDE DEF stops
    <2> QED
      BY <1>2, MinIsLeast
  <1>4. end \in Nat /\ end <= Len(t) + 1 /\ (p <= Len(t) + 1 \/ end <= Len(t) => p <= end)
    BY <1>1, <1>2, <1>3
  <1>5. ASSUME NEW q \in p .. end - 1 PROVE t[q] \in S
    <2>1. q \in p .. Len(t) /\ ~(end <= q)
      BY <1>1, <1>4
    <2> HIDE DEF end
    <2> QED
      BY <1>3, <2>1
  <1>6. ASSUME p <= Len(t), t[p] \in S PROVE p # end
    <2>1. p \notin stops
      BY <1>1, <1>6
    <2> HIDE DEF end, stops
    <2> QED
      BY <1>3, <2>1
  <1>7. SkipAll(t, p, S) = end
    BY DEF SkipAll
  <1> HIDE DEF end
  <1> QED
    BY <1>1, <1>4, <1>5, <1>6, <1>7

(* At one position of a text, or at another behind it.                     *)
LEMMA SkipWsBounds ==
    ASSUME NEW t, IsText(t), NEW p \in Nat
    PROVE  /\ SkipWs(t, p) \in Nat
           /\ SkipWs(t, p) <= Len(t) + 1
           /\ p <= Len(t) + 1 \/ SkipWs(t, p) <= Len(t) => p <= SkipWs(t, p)
  BY SkipAllBounds DEF SkipWs

LEMMA StringEndStep ==
    ASSUME NEW t, IsText(t), NEW p \in Nat
    PROVE  StringEnd(t, p) = IF p > Len(t) THEN Fail
                             ELSE IF t[p] = Quote THEN p + 1
                             ELSE IF t[p] # Backslash THEN StringEnd(t, p + 1)
                             ELSE IF p = Len(t) THEN Fail
                             ELSE StringEnd(t, p + 2)
  <1> DEFINE
        S == Nat
        T == Nat
        left == BytesLeft(t)
        step(f, q) == IF q > Len(t) THEN Fail
                      ELSE IF t[q] = Quote THEN q + 1
                      ELSE IF t[q] # Backslash THEN f[q + 1]
                      ELSE IF q = Len(t) THEN Fail
                      ELSE f[q + 2]
        Body == [f \in [S -> T] |-> [q \in S |-> step(f, q)]]
        end == CHOOSE f : f = [q \in S |-> step(f, q)]
  <1>1. ASSUME NEW g \in [S -> T], NEW q \in S
        PROVE  step(g, q) \in T
    <2>1. g[q + 1] \in Nat /\ g[q + 2] \in Nat /\ q + 1 \in Nat
      OBVIOUS
    <2> QED
      BY <2>1 DEF Fail
  <1>2. ASSUME NEW g \in [S -> T], NEW h \in [S -> T], NEW q \in S,
               \A r \in S : left[r] < left[q] => g[r] = h[r]
        PROVE  step(g, q) = step(h, q)
    <2>1. q <= Len(t) => g[q + 1] = h[q + 1] /\ g[q + 2] = h[q + 2]
      BY <1>2, FewerBytesLeft, q + 1 \in Nat, q + 2 \in Nat, q < q + 1, q < q + 2
    <2>2. q > Len(t) \/ q <= Len(t)
      BY DEF IsText
    <2> QED
      BY <2>1, <2>2
  <1>3. PICK f \in [S -> T] : f = Body[f]
    <2>1. left \in [S -> Nat] /\ T # {}
      BY BytesLeftType
    <2> HIDE DEF step, S, T, left
    <2>2. Grounded(S, T, left, Body)
      BY <1>1, <1>2, <2>1 DEF Grounded
    <2> HIDE DEF Body
    <2> QED
      BY <2>2, Recursion
  <1>4. f = [q \in S |-> step(f, q)]
    BY <1>3
  <1>5. end = [q \in S |-> step(end, q)]
    BY <1>4
  <1>6. end[p] = step(end, p)
    <2> HIDE DEF end, step
    <2> QED
      BY <1>5
  <1>7. StringEnd(t, p) = end[p] /\ StringEnd(t, p + 1) = end[p + 1] /\ StringEnd(t, p + 2) = end[p + 2]
    BY DEF StringEnd
  <1> HIDE DEF end
  <1> QED
    BY <1>6, <1>7

(* Where a scan from p on may end.                                         *)
EndsBehind(t, p, e) == e \in Nat /\ (e # Fail => p < e /\ e <= Len(t) + 1)

LEMMA StringEndBounds ==
    ASSUME NEW t, IsText(t), NEW p \in Nat
    PROVE  /\ EndsBehind(t, p, StringEnd(t, p))
           /\ StringEnd(t, p) # Fail => t[StringEnd(t, p) - 1] = Quote
  <1> DEFINE good(q) == /\ EndsBehind(t, q, StringEnd(t, q))
                        /\ StringEnd(t, q) # Fail => t[StringEnd(t, q) - 1] = Quote
             P == {q \in Nat : good(q)}
  <1>1. ASSUME NEW q \in Nat, \A r \in Nat : BytesLeft(t)[r] < BytesLeft(t)[q] => r \in P
        PROVE  good(q)
    <2>1. Len(t) \in Nat /\ q + 1 \in Nat /\ q + 2 \in Nat
      BY DEF IsText
    <2>2. q <= Len(t) => good(q + 1) /\ good(q + 2)
      BY <1>1, <2>1, FewerBytesLeft, q < q + 1, q < q + 2
    <2>3. q > Len(t) \/ q <= Len(t)
      BY <2>1
    <2> QED
      BY <2>1, <2>2, <2>3, StringEndStep, SMTT(30) DEF EndsBehind, Fail
  <1> HIDE DEF good
  <1>2. Nat \subseteq P
    <2>1. BytesLeft(t) \in [Nat -> Nat]
      BY BytesLeftType
    <2>2. \A q \in Nat : (\A r \in Nat : BytesLeft(t)[r] < BytesLeft(t)[q] => r \in P) => q \in P
      BY <1>1
    <2> HIDE DEF P
    <2> QED
      BY <2>1, <2>2, MeasureInduction
  <1> QED
    BY <1>2 DEF good

LEMMA SkipStringBounds ==
    ASSUME NEW t, IsText(t), NEW p \in Nat
    PROVE  /\ EndsBehind(t, p, SkipString(t, p))
           /\ SkipString(t, p) # Fail =>
                t[SkipString(t, p) - 1] = Quote /\ p \in DOMAIN t /\ p + 1 < SkipString(t, p)
  <1>1. CASE At(t, p, Quote)
    <2>1. SkipString(t, p) = StringEnd(t, p + 1)
      BY <1>1 DEF SkipString
    <2>2. /\ EndsBehind(t, p + 1, StringEnd(t, p + 1))
          /\ StringEnd(t, p + 1) # Fail => t[StringEnd(t, p + 1) - 1] = Quote
      BY StringEndBounds, p + 1 \in Nat
    <2> QED
      BY <1>1, <2>1, <2>2 DEF EndsBehind, IsText, At
  <1>2. CASE ~At(t, p, Quote)
    BY <1>2 DEF SkipString, EndsBehind, Fail
  <1> QED
    BY <1>1, <1>2

-----------------------------------------------------------------------------
(* Containers.                                                             *)
LEMMA ContainerEndStep ==
    ASSUME NEW t, IsText(t), NEW p \in Nat, NEW depth \in Nat, NEW open, NEW close
    PROVE  ContainerEnd(t, p, depth, open, close) =
             IF depth = 0 THEN p
             ELSE IF p > Len(t) THEN Fail
             ELSE IF t[p] = Quote
                  THEN IF SkipString(t, p) = Fail THEN Fail
                       ELSE ContainerEnd(t, SkipString(t, p), depth, open, close)
             ELSE IF t[p] = open
                  THEN IF depth + 1 > MaxDepth THEN Fail
                       ELSE ContainerEnd(t, p + 1, depth + 1, open, close)
             ELSE ContainerEnd(t, p + 1, IF t[p] = close THEN depth - 1 ELSE depth, open, close)
  <1> DEFINE
        S == Nat \X Nat
        T == Nat
        left == [s \in S |-> BytesLeft(t)[s[1]]]
        step(f, q, inside) ==
            IF inside = 0 THEN q
            ELSE IF q > Len(t) THEN Fail
            ELSE IF t[q] = Quote
                 THEN IF SkipString(t, q) = Fail THEN Fail ELSE f[<<SkipString(t, q), inside>>]
            ELSE IF t[q] = open
                 THEN IF inside + 1 > MaxDepth THEN Fail ELSE f[<<q + 1, inside + 1>>]
            ELSE f[<<q + 1, IF t[q] = close THEN inside - 1 ELSE inside>>]
        Body == [f \in [S -> T] |-> [s \in S |-> step(f, s[1], s[2])]]
        end == CHOOSE f : f = [s \in S |-> step(f, s[1], s[2])]
  <1>1. ASSUME NEW g \in [S -> T], NEW q \in Nat, NEW inside \in Nat
        PROVE  step(g, q, inside) \in T
    <2>1. SkipString(t, q) \in Nat /\ Fail \in Nat
      BY SkipStringBounds DEF EndsBehind, Fail
    <2>2. \A r, d \in Nat : g[<<r, d>>] \in Nat
      OBVIOUS
    <2>3. inside # 0 => (IF t[q] = close THEN inside - 1 ELSE inside) \in Nat
      OBVIOUS
    <2>4. inside + 1 \in Nat /\ q + 1 \in Nat
      OBVIOUS
    <2> QED
      BY <2>1, <2>2, <2>3, <2>4
  <1>2. ASSUME NEW g \in [S -> T], NEW h \in [S -> T], NEW q \in Nat, NEW inside \in Nat,
               \A r \in S : left[r] < left[<<q, inside>>] => g[r] = h[r]
        PROVE  step(g, q, inside) = step(h, q, inside)
    <2>1. ASSUME q <= Len(t), NEW r \in Nat, q < r, NEW d \in Nat PROVE g[<<r, d>>] = h[<<r, d>>]
      <3>1. BytesLeft(t)[r] < BytesLeft(t)[q]
        BY <2>1, FewerBytesLeft
      <3> QED
        BY <1>2, <3>1
    <2>2. q > Len(t) \/ q <= Len(t)
      BY DEF IsText
    <2>3. SkipString(t, q) # Fail => SkipString(t, q) \in Nat /\ q < SkipString(t, q)
      BY SkipStringBounds DEF EndsBehind
    <2>4. inside # 0 => (IF t[q] = close THEN inside - 1 ELSE inside) \in Nat
      OBVIOUS
    <2>5. inside + 1 \in Nat /\ q + 1 \in Nat /\ q < q + 1
      OBVIOUS
    <2> QED
      BY <2>1, <2>2, <2>3, <2>4, <2>5
  <1>3. PICK f \in [S -> T] : f = Body[f]
    <2>1. left \in [S -> Nat] /\ T # {}
      BY BytesLeftType
    <2>2. \A s \in S : s = <<s[1], s[2]>> /\ s[1] \in Nat /\ s[2] \in Nat
      OBVIOUS
    <2>3. /\ \A g \in [S -> T], s \in S : step(g, s[1], s[2]) \in T
          /\ \A g, h \in [S -> T], s \in S :
               (\A r \in S : left[r] < left[s] => g[r] = h[r]) => step(g, s[1], s[2]) = step(h, s[1], s[2])
      <3> HIDE DEF step, S, T, left
      <3> QED
        BY <1>1, <1>2, <2>2
    <2> HIDE DEF step, S, T, left
    <2>4. Grounded(S, T, left, Body)
      BY <2>1, <2>3 DEF Grounded
    <2> HIDE DEF Body
    <2> QED
      BY <2>4, Recursion
  <1>4. f = [s \in S |-> step(f, s[1], s[2])]
    BY <1>3
  <1>5. end = [s \in S |-> step(end, s[1], s[2])]
    BY <1>4
  <1>6. end[<<p, depth>>] = step(end, p, depth)
    <2> HIDE DEF end, step
    <2> QED
      BY <1>5
  <1>7. \A r, d : ContainerEnd(t, r, d, open, close) = end[<<r, d>>]
    BY DEF ContainerEnd
  <1> HIDE DEF end
  <1> QED
    BY <1>6, <1>7

LEMMA NothingToClose ==
    ASSUME NEW t, IsText(t), NEW p \in Nat, NEW open, NEW close
    PROVE  ContainerEnd(t, p, 0, open, close) = p
  BY ContainerEndStep, 0 \in Nat

LEMMA ContainerEndBounds ==
    ASSUME NEW t, IsText(t), NEW p \in Nat, NEW depth \in Nat \ {0}, NEW open, NEW close
    PROVE  /\ EndsBehind(t, p, ContainerEnd(t, p, depth, open, close))
           /\ ContainerEnd(t, p, depth, open, close) # Fail =>
                t[ContainerEnd(t, p, depth, open, close) - 1] = close
  <1> DEFINE
        S == Nat \X Nat
        left == [s \in S |-> BytesLeft(t)[s[1]]]
        end(q, d) == ContainerEnd(t, q, d, open, close)
        good(q, d) == d # 0 => EndsBehind(t, q, end(q, d)) /\ (end(q, d) # Fail => t[end(q, d) - 1] = close)
        P == {s \in S : good(s[1], s[2])}
  <1>1. ASSUME NEW q \in Nat, NEW d \in Nat, d # 0,
               \A r \in S : left[r] < left[<<q, d>>] => r \in P
        PROVE  good(q, d)
    <2>1. ASSUME q <= Len(t), NEW r \in Nat, q < r, NEW n \in Nat PROVE good(r, n)
      <3>1. left[<<r, n>>] < left[<<q, d>>]
        BY <2>1, FewerBytesLeft
      <3>2. <<r, n>> \in P
        BY <1>1, <3>1
      <3> QED
        BY <3>2
    <2>2. Len(t) \in Nat /\ q + 1 \in Nat /\ d + 1 \in Nat /\ d - 1 \in Nat
      BY <1>1 DEF IsText
    <2>3. CASE q > Len(t)
      BY <1>1, <2>3, ContainerEndStep DEF EndsBehind, Fail
    <2>4. CASE q <= Len(t) /\ t[q] = Quote
      <3>1. CASE SkipString(t, q) = Fail
        BY <1>1, <2>2, <2>4, <3>1, ContainerEndStep DEF EndsBehind, Fail
      <3>2. CASE SkipString(t, q) # Fail
        <4>1. SkipString(t, q) \in Nat /\ q < SkipString(t, q)
          BY <3>2, SkipStringBounds DEF EndsBehind
        <4>2. good(SkipString(t, q), d) /\ end(q, d) = end(SkipString(t, q), d)
          BY <1>1, <2>1, <2>2, <2>4, <3>2, <4>1, ContainerEndStep
        <4> QED
          BY <1>1, <4>1, <4>2 DEF EndsBehind
      <3> QED
        BY <3>1, <3>2
    <2>5. CASE q <= Len(t) /\ t[q] # Quote /\ t[q] = open
      <3>1. CASE d + 1 > MaxDepth
        BY <1>1, <2>2, <2>5, <3>1, ContainerEndStep DEF EndsBehind, Fail
      <3>2. CASE ~(d + 1 > MaxDepth)
        <4>1. good(q + 1, d + 1) /\ end(q, d) = end(q + 1, d + 1)
          BY <1>1, <2>1, <2>2, <2>5, <3>2, q < q + 1, ContainerEndStep
        <4> QED
          BY <2>2, <4>1, d + 1 # 0 DEF EndsBehind
      <3> QED
        BY <3>1, <3>2
    <2>6. CASE q <= Len(t) /\ t[q] # Quote /\ t[q] # open /\ t[q] = close
      <3>1. good(q + 1, d - 1) /\ end(q, d) = end(q + 1, d - 1)
        BY <1>1, <2>1, <2>2, <2>6, q < q + 1, ContainerEndStep
      <3>2. CASE d - 1 = 0
        <4>1. end(q + 1, 0) = q + 1
          BY <2>2, NothingToClose
        <4>2. end(q, d) = q + 1 /\ (q + 1) - 1 = q
          BY <3>1, <3>2, <4>1
        <4> QED
          BY <2>2, <2>6, <4>2 DEF EndsBehind
      <3>3. CASE d - 1 # 0
        BY <2>2, <3>1, <3>3 DEF EndsBehind
      <3> QED
        BY <3>2, <3>3
    <2>7. CASE q <= Len(t) /\ t[q] # Quote /\ t[q] # open /\ t[q] # close
      <3>1. good(q + 1, d) /\ end(q, d) = end(q + 1, d)
        BY <1>1, <2>1, <2>2, <2>7, q < q + 1, ContainerEndStep
      <3> QED
        BY <1>1, <2>2, <3>1 DEF EndsBehind
    <2> QED
      BY <2>2, <2>3, <2>4, <2>5, <2>6, <2>7
  <1>2. S \subseteq P
    <2>1. left \in [S -> Nat]
      BY BytesLeftType
    <2>2. ASSUME NEW s \in S, \A r \in S : left[r] < left[s] => r \in P PROVE s \in P
      <3>1. s = <<s[1], s[2]>> /\ s[1] \in Nat /\ s[2] \in Nat
        OBVIOUS
      <3>2. good(s[1], s[2])
        <4> HIDE DEF P, left, S, EndsBehind, end
        <4> QED
          BY <1>1, <2>2, <3>1
      <3> QED
        BY <3>2
    <2> HIDE DEF P, left, S
    <2> QED
      BY <2>1, <2>2, MeasureInduction
  <1>3. <<p, depth>> \in P /\ depth # 0
    BY <1>2
  <1> QED
    BY <1>3

LEMMA SkipContainerBounds ==
    ASSUME NEW t, IsText(t), NEW p \in Nat, NEW open, NEW close
    PROVE  /\ EndsBehind(t, p, SkipContainer(t, p, open, close))
           /\ SkipContainer(t, p, open, close) # Fail => t[SkipContainer(t, p, open, close) - 1] = close
  <1> DEFINE e == ContainerEnd(t, p + 1, 1, open, close)
  <1>1. EndsBehind(t, p + 1, e) /\ (e # Fail => t[e - 1] = close)
    BY ContainerEndBounds, p + 1 \in Nat, 1 \in Nat \ {0}
  <1>2. SkipContainer(t, p, open, close) \in {e, Fail}
    BY DEF SkipContainer
  <1> HIDE DEF e
  <1> QED
    BY <1>1, <1>2 DEF EndsBehind, Fail, IsText

-----------------------------------------------------------------------------
(* Numbers, and values of any kind.                                        *)
NumberBytes == DigitSet \cup {"-", "+", ".", "e", "E"}

LEMMA NumberBytesArePlain == \A c \in NumberBytes : c # Backslash /\ c \notin Structure
  <1>1. ASSUME NEW c \in DigitSet PROVE c # Backslash /\ c \notin Structure
    <2>1. c \in {"0", "1", "2", "3", "4", "5", "6", "7", "8", "9"}
      BY <1>1 DEF DigitSet, Digits
    <2> QED
      BY <2>1 DEF Backslash, Structure, Quote, Openers, Closers
  <1>2. ASSUME NEW c \in {"-", "+", ".", "e", "E"} PROVE c # Backslash /\ c \notin Structure
    BY <1>2 DEF Backslash, Structure, Quote, Openers, Closers
  <1> QED
    BY <1>1, <1>2 DEF NumberBytes

(* The bytes from p to q are those of a number.                            *)
NumberTo(t, p, q) ==
    q \in Nat /\ p <= q /\ q <= Len(t) + 1 /\ \A r \in p .. q - 1 : t[r] \in NumberBytes

LEMMA OneMoreByte ==
    ASSUME NEW t, IsText(t), NEW p \in Nat, NEW q \in Nat, NumberTo(t, p, q), In(t, q, NumberBytes)
    PROVE  NumberTo(t, p, q + 1) /\ q <= Len(t)
  <1>1. q <= Len(t) /\ t[q] \in NumberBytes /\ Len(t) \in Nat
    BY DEF In, IsText
  <1>2. \A r \in p .. (q + 1) - 1 : r \in p .. q - 1 \/ r = q
    OBVIOUS
  <1>3. q + 1 \in Nat /\ p <= q + 1 /\ q + 1 <= Len(t) + 1
    BY <1>1 DEF NumberTo
  <1> HIDE DEF NumberBytes
  <1> QED
    BY <1>1, <1>2, <1>3 DEF NumberTo

LEMMA MoreDigits ==
    ASSUME NEW t, IsText(t), NEW p \in Nat, NEW q \in Nat, NumberTo(t, p, q)
    PROVE  NumberTo(t, p, SkipAll(t, q, DigitSet)) /\ q <= SkipAll(t, q, DigitSet)
  <1> DEFINE e == SkipAll(t, q, DigitSet)
  <1>1. e \in Nat /\ e <= Len(t) + 1 /\ q <= e /\ \A r \in q .. e - 1 : t[r] \in DigitSet
    BY SkipAllBounds DEF NumberTo
  <1> HIDE DEF e
  <1>2. DigitSet \subseteq NumberBytes
    BY DEF NumberBytes
  <1>3. \A r \in p .. e - 1 : r \in p .. q - 1 \/ r \in q .. e - 1
    BY <1>1
  <1>4. p <= e
    BY <1>1 DEF NumberTo
  <1>5. NumberTo(t, p, e)
    BY <1>1, <1>2, <1>3, <1>4 DEF NumberTo
  <1> QED
    BY <1>1, <1>5 DEF e

LEMMA NumberEndBounds ==
    ASSUME NEW t, IsText(t), NEW p \in DOMAIN t
    PROVE  /\ EndsBehind(t, p, NumberEnd(t, p))
           /\ NumberEnd(t, p) # Fail => NumberTo(t, p, NumberEnd(t, p))
  <1> DEFINE
        first == IF t[p] = "-" THEN p + 1 ELSE p
        inside(q) == NumberTo(t, p, q) /\ p < q
        fraction == [q \in Nat |-> IF At(t, q, ".") THEN SkipAll(t, q + 1, DigitSet) ELSE q]
        sign(q) == IF In(t, q + 1, {"+", "-"}) THEN q + 2 ELSE q + 1
        exponent == [q \in Nat |-> IF ~In(t, q, {"e", "E"}) THEN q ELSE SkipAll(t, sign(q), DigitSet)]
        whole == SkipAll(t, first, DigitSet)
  <1>1. p \in Nat /\ p <= Len(t) /\ Len(t) \in Nat
    BY DEF IsText
  <1>2. /\ \A q \in Nat : inside(q) /\ In(t, q, NumberBytes) => inside(q + 1)
        /\ \A q \in Nat : inside(q) => inside(SkipAll(t, q, DigitSet))
    <2>1. ASSUME NEW q \in Nat, inside(q), In(t, q, NumberBytes) PROVE inside(q + 1)
      BY <1>1, <2>1, OneMoreByte
    <2>2. ASSUME NEW q \in Nat, inside(q) PROVE inside(SkipAll(t, q, DigitSet))
      <3> DEFINE e == SkipAll(t, q, DigitSet)
      <3>1. NumberTo(t, p, e) /\ q <= e /\ p < q
        BY <1>1, <2>2, MoreDigits
      <3> HIDE DEF e
      <3>2. e \in Nat
        BY <3>1 DEF NumberTo
      <3>3. p < e
        BY <1>1, <3>1, <3>2
      <3> QED
        BY <3>1, <3>3 DEF e
    <2> QED
      BY <2>1, <2>2
  <1>3. ASSUME NEW q \in Nat, inside(q) PROVE inside(fraction[q]) /\ fraction[q] \in Nat
    <2>1. CASE At(t, q, ".")
      <3>1. In(t, q, NumberBytes)
        BY <2>1 DEF At, In, NumberBytes
      <3>2. inside(SkipAll(t, q + 1, DigitSet))
        BY <1>2, <1>3, <3>1, q + 1 \in Nat
      <3> QED
        BY <2>1, <3>2 DEF NumberTo
    <2>2. CASE ~At(t, q, ".")
      BY <1>3, <2>2
    <2> QED
      BY <2>1, <2>2
  <1>4. ASSUME NEW q \in Nat, inside(q) PROVE inside(exponent[q])
    <2>1. CASE In(t, q, {"e", "E"})
      <3>1. In(t, q, NumberBytes)
        BY <2>1 DEF In, NumberBytes
      <3>2. inside(q + 1) /\ q + 1 \in Nat /\ q + 2 \in Nat /\ (q + 1) + 1 = q + 2
        BY <1>2, <1>4, <3>1
      <3>3. inside(sign(q)) /\ sign(q) \in Nat
        <4>1. In(t, q + 1, {"+", "-"}) => In(t, q + 1, NumberBytes)
          BY DEF In, NumberBytes
        <4>2. In(t, q + 1, {"+", "-"}) => inside(q + 2)
          <5> HIDE DEF inside
          <5> QED
            BY <1>2, <3>2, <4>1
        <4> HIDE DEF inside
        <4> QED
          BY <3>2, <4>2
      <3>4. inside(SkipAll(t, sign(q), DigitSet))
        <4> HIDE DEF sign, inside
        <4> QED
          BY <1>2, <3>3
      <3> QED
        BY <2>1, <3>4
    <2>2. CASE ~In(t, q, {"e", "E"})
      BY <1>4, <2>2
    <2> QED
      BY <2>1, <2>2
  <1>5. ASSUME In(t, first, DigitSet) PROVE inside(whole) /\ whole \in Nat
    <2>1. first \in Nat /\ p <= first /\ first <= Len(t) /\ t[first] \in DigitSet
      BY <1>1, <1>5 DEF In, IsText
    <2>2. NumberTo(t, p, first)
      <3>1. NumberTo(t, p, p)
        BY <1>1 DEF NumberTo
      <3>2. t[p] = "-" => In(t, p, NumberBytes)
        BY DEF In, NumberBytes
      <3> QED
        BY <1>1, <3>1, <3>2, OneMoreByte
    <2>3. first < whole
      BY <1>1, <2>1, SkipAllBounds
    <2>4. NumberTo(t, p, whole)
      <3> HIDE DEF first
      <3> QED
        BY <1>1, <2>1, <2>2, MoreDigits
    <2> HIDE DEF whole, first
    <2>5. whole \in Nat
      BY <2>4 DEF NumberTo
    <2>6. p < whole
      BY <1>1, <2>1, <2>3, <2>5
    <2> QED
      BY <2>4, <2>5, <2>6
  <1>6. NumberEnd(t, p) = IF ~In(t, first, DigitSet) THEN Fail ELSE exponent[fraction[whole]]
    BY DEF NumberEnd
  <1> HIDE DEF first, fraction, exponent, whole
  <1>7. CASE In(t, first, DigitSet)
    <2>1. inside(exponent[fraction[whole]])
      BY <1>3, <1>4, <1>5, <1>7
    <2> QED
      BY <1>6, <1>7, <2>1 DEF EndsBehind, NumberTo
  <1>8. CASE ~In(t, first, DigitSet)
    BY <1>6, <1>8 DEF EndsBehind, Fail
  <1> QED
    BY <1>7, <1>8

LEMMA SkipValueBounds ==
    ASSUME NEW t, IsText(t), NEW p \in Nat
    PROVE  /\ EndsBehind(t, SkipWs(t, p), SkipValue(t, p))
           /\ SkipValue(t, p) # Fail => t[SkipValue(t, p) - 1] # Backslash
  <1> DEFINE q == SkipWs(t, p)
             good(e) == EndsBehind(t, q, e) /\ (e # Fail => t[e - 1] # Backslash)
  <1>1. q \in Nat
    BY SkipWsBounds
  <1>2. good(Fail)
    BY DEF EndsBehind, Fail
  <1>3. good(SkipString(t, q))
    <2> HIDE DEF q
    <2> QED
      BY <1>1, SkipStringBounds DEF Quote, Backslash
  <1>4. good(SkipContainer(t, q, "{", "}"))
    <2> HIDE DEF q
    <2> QED
      BY <1>1, SkipContainerBounds DEF Backslash
  <1>5. good(SkipContainer(t, q, "[", "]"))
    <2> HIDE DEF q
    <2> QED
      BY <1>1, SkipContainerBounds DEF Backslash
  <1>6. In(t, q, {"true", "false", "null"}) => good(q + 1)
    <2> HIDE DEF q
    <2>1. (q + 1) - 1 = q
      BY <1>1
    <2> QED
      BY <1>1, <2>1 DEF EndsBehind, In, IsText, Backslash
  <1>7. q \in DOMAIN t => good(NumberEnd(t, q))
    <2> HIDE DEF q
    <2> SUFFICES ASSUME q \in DOMAIN t, NumberEnd(t, q) # Fail PROVE good(NumberEnd(t, q))
      BY NumberEndBounds DEF EndsBehind
    <2> DEFINE e == NumberEnd(t, q)
    <2>1. EndsBehind(t, q, e) /\ NumberTo(t, q, e) /\ e # Fail
      BY NumberEndBounds
    <2> HIDE DEF e
    <2>2. e - 1 \in q .. e - 1
      BY <1>1, <2>1 DEF EndsBehind
    <2>3. t[e - 1] # Backslash
      BY <2>1, <2>2, NumberBytesArePlain DEF NumberTo
    <2> QED
      BY <2>1, <2>3 DEF e
  <1>8. good(SkipValue(t, p))
    <2> HIDE DEF good
    <2> QED
      BY <1>2, <1>3, <1>4, <1>5, <1>6, <1>7 DEF SkipValue, In
  <1> QED
    BY <1>8

LEMMA ParseStringBounds ==
    ASSUME NEW t, IsText(t), NEW p \in Nat
    PROVE  /\ EndsBehind(t, SkipWs(t, p), ParseString(t, p).end)
           /\ ParseString(t, p).span \in Spans
  <1> DEFINE q == SkipWs(t, p)
             e == SkipString(t, q)
  <1>1. q \in Nat
    BY SkipWsBounds
  <1>2. EndsBehind(t, q, e) /\ (e # Fail => q + 1 < e)
    BY <1>1, SkipStringBounds
  <1>3. ParseString(t, p) = [end |-> e, span |-> IF e = Fail THEN NoSpan ELSE <<q + 1, e - 1>>]
    BY DEF ParseString
  <1> HIDE DEF q, e
  <1>4. e # Fail => e - 1 \in Nat /\ q + 1 \in Nat
    BY <1>1, <1>2 DEF EndsBehind
  <1> QED
    BY <1>2, <1>3, <1>4 DEF Spans, NoSpan, q

LEMMA DigitValueType ==
    ASSUME NEW c \in DigitSet
    PROVE  DigitValue(c) \in 0 .. 9
  <1>1. PICK i \in 1 .. 10 : Digits[i] = c
    BY DEF DigitSet, Digits
  <1>2. i - 1 \in 0 .. 9 /\ (i - 1) + 1 = i
    OBVIOUS
  <1>3. \E n \in 0 .. 9 : Digits[n + 1] = c
    BY <1>1, <1>2
  <1> QED
    BY <1>3 DEF DigitValue

LEMMA DecimalType ==
    ASSUME NEW t, NEW from \in Nat \ {0}, NEW to \in Nat, from <= to,
           \A q \in from .. to - 1 : t[q] \in DigitSet
    PROVE  Decimal(t, from, to) \in Nat
  <1> DEFINE
        S == from - 1 .. to - 1
        T == Nat
        size == [q \in S |-> q]
        step(f, q) == IF q < from THEN 0 ELSE 10 * f[q - 1] + DigitValue(t[q])
        Body == [f \in [S -> T] |-> [q \in S |-> step(f, q)]]
        value == CHOOSE f : f = [q \in S |-> step(f, q)]
  <1>1. \A q \in S : q \in Nat /\ (~(q < from) => q - 1 \in S /\ q - 1 < q /\ DigitValue(t[q]) \in Nat)
    BY DigitValueType
  <1>2. ASSUME NEW g \in [S -> T], NEW q \in S
        PROVE  step(g, q) \in T
    BY <1>1
  <1>3. ASSUME NEW g \in [S -> T], NEW h \in [S -> T], NEW q \in S,
               \A r \in S : size[r] < size[q] => g[r] = h[r]
        PROVE  step(g, q) = step(h, q)
    BY <1>1, <1>3
  <1>4. PICK f \in [S -> T] : f = Body[f]
    <2>1. size \in [S -> Nat] /\ T # {}
      BY <1>1
    <2> HIDE DEF step, S, T, size
    <2>2. Grounded(S, T, size, Body)
      BY <1>2, <1>3, <2>1 DEF Grounded
    <2> HIDE DEF Body
    <2> QED
      BY <2>2, Recursion
  <1>5. f = [q \in S |-> step(f, q)]
    BY <1>4
  <1>6. value = [q \in S |-> step(value, q)]
    BY <1>5
  <1>7. \A q \in S : value[q] \in Nat
    <2> DEFINE P == {q \in S : value[q] \in Nat}
    <2>1. ASSUME NEW q \in S, \A r \in S : size[r] < size[q] => r \in P PROVE q \in P
      <3>1. value[q] = step(value, q)
        <4> HIDE DEF value, step, S
        <4> QED
          BY <1>6
      <3>2. ~(q < from) => value[q - 1] \in Nat
        BY <1>1, <2>1
      <3> HIDE DEF value
      <3> QED
        BY <1>1, <3>1, <3>2, SMTT(30)
    <2>2. size \in [S -> Nat]
      BY <1>1
    <2> HIDE DEF P, S, size
    <2>3. S \subseteq P
      BY <2>1, <2>2, MeasureInduction
    <2> QED
      BY <2>3 DEF P
  <1>8. Decimal(t, from, to) = value[to - 1]
    BY DEF Decimal
  <1>9. to - 1 \in S
    OBVIOUS
  <1> HIDE DEF value
  <1> QED
    BY <1>7, <1>8, <1>9

LEMMA ParseIntBounds ==
    ASSUME NEW t, IsText(t), NEW p \in Nat
    PROVE  /\ EndsBehind(t, SkipWs(t, p), ParseInt(t, p).end)
           /\ ParseInt(t, p).num \in Int
  <1> DEFINE
        q == SkipWs(t, p)
        first == IF At(t, q, "-") THEN q + 1 ELSE q
        end == SkipAll(t, first, DigitSet)
        value == Decimal(t, first, end)
  <1>1. q \in Nat
    BY SkipWsBounds
  <1>2. ParseInt(t, p) = IF ~In(t, first, DigitSet) \/ value > IntMax THEN [end |-> Fail, num |-> 0]
                         ELSE [end |-> end, num |-> IF At(t, q, "-") THEN -value ELSE value]
    BY DEF ParseInt
  <1>3. CASE In(t, first, DigitSet)
    <2> HIDE DEF q
    <2>1. first \in Nat \ {0} /\ q <= first /\ first <= Len(t) /\ t[first] \in DigitSet
      BY <1>1, <1>3 DEF In, IsText
    <2> HIDE DEF first
    <2>2. end \in Nat /\ first < end /\ end <= Len(t) + 1 /\ \A r \in first .. end - 1 : t[r] \in DigitSet
      BY <2>1, SkipAllBounds
    <2>3. value \in Int
      <3> HIDE DEF end
      <3>1. first <= end
        BY <2>1, <2>2
      <3> QED
        BY <2>1, <2>2, <3>1, DecimalType
    <2> HIDE DEF end, value
    <2>4. EndsBehind(t, q, end)
      BY <1>1, <2>1, <2>2 DEF EndsBehind
    <2>5. ParseInt(t, p).end \in {Fail, end} /\ ParseInt(t, p).num \in Int
      BY <1>2, <2>3
    <2> QED
      BY <2>4, <2>5 DEF EndsBehind, Fail, q
  <1>4. CASE ~In(t, first, DigitSet)
    BY <1>2, <1>4 DEF EndsBehind, Fail
  <1> QED
    BY <1>3, <1>4

-----------------------------------------------------------------------------
(* Members: each one read leaves fewer bytes to read.                      *)
LEMMA KeyEndBounds ==
    ASSUME NEW t, IsText(t), NEW p \in Nat
    PROVE  EndsBehind(t, p, KeyEnd(t, p))
  <1> DEFINE e == SkipString(t, p)
             colon == SkipWs(t, e)
  <1>1. EndsBehind(t, p, e)
    BY SkipStringBounds
  <1>2. KeyEnd(t, p) = IF e = Fail \/ ~At(t, colon, ":") THEN Fail ELSE colon + 1
    BY DEF KeyEnd
  <1> HIDE DEF e
  <1>3. e # Fail => colon \in Nat /\ e <= colon
    BY <1>1, SkipWsBounds DEF EndsBehind
  <1> HIDE DEF colon
  <1> QED
    BY <1>1, <1>2, <1>3 DEF EndsBehind, At, IsText, Fail

LEMMA KeyBehind ==
    ASSUME NEW t, IsText(t), NEW p \in Nat
    PROVE  EndsBehind(t, p, KeyEnd(t, SkipWs(t, p)))
  <1> DEFINE q == SkipWs(t, p)
  <1>1. q \in Nat /\ (q <= Len(t) => p <= q)
    BY SkipWsBounds
  <1> HIDE DEF q
  <1>2. EndsBehind(t, q, KeyEnd(t, q)) /\ Len(t) \in Nat
    BY <1>1, KeyEndBounds DEF IsText
  <1>3. EndsBehind(t, p, KeyEnd(t, q))
    BY <1>1, <1>2 DEF EndsBehind, Fail
  <1> QED
    BY <1>3 DEF q

LEMMA BraceBehind ==
    ASSUME NEW t, IsText(t), NEW p \in Nat, NEW c, At(t, SkipWs(t, p), c)
    PROVE  SkipWs(t, p) + 1 \in Nat /\ p < SkipWs(t, p) + 1 /\ SkipWs(t, p) + 1 <= Len(t) + 1
  <1> DEFINE q == SkipWs(t, p)
  <1>1. q \in Nat /\ (q <= Len(t) => p <= q)
    BY SkipWsBounds
  <1>2. q <= Len(t) /\ q + 1 <= Len(t) + 1
    BY <1>1, InText
  <1> HIDE DEF q
  <1>3. q + 1 \in Nat /\ p < q + 1 /\ q + 1 <= Len(t) + 1
    BY <1>1, <1>2
  <1> QED
    BY <1>3 DEF q

LEMMA AfterBounds ==
    ASSUME NEW t, IsText(t), NEW p \in Nat, p <= Len(t) + 1, NEW old \in Messages, NEW msg \in Messages
    PROVE  /\ After(t, p, old, msg) \in Progress
           /\ After(t, p, old, msg).msg = IF p = Fail THEN old ELSE msg
           /\ After(t, p, old, msg).at # Fail =>
                /\ p # Fail
                /\ p <= After(t, p, old, msg).at
                /\ After(t, p, old, msg).at <= Len(t) + 1
  <1> DEFINE next == SkipWs(t, p)
             e == Behind(t)[p]
  <1>1. next \in Nat /\ p <= next
    BY SkipWsBounds
  <1>2. e = IF p = Fail \/ ~In(t, next, {",", "}"}) THEN Fail
            ELSE IF t[next] = "," THEN next + 1 ELSE next
    BY DEF Behind
  <1> DEFINE m == IF p = Fail THEN old ELSE msg
  <1>3. After(t, p, old, msg) = [at |-> e, msg |-> m] /\ m \in Messages
    BY DEF After
  <1> HIDE DEF next, e
  <1>4. In(t, next, {",", "}"}) => next <= Len(t)
    BY <1>1, InText
  <1> Len(t) \in Nat
    BY DEF IsText
  <1>5. e \in Nat /\ (e # Fail => p # Fail /\ p <= e /\ e <= Len(t) + 1)
    <2>1. CASE p = Fail \/ ~In(t, next, {",", "}"})
      <3>1. e = 0
        BY <1>2, <2>1 DEF Fail
      <3> QED
        BY <3>1 DEF Fail
    <2>2. CASE p # Fail /\ In(t, next, {",", "}"})
      <3>1. e = next \/ e = next + 1
        BY <1>2, <2>2
      <3>2. next <= Len(t) /\ p # Fail
        BY <1>4, <2>2
      <3> QED
        BY <1>1, <3>1, <3>2
    <2> QED
      BY <2>1, <2>2
  <1> HIDE DEF m
  <1>6. /\ After(t, p, old, msg) \in Progress
        /\ After(t, p, old, msg).msg = m
        /\ After(t, p, old, msg).at = e
    BY <1>3, <1>5 DEF Progress
  <1> QED
    BY <1>5, <1>6 DEF m

(* What is read of a member that starts at p.                              *)
Advances(t, p, s) == s \in Progress /\ EndsBehind(t, p, s.at)

LEMMA ReadErrorMemberBounds ==
    ASSUME NEW t, IsText(t), NEW p \in Nat, p <= Len(t) + 1, NEW name, NEW msg \in Messages
    PROVE  /\ Advances(t, p, ReadErrorMember(t, p, name, msg))
           /\ ReadErrorMember(t, p, name, msg).msg.params = msg.params
  <1> DEFINE good(s) == Advances(t, p, s) /\ s.msg.params = msg.params
  <1>1. p <= SkipWs(t, p)
    BY SkipWsBounds
  <1>2. ASSUME NEW e, EndsBehind(t, SkipWs(t, p), e), NEW m \in Messages, m.params = msg.params
        PROVE  good(After(t, e, msg, m))
    <2>1. e \in Nat /\ e <= Len(t) + 1 /\ (e # Fail => p < e) /\ Len(t) \in Nat
      <3> DEFINE q == SkipWs(t, p)
                 l == Len(t)
      <3>1. q \in Nat
        BY SkipWsBounds
      <3>2. p <= q /\ l \in Nat
        BY <1>1 DEF IsText
      <3>3. e \in Nat /\ (e # 0 => q < e /\ e <= l + 1)
        BY <1>2 DEF EndsBehind, Fail
      <3> HIDE DEF q, l
      <3>4. e \in Nat /\ e <= l + 1 /\ (e # 0 => p < e)
        BY ONLY <3>1, <3>2, <3>3, p \in Nat
      <3> QED
        BY <3>2, <3>4 DEF l, Fail
    <2> DEFINE a == After(t, e, msg, m)
               x == a.at
    <2>2. /\ a \in Progress /\ a.msg \in {msg, m}
          /\ x # Fail => e # Fail /\ e <= x /\ x <= Len(t) + 1
      BY <1>2, <2>1, AfterBounds
    <2> HIDE DEF a
    <2>3. x \in Nat
      BY <2>2 DEF Progress
    <2> HIDE DEF x
    <2>4. EndsBehind(t, p, x)
      BY <2>1, <2>2, <2>3 DEF EndsBehind
    <2> QED
      BY <1>2, <2>2, <2>4 DEF Advances, x, a
  <1>3. good(After(t, ParseInt(t, p).end, msg, [msg EXCEPT !.code = ParseInt(t, p).num]))
    <2>1. [msg EXCEPT !.code = ParseInt(t, p).num] \in Messages
      BY ParseIntBounds DEF Messages
    <2>2. [msg EXCEPT !.code = ParseInt(t, p).num].params = msg.params
      BY DEF Messages
    <2> QED
      BY <1>2, <2>1, <2>2, ParseIntBounds
  <1>4. good(After(t, ParseString(t, p).end, msg, [msg EXCEPT !.message = ParseString(t, p).span]))
    <2>1. [msg EXCEPT !.message = ParseString(t, p).span] \in Messages
      BY ParseStringBounds DEF Messages
    <2>2. [msg EXCEPT !.message = ParseString(t, p).span].params = msg.params
      BY DEF Messages
    <2> QED
      BY <1>2, <2>1, <2>2, ParseStringBounds
  <1>5. good(After(t, SkipValue(t, p), msg, msg))
    BY <1>2, SkipValueBounds
  <1> HIDE DEF good
  <1>6. good(ReadErrorMember(t, p, name, msg))
    BY <1>3, <1>4, <1>5 DEF ReadErrorMember
  <1> QED
    BY <1>6 DEF good

(* The number of bytes left when an object has been read so far.           *)
ObjectLeft(t) == [s \in Progress |-> IF s.at = Fail THEN 0 ELSE BytesLeft(t)[s.at]]

LEMMA ObjectLeftType ==
    ASSUME NEW t, IsText(t)
    PROVE  ObjectLeft(t) \in [Progress -> Nat]
  <1>1. \A s \in Progress : s.at \in Nat
    BY DEF Progress
  <1> QED
    BY <1>1, BytesLeftType DEF ObjectLeft

LEMMA MemberRead ==
    ASSUME NEW t, IsText(t), NEW s \in Progress, s.at # Fail,
           KeyEnd(t, SkipWs(t, s.at)) # Fail,
           NEW r, Advances(t, KeyEnd(t, SkipWs(t, s.at)), r)
    PROVE  Advances(t, s.at, r) /\ ObjectLeft(t)[r] < ObjectLeft(t)[s]
  <1> DEFINE p == s.at
             k == KeyEnd(t, SkipWs(t, p))
             e == r.at
  <1>1. p \in Nat /\ Len(t) \in Nat
    BY DEF Progress, IsText
  <1>2. k \in Nat /\ p < k /\ k <= Len(t) + 1
    BY <1>1, KeyBehind DEF EndsBehind
  <1>3. r \in Progress /\ e \in Nat /\ (e # Fail => k < e /\ e <= Len(t) + 1)
    BY DEF Advances, EndsBehind
  <1>4. /\ ObjectLeft(t)[r] = (IF e = Fail THEN 0 ELSE BytesLeft(t)[e])
        /\ ObjectLeft(t)[s] = (IF p = Fail THEN 0 ELSE BytesLeft(t)[p])
        /\ p # Fail
    BY <1>3 DEF ObjectLeft
  <1> HIDE DEF k, e, p
  <1>5. p <= Len(t) /\ (e # Fail => p < e)
    BY <1>1, <1>2, <1>3
  <1>6. EndsBehind(t, p, e)
    BY <1>3, <1>5 DEF EndsBehind
  <1>7. BytesLeft(t)[k] < BytesLeft(t)[p] /\ BytesLeft(t)[k] \in Nat /\ BytesLeft(t)[p] \in Nat
    BY <1>1, <1>2, <1>5, FewerBytesLeft, BytesLeftType
  <1>8. e # Fail => BytesLeft(t)[e] < BytesLeft(t)[p]
    BY <1>1, <1>3, <1>5, FewerBytesLeft
  <1> QED
    BY <1>3, <1>4, <1>6, <1>7, <1>8 DEF Advances, e, p

(* How the members of the error object are read, one after another.        *)
NextErrorMember(t, s) ==
    ReadErrorMember(t, KeyEnd(t, SkipWs(t, s.at)), KeyName(t, SkipWs(t, s.at)), s.msg)

LEMMA NextErrorMemberBounds ==
    ASSUME NEW t, IsText(t), NEW s \in Progress, KeyEnd(t, SkipWs(t, s.at)) # Fail
    PROVE  /\ Advances(t, KeyEnd(t, SkipWs(t, s.at)), NextErrorMember(t, s))
           /\ NextErrorMember(t, s).msg.params = s.msg.params
  <1>1. s.at \in Nat /\ s.msg \in Messages
    BY DEF Progress
  <1>2. KeyEnd(t, SkipWs(t, s.at)) \in Nat /\ KeyEnd(t, SkipWs(t, s.at)) <= Len(t) + 1
    BY <1>1, KeyBehind DEF EndsBehind
  <1> QED
    BY <1>1, <1>2, ReadErrorMemberBounds DEF NextErrorMember

(* What the closing brace of the error object makes of the message.        *)
TakeError(msg) == [msg EXCEPT !.error = TRUE, !.response = TRUE]

LEMMA TakeErrorType ==
    ASSUME NEW msg \in Messages
    PROVE  TakeError(msg) \in Messages /\ TakeError(msg).params = msg.params
  BY DEF TakeError, Messages

LEMMA ErrorMembersStep ==
    ASSUME NEW t, IsText(t), NEW s \in Progress
    PROVE  ErrorMembers(t, s.at, s.msg) =
             IF s.at = Fail THEN s
             ELSE IF At(t, SkipWs(t, s.at), "}") THEN After(t, SkipWs(t, s.at) + 1, s.msg, TakeError(s.msg))
             ELSE IF KeyEnd(t, SkipWs(t, s.at)) = Fail THEN [at |-> Fail, msg |-> s.msg]
             ELSE ErrorMembers(t, NextErrorMember(t, s).at, NextErrorMember(t, s).msg)
  <1> DEFINE
        S == Progress
        left == ObjectLeft(t)
        ahead(x) == SkipWs(t, x.at)
        read(x) == [r \in Nat |-> ReadErrorMember(t, r, KeyName(t, ahead(x)), x.msg)]
        next(x) == read(x)[KeyEnd(t, ahead(x))]
        step(f, x) == IF x.at = Fail THEN x
                      ELSE IF At(t, ahead(x), "}") THEN After(t, ahead(x) + 1, x.msg, TakeError(x.msg))
                      ELSE IF KeyEnd(t, ahead(x)) = Fail THEN [at |-> Fail, msg |-> x.msg]
                      ELSE f[next(x)]
        Body == [f \in [S -> S] |-> [x \in S |-> step(f, x)]]
        rest == CHOOSE f : f = [x \in S |-> step(f, x)]
  <1>1. ASSUME NEW x \in S
        PROVE  /\ At(t, ahead(x), "}") => After(t, ahead(x) + 1, x.msg, TakeError(x.msg)) \in S
               /\ [at |-> Fail, msg |-> x.msg] \in S
               /\ KeyEnd(t, ahead(x)) # Fail => next(x) = NextErrorMember(t, x) /\ next(x) \in S
               /\ x.at # Fail /\ KeyEnd(t, ahead(x)) # Fail => left[next(x)] < left[x]
    <2>1. x.at \in Nat /\ x.msg \in Messages
      BY DEF Progress
    <2>2. At(t, ahead(x), "}") => After(t, ahead(x) + 1, x.msg, TakeError(x.msg)) \in S
      BY <2>1, BraceBehind, AfterBounds, TakeErrorType
    <2>3. [at |-> Fail, msg |-> x.msg] \in S
      BY <2>1 DEF Progress, Fail
    <2>4. next(x) = NextErrorMember(t, x)
      <3>1. KeyEnd(t, ahead(x)) \in Nat
        BY <2>1, KeyBehind DEF EndsBehind
      <3> QED
        BY <3>1 DEF NextErrorMember
    <2> HIDE DEF next, left
    <2>5. KeyEnd(t, ahead(x)) # Fail => next(x) \in S
      BY <2>4, NextErrorMemberBounds DEF Advances
    <2>6. x.at # Fail /\ KeyEnd(t, ahead(x)) # Fail => left[next(x)] < left[x]
      BY <2>4, NextErrorMemberBounds, MemberRead DEF left
    <2> QED
      BY <2>2, <2>3, <2>4, <2>5, <2>6
  <1>2. PICK f \in [S -> S] : f = Body[f]
    <2>1. left \in [S -> Nat]
      BY ObjectLeftType
    <2>2. S # {}
      OBVIOUS
    <2> HIDE DEF S, left, next, ahead
    <2>3. ASSUME NEW g \in [S -> S], NEW x \in S PROVE step(g, x) \in S
      BY <1>1
    <2>4. ASSUME NEW g \in [S -> S], NEW h \in [S -> S], NEW x \in S,
                 \A r \in S : left[r] < left[x] => g[r] = h[r]
          PROVE  step(g, x) = step(h, x)
      BY <1>1, <2>4
    <2> HIDE DEF step
    <2>5. Grounded(S, S, left, Body)
      BY <2>1, <2>2, <2>3, <2>4 DEF Grounded
    <2> HIDE DEF Body
    <2> QED
      BY <2>5, Recursion
  <1>3. f = [x \in S |-> step(f, x)]
    BY <1>2
  <1>4. rest = [x \in S |-> step(rest, x)]
    BY <1>3
  <1>5. rest[s] = step(rest, s)
    <2> HIDE DEF rest, step
    <2> QED
      BY <1>4
  <1>6. \A p, m : ErrorMembers(t, p, m) = rest[[at |-> p, msg |-> m]]
    BY DEF ErrorMembers, TakeError
  <1> HIDE DEF rest
  <1>7. \A x \in S : rest[x] = ErrorMembers(t, x.at, x.msg)
    BY <1>6 DEF Progress
  <1>8. KeyEnd(t, ahead(s)) # Fail => rest[next(s)] = ErrorMembers(t, next(s).at, next(s).msg)
    BY <1>1, <1>7
  <1>9. ErrorMembers(t, s.at, s.msg) = step(rest, s)
    BY <1>5, <1>7
  <1>10. KeyEnd(t, ahead(s)) # Fail => next(s) = NextErrorMember(t, s)
    BY <1>1
  <1> HIDE DEF next
  <1> QED
    BY <1>8, <1>9, <1>10

LEMMA ErrorMembersBounds ==
    ASSUME NEW t, IsText(t), NEW p \in Nat, NEW msg \in Messages
    PROVE  /\ Advances(t, p, ErrorMembers(t, p, msg))
           /\ ErrorMembers(t, p, msg).msg.params = msg.params
  <1> DEFINE read(s) == ErrorMembers(t, s.at, s.msg)
             good(s) == Advances(t, s.at, read(s)) /\ read(s).msg.params = s.msg.params
             P == {s \in Progress : good(s)}
             left == ObjectLeft(t)
  <1>1. ASSUME NEW s \in Progress, \A r \in Progress : left[r] < left[s] => r \in P
        PROVE  good(s)
    <2> DEFINE q == SkipWs(t, s.at)
               next == NextErrorMember(t, s)
    <2>1. s.at \in Nat /\ s.msg \in Messages
      BY DEF Progress
    <2>2. CASE s.at = Fail
      <3>1. read(s) = s
        BY <2>2, ErrorMembersStep
      <3> QED
        BY <2>2, <3>1 DEF Advances, EndsBehind, Fail
    <2>3. CASE s.at # Fail /\ At(t, q, "}")
      <3>1. read(s) = After(t, q + 1, s.msg, TakeError(s.msg))
        BY <2>3, ErrorMembersStep
      <3>2. q + 1 \in Nat /\ s.at < q + 1 /\ q + 1 <= Len(t) + 1
        BY <2>1, <2>3, BraceBehind
      <3> HIDE DEF q, read
      <3>7. TakeError(s.msg) \in Messages /\ TakeError(s.msg).params = s.msg.params
        BY <2>1, TakeErrorType
      <3>3. /\ read(s) \in Progress /\ read(s).msg \in {s.msg, TakeError(s.msg)}
            /\ read(s).at # Fail => q + 1 <= read(s).at /\ read(s).at <= Len(t) + 1
        BY <2>1, <3>1, <3>2, <3>7, AfterBounds
      <3> DEFINE e == read(s).at
                 c == q + 1
                 a == s.at
      <3>4. e \in Nat
        BY <3>3 DEF Progress
      <3>5. c \in Nat /\ a \in Nat /\ a < c /\ (e # Fail => c <= e /\ e <= Len(t) + 1)
        BY <2>1, <3>2, <3>3
      <3> HIDE DEF e, c, a
      <3>6. EndsBehind(t, a, e)
        BY <3>4, <3>5 DEF EndsBehind
      <3> QED
        BY <3>3, <3>6, <3>7 DEF Advances, a, e
    <2>4. CASE s.at # Fail /\ ~At(t, q, "}") /\ KeyEnd(t, q) = Fail
      <3>1. read(s) = [at |-> Fail, msg |-> s.msg]
        BY <2>4, ErrorMembersStep
      <3> QED
        BY <2>1, <3>1 DEF Advances, EndsBehind, Fail, Progress
    <2>5. CASE s.at # Fail /\ ~At(t, q, "}") /\ KeyEnd(t, q) # Fail
      <3>1. read(s) = read(next)
        BY <2>5, ErrorMembersStep
      <3>2. Advances(t, KeyEnd(t, q), next) /\ next.msg.params = s.msg.params
        BY <2>5, NextErrorMemberBounds
      <3>3. Advances(t, s.at, next) /\ left[next] < left[s]
        BY <2>5, <3>2, MemberRead
      <3>4. next \in Progress /\ next \in P
        BY <1>1, <3>3 DEF Advances
      <3> HIDE DEF read, next
      <3>5. Advances(t, next.at, read(next)) /\ read(next).msg.params = next.msg.params
        BY <3>4
      <3>6. Advances(t, s.at, read(s))
        <4> DEFINE a == s.at
                   b == next.at
                   e == read(next).at
        <4>1. EndsBehind(t, a, b) /\ EndsBehind(t, b, e) /\ a \in Nat /\ read(next) \in Progress
          BY <2>1, <3>3, <3>5 DEF Advances
        <4>2. b = Fail => e = Fail
          <5>1. b = Fail => read(next) = next
            BY <3>4, ErrorMembersStep DEF read
          <5> QED
            BY <5>1
        <4> HIDE DEF a, b, e
        <4>3. EndsBehind(t, a, e)
          BY <4>1, <4>2 DEF EndsBehind
        <4> QED
          BY <3>1, <4>1, <4>3 DEF Advances, a, e
      <3> QED
        BY <3>1, <3>2, <3>5, <3>6
    <2> QED
      BY <2>2, <2>3, <2>4, <2>5
  <1>2. Progress \subseteq P
    <2>1. left \in [Progress -> Nat]
      BY ObjectLeftType
    <2>2. \A s \in Progress : (\A r \in Progress : left[r] < left[s] => r \in P) => s \in P
      <3> HIDE DEF good
      <3> QED
        BY <1>1
    <2> HIDE DEF P, left
    <2> QED
      BY <2>1, <2>2, MeasureInduction
  <1> DEFINE s == [at |-> p, msg |-> msg]
  <1>3. s \in Progress /\ s.at = p /\ s.msg = msg
    BY DEF Progress
  <1>4. good(s)
    BY <1>2, <1>3
  <1> QED
    BY <1>3, <1>4

-----------------------------------------------------------------------------
(* The message: its params are a stretch of the text, which does not end   *)
(* with a backslash, or it has none.                                       *)
GoodSpan(t, span) ==
    /\ span \in Spans
    /\ 0 < span[1] /\ span[1] < span[2] /\ span[2] <= Len(t) + 1
    /\ t[span[2] - 1] # Backslash

GoodParams(t, msg) == msg.params = NoSpan \/ GoodSpan(t, msg.params)

LEMMA AfterAdvances ==
    ASSUME NEW t, IsText(t), NEW p \in Nat \ {0}, p <= Len(t) + 1,
           NEW e, EndsBehind(t, SkipWs(t, p), e), NEW old \in Messages, NEW msg \in Messages
    PROVE  /\ Advances(t, p, After(t, e, old, msg))
           /\ After(t, e, old, msg).msg = IF e = Fail THEN old ELSE msg
  <1> DEFINE a == After(t, e, old, msg).at
             m == IF e = Fail THEN old ELSE msg
             q == SkipWs(t, p)
  <1>1. q \in Nat /\ p <= q /\ Len(t) \in Nat
    BY SkipWsBounds DEF IsText
  <1>2. e \in Nat /\ e <= Len(t) + 1 /\ (e # Fail => q < e)
    <2> HIDE DEF q
    <2> QED
      BY <1>1 DEF EndsBehind, Fail, q
  <1>3. After(t, e, old, msg) \in Progress /\ After(t, e, old, msg).msg = m /\ a \in Nat
    BY <1>2, AfterBounds DEF Progress
  <1>4. a # Fail => e # Fail /\ e <= a /\ a <= Len(t) + 1
    BY <1>2, AfterBounds
  <1> HIDE DEF a, q
  <1>5. EndsBehind(t, p, a)
    BY <1>1, <1>2, <1>3, <1>4 DEF EndsBehind
  <1> QED
    BY <1>3, <1>4, <1>5 DEF Advances, a

LEMMA ValueSpan ==
    ASSUME NEW t, IsText(t), NEW p \in Nat \ {0}, p <= Len(t) + 1
    PROVE  /\ <<SkipWs(t, p), SkipValue(t, p)>> \in Spans
           /\ SkipValue(t, p) # Fail => GoodSpan(t, <<SkipWs(t, p), SkipValue(t, p)>>)
  <1> DEFINE q == SkipWs(t, p)
             e == SkipValue(t, p)
  <1>1. q \in Nat /\ p <= q /\ Len(t) \in Nat
    BY SkipWsBounds DEF IsText
  <1>2. EndsBehind(t, q, e) /\ (e # Fail => t[e - 1] # Backslash)
    BY SkipValueBounds
  <1> HIDE DEF q, e
  <1>3. <<q, e>> \in Spans /\ (e # Fail => GoodSpan(t, <<q, e>>))
    BY <1>1, <1>2 DEF EndsBehind, Spans, GoodSpan
  <1> QED
    BY <1>3 DEF q, e

LEMMA ReadMemberBounds ==
    ASSUME NEW t, IsText(t), NEW p \in Nat \ {0}, p <= Len(t) + 1, NEW name,
           NEW msg \in Messages
    PROVE  /\ Advances(t, p, ReadMember(t, p, name, msg))
           /\ GoodParams(t, msg) => GoodParams(t, ReadMember(t, p, name, msg).msg)
  <1> DEFINE
        any == SkipValue(t, p)
        start == SkipWs(t, p)
        string == ParseString(t, p)
        int == ParseInt(t, p)
        good(s) == Advances(t, p, s) /\ (GoodParams(t, msg) => GoodParams(t, s.msg))
  <1>1. /\ EndsBehind(t, start, any) /\ EndsBehind(t, start, string.end)
        /\ EndsBehind(t, start, int.end)
        /\ string.span \in Spans /\ int.num \in Int
    BY SkipValueBounds, ParseStringBounds, ParseIntBounds
  <1>2. start \in Nat /\ <<start, any>> \in Spans /\ (any # Fail => GoodSpan(t, <<start, any>>))
    BY SkipWsBounds, ValueSpan
  <1> HIDE DEF any, string, int
  <1>3. ASSUME NEW e, EndsBehind(t, start, e), NEW old \in Messages, NEW m \in Messages,
               GoodParams(t, msg) /\ e = Fail => GoodParams(t, old),
               GoodParams(t, msg) /\ e # Fail => GoodParams(t, m)
        PROVE  good(After(t, e, old, m))
    <2>1. /\ Advances(t, p, After(t, e, old, m))
          /\ After(t, e, old, m).msg = IF e = Fail THEN old ELSE m
      BY <1>3, AfterAdvances
    <2> QED
      BY <1>3, <2>1
  <1> HIDE DEF good
  <1>4. good(After(t, string.end, msg, [msg EXCEPT !.method = string.span, !.request = TRUE]))
    <2> DEFINE m == [msg EXCEPT !.method = string.span, !.request = TRUE]
    <2>1. m \in Messages /\ (GoodParams(t, msg) => GoodParams(t, m))
      BY <1>1 DEF Messages, GoodParams
    <2> HIDE DEF m
    <2>2. good(After(t, string.end, msg, m))
      BY <1>1, <1>3, <2>1
    <2> QED
      BY <2>2 DEF m
  <1>5. good(After(t, int.end, msg, [msg EXCEPT !.id = <<int.num>>]))
    <2> DEFINE i == <<int.num>>
               m == [msg EXCEPT !.id = i]
    <2>1. i \in Seq(Int)
      BY <1>1
    <2> HIDE DEF i
    <2>2. m \in Messages /\ (GoodParams(t, msg) => GoodParams(t, m))
      BY <2>1 DEF Messages, GoodParams
    <2> HIDE DEF m
    <2>3. good(After(t, int.end, msg, m))
      BY <1>1, <1>3, <2>2
    <2> QED
      BY <2>3 DEF m, i
  <1>6. good(After(t, any, msg, [msg EXCEPT !.params = <<start, any>>]))
    <2> DEFINE m == [msg EXCEPT !.params = <<start, any>>]
    <2>1. m \in Messages /\ m.params = <<start, any>>
      BY <1>2 DEF Messages
    <2> HIDE DEF m
    <2>2. any # Fail => GoodParams(t, m)
      BY <1>2, <2>1 DEF GoodParams
    <2>3. good(After(t, any, msg, m))
      BY <1>1, <1>3, <2>1, <2>2
    <2> QED
      BY <2>3 DEF m
  <1>7. good(After(t, any, [msg EXCEPT !.response = TRUE],
                   [msg EXCEPT !.result = <<start, any>>, !.response = TRUE]))
    <2> DEFINE old == [msg EXCEPT !.response = TRUE]
               m == [msg EXCEPT !.result = <<start, any>>, !.response = TRUE]
    <2>1. m \in Messages /\ (GoodParams(t, msg) => GoodParams(t, m))
      BY <1>2 DEF Messages, GoodParams
    <2>2. old \in Messages /\ (GoodParams(t, msg) => GoodParams(t, old))
      BY DEF Messages, GoodParams
    <2> HIDE DEF m, old
    <2>3. good(After(t, any, old, m))
      BY <1>1, <1>3, <2>1, <2>2
    <2> QED
      BY <2>3 DEF m, old
  <1>8. good(After(t, any, msg, msg))
    BY <1>1, <1>3
  <1>9. good([at |-> Fail, msg |-> msg])
    BY DEF good, Advances, EndsBehind, Progress, Fail
  <1>10. ASSUME At(t, start, "{")
         PROVE  good(ErrorMembers(t, start + 1, msg))
    <2> DEFINE q == start + 1
               s == ErrorMembers(t, q, msg)
    <2>3. q \in Nat /\ p < q
      BY <1>10, BraceBehind
    <2> HIDE DEF q
    <2>4. Advances(t, q, s) /\ s.msg.params = msg.params
      BY <2>3, ErrorMembersBounds
    <2>5. s \in Progress /\ EndsBehind(t, p, s.at)
      <3> DEFINE e == s.at
      <3>1. EndsBehind(t, q, e)
        BY <2>4 DEF Advances
      <3> HIDE DEF e
      <3>2. EndsBehind(t, p, e)
        BY <2>3, <3>1 DEF EndsBehind
      <3> QED
        BY <2>4, <3>2 DEF Advances, e
    <2>6. GoodParams(t, msg) => GoodParams(t, s.msg)
      BY <2>4 DEF GoodParams
    <2> QED
      BY <2>5, <2>6 DEF good, Advances, q
  <1>11. good(ReadMember(t, p, name, msg))
    BY <1>4, <1>5, <1>6, <1>7, <1>8, <1>9, <1>10 DEF ReadMember, any, string, int
  <1> QED
    BY <1>11 DEF good

(* How the members of the message are read.                                *)
NextMember(t, s) ==
    ReadMember(t, KeyEnd(t, SkipWs(t, s.at)), KeyName(t, SkipWs(t, s.at)), s.msg)

LEMMA NextMemberBounds ==
    ASSUME NEW t, IsText(t), NEW s \in Progress, KeyEnd(t, SkipWs(t, s.at)) # Fail
    PROVE  /\ Advances(t, KeyEnd(t, SkipWs(t, s.at)), NextMember(t, s))
           /\ GoodParams(t, s.msg) => GoodParams(t, NextMember(t, s).msg)
  <1>1. s.at \in Nat /\ s.msg \in Messages
    BY DEF Progress
  <1>2. KeyEnd(t, SkipWs(t, s.at)) \in Nat \ {0} /\ KeyEnd(t, SkipWs(t, s.at)) <= Len(t) + 1
    BY <1>1, KeyBehind DEF EndsBehind, Fail
  <1> QED
    BY <1>1, <1>2, ReadMemberBounds DEF NextMember

LEMMA NoMessageYet == NewMessage \in Messages /\ NewMessage.params = NoSpan /\ ~NewMessage.valid
  <1>1. NoSpan \in Spans /\ <<>> \in Seq(Int)
    BY DEF NoSpan, Spans
  <1> QED
    BY <1>1 DEF NewMessage, Messages

LEMMA TooLong ==
    LET message == [NewMessage EXCEPT !.code = ParseErrorCode]
    IN /\ message \in Messages /\ message.params = NewMessage.params
       /\ ~message.valid /\ message.code = ParseErrorCode
  <1>1. ParseErrorCode \in Int
    BY DEF ParseErrorCode
  <1>2. NewMessage \in Messages /\ ~NewMessage.valid
    BY NoMessageYet
  <1> QED
    BY <1>1, <1>2 DEF Messages

(* What holds of all that is read of a message, member by member, holds of *)
(* the message.                                                            *)
LEMMA MembersInduction ==
    ASSUME NEW t, IsText(t), NEW p \in Nat, NEW Read, NEW Result,
           [at |-> p, msg |-> NewMessage] \in Read,
           \A s \in Progress : s \in Read =>
             IF s.at # Fail /\ At(t, SkipWs(t, s.at), "}") THEN [s.msg EXCEPT !.valid = TRUE] \in Result
             ELSE IF s.at # Fail /\ KeyEnd(t, SkipWs(t, s.at)) # Fail THEN NextMember(t, s) \in Read
             ELSE [s.msg EXCEPT !.valid = FALSE] \in Result
    PROVE  Members(t, p) \in Result
  <1> DEFINE
        S == Progress
        T == Messages
        left == ObjectLeft(t)
        ahead(x) == SkipWs(t, x.at)
        read(x) == [r \in Nat |-> ReadMember(t, r, KeyName(t, ahead(x)), x.msg)]
        next(x) == read(x)[KeyEnd(t, ahead(x))]
        closed(x) == [x.msg EXCEPT !.valid = TRUE]
        refused(x) == [x.msg EXCEPT !.valid = FALSE]
        step(f, x) == IF x.at = Fail THEN refused(x)
                      ELSE IF At(t, ahead(x), "}") THEN closed(x)
                      ELSE IF KeyEnd(t, ahead(x)) = Fail THEN refused(x)
                      ELSE f[next(x)]
        Body == [f \in [S -> T] |-> [x \in S |-> step(f, x)]]
        rest == CHOOSE f : f = [x \in S |-> step(f, x)]
        P == {x \in S : x \in Read => rest[x] \in Result}
  <1>1. NewMessage \in T
    BY NoMessageYet
  <1>2. ASSUME NEW x \in S
        PROVE  /\ closed(x) \in T /\ refused(x) \in T
               /\ KeyEnd(t, ahead(x)) # Fail =>
                    next(x) = NextMember(t, x) /\ next(x) \in S /\ (x.at # Fail => left[next(x)] < left[x])
    <2>1. x.at \in Nat /\ x.msg \in Messages
      BY DEF Progress
    <2>2. closed(x) \in T /\ refused(x) \in T
      BY <2>1 DEF Messages
    <2>3. next(x) = NextMember(t, x)
      <3>1. KeyEnd(t, ahead(x)) \in Nat
        BY <2>1, KeyBehind DEF EndsBehind
      <3> QED
        BY <3>1 DEF NextMember
    <2> HIDE DEF next, left
    <2>4. KeyEnd(t, ahead(x)) # Fail => next(x) \in S
      BY <2>3, NextMemberBounds DEF Advances
    <2>5. x.at # Fail /\ KeyEnd(t, ahead(x)) # Fail => left[next(x)] < left[x]
      BY <2>3, NextMemberBounds, MemberRead DEF left
    <2> QED
      BY <2>2, <2>3, <2>4, <2>5
  <1>3. left \in [S -> Nat]
    BY ObjectLeftType
  <1>4. \A x \in S : x \in Read =>
          IF x.at # Fail /\ At(t, ahead(x), "}") THEN closed(x) \in Result
          ELSE IF x.at # Fail /\ KeyEnd(t, ahead(x)) # Fail THEN NextMember(t, x) \in Read
          ELSE refused(x) \in Result
    OBVIOUS
  <1> HIDE DEF left, next, ahead, closed, refused
  <1>5. PICK f \in [S -> T] : f = Body[f]
    <2> HIDE DEF S, T
    <2>1. ASSUME NEW g \in [S -> T], NEW x \in S PROVE step(g, x) \in T
      BY <1>1, <1>2
    <2>2. ASSUME NEW g \in [S -> T], NEW h \in [S -> T], NEW x \in S,
                 \A r \in S : left[r] < left[x] => g[r] = h[r]
          PROVE  step(g, x) = step(h, x)
      BY <1>2, <2>2
    <2> HIDE DEF step
    <2>3. Grounded(S, T, left, Body)
      BY <1>1, <1>3, <2>1, <2>2, ZenonT(60) DEF Grounded
    <2> HIDE DEF Body
    <2> QED
      BY ONLY <2>3, Recursion
  <1>6. f = [x \in S |-> step(f, x)]
    BY <1>5
  <1>7. rest = [x \in S |-> step(rest, x)]
    BY <1>6
  <1>8. ASSUME NEW x \in S PROVE rest[x] = step(rest, x)
    <2> HIDE DEF rest, step
    <2> QED
      BY <1>7
  <1> HIDE DEF rest
  <1>9. S \subseteq P
    <2>1. ASSUME NEW x \in S, \A r \in S : left[r] < left[x] => r \in P
          PROVE  x \in P
      <3> HIDE DEF S, T
      <3>1. x.at # Fail /\ KeyEnd(t, ahead(x)) # Fail => next(x) \in P /\ next(x) = NextMember(t, x)
        BY <1>2, <2>1
      <3>2. x \in Read => rest[x] \in Result
        BY <1>4, <1>8, <3>1
      <3> QED
        BY <3>2
    <2> HIDE DEF P, S
    <2> QED
      BY <1>3, <2>1, MeasureInduction
  <1>10. Members(t, p) = rest[[at |-> p, msg |-> NewMessage]]
    BY DEF Members, rest, step, next, ahead, closed, refused
  <1>11. [at |-> p, msg |-> NewMessage] \in S
    BY <1>1 DEF Progress
  <1> QED
    BY <1>9, <1>10, <1>11

(* Whatever the text, what comes of it is a message, and its params are a  *)
(* stretch of the text.                                                    *)
LEMMA MembersBounds ==
    ASSUME NEW t, IsText(t), NEW p \in Nat
    PROVE  Members(t, p) \in Messages /\ GoodParams(t, Members(t, p))
  <1> DEFINE Read == {s \in Progress : GoodParams(t, s.msg)}
             Result == {m \in Messages : GoodParams(t, m)}
  <1>1. [at |-> p, msg |-> NewMessage] \in Read
    BY NoMessageYet DEF GoodParams, Progress
  <1>2. ASSUME NEW s \in Progress, s \in Read
        PROVE  /\ [s.msg EXCEPT !.valid = TRUE] \in Result
               /\ [s.msg EXCEPT !.valid = FALSE] \in Result
               /\ KeyEnd(t, SkipWs(t, s.at)) # Fail => NextMember(t, s) \in Read
    <2>1. /\ [s.msg EXCEPT !.valid = TRUE] \in Result
          /\ [s.msg EXCEPT !.valid = FALSE] \in Result
      BY <1>2 DEF Progress, Messages, GoodParams
    <2>2. KeyEnd(t, SkipWs(t, s.at)) # Fail => NextMember(t, s) \in Read
      BY <1>2, NextMemberBounds DEF Advances
    <2> QED
      BY <2>1, <2>2
  <1> HIDE DEF Read, Result
  <1>3. Members(t, p) \in Result
    BY <1>1, <1>2, MembersInduction
  <1> QED
    BY <1>3 DEF Result

(* MCPMessage::parse.                                                      *)
LEMMA ParseBounds ==
    ASSUME NEW t, IsText(t)
    PROVE  Parse(t) \in Messages /\ GoodParams(t, Parse(t))
  <1> DEFINE q == SkipWs(t, 1) + 1
             tooLong == [NewMessage EXCEPT !.code = ParseErrorCode]
  <1>1. q \in Nat
    BY SkipWsBounds
  <1>2. NewMessage \in Messages /\ GoodParams(t, NewMessage)
    BY NoMessageYet DEF GoodParams
  <1>3. tooLong \in Messages /\ GoodParams(t, tooLong)
    BY <1>2, TooLong DEF GoodParams
  <1>4. Parse(t) \in {tooLong, NewMessage, Members(t, q)}
    BY DEF Parse
  <1> HIDE DEF q, tooLong
  <1> QED
    BY <1>1, <1>2, <1>3, <1>4, MembersBounds

-----------------------------------------------------------------------------
(* The searches of the adapter: whatever bytes a stretch of text holds, a  *)
(* search stays in it.                                                     *)
LEMMA SkipBlanksBounds ==
    ASSUME NEW t, NEW limit \in Nat, NEW p \in Nat, p <= limit
    PROVE  SkipBlanks(t, p, limit) \in p .. limit
  <1> DEFINE stops == {limit} \cup {q \in p .. limit - 1 : t[q] \notin Blanks}
  <1>1. stops \subseteq p .. limit /\ stops # {} /\ p .. limit \subseteq Nat
    OBVIOUS
  <1> HIDE DEF stops
  <1>2. Min(stops) \in stops
    BY <1>1, MinIsLeast
  <1> QED
    BY <1>1, <1>2 DEF SkipBlanks, stops

LEMMA ValueBehindBounds ==
    ASSUME NEW t, NEW limit \in Nat, NEW p \in Nat, p + 2 < limit
    PROVE  ValueBehind(t, p, limit) \in p .. limit
  <1> DEFINE colon == SkipBlanks(t, p + 3, limit)
             behind == SkipBlanks(t, colon + 1, limit)
  <1>1. colon \in p + 3 .. limit
    BY SkipBlanksBounds, p + 3 \in Nat, p + 3 <= limit
  <1> HIDE DEF colon
  <1>2. colon < limit => behind \in colon + 1 .. limit
    BY <1>1, SkipBlanksBounds, colon + 1 \in Nat
  <1> HIDE DEF behind
  <1>3. ValueBehind(t, p, limit) = IF Inside(t, colon, limit, ":") THEN behind ELSE limit
    BY DEF ValueBehind, colon, behind
  <1> QED
    BY <1>1, <1>2, <1>3 DEF Inside

(* The number of bytes up to the limit.                                    *)
Ahead(limit) == [q \in Nat |-> IF q >= limit THEN 0 ELSE limit - q]

LEMMA AheadType ==
    ASSUME NEW limit \in Nat
    PROVE  Ahead(limit) \in [Nat -> Nat]
  BY DEF Ahead

LEMMA FewerAhead ==
    ASSUME NEW limit \in Nat, NEW q \in Nat, NEW r \in Nat, q < limit, q < r
    PROVE  Ahead(limit)[r] < Ahead(limit)[q]
  BY DEF Ahead

LEMMA ClosingQuoteStep ==
    ASSUME NEW t, NEW limit \in Nat, NEW p \in Nat
    PROVE  ClosingQuote(t, p, limit) =
             IF p >= limit \/ t[p] = Quote THEN p
             ELSE IF t[p] = Backslash /\ p + 1 < limit THEN ClosingQuote(t, p + 2, limit)
             ELSE ClosingQuote(t, p + 1, limit)
  <1> DEFINE
        S == Nat
        T == Nat
        left == Ahead(limit)
        step(f, q) == IF q >= limit \/ t[q] = Quote THEN q
                      ELSE IF t[q] = Backslash /\ q + 1 < limit THEN f[q + 2]
                      ELSE f[q + 1]
        Body == [f \in [S -> T] |-> [q \in S |-> step(f, q)]]
        scan == CHOOSE f : f = [q \in S |-> step(f, q)]
  <1>1. ASSUME NEW g \in [S -> T], NEW q \in S PROVE step(g, q) \in T
    <2>1. g[q + 1] \in Nat /\ g[q + 2] \in Nat
      OBVIOUS
    <2> QED
      BY <2>1
  <1>2. ASSUME NEW q \in S, q < limit PROVE left[q + 1] < left[q] /\ left[q + 2] < left[q]
    BY <1>2, FewerAhead, q + 1 \in Nat, q + 2 \in Nat, q < q + 1, q < q + 2
  <1>3. left \in [S -> Nat]
    BY AheadType
  <1> HIDE DEF left
  <1>4. PICK f \in [S -> T] : f = Body[f]
    <2>1. ASSUME NEW g \in [S -> T], NEW h \in [S -> T], NEW q \in S,
                 \A r \in S : left[r] < left[q] => g[r] = h[r]
          PROVE  step(g, q) = step(h, q)
      <3>1. q < limit => g[q + 1] = h[q + 1] /\ g[q + 2] = h[q + 2]
        BY <1>2, <2>1, q + 1 \in Nat, q + 2 \in Nat
      <3>2. q >= limit \/ q < limit
        OBVIOUS
      <3> QED
        BY <3>1, <3>2
    <2>2. T # {}
      OBVIOUS
    <2> HIDE DEF step, S, T
    <2>3. Grounded(S, T, left, Body)
      BY <1>1, <1>3, <2>1, <2>2 DEF Grounded
    <2> HIDE DEF Body
    <2> QED
      BY <2>3, Recursion
  <1>5. f = [q \in S |-> step(f, q)]
    BY <1>4
  <1>6. scan = [q \in S |-> step(scan, q)]
    BY <1>5
  <1>7. ASSUME NEW q \in S PROVE scan[q] = step(scan, q)
    <2> HIDE DEF scan, step
    <2> QED
      BY <1>6
  <1>8. \A q \in Nat : ClosingQuote(t, q, limit) = scan[q]
    BY DEF ClosingQuote
  <1>9. p + 1 \in Nat /\ p + 2 \in Nat
    OBVIOUS
  <1> HIDE DEF scan
  <1> QED
    BY <1>7, <1>8, <1>9

LEMMA ClosingQuoteBounds ==
    ASSUME NEW t, NEW limit \in Nat, NEW p \in Nat, p <= limit
    PROVE  ClosingQuote(t, p, limit) \in p .. limit
  <1> DEFINE scan(q) == ClosingQuote(t, q, limit)
             left == Ahead(limit)
             P == {q \in Nat : q <= limit => scan(q) \in q .. limit}
  <1>1. ASSUME NEW q \in Nat, \A r \in Nat : left[r] < left[q] => r \in P PROVE q \in P
    <2>1. q < limit => left[q + 1] < left[q] /\ left[q + 2] < left[q]
      BY FewerAhead, q + 1 \in Nat, q + 2 \in Nat, q < q + 1, q < q + 2
    <2> HIDE DEF left
    <2>2. q < limit => q + 1 \in P /\ q + 2 \in P
      BY <1>1, <2>1, q + 1 \in Nat, q + 2 \in Nat
    <2>3. q + 1 < limit => scan(q + 2) \in q + 2 .. limit
      BY <2>2
    <2>4. q < limit => scan(q + 1) \in q + 1 .. limit
      BY <2>2
    <2>5. scan(q) = IF q >= limit \/ t[q] = Quote THEN q
                    ELSE IF t[q] = Backslash /\ q + 1 < limit THEN scan(q + 2) ELSE scan(q + 1)
      BY ClosingQuoteStep
    <2> HIDE DEF scan
    <2> QED
      BY <2>3, <2>4, <2>5
  <1>2. left \in [Nat -> Nat]
    BY AheadType
  <1> HIDE DEF P, left
  <1>3. Nat \subseteq P
    BY <1>1, <1>2, MeasureInduction
  <1> QED
    BY <1>3 DEF P

(* Of a raw value the byte after a backslash is skipped: that stays within *)
(* the limit as no backslash stands right before it.                       *)
LEMMA RawStringEndStep ==
    ASSUME NEW t, NEW limit \in Nat, NEW p \in Nat
    PROVE  RawStringEnd(t, p, limit) =
             IF p + 1 >= limit THEN p + 1
             ELSE IF t[p + 1] = Quote THEN p + 2
             ELSE RawStringEnd(t, IF t[p + 1] = Backslash THEN p + 2 ELSE p + 1, limit)
  <1> DEFINE
        S == Nat
        T == Nat
        left == Ahead(limit)
        step(f, q) == IF q >= limit THEN q
                      ELSE IF t[q] = Quote THEN q + 1
                      ELSE f[IF t[q] = Backslash THEN q + 2 ELSE q + 1]
        Body == [f \in [S -> T] |-> [q \in S |-> step(f, q)]]
        scan == CHOOSE f : f = [q \in S |-> step(f, q)]
  <1>1. ASSUME NEW g \in [S -> T], NEW q \in S PROVE step(g, q) \in T
    <2>1. g[q + 1] \in Nat /\ g[q + 2] \in Nat
      OBVIOUS
    <2> QED
      BY <2>1
  <1>2. ASSUME NEW q \in S, q < limit PROVE left[q + 1] < left[q] /\ left[q + 2] < left[q]
    BY <1>2, FewerAhead, q + 1 \in Nat, q + 2 \in Nat, q < q + 1, q < q + 2
  <1>3. left \in [S -> Nat]
    BY AheadType
  <1> HIDE DEF left
  <1>4. PICK f \in [S -> T] : f = Body[f]
    <2>1. ASSUME NEW g \in [S -> T], NEW h \in [S -> T], NEW q \in S,
                 \A r \in S : left[r] < left[q] => g[r] = h[r]
          PROVE  step(g, q) = step(h, q)
      <3>1. q < limit => g[q + 1] = h[q + 1] /\ g[q + 2] = h[q + 2]
        BY <1>2, <2>1, q + 1 \in Nat, q + 2 \in Nat
      <3>2. q >= limit \/ q < limit
        OBVIOUS
      <3> QED
        BY <3>1, <3>2
    <2>2. T # {}
      OBVIOUS
    <2> HIDE DEF step, S, T
    <2>3. Grounded(S, T, left, Body)
      BY <1>1, <1>3, <2>1, <2>2 DEF Grounded
    <2> HIDE DEF Body
    <2> QED
      BY <2>3, Recursion
  <1>5. f = [q \in S |-> step(f, q)]
    BY <1>4
  <1>6. scan = [q \in S |-> step(scan, q)]
    BY <1>5
  <1>7. ASSUME NEW q \in S PROVE scan[q] = step(scan, q)
    <2> HIDE DEF scan, step
    <2> QED
      BY <1>6
  <1>8. \A q \in Nat : RawStringEnd(t, q, limit) = scan[q + 1]
    BY DEF RawStringEnd
  <1>9. p + 1 \in Nat /\ p + 2 \in Nat /\ (p + 1) + 1 = p + 2 /\ (p + 2) + 1 = (p + 1) + 2
    OBVIOUS
  <1> HIDE DEF scan
  <1> QED
    BY <1>7, <1>8, <1>9

LEMMA RawStringEndBounds ==
    ASSUME NEW t, NEW limit \in Nat, NEW p \in Nat, p < limit, t[limit - 1] # Backslash
    PROVE  RawStringEnd(t, p, limit) \in p + 1 .. limit
  <1> DEFINE scan(q) == RawStringEnd(t, q, limit)
             left == Ahead(limit)
             P == {q \in Nat : q < limit => scan(q) \in q + 1 .. limit}
  <1>1. ASSUME NEW q \in Nat, \A r \in Nat : left[r] < left[q] => r \in P PROVE q \in P
    <2>1. q < limit => left[q + 1] < left[q] /\ left[q + 2] < left[q]
      BY FewerAhead, q + 1 \in Nat, q + 2 \in Nat, q < q + 1, q < q + 2
    <2> HIDE DEF left
    <2>2. q < limit => q + 1 \in P /\ q + 2 \in P
      BY <1>1, <2>1, q + 1 \in Nat, q + 2 \in Nat
    <2>3. q + 2 < limit => scan(q + 2) \in q + 3 .. limit
      BY <2>2
    <2>4. q + 1 < limit => scan(q + 1) \in q + 2 .. limit
      BY <2>2
    <2>5. scan(q) = IF q + 1 >= limit THEN q + 1
                    ELSE IF t[q + 1] = Quote THEN q + 2
                    ELSE scan(IF t[q + 1] = Backslash THEN q + 2 ELSE q + 1)
      BY RawStringEndStep
    <2>6. q + 1 < limit /\ t[q + 1] = Backslash => q + 2 < limit
      <3>1. limit - 1 \in Int /\ (q + 1 = limit - 1 => t[q + 1] # Backslash)
        OBVIOUS
      <3> QED
        BY <3>1
    <2> HIDE DEF scan
    <2>7. CASE q + 1 < limit /\ t[q + 1] # Quote /\ t[q + 1] = Backslash
      BY <2>3, <2>5, <2>6, <2>7
    <2>8. CASE q + 1 < limit /\ t[q + 1] # Quote /\ t[q + 1] # Backslash
      BY <2>4, <2>5, <2>8
    <2>9. CASE q + 1 >= limit \/ t[q + 1] = Quote
      BY <2>5, <2>9
    <2> QED
      BY <2>7, <2>8, <2>9
  <1>2. left \in [Nat -> Nat]
    BY AheadType
  <1> HIDE DEF P, left
  <1>3. Nat \subseteq P
    BY <1>1, <1>2, MeasureInduction
  <1> QED
    BY <1>3 DEF P

(* One step of the search for the end of a container, f being the search.  *)
RawStep(t, limit, open, close, f, q, depth) ==
    IF q >= limit THEN q
    ELSE IF t[q] = Quote THEN f[<<RawStringEnd(t, q, limit), depth>>]
    ELSE IF t[q] = open THEN f[<<q + 1, depth + 1>>]
    ELSE IF t[q] = close
         THEN IF depth = 1 THEN q + 1 ELSE f[<<q + 1, depth - 1>>]
    ELSE f[<<q + 1, depth>>]

(* The whole search, as a function of position and depth.                 *)
RawScan(t, limit, open, close, scan) ==
    /\ \A q \in Nat, depth \in Int :
         scan[<<q, depth>>] = RawStep(t, limit, open, close, scan, q, depth)
    /\ \A p \in Nat : RawContainerEnd(t, p, limit, open, close) = scan[<<p, 0>>]

LEMMA RawContainerReads ==
    ASSUME NEW t, NEW limit \in Nat, limit > 0 => t[limit - 1] # Backslash, NEW open, NEW close
    PROVE  \E scan : RawScan(t, limit, open, close, scan)
  <1> DEFINE
        S == Nat \X Int
        T == Nat
        left == [s \in S |-> Ahead(limit)[s[1]]]
        step(f, q, depth) ==
            IF q >= limit THEN q
            ELSE IF t[q] = Quote THEN f[<<RawStringEnd(t, q, limit), depth>>]
            ELSE IF t[q] = open THEN f[<<q + 1, depth + 1>>]
            ELSE IF t[q] = close
                 THEN IF depth = 1 THEN q + 1 ELSE f[<<q + 1, depth - 1>>]
            ELSE f[<<q + 1, depth>>]
        Body == [f \in [S -> T] |-> [s \in S |-> step(f, s[1], s[2])]]
        scan == CHOOSE f : f = [s \in S |-> step(f, s[1], s[2])]
  <1>1. ASSUME NEW q \in Nat, q < limit
        PROVE  /\ RawStringEnd(t, q, limit) \in q + 1 .. limit
               /\ \A r \in q + 1 .. limit, d, e \in Int : <<r, d>> \in S /\ left[<<r, d>>] < left[<<q, e>>]
    <2>1. RawStringEnd(t, q, limit) \in q + 1 .. limit
      BY <1>1, RawStringEndBounds, limit > 0
    <2>2. ASSUME NEW r \in q + 1 .. limit PROVE r \in Nat /\ Ahead(limit)[r] < Ahead(limit)[q]
      BY <1>1, FewerAhead
    <2> QED
      BY <2>1, <2>2
  <1>2. ASSUME NEW g \in [S -> T], NEW q \in Nat, NEW depth \in Int
        PROVE  step(g, q, depth) \in T
    <2>1. q < limit => RawStringEnd(t, q, limit) \in Nat
      BY <1>1
    <2>2. \A r \in Nat, d \in Int : g[<<r, d>>] \in Nat
      OBVIOUS
    <2>3. q >= limit \/ q < limit
      OBVIOUS
    <2> QED
      BY <2>1, <2>2, <2>3
  <1>3. ASSUME NEW g \in [S -> T], NEW h \in [S -> T], NEW q \in Nat, NEW depth \in Int,
               \A r \in S : left[r] < left[<<q, depth>>] => g[r] = h[r]
        PROVE  step(g, q, depth) = step(h, q, depth)
    <2>1. CASE q < limit
      <3>1. \A r \in q + 1 .. limit, d \in Int : g[<<r, d>>] = h[<<r, d>>]
        BY <1>1, <1>3, <2>1
      <3>2. q + 1 \in q + 1 .. limit /\ RawStringEnd(t, q, limit) \in q + 1 .. limit
        BY <1>1, <2>1
      <3>3. depth + 1 \in Int /\ depth - 1 \in Int
        OBVIOUS
      <3> QED
        BY <2>1, <3>1, <3>2, <3>3
    <2>2. CASE q >= limit
      BY <2>2
    <2> QED
      BY <2>1, <2>2
  <1>4. left \in [S -> Nat]
    BY AheadType
  <1>5. PICK f \in [S -> T] : f = Body[f]
    <2>1. \A s \in S : s = <<s[1], s[2]>> /\ s[1] \in Nat /\ s[2] \in Int
      OBVIOUS
    <2>2. T # {}
      OBVIOUS
    <2>3. /\ \A g \in [S -> T], s \in S : step(g, s[1], s[2]) \in T
          /\ \A g, h \in [S -> T], s \in S :
               (\A r \in S : left[r] < left[s] => g[r] = h[r]) => step(g, s[1], s[2]) = step(h, s[1], s[2])
      <3> HIDE DEF step, S, T, left
      <3> QED
        BY <1>2, <1>3, <2>1
    <2> HIDE DEF step, S, T, left
    <2>4. Grounded(S, T, left, Body)
      BY <1>4, <2>2, <2>3 DEF Grounded
    <2> HIDE DEF Body
    <2> QED
      BY <2>4, Recursion
  <1>6. f = [s \in S |-> step(f, s[1], s[2])]
    BY <1>5
  <1>7. scan = [s \in S |-> step(scan, s[1], s[2])]
    BY <1>6
  <1>8. ASSUME NEW q \in Nat, NEW depth \in Int PROVE scan[<<q, depth>>] = step(scan, q, depth)
    <2> HIDE DEF scan, step
    <2> QED
      BY <1>7
  <1>9. \A p \in Nat : RawContainerEnd(t, p, limit, open, close) = scan[<<p, 0>>]
    BY DEF RawContainerEnd
  <1> HIDE DEF scan
  <1>10. \A q \in Nat, depth \in Int :
           scan[<<q, depth>>] = RawStep(t, limit, open, close, scan, q, depth)
    BY <1>8 DEF RawStep
  <1> QED
    BY <1>9, <1>10 DEF RawScan

LEMMA RawContainerEndBounds ==
    ASSUME NEW t, NEW limit \in Nat, NEW p \in Nat, p <= limit, t[limit - 1] # Backslash,
           NEW open, NEW close
    PROVE  RawContainerEnd(t, p, limit, open, close) \in p .. limit
  <1> DEFINE
        S == Nat \X Int
        left == [s \in S |-> Ahead(limit)[s[1]]]
  <1>1. ASSUME NEW q \in Nat, q < limit
        PROVE  /\ RawStringEnd(t, q, limit) \in q + 1 .. limit
               /\ \A r \in q + 1 .. limit, d, e \in Int : <<r, d>> \in S /\ left[<<r, d>>] < left[<<q, e>>]
    <2>1. RawStringEnd(t, q, limit) \in q + 1 .. limit
      BY <1>1, RawStringEndBounds
    <2>2. ASSUME NEW r \in q + 1 .. limit PROVE r \in Nat /\ Ahead(limit)[r] < Ahead(limit)[q]
      BY <1>1, FewerAhead
    <2> QED
      BY <2>1, <2>2
  <1>7. PICK scan : RawScan(t, limit, open, close, scan)
    <2>1. limit > 0 => t[limit - 1] # Backslash
      OBVIOUS
    <2> QED
      BY ONLY <2>1, limit \in Nat, RawContainerReads
  <1>2. /\ \A q \in Nat, depth \in Int :
             scan[<<q, depth>>] = RawStep(t, limit, open, close, scan, q, depth)
        /\ \A r \in Nat : RawContainerEnd(t, r, limit, open, close) = scan[<<r, 0>>]
    BY <1>7 DEF RawScan
  <1> DEFINE P == {s \in S : s[1] <= limit => scan[s] \in s[1] .. limit}
  <1>3. left \in [S -> Nat]
    BY AheadType
  <1>4. ASSUME NEW q \in Nat, NEW depth \in Int, q <= limit,
               \A r \in S : left[r] < left[<<q, depth>>] => r \in P
        PROVE  scan[<<q, depth>>] \in q .. limit
    <2>1. CASE q < limit
      <3>1. ASSUME NEW r \in q + 1 .. limit, NEW d \in Int PROVE scan[<<r, d>>] \in q .. limit
        <4>1. <<r, d>> \in P
          BY <1>1, <1>4, <2>1
        <4>2. scan[<<r, d>>] \in r .. limit
          BY <4>1
        <4> QED
          BY <4>2
      <3>2. q + 1 \in q + 1 .. limit /\ RawStringEnd(t, q, limit) \in q + 1 .. limit
        BY <1>1, <2>1
      <3>3. depth + 1 \in Int /\ depth - 1 \in Int /\ q + 1 \in q .. limit
        BY <2>1
      <3>4. scan[<<q, depth>>] = RawStep(t, limit, open, close, scan, q, depth)
        BY <1>2
      <3> HIDE DEF P, S, left
      <3> QED
        BY <2>1, <3>1, <3>2, <3>3, <3>4 DEF RawStep
    <2>2. CASE q = limit
      <3>1. scan[<<q, depth>>] = RawStep(t, limit, open, close, scan, q, depth)
        BY <1>2
      <3>2. scan[<<q, depth>>] = q
        BY <2>2, <3>1 DEF RawStep
      <3> QED
        BY <2>2, <3>2
    <2> QED
      BY <1>4, <2>1, <2>2
  <1>5. S \subseteq P
    <2>1. ASSUME NEW s \in S, \A r \in S : left[r] < left[s] => r \in P PROVE s \in P
      <3>1. s = <<s[1], s[2]>> /\ s[1] \in Nat /\ s[2] \in Int
        OBVIOUS
      <3>2. s[1] <= limit => scan[s] \in s[1] .. limit
        <4> HIDE DEF P, left, S
        <4> QED
          BY <1>4, <2>1, <3>1
      <3> QED
        BY <3>2
    <2> HIDE DEF P, left, S
    <2> QED
      BY <1>3, <2>1, MeasureInduction
  <1>6. <<p, 0>> \in P
    BY <1>5
  <1> QED
    BY <1>2, <1>6

LEMMA RawValueEndBounds ==
    ASSUME NEW t, NEW limit \in Nat, NEW p \in Nat, p < limit, t[limit - 1] # Backslash
    PROVE  RawValueEnd(t, p, limit) \in p .. limit
  <1> DEFINE marks == {",", "}", "]"}
             stops == {limit} \cup {q \in p .. limit - 1 : t[q] \in marks}
  <1>1. Min(stops) \in p .. limit
    <2> HIDE DEF marks
    <2>1. stops \subseteq p .. limit /\ stops # {} /\ p .. limit \subseteq Nat
      OBVIOUS
    <2> HIDE DEF stops
    <2> QED
      BY <2>1, MinIsLeast
  <1>2. RawStringEnd(t, p, limit) \in p .. limit
    <2>1. RawStringEnd(t, p, limit) \in p + 1 .. limit
      BY RawStringEndBounds
    <2> QED
      BY <2>1
  <1>3. \A open, close : RawContainerEnd(t, p, limit, open, close) \in p .. limit
    BY RawContainerEndBounds
  <1>4. RawValueEnd(t, p, limit) =
          CASE t[p] = "{" -> RawContainerEnd(t, p, limit, "{", "}")
            [] t[p] = "[" -> RawContainerEnd(t, p, limit, "[", "]")
            [] t[p] = Quote -> RawStringEnd(t, p, limit)
            [] OTHER -> Min(stops)
    BY DEF RawValueEnd
  <1> HIDE DEF stops
  <1>5. RawValueEnd(t, p, limit) \in
          {RawContainerEnd(t, p, limit, "{", "}"), RawContainerEnd(t, p, limit, "[", "]"),
           RawStringEnd(t, p, limit), Min(stops)}
    BY <1>4
  <1> QED
    BY <1>1, <1>2, <1>3, <1>5

LEMMA KeyPlacesBounds ==
    ASSUME NEW t, NEW span \in Spans, NEW key
    PROVE  /\ KeyPlaces(t, span, key) \subseteq Nat
           /\ \A p \in KeyPlaces(t, span, key) :
                span[1] <= p /\ p + 2 < span[2] /\ ValueBehind(t, p, span[2]) \in p .. span[2]
  <1>1. span[1] \in Nat /\ span[2] \in Nat
    BY DEF Spans
  <1>2. ASSUME NEW p \in KeyPlaces(t, span, key)
        PROVE  p \in Nat /\ span[1] <= p /\ p + 2 < span[2]
    BY <1>1 DEF KeyPlaces, KeyAt, Limit
  <1> QED
    BY <1>1, <1>2, ValueBehindBounds

LEMMA ExtractStringWithin ==
    ASSUME NEW t, NEW span \in Spans, NEW key
    PROVE  Within(ExtractString(t, span, key), span)
  <1> DEFINE
        from == span[1]
        limit == span[2]
        hits == {p \in KeyPlaces(t, span, key) : Inside(t, ValueBehind(t, p, limit), limit, Quote)}
        first == Min(hits)
        value == ValueBehind(t, first, limit)
        start == value + 1
        close == ClosingQuote(t, start, limit)
  <1>1. ExtractString(t, span, key) = IF hits = {} \/ close >= limit THEN NoSpan ELSE <<start, close>>
    BY DEF ExtractString, Limit
  <1>2. CASE hits = {}
    BY <1>1, <1>2 DEF Within
  <1>3. CASE hits # {}
    <2>1. first \in hits
      <3>1. hits \subseteq Nat
        BY KeyPlacesBounds
      <3> HIDE DEF hits
      <3> QED
        BY <1>3, <3>1, MinIsLeast
    <2>2. first \in Nat /\ from \in Nat /\ limit \in Nat /\ from <= first
      BY <2>1, KeyPlacesBounds DEF Spans
    <2>3. value \in first .. limit /\ value < limit
      BY <2>1, KeyPlacesBounds DEF Inside
    <2> HIDE DEF hits, first, value, from, limit
    <2>4. start \in Nat /\ start <= limit /\ from <= start
      BY <2>2, <2>3
    <2> HIDE DEF start
    <2>5. close \in start .. limit
      BY <2>2, <2>4, ClosingQuoteBounds
    <2> HIDE DEF close
    <2>6. ExtractString(t, span, key) = NoSpan \/ ExtractString(t, span, key) = <<start, close>>
      BY <1>1
    <2>7. start \in from .. limit /\ close \in start .. limit
      BY <2>2, <2>4, <2>5
    <2> QED
      BY <2>6, <2>7 DEF Within, from, limit
  <1> QED
    BY <1>2, <1>3

LEMMA ExtractValueSpanWithin ==
    ASSUME NEW t, NEW span, GoodSpan(t, span), NEW key
    PROVE  Within(ExtractValueSpan(t, span, key), span)
  <1> DEFINE
        from == span[1]
        limit == span[2]
        places == KeyPlaces(t, span, key)
        first == Min(places)
        start == ValueBehind(t, first, limit)
        end == RawValueEnd(t, start, limit)
  <1>1. ExtractValueSpan(t, span, key) = IF places = {} \/ start >= limit THEN NoSpan ELSE <<start, end>>
    BY DEF ExtractValueSpan, Limit
  <1>2. CASE places = {} \/ start >= limit
    BY <1>1, <1>2 DEF Within
  <1>3. CASE places # {} /\ ~(start >= limit)
    <2>1. span \in Spans /\ from \in Nat /\ limit \in Nat /\ t[limit - 1] # Backslash
      BY DEF GoodSpan, Spans
    <2>2. first \in places
      <3>1. places \subseteq Nat
        BY <2>1, KeyPlacesBounds
      <3> HIDE DEF places
      <3> QED
        BY <1>3, <3>1, MinIsLeast
    <2>3. first \in Nat /\ from <= first /\ start \in first .. limit
      BY <2>1, <2>2, KeyPlacesBounds
    <2> HIDE DEF places, first, start, from, limit
    <2>4. start \in Nat /\ start < limit /\ from <= start
      BY <1>3, <2>1, <2>3
    <2>5. end \in start .. limit
      BY <2>1, <2>4, RawValueEndBounds
    <2> HIDE DEF end
    <2>6. ExtractValueSpan(t, span, key) = <<start, end>>
      BY <1>1, <1>3
    <2>7. start \in from .. limit /\ end \in start .. limit
      BY <2>1, <2>4, <2>5
    <2> QED
      BY <2>6, <2>7 DEF Within, from, limit
  <1> QED
    BY <1>2, <1>3

-----------------------------------------------------------------------------
(* The writer: what it has built is a sequence, whatever was written.      *)
Sequence(s) == \E S : s \in Seq(S)

LEMMA SequenceIsText ==
    ASSUME NEW s, Sequence(s)
    PROVE  IsText(s)
  BY DEF Sequence, IsText

LEMMA SequenceConcat ==
    ASSUME NEW a, NEW b, Sequence(a), Sequence(b)
    PROVE  Sequence(a \o b)
  <1>1. PICK S : a \in Seq(S)
    BY DEF Sequence
  <1>2. PICK T : b \in Seq(T)
    BY DEF Sequence
  <1> DEFINE U == S \cup T
  <1>3. a \in Seq(U) /\ b \in Seq(U)
    <2>1. Seq(S) \subseteq Seq(U) /\ Seq(T) \subseteq Seq(U)
      OBVIOUS
    <2> QED
      BY <1>1, <1>2, <2>1
  <1> HIDE DEF U
  <1>4. a \o b \in Seq(U)
    BY <1>3
  <1> QED
    BY <1>4 DEF Sequence

LEMMA SequenceOne ==
    ASSUME NEW x
    PROVE  Sequence(<<>>) /\ Sequence(<<x>>)
  <1>1. <<>> \in Seq({x}) /\ <<x>> \in Seq({x})
    OBVIOUS
  <1> QED
    BY <1>1 DEF Sequence

LEMMA SequenceFour ==
    ASSUME NEW w, NEW x, NEW y, NEW z
    PROVE  Sequence(<<w, x, y, z>>)
  <1> DEFINE s == <<w, x, y, z>>
             S == {w, x, y, z}
  <1>1. s \in [1 .. 4 -> S]
    OBVIOUS
  <1>2. s \in Seq(S)
    <2> HIDE DEF s, S
    <2> QED
      BY <1>1, 4 \in Nat, SeqDef
  <1> QED
    BY <1>2 DEF Sequence

(* The pieces put together: where each is found in the whole.              *)
Pieces(N, C, q, piece) ==
    /\ \A n \in 0 .. N : q[n] \in Seq(C)
    /\ \A n \in 1 .. N : piece[n] \in Seq(C) /\ q[n] = q[n - 1] \o piece[n]

PieceInPlace(N, q, piece, n, m) ==
    /\ Len(q[n]) = Len(q[m]) + Len(piece[n])
    /\ Len(q[n]) <= Len(q[N]) /\ \A i \in 1 .. Len(q[n]) : q[N][i] = q[n][i]
    /\ \A j \in 1 .. Len(piece[n]) : q[N][Len(q[m]) + j] = piece[n][j]

LEMMA PiecesStay ==
    ASSUME NEW N \in Nat, NEW C, NEW q, NEW piece, Pieces(N, C, q, piece),
           NEW n \in 1 .. N, NEW m, m = n - 1
    PROVE  PieceInPlace(N, q, piece, n, m)
  <1> DEFINE P == {d \in Nat : n + d <= N => /\ Len(q[n]) <= Len(q[n + d])
                                             /\ \A i \in 1 .. Len(q[n]) : q[n + d][i] = q[n][i]}
  <1> USE DEF Pieces
  <1>1. n \in 0 .. N /\ n - 1 \in 0 .. N /\ N - n \in Nat /\ n + (N - n) = N /\ n \in Nat
    OBVIOUS
  <1>2. 0 \in P
    <2>1. n + 0 = n /\ Len(q[n]) \in Nat
      BY <1>1
    <2> QED
      BY <2>1
  <1>3. ASSUME NEW d \in Nat, d \in P PROVE d + 1 \in P
    <2> SUFFICES ASSUME n + (d + 1) <= N
                 PROVE  /\ Len(q[n]) <= Len(q[n + (d + 1)])
                        /\ \A i \in 1 .. Len(q[n]) : q[n + (d + 1)][i] = q[n][i]
      OBVIOUS
    <2> DEFINE k == n + (d + 1)
    <2>1. k \in 1 .. N /\ k - 1 = n + d /\ n + d \in 0 .. N /\ n + d <= N
      BY <1>1
    <2>2. /\ Len(q[n]) <= Len(q[n + d])
          /\ \A i \in 1 .. Len(q[n]) : q[n + d][i] = q[n][i]
      BY <1>3, <2>1
    <2> DEFINE a == q[n + d]
               b == piece[k]
    <2>3. a \in Seq(C) /\ b \in Seq(C) /\ q[k] = a \o b /\ q[n] \in Seq(C)
      BY <1>1, <2>1
    <2> HIDE DEF a, b, k
    <2>4. Len(a) <= Len(a \o b) /\ \A i \in 1 .. Len(a) : (a \o b)[i] = a[i]
      BY <2>3
    <2>5. Len(q[n]) \in Nat /\ Len(a) \in Nat /\ Len(a \o b) \in Nat
      BY <2>3
    <2>6. Len(q[n]) <= Len(a) /\ \A i \in 1 .. Len(q[n]) : a[i] = q[n][i]
      BY <2>2 DEF a
    <2>7. Len(q[n]) <= Len(q[k])
      BY <2>3, <2>4, <2>5, <2>6
    <2>8. \A i \in 1 .. Len(q[n]) : i \in 1 .. Len(a)
      BY <2>5, <2>6
    <2>9. \A i \in 1 .. Len(q[n]) : q[k][i] = q[n][i]
      BY <2>3, <2>4, <2>6, <2>8
    <2> QED
      BY <2>7, <2>9 DEF k
  <1>4. N - n \in P
    <2> HIDE DEF P
    <2> QED
      BY <1>1, <1>2, <1>3, Induction
  <1>5. /\ Len(q[n]) <= Len(q[N])
        /\ \A i \in 1 .. Len(q[n]) : q[N][i] = q[n][i]
    BY <1>1, <1>4
  <1> DEFINE a == q[m]
             b == piece[n]
             c == q[n]
  <1>6. a \in Seq(C) /\ b \in Seq(C) /\ c = a \o b
    BY <1>1
  <1> HIDE DEF a, b, c
  <1>7. Len(c) = Len(a) + Len(b) /\ Len(a) \in Nat /\ Len(b) \in Nat
    BY <1>6
  <1>8. \A j \in 1 .. Len(b) : Len(a) + j \in 1 .. Len(c) /\ c[Len(a) + j] = b[j]
    BY <1>6
  <1>9. \A j \in 1 .. Len(b) : q[N][Len(a) + j] = b[j]
    BY <1>5, <1>8 DEF c
  <1> QED
    BY <1>5, <1>7, <1>9 DEF a, b, c, PieceInPlace

(* Sequences laid end to end are their pieces put together.                *)
LEMMA FlattenPieces ==
    ASSUME NEW B, NEW e \in Seq(Seq(B))
    PROVE  \E q : /\ Pieces(Len(e), B, q, e)
                  /\ q[0] = <<>>
                  /\ FlattenSeq(e) = q[Len(e)]
  <1> DEFINE
        S == 1 .. Len(e)
        T == Seq(B)
        size == [i \in S |-> i]
        step(f, i) == IF i = 1 THEN e[i] ELSE f[i - 1] \o e[i]
        Body == [f \in [S -> T] |-> [i \in S |-> step(f, i)]]
        flatten == CHOOSE f : f = [i \in S |-> step(f, i)]
        P == {i \in S : flatten[i] \in T}
  <1>1. \A i \in S : i \in Nat /\ e[i] \in T /\ (i # 1 => i - 1 \in S /\ i - 1 < i)
    OBVIOUS
  <1>2. size \in [S -> Nat] /\ <<>> \in T
    OBVIOUS
  <1>3. ASSUME NEW g \in [S -> T], NEW i \in S PROVE step(g, i) \in T
    <2>1. CASE i = 1
      BY <1>1, <2>1
    <2>2. CASE i # 1
      <3>1. g[i - 1] \in Seq(B) /\ e[i] \in Seq(B)
        BY <1>1, <2>2
      <3>2. g[i - 1] \o e[i] \in Seq(B)
        BY <3>1
      <3> QED
        BY <2>2, <3>2
    <2> QED
      BY <2>1, <2>2
  <1>4. PICK f \in [S -> T] : f = Body[f]
    <2>1. ASSUME NEW g \in [S -> T], NEW h \in [S -> T], NEW i \in S,
                 \A r \in S : size[r] < size[i] => g[r] = h[r]
          PROVE  step(g, i) = step(h, i)
      <3>1. i # 1 => g[i - 1] = h[i - 1]
        BY <1>1, <2>1
      <3> QED
        BY <3>1
    <2> HIDE DEF step, S, T, size
    <2>2. Grounded(S, T, size, Body)
      BY <1>2, <1>3, <2>1, ZenonT(60) DEF Grounded
    <2> HIDE DEF Body
    <2> QED
      BY <2>2, Recursion
  <1>5. f = [i \in S |-> step(f, i)]
    BY <1>4
  <1>6. flatten = [i \in S |-> step(flatten, i)]
    BY <1>5
  <1>7. ASSUME NEW i \in S PROVE flatten[i] = step(flatten, i)
    <2> HIDE DEF flatten, step
    <2> QED
      BY <1>6
  <1>8. FlattenSeq(e) = IF Len(e) = 0 THEN e ELSE flatten[Len(e)]
    BY DEF FlattenSeq
  <1> HIDE DEF flatten
  <1>9. S \subseteq P
    <2>1. ASSUME NEW i \in S, \A r \in S : size[r] < size[i] => r \in P PROVE i \in P
      <3>1. i # 1 => flatten[i - 1] \in T
        BY <1>1, <2>1
      <3>2. flatten[i] = IF i = 1 THEN e[i] ELSE flatten[i - 1] \o e[i]
        BY <1>7
      <3>3. flatten[i] \in T
        BY <1>1, <3>1, <3>2
      <3> QED
        BY <3>3
    <2> HIDE DEF P, S, size
    <2> QED
      BY <1>2, <2>1, MeasureInduction
  <1> DEFINE q == [i \in 0 .. Len(e) |-> IF i = 0 THEN <<>> ELSE flatten[i]]
  <1>10. Len(e) \in Nat /\ \A i \in 1 .. Len(e) : e[i] \in Seq(B) /\ flatten[i] \in Seq(B)
    <2>1. Len(e) \in Nat
      OBVIOUS
    <2>2. \A i \in S : flatten[i] \in T
      BY <1>9
    <2> QED
      BY <1>1, <2>1, <2>2
  <1>11. q[0] = <<>> /\ \A i \in 1 .. Len(e) : q[i] = flatten[i]
    BY <1>10
  <1>12. ASSUME NEW i \in 1 .. Len(e) PROVE q[i] = q[i - 1] \o e[i]
    <2>1. flatten[i] = IF i = 1 THEN e[i] ELSE flatten[i - 1] \o e[i]
      BY <1>7
    <2>2. CASE i = 1
      <3>1. q[i - 1] = <<>>
        BY <1>11, <2>2
      <3> HIDE DEF q
      <3> QED
        BY <1>10, <1>11, <2>1, <2>2, <3>1
    <2>3. CASE i # 1
      <3>1. i - 1 \in 1 .. Len(e)
        BY <1>10, <2>3
      <3> HIDE DEF q
      <3> QED
        BY <1>11, <2>1, <2>3, <3>1
    <2> QED
      BY <2>2, <2>3
  <1>13. \A i \in 0 .. Len(e) : q[i] \in Seq(B)
    <2>1. <<>> \in Seq(B)
      OBVIOUS
    <2> QED
      BY <1>10, <2>1
  <1>14. FlattenSeq(e) = q[Len(e)]
    <2>1. CASE Len(e) = 0
      <3>1. e = <<>>
        BY <2>1
      <3> QED
        BY <1>8, <1>11, <2>1, <3>1
    <2>2. CASE Len(e) # 0
      <3>1. Len(e) \in 1 .. Len(e)
        BY <1>10, <2>2
      <3> QED
        BY <1>8, <1>11, <2>2, <3>1
    <2> QED
      BY <2>1, <2>2
  <1> HIDE DEF q
  <1>15. Pieces(Len(e), B, q, e)
    BY <1>10, <1>12, <1>13 DEF Pieces
  <1> QED
    BY <1>11, <1>14, <1>15

(* The same, for what becomes of each element of a sequence.               *)
LEMMA EachInPieces ==
    ASSUME NEW c, Sequence(c), NEW piece, piece = [i \in DOMAIN c |-> piece[i]],
           \A i \in DOMAIN c : Sequence(piece[i])
    PROVE  \E C, q : /\ Pieces(Len(c), C, q, piece)
                     /\ q[0] = <<>>
                     /\ FlattenSeq(piece) = q[Len(c)]
  <1> DEFINE B == UNION {{piece[i][j] : j \in DOMAIN piece[i]} : i \in DOMAIN c}
  <1>1. DOMAIN c = 1 .. Len(c) /\ Len(c) \in Nat
    BY DEF Sequence
  <1>2. ASSUME NEW i \in DOMAIN c PROVE piece[i] \in Seq(B)
    <2> DEFINE x == piece[i]
    <2>1. PICK S : x \in Seq(S)
      BY DEF Sequence
    <2>2. \A j \in DOMAIN x : x[j] \in B
      OBVIOUS
    <2> HIDE DEF x, B
    <2>3. Len(x) \in Nat /\ DOMAIN x = 1 .. Len(x) /\ x = [j \in 1 .. Len(x) |-> x[j]]
      BY <2>1
    <2>4. x \in [1 .. Len(x) -> B]
      BY <2>2, <2>3
    <2>5. x \in Seq(B)
      BY <2>3, <2>4, SeqDef
    <2> QED
      BY <2>5 DEF x
  <1> HIDE DEF B
  <1>3. piece \in Seq(Seq(B)) /\ Len(piece) = Len(c)
    <2>1. piece \in [1 .. Len(c) -> Seq(B)]
      BY <1>1, <1>2
    <2> DEFINE D == Seq(B)
    <2> HIDE DEF D
    <2>2. piece \in [1 .. Len(c) -> D]
      BY <2>1 DEF D
    <2>3. piece \in Seq(D) /\ Len(piece) = Len(c)
      BY <1>1, <2>2, SeqDef
    <2> QED
      BY <2>3 DEF D
  <1>4. \E q : /\ Pieces(Len(piece), B, q, piece)
               /\ q[0] = <<>>
               /\ FlattenSeq(piece) = q[Len(piece)]
    BY <1>3, FlattenPieces
  <1> QED
    BY <1>3, <1>4

(* Induction from the last of some pieces to the first.                    *)
LEMMA Downward ==
    ASSUME NEW N \in Nat, NEW P, N \in P, \A n \in 1 .. N : n \in P => n - 1 \in P
    PROVE  0 \in P
  <1> DEFINE D == {d \in Nat : d <= N => N - d \in P}
  <1>1. 0 \in D
    BY N - 0 = N
  <1>2. ASSUME NEW d \in Nat, d \in D PROVE d + 1 \in D
    <2> SUFFICES ASSUME d + 1 <= N PROVE N - (d + 1) \in P
      OBVIOUS
    <2>1. N - d \in 1 .. N /\ N - d \in P /\ (N - d) - 1 = N - (d + 1)
      BY <1>2
    <2> QED
      BY <2>1
  <1>3. N \in D
    <2> HIDE DEF D
    <2> QED
      BY <1>1, <1>2, Induction
  <1> QED
    BY <1>3, N - N = 0

(* The bytes behind position p of t are those of s.                        *)
Spells(t, p, s) == \A j \in 1 .. Len(s) : t[p + j] = s[j]

(* A piece of a text that neither ends a string nor leaves a backslash for *)
(* the next piece.                                                         *)
SafePiece(x) ==
    \/ Len(x) = 1 /\ x[1] \notin {Quote, Backslash}
    \/ Len(x) = 2 /\ x[1] = Backslash
    \/ Len(x) = 3 /\ x[1] = Backslash /\ x[3] \notin {Quote, Backslash}

(* A string made of such pieces ends behind the quote that follows them.   *)
LEMMA StringOfPieces ==
    ASSUME NEW b, IsText(b), NEW N \in Nat, NEW C, NEW q, NEW e, Pieces(N, C, q, e), q[0] = <<>>,
           \A n \in 1 .. N : SafePiece(e[n]),
           NEW F \in Nat, Spells(b, F, q[N]), NEW z, z = F + Len(q[N]) + 1,
           z <= Len(b), b[z] = Quote
    PROVE  StringEnd(b, F + 1) = z + 1
  <1> DEFINE at(n) == F + Len(q[n]) + 1
             P == {n \in 0 .. N : StringEnd(b, at(n)) = z + 1}
  <1>1. \A n \in 0 .. N : q[n] \in Seq(C) /\ Len(q[n]) \in Nat /\ at(n) \in Nat
    BY DEF Pieces
  <1>2. Len(b) \in Nat /\ z \in Nat
    BY <1>1 DEF IsText
  <1>3. N \in P
    <2>1. StringEnd(b, z) = z + 1
      BY <1>2, StringEndStep
    <2> QED
      BY <2>1
  <1>4. ASSUME NEW n \in 1 .. N, n \in P PROVE n - 1 \in P
    <2> DEFINE m == n - 1
               p == at(m)
               k == Len(e[n])
    <2>1. m \in 0 .. N /\ n \in 0 .. N /\ PieceInPlace(N, q, e, n, m) /\ e[n] \in Seq(C)
      <3>1. m \in 0 .. N /\ n \in 0 .. N /\ m = n - 1
        OBVIOUS
      <3>2. e[n] \in Seq(C)
        BY DEF Pieces
      <3> HIDE DEF m
      <3>3. PieceInPlace(N, q, e, n, m)
        BY <3>1, PiecesStay
      <3> QED
        BY <3>1, <3>2, <3>3
    <2> HIDE DEF m
    <2>2. p \in Nat /\ k \in Nat
      BY <1>1, <2>1
    <2>3. /\ p + k = at(n)
          /\ p + k <= Len(b)
          /\ \A j \in 1 .. k : p - 1 + j = F + (Len(q[m]) + j) /\ Len(q[m]) + j \in 1 .. Len(q[N])
      <3> DEFINE lm == Len(q[m])
                 ln == Len(q[n])
                 lN == Len(q[N])
      <3>1. lm \in Nat /\ ln \in Nat /\ lN \in Nat /\ ln = lm + k /\ ln <= lN
        <4>1. lm \in Nat /\ ln \in Nat /\ lN \in Nat
          BY <1>1, <2>1
        <4>2. ln = lm + k /\ ln <= lN
          BY <2>1 DEF PieceInPlace
        <4> QED
          BY <4>1, <4>2
      <3>2. p = F + lm + 1 /\ at(n) = F + ln + 1 /\ z = F + lN + 1
        OBVIOUS
      <3> HIDE DEF lm, ln, lN, k, p, at
      <3>3. p + k = at(n) /\ p + k <= Len(b)
        BY <1>2, <2>2, <3>1, <3>2
      <3>4. \A j \in 1 .. k : p - 1 + j = F + (lm + j) /\ lm + j \in 1 .. lN
        BY <2>2, <3>1, <3>2
      <3> QED
        BY <3>3, <3>4 DEF lm, lN
    <2>4. \A j \in 1 .. k : b[p - 1 + j] = e[n][j]
      <3>1. \A j \in 1 .. k : q[N][Len(q[m]) + j] = e[n][j]
        BY <2>1 DEF PieceInPlace
      <3> HIDE DEF k, p
      <3> QED
        BY <2>3, <3>1 DEF Spells
    <2>5. StringEnd(b, p + k) = z + 1
      BY <1>4, <2>3
    <2>6. SafePiece(e[n])
      OBVIOUS
    <2>7. \/ k = 1 /\ e[n][1] \notin {Quote, Backslash}
          \/ k = 2 /\ e[n][1] = Backslash
          \/ k = 3 /\ e[n][1] = Backslash /\ e[n][3] \notin {Quote, Backslash}
      BY <2>6 DEF SafePiece
    <2>8. p + k <= Len(b)
      BY <2>3
    <2> HIDE DEF k, p
    <2>9. Quote # Backslash
      BY DEF Quote, Backslash
    <2>11. /\ k \in 1 .. 3 => ~(p > Len(b)) /\ 1 \in 1 .. k /\ p - 1 + 1 = p
           /\ k \in 2 .. 3 => p # Len(b)
           /\ k = 3 => /\ ~(p + 2 > Len(b)) /\ p + 2 \in Nat /\ p + 2 + 1 = p + k
                       /\ 3 \in 1 .. k /\ p - 1 + 3 = p + 2
      <3> DEFINE lb == Len(b)
      <3>1. lb \in Nat /\ p \in Nat /\ k \in Nat /\ p + k <= lb
        BY <1>2, <2>2, <2>8
      <3> HIDE DEF lb
      <3>2. /\ k \in 1 .. 3 => ~(p > lb) /\ 1 \in 1 .. k /\ p - 1 + 1 = p
            /\ k \in 2 .. 3 => p # lb
            /\ k = 3 => /\ ~(p + 2 > lb) /\ p + 2 \in Nat /\ p + 2 + 1 = p + k
                        /\ 3 \in 1 .. k /\ p - 1 + 3 = p + 2
        BY ONLY <3>1
      <3> QED
        BY <3>2 DEF lb
    <2>12. k \in 1 .. 3 => b[p] = e[n][1]
      BY <2>4, <2>11
    <2>13. k = 3 => b[p + 2] = e[n][3]
      BY <2>4, <2>11
    <2>10. StringEnd(b, p) = z + 1
      <3>1. CASE k = 1 /\ e[n][1] \notin {Quote, Backslash}
        <4>1. b[p] = e[n][1] /\ ~(p > Len(b))
          BY <2>11, <2>12, <3>1
        <4> QED
          BY <2>2, <2>5, <3>1, <4>1, StringEndStep
      <3>2. CASE k = 2 /\ e[n][1] = Backslash
        <4>1. b[p] = e[n][1] /\ ~(p > Len(b)) /\ p # Len(b)
          BY <2>11, <2>12, <3>2
        <4> QED
          BY <2>2, <2>5, <2>9, <3>2, <4>1, StringEndStep
      <3>3. CASE k = 3 /\ e[n][1] = Backslash /\ e[n][3] \notin {Quote, Backslash}
        <4>1. b[p] = e[n][1] /\ ~(p > Len(b)) /\ p # Len(b)
          BY <2>11, <2>12, <3>3
        <4>2. b[p + 2] = e[n][3] /\ ~(p + 2 > Len(b)) /\ p + 2 \in Nat /\ p + 2 + 1 = p + k
          BY <2>11, <2>13, <3>3
        <4>3. StringEnd(b, p) = StringEnd(b, p + 2)
          BY <2>2, <2>9, <3>3, <4>1, StringEndStep
        <4>4. StringEnd(b, p + 2) = StringEnd(b, p + 2 + 1)
          BY <3>3, <4>2, StringEndStep
        <4> QED
          BY <2>5, <4>2, <4>3, <4>4
      <3> QED
        BY <2>7, <3>1, <3>2, <3>3
    <2> QED
      BY <2>1, <2>10 DEF m, p
  <1>5. 0 \in P
    <2> HIDE DEF P
    <2> QED
      BY <1>3, <1>4, Downward
  <1>6. at(0) = F + 1
    <2>1. Len(q[0]) = 0
      OBVIOUS
    <2> QED
      BY <2>1
  <1> QED
    BY <1>5, <1>6

(* A C string holds what was written up to the first NUL.                  *)
LEMMA CStringType ==
    ASSUME NEW s, Sequence(s)
    PROVE  Sequence(CString(s)) /\ \A i \in DOMAIN CString(s) : CString(s)[i] # Nul
  <1> DEFINE stops == {Len(s)} \cup {i - 1 : i \in {j \in DOMAIN s : s[j] = Nul}}
             last == Min(stops)
  <1>1. PICK S : s \in Seq(S)
    BY DEF Sequence
  <1>2. stops \subseteq 0 .. Len(s) /\ stops # {} /\ 0 .. Len(s) \subseteq Nat
    BY <1>1
  <1>3. last \in stops /\ \A x \in stops : last <= x
    <2> HIDE DEF stops
    <2> QED
      BY <1>2, MinIsLeast
  <1>4. last \in 0 .. Len(s)
    BY <1>2, <1>3
  <1>5. ASSUME NEW i \in 1 .. last, s[i] = Nul PROVE FALSE
    <2>1. i \in DOMAIN s /\ i \in Nat
      BY <1>1, <1>4
    <2>2. i - 1 \in stops
      BY <1>5, <2>1
    <2> HIDE DEF last, stops
    <2> QED
      BY <1>3, <1>4, <2>1, <2>2
  <1>6. CString(s) = SubSeq(s, 1, last)
    BY DEF CString
  <1> HIDE DEF last
  <1>7. /\ SubSeq(s, 1, last) \in Seq(S)
        /\ DOMAIN SubSeq(s, 1, last) = 1 .. last
        /\ \A i \in 1 .. last : SubSeq(s, 1, last)[i] = s[i]
    BY <1>1, <1>4
  <1> QED
    BY <1>5, <1>6, <1>7 DEF Sequence

(* It ends at the end of the text, or before a NUL.                        *)
LEMMA CStringStops ==
    ASSUME NEW s, Sequence(s)
    PROVE  \E n \in 0 .. Len(s) : /\ CString(s) = SubSeq(s, 1, n)
                                  /\ \A k \in 1 .. n : s[k] # Nul
                                  /\ n = Len(s) \/ s[n + 1] = Nul
  <1> DEFINE stops == {Len(s)} \cup {i - 1 : i \in {j \in DOMAIN s : s[j] = Nul}}
             last == Min(stops)
  <1>1. Len(s) \in Nat /\ DOMAIN s = 1 .. Len(s)
    BY DEF Sequence
  <1>2. stops \subseteq 0 .. Len(s) /\ stops # {} /\ 0 .. Len(s) \subseteq Nat
    BY <1>1
  <1>3. last \in stops /\ \A x \in stops : last <= x
    <2> HIDE DEF stops
    <2> QED
      BY <1>2, MinIsLeast
  <1>4. last \in 0 .. Len(s)
    BY <1>2, <1>3
  <1>5. ASSUME NEW k \in 1 .. last, s[k] = Nul PROVE FALSE
    <2>1. k \in DOMAIN s /\ k \in Nat
      BY <1>1, <1>4
    <2>2. k - 1 \in stops
      BY <1>5, <2>1
    <2> HIDE DEF last, stops
    <2> QED
      BY <1>3, <1>4, <2>1, <2>2
  <1>6. last = Len(s) \/ s[last + 1] = Nul
    <2>1. last = Len(s) \/ \E j \in DOMAIN s : s[j] = Nul /\ last = j - 1
      <3> HIDE DEF last
      <3> QED
        BY <1>3
    <2> HIDE DEF last
    <2>2. ASSUME NEW j \in DOMAIN s, s[j] = Nul, last = j - 1 PROVE s[last + 1] = Nul
      <3>1. last + 1 = j
        BY <1>1, <2>2
      <3> QED
        BY <2>2, <3>1
    <2> QED
      BY <2>1, <2>2
  <1>7. CString(s) = SubSeq(s, 1, last)
    BY DEF CString
  <1> HIDE DEF last
  <1> QED
    BY <1>4, <1>5, <1>6, <1>7

(* The escape codes: each is of one byte.                                  *)
LEMMA CodesType ==
    /\ DOMAIN Codes = DOMAIN Letter \cup {Nul, "^A"}
    /\ \A c \in DOMAIN Letter : Codes[c] = Letter[c]
    /\ Codes[Nul] = "u0000" /\ Codes["^A"] = "u0001"
  <1>1. Nul \notin DOMAIN Letter /\ "^A" \notin DOMAIN Letter /\ Nul # "^A"
    BY DEF Nul, Letter, Quote, Backslash
  <1>2. OtherControls = {"^A"}
    BY DEF OtherControls
  <1>3. DOMAIN Codes = DOMAIN Letter \cup {Nul, "^A"}
    BY <1>2 DEF Codes
  <1>4. ASSUME NEW c \in DOMAIN Codes
        PROVE  Codes[c] = CASE c = Nul -> "u0000" [] c = "^A" -> "u0001" [] OTHER -> Letter[c]
    BY DEF Codes
  <1>5. Codes[Nul] = "u0000"
    BY <1>1, <1>3, <1>4
  <1>6. Codes["^A"] = "u0001"
    BY <1>1, <1>3, <1>4
  <1>7. ASSUME NEW c \in DOMAIN Letter PROVE Codes[c] = Letter[c]
    BY <1>1, <1>3, <1>4
  <1> QED
    BY <1>3, <1>5, <1>6, <1>7

LEMMA LetterIsOfOne ==
    \A x, y \in DOMAIN Letter : Letter[x] = Letter[y] => x = y
  <1>1. DOMAIN Letter = {"\n", "\r", "\t", "\f", "^H", Quote, Backslash}
    BY DEF Letter
  <1>2. /\ Letter["\n"] = "n" /\ Letter["\r"] = "r" /\ Letter["\t"] = "t" /\ Letter["\f"] = "f"
        /\ Letter["^H"] = "b" /\ Letter[Quote] = Quote /\ Letter[Backslash] = Backslash
    BY DEF Letter, Quote, Backslash
  <1> QED
    BY <1>1, <1>2 DEF Quote, Backslash

LEMMA CodesAreDecoded ==
    \A x \in DOMAIN Codes : Decoded(Codes[x]) = x /\ Codes[x] # "u001"
  <1>1. \A c \in DOMAIN Letter : Letter[c] # "u0000" /\ Letter[c] # "u0001" /\ Letter[c] # "u001"
    BY DEF Letter, Quote, Backslash
  <1>2. \A x, y \in DOMAIN Codes : Codes[x] = Codes[y] => x = y
    BY <1>1, CodesType, LetterIsOfOne
  <1>3. \A x \in DOMAIN Codes : Codes[x] # "u001"
    BY <1>1, CodesType
  <1> QED
    BY <1>2, <1>3 DEF Decoded

(* How the content of a string is read: what it means from a position on.  *)
MeansOn(t, D, text) ==
    \A p \in Nat :
      /\ text[p] \in Seq(D)
      /\ p > Len(t) => text[p] = <<>>
      /\ p \in 1 .. Len(t) /\ t[p] # Backslash => text[p] = <<t[p]>> \o text[p + 1]
      /\ p \in 1 .. Len(t) /\ t[p] = Backslash => text[p] = <<Decoded(t[p + 1])>> \o text[p + 2]

LEMMA UnescapedReads ==
    ASSUME NEW t, IsText(t)
    PROVE  \E D, text : MeansOn(t, D, text) /\ Unescaped(t) = text[1]
  <1> DEFINE
        C == {t[p] : p \in Nat} \cup {Decoded(t[p + 1]) : p \in Nat}
        S == Nat
        T == Seq(C)
        left == BytesLeft(t)
        step(f, p) == IF p > Len(t) THEN <<>>
                      ELSE IF t[p] # Backslash THEN <<t[p]>> \o f[p + 1]
                      ELSE <<Decoded(t[p + 1])>> \o f[p + 2]
        Body == [f \in [S -> T] |-> [p \in S |-> step(f, p)]]
        text == CHOOSE f : f = [p \in S |-> step(f, p)]
  <1>1. \A p \in Nat : t[p] \in C /\ Decoded(t[p + 1]) \in C
    OBVIOUS
  <1> HIDE DEF C
  <1>2. <<>> \in T /\ \A p \in Nat : p + 1 \in Nat /\ p + 2 \in Nat
    OBVIOUS
  <1>3. ASSUME NEW g \in [S -> T], NEW p \in S PROVE step(g, p) \in T
    <2>1. g[p + 1] \in Seq(C) /\ g[p + 2] \in Seq(C)
      BY <1>2
    <2>2. <<t[p]>> \o g[p + 1] \in Seq(C) /\ <<Decoded(t[p + 1])>> \o g[p + 2] \in Seq(C)
      <3> DEFINE a == t[p]
                 c == Decoded(t[p + 1])
                 u == g[p + 1]
                 v == g[p + 2]
      <3>1. a \in C /\ c \in C /\ u \in Seq(C) /\ v \in Seq(C)
        BY <1>1, <2>1
      <3> HIDE DEF a, c, u, v
      <3>2. <<a>> \o u \in Seq(C) /\ <<c>> \o v \in Seq(C)
        BY <3>1
      <3> QED
        BY <3>2 DEF a, c, u, v
    <2> QED
      BY <1>2, <2>2
  <1>4. ASSUME NEW g \in [S -> T], NEW h \in [S -> T], NEW p \in S,
               \A r \in S : left[r] < left[p] => g[r] = h[r]
        PROVE  step(g, p) = step(h, p)
    <2>1. p <= Len(t) => g[p + 1] = h[p + 1] /\ g[p + 2] = h[p + 2]
      BY <1>4, FewerBytesLeft, p + 1 \in Nat, p + 2 \in Nat, p < p + 1, p < p + 2
    <2>2. p > Len(t) \/ p <= Len(t)
      BY DEF IsText
    <2> QED
      BY <2>1, <2>2
  <1>5. PICK f \in [S -> T] : f = Body[f]
    <2>1. left \in [S -> Nat] /\ T # {}
      BY <1>2, BytesLeftType
    <2> HIDE DEF step, S, T, left
    <2>2. Grounded(S, T, left, Body)
      BY <1>3, <1>4, <2>1 DEF Grounded
    <2> HIDE DEF Body
    <2> QED
      BY <2>2, Recursion
  <1>6. f = [p \in S |-> step(f, p)]
    BY <1>5
  <1>7. text \in [S -> T] /\ text = [p \in S |-> step(text, p)]
    <2>1. text = [p \in S |-> step(text, p)]
      BY <1>6
    <2> HIDE DEF text
    <2>2. ASSUME NEW p \in S, \A r \in S : left[r] < left[p] => text[r] \in T
          PROVE  text[p] \in T
      <3>1. text[p] = step(text, p)
        <4> HIDE DEF step
        <4> QED
          BY <2>1
      <3>2. p > Len(t) \/ p <= Len(t)
        BY DEF IsText
      <3>3. CASE p > Len(t)
        BY <1>2, <3>1, <3>3
      <3>4. CASE p <= Len(t)
        <4>1. text[p + 1] \in T /\ text[p + 2] \in T
          BY <2>2, <3>4, FewerBytesLeft, p + 1 \in Nat, p + 2 \in Nat, p < p + 1, p < p + 2
        <4> DEFINE a == t[p]
                   c == Decoded(t[p + 1])
                   u == text[p + 1]
                   v == text[p + 2]
        <4>2. a \in C /\ c \in C /\ u \in Seq(C) /\ v \in Seq(C)
          BY <1>1, <4>1
        <4>3. text[p] = <<a>> \o u \/ text[p] = <<c>> \o v \/ text[p] = <<>>
          BY <3>1
        <4> HIDE DEF a, c, u, v
        <4>4. <<a>> \o u \in Seq(C) /\ <<c>> \o v \in Seq(C) /\ <<>> \in Seq(C)
          BY <4>2
        <4> QED
          BY <4>3, <4>4
      <3> QED
        BY <3>2, <3>3, <3>4
    <2> DEFINE P == {p \in S : text[p] \in T}
    <2>3. S \subseteq P
      <3>1. left \in [S -> Nat]
        BY BytesLeftType
      <3>2. ASSUME NEW p \in S, \A r \in S : left[r] < left[p] => r \in P PROVE p \in P
        <4>1. \A r \in S : left[r] < left[p] => text[r] \in T
          BY <3>2
        <4> HIDE DEF S, T, left
        <4> QED
          BY <2>2, <4>1
      <3> HIDE DEF P, S, left
      <3> QED
        BY <3>1, <3>2, MeasureInduction
    <2> HIDE DEF step, T
    <2>4. \A p \in S : text[p] \in T
      BY <2>3
    <2> QED
      BY <2>1, <2>4
  <1>8. Unescaped(t) = text[1]
    BY DEF Unescaped
  <1> HIDE DEF text
  <1>9. MeansOn(t, C, text)
    <2> SUFFICES ASSUME NEW p \in Nat
                 PROVE  /\ text[p] \in Seq(C)
                        /\ p > Len(t) => text[p] = <<>>
                        /\ p \in 1 .. Len(t) /\ t[p] # Backslash => text[p] = <<t[p]>> \o text[p + 1]
                        /\ p \in 1 .. Len(t) /\ t[p] = Backslash =>
                             text[p] = <<Decoded(t[p + 1])>> \o text[p + 2]
      BY DEF MeansOn
    <2>1. text[p] = step(text, p) /\ text[p] \in T
      <3> HIDE DEF step, T
      <3> QED
        BY <1>7
    <2>2. p \in 1 .. Len(t) => ~(p > Len(t))
      BY DEF IsText
    <2> QED
      BY <2>1, <2>2
  <1> QED
    BY <1>8, <1>9

(* A sequence without its first elements.                                  *)
LEMMA LessAtFront ==
    ASSUME NEW S, NEW c \in Seq(S), NEW n \in 1 .. Len(c)
    PROVE  /\ SubSeq(c, n, Len(c)) = <<c[n]>> \o SubSeq(c, n + 1, Len(c))
           /\ SubSeq(c, Len(c) + 1, Len(c)) = <<>>
           /\ SubSeq(c, 1, Len(c)) = c
  <1> DEFINE N == Len(c)
             a == SubSeq(c, n, N)
             b == SubSeq(c, n + 1, N)
             h == c[n]
  <1>1. N \in Nat /\ n \in 1 .. N /\ n \in Nat /\ h \in S
    OBVIOUS
  <1>2. /\ a \in Seq(S) /\ Len(a) = N - n + 1 /\ \A i \in 1 .. N - n + 1 : a[i] = c[n + i - 1]
        /\ b \in Seq(S) /\ Len(b) = N - n /\ \A i \in 1 .. N - n : b[i] = c[n + 1 + i - 1]
    <2> DEFINE m == n + 1
    <2>1. m \in 1 .. N + 1 /\ N - m + 1 = N - n
      BY <1>1
    <2>2. a \in Seq(S) /\ Len(a) = N - n + 1
      BY <1>1
    <2>3. \A i \in 1 .. N - n + 1 : a[i] = c[n + i - 1]
      BY <1>1
    <2> HIDE DEF m
    <2>4. SubSeq(c, m, N) \in Seq(S) /\ Len(SubSeq(c, m, N)) = N - m + 1
      BY <1>1, <2>1
    <2>5. \A i \in 1 .. N - m + 1 : SubSeq(c, m, N)[i] = c[m + i - 1]
      BY <1>1, <2>1
    <2> QED
      BY <2>1, <2>2, <2>3, <2>4, <2>5 DEF m
  <1>3. SubSeq(c, N + 1, N) = <<>> /\ SubSeq(c, 1, N) = c
    BY <1>1
  <1>4. /\ <<h>> \o b \in Seq(S) /\ Len(<<h>> \o b) = 1 + Len(b)
        /\ (<<h>> \o b)[1] = h /\ \A i \in 1 .. Len(b) : (<<h>> \o b)[i + 1] = b[i]
    <2>1. h \in S /\ b \in Seq(S)
      BY <1>1, <1>2
    <2> HIDE DEF h, b
    <2>2. <<h>> \in Seq(S) /\ Len(<<h>>) = 1
      BY <2>1
    <2>3. <<h>> \o b \in Seq(S) /\ Len(<<h>> \o b) = 1 + Len(b)
      BY <2>1, <2>2
    <2>4. (<<h>> \o b)[1] = h
      BY <2>1, <2>2
    <2>5. \A i \in 1 .. Len(b) : (<<h>> \o b)[i + 1] = b[i]
      BY <2>1, <2>2
    <2> QED
      BY <2>3, <2>4, <2>5
  <1>5. a[1] = h
    BY <1>1, <1>2
  <1>6. ASSUME NEW j \in 1 .. N - n + 1 PROVE a[j] = (<<h>> \o b)[j]
    <2>1. CASE j = 1
      BY <1>4, <1>5, <2>1
    <2>2. CASE j # 1
      <3> DEFINE i == j - 1
      <3>1. i \in 1 .. N - n /\ j = i + 1 /\ n + j - 1 = n + 1 + i - 1
        BY <1>1, <2>2
      <3>2. a[j] = c[n + j - 1] /\ b[i] = c[n + 1 + i - 1]
        BY <1>2, <3>1
      <3> HIDE DEF i, a, b, h
      <3>3. (<<h>> \o b)[i + 1] = b[i]
        BY <1>2, <1>4, <3>1
      <3> QED
        BY <3>1, <3>2, <3>3
    <2> QED
      BY <2>1, <2>2
  <1> HIDE DEF a, b, h
  <1>7. a = <<h>> \o b
    <2> DEFINE d == <<h>> \o b
    <2>1. d \in Seq(S) /\ Len(d) = N - n + 1 /\ a \in Seq(S) /\ Len(a) = N - n + 1
      BY <1>1, <1>2, <1>4
    <2>2. \A j \in 1 .. N - n + 1 : a[j] = d[j]
      BY <1>6
    <2> HIDE DEF d
    <2>3. a = d
      BY <2>1, <2>2, SMTT(30)
    <2> QED
      BY <2>3 DEF d
  <1> QED
    BY <1>3, <1>7 DEF a, b, h

(* What is made of pieces that stand for the elements of c means c.        *)
ReadPieces(c, q, text) ==
    \A n \in 1 .. Len(c), m \in 0 .. Len(c) :
      n = m + 1 => text[Len(q[m]) + 1] = <<c[n]>> \o text[Len(q[n]) + 1]

LEMMA PiecesMean ==
    ASSUME NEW c, Sequence(c), NEW q, q[0] = <<>>, NEW text,
           text[Len(q[Len(c)]) + 1] = <<>>, ReadPieces(c, q, text)
    PROVE  text[1] = c
  <1> DEFINE N == Len(c)
             P == {n \in 0 .. N : text[Len(q[n]) + 1] = SubSeq(c, n + 1, N)}
  <1>1. PICK S : c \in Seq(S)
    BY DEF Sequence
  <1>2. N \in Nat
    BY <1>1
  <1>3. N \in P
    <2>1. SubSeq(c, N + 1, N) = <<>>
      BY <1>1
    <2>2. N \in 0 .. N
      BY <1>2
    <2>3. text[Len(q[N]) + 1] = SubSeq(c, N + 1, N)
      BY <2>1
    <2> QED
      BY <2>2, <2>3
  <1>4. ASSUME NEW n \in 1 .. N, n \in P PROVE n - 1 \in P
    <2> DEFINE m == n - 1
    <2>1. m \in 0 .. N /\ n = m + 1 /\ n \in 1 .. Len(c)
      BY <1>2
    <2>2. SubSeq(c, n, N) = <<c[n]>> \o SubSeq(c, n + 1, N)
      BY <1>1, <2>1, LessAtFront
    <2>3. text[Len(q[n]) + 1] = SubSeq(c, n + 1, N)
      BY <1>4
    <2> HIDE DEF m
    <2>4. text[Len(q[m]) + 1] = <<c[n]>> \o text[Len(q[n]) + 1]
      BY <2>1 DEF ReadPieces
    <2>5. text[Len(q[m]) + 1] = SubSeq(c, n, N)
      BY <2>2, <2>3, <2>4
    <2> HIDE DEF N
    <2>6. text[Len(q[m]) + 1] = SubSeq(c, m + 1, N)
      BY <2>1, <2>5
    <2>7. m \in P
      BY <2>1, <2>6
    <2> QED
      BY <2>7 DEF m
  <1>5. 0 \in P
    <2> HIDE DEF P, N
    <2> QED
      BY <1>2, <1>3, <1>4, Downward
  <1>6. text[Len(q[0]) + 1] = SubSeq(c, 0 + 1, N)
    BY <1>5
  <1>7. Len(q[0]) + 1 = 1 /\ 0 + 1 = 1
    OBVIOUS
  <1>8. SubSeq(c, 1, N) = c
    BY <1>1
  <1> HIDE DEF N
  <1> QED
    BY <1>6, <1>7, <1>8

(* A piece of an escaped text that stands for one byte.                    *)
StandsFor(x, byte) ==
    \/ byte # Backslash /\ x = <<byte>>
    \/ \E code : x = <<Backslash, code>> /\ Decoded(code) = byte

LEMMA UnescapedPieces ==
    ASSUME NEW c, Sequence(c), NEW C, NEW q, NEW e, Pieces(Len(c), C, q, e), q[0] = <<>>,
           \A n \in 1 .. Len(c) : StandsFor(e[n], c[n])
    PROVE  Unescaped(q[Len(c)]) = c
  <1> DEFINE N == Len(c)
             t == q[N]
  <1>1. N \in Nat /\ \A n \in 0 .. N : q[n] \in Seq(C) /\ Len(q[n]) \in Nat
    BY DEF Sequence, Pieces
  <1>2. IsText(t) /\ Len(t) \in Nat
    <2>1. t \in Seq(C)
      BY <1>1
    <2> QED
      BY <2>1 DEF IsText
  <1>3. PICK D, text : MeansOn(t, D, text) /\ Unescaped(t) = text[1]
    <2> HIDE DEF t
    <2> QED
      BY <1>2, UnescapedReads
  <1>4. text[Len(t) + 1] = <<>>
    <2>1. Len(t) + 1 \in Nat /\ Len(t) + 1 > Len(t)
      BY <1>2
    <2> HIDE DEF t
    <2> QED
      BY <1>3, <2>1 DEF MeansOn
  <1>5. ASSUME NEW n \in 1 .. N, NEW m \in 0 .. N, n = m + 1
        PROVE  text[Len(q[m]) + 1] = <<c[n]>> \o text[Len(q[n]) + 1]
    <2> DEFINE a == Len(q[m])
               b == Len(q[n])
               k == Len(e[n])
    <2>1. PieceInPlace(N, q, e, n, m)
      <3>1. m = n - 1
        BY <1>5
      <3> HIDE DEF N
      <3> QED
        BY <1>1, <3>1, PiecesStay DEF N
    <2>2. /\ b = a + k /\ b <= Len(t)
          /\ \A j \in 1 .. k : t[a + j] = e[n][j]
      BY <2>1 DEF PieceInPlace
    <2>3. a \in Nat /\ b \in Nat
      BY <1>1, <1>5
    <2>4. StandsFor(e[n], c[n])
      OBVIOUS
    <2> HIDE DEF t, N
    <2>5. CASE c[n] # Backslash /\ e[n] = <<c[n]>>
      <3>1. k = 1 /\ e[n][1] = c[n]
        BY <2>5
      <3> HIDE DEF k, a, b
      <3>2. a + 1 \in 1 .. Len(t) /\ t[a + 1] = c[n] /\ b = a + 1 /\ a + 1 \in Nat /\ b + 1 = a + 1 + 1
        BY <1>2, <2>2, <2>3, <3>1
      <3>3. text[a + 1] = <<t[a + 1]>> \o text[a + 1 + 1]
        BY <1>3, <2>5, <3>2 DEF MeansOn
      <3> QED
        BY <3>2, <3>3 DEF a, b
    <2>6. ASSUME NEW code, e[n] = <<Backslash, code>>, Decoded(code) = c[n]
          PROVE  text[a + 1] = <<c[n]>> \o text[b + 1]
      <3>1. k = 2 /\ e[n][1] = Backslash /\ e[n][2] = code
        BY <2>6
      <3> HIDE DEF k, a, b
      <3>2. /\ a + 1 \in 1 .. Len(t) /\ t[a + 1] = Backslash /\ t[a + 2] = code
            /\ b = a + 2 /\ a + 1 \in Nat /\ b + 1 = a + 1 + 2 /\ a + 1 + 1 = a + 2
        BY <1>2, <2>2, <2>3, <3>1
      <3>3. text[a + 1] = <<Decoded(t[a + 1 + 1])>> \o text[a + 1 + 2]
        BY <1>3, <3>2 DEF MeansOn
      <3> QED
        BY <2>6, <3>2, <3>3
    <2> HIDE DEF a, b
    <2>7. text[a + 1] = <<c[n]>> \o text[b + 1]
      BY <2>4, <2>5, <2>6 DEF StandsFor, a, b
    <2> QED
      BY <2>7 DEF a, b
  <1>6. text[1] = c
    <2>1. ReadPieces(c, q, text)
      BY <1>5 DEF ReadPieces
    <2> QED
      BY <1>4, <2>1, PiecesMean
  <1> QED
    BY <1>3, <1>6

LEMMA EscapedPieces ==
    ASSUME NEW s, Sequence(s)
    PROVE  \E C, q, e :
             /\ Pieces(Len(CString(s)), C, q, e)
             /\ q[0] = <<>>
             /\ Escaped(s) = q[Len(CString(s))]
             /\ \A n \in 1 .. Len(CString(s)) :
                  SafePiece(e[n]) /\ StandsFor(e[n], CString(s)[n])
  <1> DEFINE c == CString(s)
             e == [i \in DOMAIN c |-> EscapeChar(c[i])]
  <1>1. Sequence(c) /\ \A i \in DOMAIN c : c[i] # Nul
    BY CStringType
  <1>2. DOMAIN c = 1 .. Len(c) /\ Len(c) \in Nat
    BY <1>1 DEF Sequence
  <1>3. Escaped(s) = FlattenSeq(e)
    BY DEF Escaped
  <1> HIDE DEF c
  <1>4. ASSUME NEW i \in DOMAIN c PROVE e[i] = EscapeChar(c[i])
    OBVIOUS
  <1>5. e = [i \in DOMAIN c |-> e[i]]
    OBVIOUS
  <1> HIDE DEF e
  <1>6. ASSUME NEW i \in DOMAIN c
        PROVE  Sequence(e[i]) /\ SafePiece(e[i]) /\ StandsFor(e[i], c[i])
    <2> DEFINE byte == c[i]
    <2>1. e[i] = EscapeChar(byte)
      BY <1>4
    <2> HIDE DEF byte
    <2>2. CASE byte \in DOMAIN Letter
      <3> DEFINE code == Letter[byte]
      <3>1. e[i] = <<Backslash, code>>
        BY <2>1, <2>2 DEF EscapeChar
      <3>2. Decoded(code) = byte
        BY <2>2, CodesType, CodesAreDecoded
      <3> HIDE DEF code
      <3>3. Len(e[i]) = 2 /\ e[i][1] = Backslash /\ e[i] \in Seq({Backslash, code})
        BY <3>1
      <3> QED
        BY <3>1, <3>2, <3>3 DEF Sequence, SafePiece, StandsFor, byte
    <2>3. CASE byte \notin DOMAIN Letter /\ byte \in OtherControls
      <3> DEFINE code == "u0001"
      <3>1. e[i] = <<Backslash, code>>
        BY <2>1, <2>3 DEF EscapeChar
      <3>2. Decoded(code) = byte
        <4>1. byte = "^A"
          BY <2>3 DEF OtherControls
        <4> QED
          BY <4>1, CodesType, CodesAreDecoded
      <3> HIDE DEF code
      <3>3. Len(e[i]) = 2 /\ e[i][1] = Backslash /\ e[i] \in Seq({Backslash, code})
        BY <3>1
      <3> QED
        BY <3>1, <3>2, <3>3 DEF Sequence, SafePiece, StandsFor, byte
    <2>4. CASE byte \notin DOMAIN Letter /\ byte \notin OtherControls
      <3>1. e[i] = <<byte>>
        BY <2>1, <2>4 DEF EscapeChar
      <3>2. byte # Quote /\ byte # Backslash
        <4>1. Quote \in DOMAIN Letter /\ Backslash \in DOMAIN Letter
          BY DEF Letter
        <4> QED
          BY <2>4, <4>1
      <3>3. Len(e[i]) = 1 /\ e[i][1] = byte /\ e[i] \in Seq({byte})
        BY <3>1
      <3> QED
        BY <3>1, <3>2, <3>3 DEF Sequence, SafePiece, StandsFor, byte
    <2> QED
      BY <2>2, <2>3, <2>4
  <1>7. \E C, q : Pieces(Len(c), C, q, e) /\ q[0] = <<>> /\ FlattenSeq(e) = q[Len(c)]
    BY <1>1, <1>5, <1>6, EachInPieces
  <1> QED
    BY <1>2, <1>3, <1>6, <1>7 DEF c

LEMMA EscapedType ==
    ASSUME NEW s, Sequence(s)
    PROVE  Sequence(Escaped(s))
  <1>1. PICK C, q, e : Pieces(Len(CString(s)), C, q, e) /\ Escaped(s) = q[Len(CString(s))]
    BY EscapedPieces
  <1>2. Len(CString(s)) \in Nat
    BY CStringType DEF Sequence
  <1>3. Escaped(s) \in Seq(C)
    BY <1>1, <1>2 DEF Pieces
  <1> QED
    BY <1>3 DEF Sequence

(* What the digits of a number sum up to, digit by digit from the front.   *)
Sums(v, d) ==
    /\ v[0] = 0 /\ \A j \in 0 .. Len(d) : v[j] \in Int
    /\ \A j \in 0 .. Len(d), k \in 1 .. Len(d) : k = j + 1 => v[k] = 10 * v[j] + DigitValue(d[k])

Means(d, m) == d \in Seq(DigitSet) /\ Len(d) >= 1 /\ \A v : Sums(v, d) => v[Len(d)] = m

LEMMA DigitValueOf ==
    ASSUME NEW r \in 0 .. 9
    PROVE  Digits[r + 1] \in DigitSet /\ DigitValue(Digits[r + 1]) = r
  <1>1. DOMAIN Digits = 1 .. 10
    BY DEF Digits
  <1>2. \A i \in 1 .. 10 : \A j \in 1 .. 10 : Digits[i] = Digits[j] => i = j
    BY DEF Digits
  <1> HIDE DEF Digits
  <1>3. r + 1 \in 1 .. 10 /\ \A n \in 0 .. 9 : n + 1 \in 1 .. 10 /\ (n + 1 = r + 1 => n = r)
    OBVIOUS
  <1>4. Digits[r + 1] \in DigitSet
    BY <1>1, <1>3 DEF DigitSet
  <1>5. \A n \in 0 .. 9 : Digits[n + 1] = Digits[r + 1] => n = r
    BY <1>2, <1>3
  <1>6. DigitValue(Digits[r + 1]) = CHOOSE n \in 0 .. 9 : Digits[n + 1] = Digits[r + 1]
    BY DEF DigitValue
  <1> QED
    BY <1>4, <1>5, <1>6

LEMMA DigitMeans ==
    ASSUME NEW r \in 0 .. 9
    PROVE  Means(<<Digits[r + 1]>>, r)
  <1> DEFINE d == <<Digits[r + 1]>>
  <1>1. d \in Seq(DigitSet) /\ Len(d) = 1 /\ d[1] = Digits[r + 1]
    BY DigitValueOf
  <1> HIDE DEF d
  <1>2. ASSUME NEW v, Sums(v, d) PROVE v[Len(d)] = r
    <2>1. 0 \in 0 .. 1 /\ 1 \in 1 .. 1 /\ 1 = 0 + 1
      OBVIOUS
    <2>2. v[0] = 0 /\ v[1] = 10 * v[0] + DigitValue(d[1])
      BY <1>1, <1>2, <2>1 DEF Sums
    <2> QED
      BY <1>1, <2>2, DigitValueOf
  <1>3. Means(d, r)
    BY <1>1, <1>2 DEF Means
  <1> QED
    BY <1>3 DEF d

LEMMA AppendMeans ==
    ASSUME NEW d, NEW k \in Nat, Means(d, k), NEW r \in 0 .. 9
    PROVE  Means(Append(d, Digits[r + 1]), 10 * k + r)
  <1> DEFINE e == Append(d, Digits[r + 1])
             l == Len(d)
  <1>1. /\ e \in Seq(DigitSet) /\ Len(e) = l + 1 /\ l \in Nat /\ l >= 1
        /\ e[l + 1] = Digits[r + 1] /\ \A j \in 1 .. l : e[j] = d[j]
    BY DigitValueOf DEF Means
  <1> HIDE DEF e, l
  <1>2. ASSUME NEW v, Sums(v, e) PROVE v[l + 1] = 10 * k + r
    <2>1. /\ l \in 0 .. l + 1 /\ l + 1 \in 1 .. l + 1
          /\ \A j \in 0 .. l : j \in 0 .. l + 1
          /\ \A j \in 1 .. l : j \in 1 .. l + 1
      BY <1>1
    <2>2. v[l + 1] = 10 * v[l] + DigitValue(e[l + 1])
      BY <1>1, <1>2, <2>1 DEF Sums
    <2>3. Sums(v, d)
      BY <1>1, <1>2, <2>1 DEF Sums, l
    <2>4. v[l] = k
      BY <2>3 DEF Means, l
    <2> QED
      BY <1>1, <2>2, <2>4, DigitValueOf
  <1>3. Means(e, 10 * k + r)
    BY <1>1, <1>2 DEF Means
  <1> QED
    BY <1>3 DEF e

(* to_string, of the absolute value.                                       *)
LEMMA NumberTextMeans ==
    ASSUME NEW n \in Int
    PROVE  \E d : /\ Means(d, IF n < 0 THEN -n ELSE n)
                  /\ NumberText(n) = IF n < 0 THEN <<"-">> \o d ELSE d
  <1> DEFINE
        S == Nat
        T == Seq(DigitSet)
        size == [m \in S |-> m]
        step(f, m) == IF m < 10 THEN <<Digits[m + 1]>> ELSE Append(f[m \div 10], Digits[(m % 10) + 1])
        Body == [f \in [S -> T] |-> [m \in S |-> step(f, m)]]
        digits == CHOOSE f : f = [m \in S |-> step(f, m)]
        P == {m \in S : Means(digits[m], m)}
  <1>1. \A m \in Nat : /\ m \div 10 \in Nat /\ (~(m < 10) => m \div 10 < m) /\ m % 10 \in 0 .. 9
                       /\ m = 10 * (m \div 10) + (m % 10) /\ (m < 10 => m \in 0 .. 9)
    OBVIOUS
  <1>2. size \in [S -> Nat] /\ <<>> \in T
    OBVIOUS
  <1>3. ASSUME NEW q \in T, NEW m \in S
        PROVE  (IF m < 10 THEN <<Digits[m + 1]>> ELSE Append(q, Digits[(m % 10) + 1])) \in T
    <2>1. CASE m < 10
      <3>1. Digits[m + 1] \in DigitSet
        BY <1>1, <2>1, DigitValueOf
      <3> QED
        BY <2>1, <3>1
    <2>2. CASE ~(m < 10)
      <3>1. Digits[(m % 10) + 1] \in DigitSet
        BY <1>1, DigitValueOf
      <3> QED
        BY <2>2, <3>1
    <2> QED
      BY <2>1, <2>2
  <1>4. PICK f \in [S -> T] : f = Body[f]
    <2>1. ASSUME NEW g \in [S -> T], NEW m \in S PROVE step(g, m) \in T
      BY <1>1, <1>3
    <2>2. ASSUME NEW g \in [S -> T], NEW h \in [S -> T], NEW m \in S,
                 \A r \in S : size[r] < size[m] => g[r] = h[r]
          PROVE  step(g, m) = step(h, m)
      <3>1. ~(m < 10) => g[m \div 10] = h[m \div 10]
        BY <1>1, <2>2
      <3> QED
        BY <3>1
    <2> HIDE DEF step, S, T, size
    <2>3. Grounded(S, T, size, Body)
      BY <1>2, <2>1, <2>2 DEF Grounded
    <2> HIDE DEF Body
    <2> QED
      BY <2>3, Recursion
  <1>5. f = [m \in S |-> step(f, m)]
    BY <1>4
  <1>6. digits = [m \in S |-> step(digits, m)]
    BY <1>5
  <1>7. ASSUME NEW m \in S PROVE digits[m] = step(digits, m)
    <2> HIDE DEF digits, step
    <2> QED
      BY <1>6
  <1>8. NumberText(n) = IF n < 0 THEN <<"-">> \o digits[-n] ELSE digits[n]
    BY DEF NumberText
  <1> HIDE DEF digits
  <1>9. S \subseteq P
    <2>1. ASSUME NEW m \in S, \A r \in S : size[r] < size[m] => r \in P PROVE m \in P
      <3>1. digits[m] = IF m < 10 THEN <<Digits[m + 1]>> ELSE Append(digits[m \div 10], Digits[(m % 10) + 1])
        BY <1>7
      <3>2. CASE m < 10
        <4>1. Means(<<Digits[m + 1]>>, m)
          BY <1>1, <3>2, DigitMeans
        <4> QED
          BY <3>1, <3>2, <4>1
      <3>3. CASE ~(m < 10)
        <4> DEFINE k == m \div 10
                   r == m % 10
        <4>1. k \in Nat /\ r \in 0 .. 9 /\ m = 10 * k + r
          BY <1>1
        <4>2. Means(digits[k], k)
          BY <1>1, <2>1, <3>3
        <4>3. digits[m] = Append(digits[k], Digits[r + 1])
          BY <3>1, <3>3
        <4> HIDE DEF k, r
        <4>4. Means(digits[m], 10 * k + r)
          BY <4>1, <4>2, <4>3, AppendMeans
        <4> QED
          BY <4>1, <4>4
      <3> QED
        BY <3>2, <3>3
    <2> HIDE DEF P, S, size
    <2> QED
      BY <1>2, <2>1, MeasureInduction
  <1>10. CASE n < 0
    <2>1. Means(digits[-n], -n)
      BY <1>9, <1>10
    <2> QED
      BY <1>8, <1>10, <2>1
  <1>11. CASE ~(n < 0)
    <2>1. Means(digits[n], n)
      BY <1>9, <1>11
    <2> QED
      BY <1>8, <1>11, <2>1
  <1> QED
    BY <1>10, <1>11

LEMMA NumberTextType ==
    ASSUME NEW n \in Int
    PROVE  Sequence(NumberText(n))
  <1>1. PICK d : /\ Means(d, IF n < 0 THEN -n ELSE n)
                 /\ NumberText(n) = IF n < 0 THEN <<"-">> \o d ELSE d
    BY NumberTextMeans
  <1>2. Sequence(d)
    BY <1>1 DEF Means, Sequence
  <1>3. Sequence(<<"-">>)
    BY SequenceOne
  <1> QED
    BY <1>1, <1>2, <1>3, SequenceConcat

(* parse_int adds up the digits that stand at a place of the text.         *)
LEMMA DecimalMeans ==
    ASSUME NEW t, NEW from \in Nat \ {0}, NEW d, NEW m \in Nat, Means(d, m), Spells(t, from - 1, d)
    PROVE  Decimal(t, from, from + Len(d)) = m
  <1> DEFINE
        l == Len(d)
        to == from + l
        S == from - 1 .. to - 1
        T == Int
        size == [q \in S |-> q]
        step(f, q) == IF q < from THEN 0 ELSE 10 * f[q - 1] + DigitValue(t[q])
        Body == [f \in [S -> T] |-> [q \in S |-> step(f, q)]]
        value == CHOOSE f : f = [q \in S |-> step(f, q)]
        sum == [j \in 0 .. l |-> value[from - 1 + j]]
  <1>1. l \in Nat /\ \A j \in 1 .. l : d[j] \in DigitSet /\ t[from - 1 + j] = d[j]
    BY DEF Means, Spells
  <1> HIDE DEF l
  <1>2. ASSUME NEW q \in S
        PROVE  q \in Nat /\ (~(q < from) => q - 1 \in S /\ q - 1 < q /\ DigitValue(t[q]) \in Int)
    <2>1. q \in Nat /\ (~(q < from) => q - 1 \in S /\ q - 1 < q)
      BY <1>1
    <2>2. ASSUME ~(q < from) PROVE t[q] \in DigitSet
      <3> DEFINE j == q - from + 1
      <3>1. j \in 1 .. l /\ from - 1 + j = q
        BY <1>1, <2>2
      <3> HIDE DEF j
      <3> QED
        BY <1>1, <3>1
    <2> QED
      BY <2>1, <2>2, DigitValueType
  <1>3. ASSUME NEW g \in [S -> T], NEW q \in S
        PROVE  step(g, q) \in T
    <2> DEFINE x == g[q - 1]
               w == DigitValue(t[q])
    <2>1. ~(q < from) => x \in Int /\ w \in Int
      BY <1>2
    <2>2. step(g, q) = IF q < from THEN 0 ELSE 10 * x + w
      OBVIOUS
    <2> HIDE DEF x, w, step
    <2> QED
      BY <2>1, <2>2
  <1>4. ASSUME NEW g \in [S -> T], NEW h \in [S -> T], NEW q \in S,
               \A r \in S : size[r] < size[q] => g[r] = h[r]
        PROVE  step(g, q) = step(h, q)
    BY <1>2, <1>4
  <1>5. PICK f \in [S -> T] : f = Body[f]
    <2>1. size \in [S -> Nat] /\ T # {}
      BY <1>2
    <2> HIDE DEF step, S, T, size
    <2>2. Grounded(S, T, size, Body)
      BY <1>3, <1>4, <2>1 DEF Grounded
    <2> HIDE DEF Body
    <2> QED
      BY <2>2, Recursion
  <1>6. f = [q \in S |-> step(f, q)]
    BY <1>5
  <1>7. value = [q \in S |-> step(value, q)]
    BY <1>6
  <1>8. ASSUME NEW q \in S PROVE value[q] = step(value, q)
    <2> HIDE DEF value, step, S
    <2> QED
      BY <1>7
  <1>9. Decimal(t, from, to) = value[to - 1]
    BY DEF Decimal
  <1> HIDE DEF value
  <1>10. ASSUME NEW q \in S PROVE value[q] \in Int
    <2> DEFINE P == {r \in S : value[r] \in Int}
    <2>1. ASSUME NEW r \in S, \A x \in S : size[x] < size[r] => x \in P PROVE r \in P
      <3>1. value[r] = step(value, r)
        BY <1>8
      <3>2. ~(r < from) => value[r - 1] \in Int
        BY <1>2, <2>1
      <3> DEFINE x == value[r - 1]
                 w == DigitValue(t[r])
      <3>3. value[r] = IF r < from THEN 0 ELSE 10 * x + w
        BY <3>1
      <3>4. ~(r < from) => x \in Int /\ w \in Int
        BY <1>2, <3>2
      <3> HIDE DEF x, w
      <3> QED
        BY <3>3, <3>4
    <2>2. size \in [S -> Nat]
      BY <1>2
    <2> HIDE DEF P, S, size
    <2>3. S \subseteq P
      BY <2>1, <2>2, MeasureInduction
    <2> QED
      BY <2>3 DEF P
  <1>11. /\ from - 1 \in S /\ from - 1 < from
         /\ \A j \in 0 .. l : from - 1 + j \in S
         /\ \A j \in 0 .. l, k \in 1 .. l :
              k = j + 1 => ~(from - 1 + k < from) /\ from - 1 + k - 1 = from - 1 + j /\ k \in 0 .. l
         /\ 0 \in 0 .. l /\ l \in 0 .. l /\ from - 1 + 0 = from - 1 /\ from - 1 + l = to - 1
    BY <1>1
  <1>12. sum[0] = 0
    <2>1. value[from - 1] = 0
      BY <1>8, <1>11
    <2> QED
      BY <1>11, <2>1
  <1>13. ASSUME NEW j \in 0 .. l, NEW k \in 1 .. l, k = j + 1
         PROVE  sum[k] = 10 * sum[j] + DigitValue(d[k])
    <2> DEFINE q == from - 1 + k
    <2>1. q \in S /\ ~(q < from) /\ q - 1 = from - 1 + j /\ k \in 0 .. l
      BY <1>11, <1>13
    <2>2. sum[k] = value[q] /\ sum[j] = value[q - 1] /\ t[q] = d[k]
      BY <1>1, <2>1
    <2> HIDE DEF q, S, sum
    <2>3. value[q] = 10 * value[q - 1] + DigitValue(t[q])
      BY <1>8, <2>1
    <2> QED
      BY <2>2, <2>3
  <1>14. \A j \in 0 .. l : sum[j] \in Int
    BY <1>10, <1>11
  <1>15. sum[l] = value[to - 1]
    BY <1>11
  <1> HIDE DEF sum, to
  <1>16. Sums(sum, d)
    BY <1>12, <1>13, <1>14 DEF Sums, l
  <1>17. sum[l] = m
    BY <1>16 DEF Means, l
  <1> QED
    BY <1>9, <1>15, <1>17 DEF to, l

(* What the calls of the caller carry.                                     *)
LEMMA CallTypes ==
    ASSUME NEW c \in Calls
    PROVE  /\ c.op \in {"field", "element", "double", "raw", "rawElement"} => Sequence(c.value)
           /\ c.op = "number" => c.value \in Int
  <1>1. c \in CallRecords
    BY CallsAssumption
  <1>2. \A s \in Texts \cup Doubles \cup RawValues : Sequence(s)
    BY TextsAssumption DEF Sequence
  <1>3. c.op \in {"field", "element", "double", "raw", "rawElement"} => c.value \in Texts \cup Doubles \cup RawValues
    BY <1>1 DEF CallRecords
  <1>4. c.op = "number" => c.value \in Int
    BY <1>1 DEF CallRecords
  <1> QED
    BY <1>2, <1>3, <1>4

LEMMA QuotedType ==
    ASSUME NEW s, Sequence(s)
    PROVE  Sequence(<<Quote>> \o Escaped(s) \o <<Quote>>)
  <1>1. Sequence(<<Quote>> \o Escaped(s)) /\ Sequence(<<Quote>>)
    BY EscapedType, SequenceOne, SequenceConcat
  <1> QED
    BY <1>1, SequenceConcat

LEMMA AppendType ==
    ASSUME NEW s, Sequence(s), NEW x
    PROVE  Sequence(Append(s, x))
  <1>1. PICK S : s \in Seq(S)
    BY DEF Sequence
  <1>2. s \in Seq(S \cup {x})
    <2>1. Seq(S) \subseteq Seq(S \cup {x})
      OBVIOUS
    <2> QED
      BY <1>1, <2>1
  <1>3. Append(s, x) \in Seq(S \cup {x})
    BY <1>2
  <1> QED
    BY <1>3 DEF Sequence

-----------------------------------------------------------------------------
(* Where the writer has put the text s as a string.                        *)
WrittenAt(b, s, from, to) ==
    /\ Sequence(s)
    /\ from \in Nat \ {0}
    /\ to = from + Len(Escaped(s)) + 2
    /\ to <= Len(b) + 1
    /\ b[from] = Quote /\ b[to - 1] = Quote /\ Spells(b, from, Escaped(s))

LEMMA ConcatBytes ==
    ASSUME NEW a, NEW b, Sequence(a), Sequence(b)
    PROVE  /\ Len(a) \in Nat /\ Len(b) \in Nat
           /\ Len(a \o b) = Len(a) + Len(b)
           /\ \A i \in 1 .. Len(a) : (a \o b)[i] = a[i]
           /\ \A i \in 1 .. Len(b) : (a \o b)[Len(a) + i] = b[i]
  <1>1. PICK S : a \in Seq(S)
    BY DEF Sequence
  <1>2. PICK T : b \in Seq(T)
    BY DEF Sequence
  <1> DEFINE U == S \cup T
  <1>3. a \in Seq(U) /\ b \in Seq(U)
    <2>1. Seq(S) \subseteq Seq(U) /\ Seq(T) \subseteq Seq(U)
      OBVIOUS
    <2> QED
      BY <1>1, <1>2, <2>1
  <1> HIDE DEF U
  <1>4. Len(a) \in Nat /\ Len(b) \in Nat /\ Len(a \o b) = Len(a) + Len(b)
    BY <1>3
  <1>5. \A i \in 1 .. Len(a) : (a \o b)[i] = a[i]
    BY <1>3
  <1>6. \A i \in 1 .. Len(b) : (a \o b)[Len(a) + i] = b[i]
    BY <1>3
  <1> QED
    BY <1>4, <1>5, <1>6

(* What has been written stays where it is when more is.                   *)
LEMMA WrittenStays ==
    ASSUME NEW b, NEW x, Sequence(b), Sequence(x), NEW s, NEW from, NEW to, WrittenAt(b, s, from, to)
    PROVE  WrittenAt(b \o x, s, from, to)
  <1> DEFINE k == Len(Escaped(s))
             lb == Len(b)
             lx == Len(x)
             d == b \o x
  <1>1. lb \in Nat /\ lx \in Nat /\ Len(d) = lb + lx /\ \A i \in 1 .. lb : d[i] = b[i]
    BY ConcatBytes
  <1>2. k \in Nat
    BY EscapedType DEF WrittenAt, Sequence
  <1>3. /\ from \in Nat \ {0} /\ to = from + k + 2 /\ to <= lb + 1
        /\ b[from] = Quote /\ b[to - 1] = Quote /\ \A j \in 1 .. k : b[from + j] = Escaped(s)[j]
    BY DEF WrittenAt, Spells
  <1> HIDE DEF k, lb, lx, d
  <1>4. /\ from \in 1 .. lb /\ to - 1 \in 1 .. lb /\ to <= Len(d) + 1
        /\ \A j \in 1 .. k : from + j \in 1 .. lb
    BY <1>1, <1>2, <1>3
  <1>5. d[from] = Quote /\ d[to - 1] = Quote /\ \A j \in 1 .. k : d[from + j] = Escaped(s)[j]
    BY <1>1, <1>3, <1>4
  <1>6. Sequence(s)
    BY DEF WrittenAt
  <1> QED
    BY <1>3, <1>4, <1>5, <1>6 DEF WrittenAt, Spells, k, d

(* A string put behind what there is.                                      *)
LEMMA WrittenBehind ==
    ASSUME NEW a, Sequence(a), NEW s, Sequence(s), NEW from, from = Len(a) + 1,
           NEW to, to = from + Len(<<Quote>> \o Escaped(s) \o <<Quote>>)
    PROVE  WrittenAt(a \o (<<Quote>> \o Escaped(s) \o <<Quote>>), s, from, to)
  <1> DEFINE e == Escaped(s)
             h == <<Quote>>
             he == h \o e
             x == he \o h
             d == a \o x
             la == Len(a)
             lh == Len(h)
             le == Len(e)
             lhe == Len(he)
             lx == Len(x)
             ld == Len(d)
  <1>1. Sequence(e) /\ Sequence(h) /\ Sequence(he) /\ Sequence(x)
    BY EscapedType, SequenceOne, SequenceConcat
  <1>2. lh = 1 /\ h[1] = Quote
    OBVIOUS
  <1>3. /\ lh \in Nat /\ le \in Nat /\ lhe = lh + le
        /\ \A i \in 1 .. lh : he[i] = h[i]
        /\ \A i \in 1 .. le : he[lh + i] = e[i]
    <2> HIDE DEF h, e
    <2> QED
      BY <1>1, ConcatBytes
  <1>4. /\ lx = lhe + lh
        /\ \A i \in 1 .. lhe : x[i] = he[i]
        /\ \A i \in 1 .. lh : x[lhe + i] = h[i]
    <2> HIDE DEF h, he
    <2> QED
      BY <1>1, ConcatBytes
  <1>5. /\ la \in Nat /\ ld = la + lx
        /\ \A i \in 1 .. lx : d[la + i] = x[i]
    <2> HIDE DEF x
    <2> QED
      BY <1>1, ConcatBytes
  <1>6. from = la + 1 /\ to = from + lx
    OBVIOUS
  <1> HIDE DEF e, h, he, x, d, la, lh, le, lhe, lx, ld
  <1>7. /\ from \in Nat \ {0} /\ to = from + le + 2 /\ to <= ld + 1
        /\ 1 \in 1 .. lx /\ le + 2 \in 1 .. lx /\ to - 1 = la + (le + 2)
        /\ 1 \in 1 .. lh /\ 1 \in 1 .. lhe /\ le + 2 = lhe + 1
    BY <1>2, <1>3, <1>4, <1>5, <1>6, SMTT(30)
  <1>8. ASSUME NEW j \in 1 .. le PROVE d[from + j] = e[j]
    <2>1. lh = 1 /\ le \in Nat /\ lhe = 1 + le /\ lx = le + 2 /\ la \in Nat /\ from = la + 1
      BY <1>2, <1>3, <1>4, <1>5, <1>6
    <2>2. j \in Nat /\ 1 <= j /\ j <= le
      BY <2>1
    <2>3. from + j = la + (lh + j) /\ lh + j \in 1 .. lx /\ lh + j \in 1 .. lhe
      BY <2>1, <2>2
    <2> QED
      BY <1>3, <1>4, <1>5, <2>3
  <1>9. d[from] = Quote
    BY <1>2, <1>3, <1>4, <1>5, <1>6, <1>7
  <1>10. d[to - 1] = Quote
    BY <1>2, <1>4, <1>5, <1>7
  <1>11. WrittenAt(d, s, from, to)
    BY <1>7, <1>8, <1>9, <1>10 DEF WrittenAt, Spells, le, ld, e
  <1> QED
    BY <1>11 DEF d, x, he, h, e

(* A string that was written is read from where it begins to where it ends *)
(* and means what was written.                                             *)
LEMMA WrittenIsRead ==
    ASSUME NEW b, Sequence(b), NEW s, NEW from, NEW to, WrittenAt(b, s, from, to)
    PROVE  /\ SkipString(b, from) = to
           /\ ParseString(b, from) = [end |-> to, span |-> <<from + 1, to - 1>>]
           /\ Unescaped(SubSeq(b, from + 1, to - 2)) = CString(s)
  <1> DEFINE x == Escaped(s)
             k == Len(x)
             N == Len(CString(s))
  <1>1. /\ Sequence(s) /\ from \in Nat \ {0} /\ to = from + k + 2 /\ to <= Len(b) + 1
        /\ b[from] = Quote /\ b[to - 1] = Quote /\ Spells(b, from, x)
    BY DEF WrittenAt
  <1>2. IsText(b) /\ Len(b) \in Nat
    BY SequenceIsText DEF IsText
  <1>3. PICK C, q, e : /\ Pieces(N, C, q, e)
                       /\ q[0] = <<>>
                       /\ x = q[N]
                       /\ \A n \in 1 .. N : SafePiece(e[n]) /\ StandsFor(e[n], CString(s)[n])
    BY <1>1, EscapedPieces
  <1>4. Sequence(CString(s)) /\ N \in Nat
    BY <1>1, CStringType DEF Sequence
  <1>5. x \in Seq(C) /\ k \in Nat
    BY <1>3, <1>4 DEF Pieces
  <1>6. Unescaped(x) = CString(s)
    BY <1>3, <1>4, UnescapedPieces
  <1> DEFINE z == from + k + 1
  <1>7. z = to - 1 /\ z + 1 = to /\ z \in Nat /\ z <= Len(b) /\ from <= Len(b) /\ from + 1 = z - k
    BY <1>1, <1>2, <1>5
  <1>8. StringEnd(b, from + 1) = to
    <2>1. b[z] = Quote /\ Spells(b, from, q[N]) /\ z = from + Len(q[N]) + 1 /\ from \in Nat
      BY <1>1, <1>3, <1>7
    <2> HIDE DEF z, x, k, N
    <2>2. StringEnd(b, from + 1) = z + 1
      BY <1>2, <1>3, <1>4, <1>7, <2>1, StringOfPieces
    <2> QED
      BY <1>7, <2>2
  <1>9. SkipString(b, from) = to
    <2>1. At(b, from, Quote)
      BY <1>1, <1>2, <1>7 DEF At, IsText
    <2> QED
      BY <1>8, <2>1 DEF SkipString
  <1>10. SkipWs(b, from) = from
    <2> DEFINE w == SkipWs(b, from)
    <2>1. /\ w \in Nat /\ from <= w
          /\ \A i \in from .. w - 1 : b[i] \in Spaces
      BY <1>1, <1>2, <1>7, SkipAllBounds DEF SkipWs
    <2>2. Quote \notin Spaces
      BY DEF Quote, Spaces
    <2> HIDE DEF w
    <2>3. ASSUME w # from PROVE FALSE
      <3>1. from \in from .. w - 1
        BY <1>1, <2>1, <2>3
      <3> QED
        BY <1>1, <2>1, <2>2, <3>1
    <2> QED
      BY <2>3 DEF w
  <1>11. to # Fail
    BY <1>1, <1>5 DEF Fail
  <1>12. ParseString(b, from) = [end |-> to, span |-> <<from + 1, to - 1>>]
    BY <1>9, <1>10, <1>11 DEF ParseString
  <1>13. SubSeq(b, from + 1, to - 2) = x
    <2> DEFINE m == from + 1
               n == to - 2
               y == SubSeq(b, m, n)
    <2>1. m \in 1 .. Len(b) + 1 /\ n \in m - 1 .. Len(b) /\ n - m + 1 = k /\ n \in Nat
      BY <1>1, <1>2, <1>5
    <2>2. PICK S : b \in Seq(S)
      BY DEF Sequence
    <2> HIDE DEF m, n
    <2>3. y \in Seq(S) /\ Len(y) = n - m + 1
      BY <2>1, <2>2
    <2>4. \A i \in 1 .. n - m + 1 : y[i] = b[m + i - 1]
      BY <2>1, <2>2
    <2> HIDE DEF y
    <2>5. \A i \in 1 .. k : m + i - 1 = from + i
      BY <1>1, <1>5 DEF m
    <2>6. \A i \in 1 .. k : b[from + i] = x[i]
      BY <1>1 DEF Spells
    <2> HIDE DEF x, k
    <2>7. Len(y) = k /\ \A i \in 1 .. k : y[i] = x[i]
      BY <2>1, <2>3, <2>4, <2>5, <2>6
    <2> DEFINE U == S \cup C
    <2>8. y \in Seq(U) /\ x \in Seq(U) /\ Len(x) = k
      <3>1. Seq(S) \subseteq Seq(U) /\ Seq(C) \subseteq Seq(U)
        OBVIOUS
      <3> QED
        BY <1>5, <2>3, <3>1 DEF k
    <2> HIDE DEF U
    <2>9. y = x
      BY <1>5, <2>7, <2>8
    <2> QED
      BY <2>9 DEF y, m, n
  <1> QED
    BY <1>6, <1>9, <1>12, <1>13

LEMMA SkipAllIs ==
    ASSUME NEW t, IsText(t), NEW p \in Nat, NEW S, NEW e \in Nat, p <= e, e <= Len(t) + 1,
           \A q \in p .. e - 1 : t[q] \in S, e = Len(t) + 1 \/ t[e] \notin S
    PROVE  SkipAll(t, p, S) = e
  <1> DEFINE l == Len(t)
             stops == {l + 1} \cup {q \in p .. l : t[q] \notin S}
             end == Min(stops)
  <1>1. l \in Nat /\ e <= l + 1
    BY DEF IsText
  <1>2. SkipAll(t, p, S) = end
    BY DEF SkipAll
  <1> HIDE DEF l
  <1>3. stops \subseteq Nat /\ stops # {} /\ \A q \in stops : e <= q
    <2>1. ASSUME NEW q \in p .. l, t[q] \notin S PROVE e <= q
      <3>1. q \in Nat /\ q \notin p .. e - 1
        BY <2>1
      <3> QED
        BY <3>1
    <2> QED
      BY <1>1, <2>1
  <1>4. e \in stops
    BY <1>1 DEF l
  <1> HIDE DEF stops
  <1>5. end \in stops /\ end <= e
    BY <1>3, <1>4, MinIsLeast
  <1> HIDE DEF end
  <1>6. end \in Nat /\ e <= end
    BY <1>3, <1>5
  <1> QED
    BY <1>2, <1>5, <1>6

(* What follows a value.                                                   *)
Enders == {",", "}", "]"}

(* Where the writer has put the number n.                                  *)
NumberAt(b, n, from, to) ==
    /\ n \in Int /\ from \in Nat \ {0}
    /\ to = from + Len(NumberText(n)) /\ to <= Len(b) + 1
    /\ Spells(b, from - 1, NumberText(n))
    /\ to <= Len(b) => b[to] \in Enders

LEMMA DigitsAreNoEnders ==
    /\ \A c \in DigitSet : c \notin Enders \cup Spaces \cup {"-", "{", "["}
    /\ "-" \notin Enders \cup Spaces \cup DigitSet \cup {"{", "["}
  <1>1. \A c \in DigitSet : c \in {"0", "1", "2", "3", "4", "5", "6", "7", "8", "9"}
    BY DEF DigitSet, Digits
  <1> QED
    BY <1>1 DEF Enders, Spaces

(* The digits of the number n at a place: where they begin and end.        *)
Numeral(b, n, first, to, d) ==
    /\ Means(d, IF n < 0 THEN -n ELSE n) /\ Spells(b, first - 1, d)
    /\ to = first + Len(d)

LEMMA NumeralAt ==
    ASSUME NEW b, IsText(b), NEW n, NEW from, NEW to, NumberAt(b, n, from, to)
    PROVE  \E d : /\ n < 0 => b[from] = "-" /\ Numeral(b, n, from + 1, to, d)
                  /\ ~(n < 0) => Numeral(b, n, from, to, d)
  <1>1. n \in Int /\ from \in Nat \ {0}
    BY DEF NumberAt
  <1>2. PICK d : /\ Means(d, IF n < 0 THEN -n ELSE n)
                 /\ NumberText(n) = IF n < 0 THEN <<"-">> \o d ELSE d
    BY <1>1, NumberTextMeans
  <1>3. to = from + Len(NumberText(n)) /\ Spells(b, from - 1, NumberText(n))
    BY DEF NumberAt
  <1>4. ASSUME n < 0 PROVE b[from] = "-" /\ Numeral(b, n, from + 1, to, d)
    <2> DEFINE s == <<"-">>
               x == s \o d
               l == Len(d)
    <2>1. Sequence(s) /\ Sequence(d) /\ Len(s) = 1 /\ s[1] = "-"
      BY <1>2, SequenceOne DEF Means, Sequence
    <2> HIDE DEF s
    <2>2. /\ l \in Nat /\ Len(x) = 1 + l /\ x[1] = s[1] /\ \A i \in 1 .. l : x[1 + i] = d[i]
      <3>1. 1 \in 1 .. 1
        OBVIOUS
      <3> QED
        BY <2>1, <3>1, ConcatBytes, SMTT(30)
    <2>3. NumberText(n) = x
      BY <1>2, <1>4 DEF s
    <2> HIDE DEF x, l
    <2>4. \A j \in 1 .. 1 + l : b[from - 1 + j] = x[j]
      BY <1>3, <2>2, <2>3 DEF Spells
    <2>5. 1 \in 1 .. 1 + l /\ from - 1 + 1 = from /\ to = from + 1 + l
          /\ \A j \in 1 .. l : 1 + j \in 1 .. 1 + l /\ from - 1 + (1 + j) = (from + 1) - 1 + j
      BY <1>1, <1>3, <2>2, <2>3
    <2>6. b[from] = "-"
      BY <2>1, <2>2, <2>4, <2>5
    <2>7. \A j \in 1 .. l : b[(from + 1) - 1 + j] = d[j]
      BY <2>2, <2>4, <2>5
    <2>8. Spells(b, (from + 1) - 1, d)
      BY <2>7 DEF Spells, l
    <2>9. to = from + 1 + Len(d)
      BY <2>5 DEF l
    <2>10. Means(d, IF n < 0 THEN -n ELSE n)
      BY <1>2
    <2>11. Numeral(b, n, from + 1, to, d)
      BY <2>8, <2>9, <2>10 DEF Numeral
    <2> QED
      BY <2>6, <2>11
  <1>5. ASSUME ~(n < 0) PROVE Numeral(b, n, from, to, d)
    BY <1>2, <1>3, <1>5 DEF Numeral
  <1> QED
    BY <1>4, <1>5

(* The digits are read to their end, and as the number they mean.          *)
LEMMA NumeralIsRead ==
    ASSUME NEW b, IsText(b), NEW m \in Nat, NEW first \in Nat \ {0}, NEW d, Means(d, m),
           Spells(b, first - 1, d), NEW to, to = first + Len(d), to <= Len(b) + 1,
           to <= Len(b) => b[to] \in Enders
    PROVE  /\ In(b, first, DigitSet)
           /\ SkipAll(b, first, DigitSet) = to
           /\ Decimal(b, first, to) = m
  <1> DEFINE l == Len(d)
             lb == Len(b)
  <1>1. l \in Nat /\ l >= 1 /\ \A j \in 1 .. l : d[j] \in DigitSet /\ b[first - 1 + j] = d[j]
    BY DEF Means, Spells
  <1>2. lb \in Nat /\ DOMAIN b = 1 .. lb
    BY DEF IsText
  <1>3. to = first + l /\ to <= lb + 1
    OBVIOUS
  <1> HIDE DEF l, lb
  <1>4. to \in Nat /\ first <= to /\ first \in 1 .. lb /\ first \in first .. to - 1
    BY ONLY <1>1, <1>2, <1>3, first \in Nat \ {0}
  <1>5. ASSUME NEW q \in first .. to - 1 PROVE b[q] \in DigitSet
    <2> DEFINE j == q - first + 1
    <2>1. j \in 1 .. l /\ first - 1 + j = q
      BY <1>1, <1>3
    <2> HIDE DEF j
    <2> QED
      BY <1>1, <2>1
  <1>6. to = lb + 1 \/ b[to] \notin DigitSet
    <2>1. CASE to = lb + 1
      BY <2>1
    <2>2. CASE to # lb + 1
      <3>1. to <= lb
        BY <1>2, <1>3, <1>4, <2>2
      <3>2. b[to] \in Enders
        BY <3>1 DEF lb
      <3> QED
        BY <3>2, DigitsAreNoEnders
    <2> QED
      BY <2>1, <2>2
  <1>7. SkipAll(b, first, DigitSet) = to
    BY <1>3, <1>4, <1>5, <1>6, SkipAllIs DEF lb
  <1>8. In(b, first, DigitSet)
    BY <1>2, <1>4, <1>5 DEF In
  <1>9. Decimal(b, first, to) = m
    BY <1>3, DecimalMeans DEF l
  <1> QED
    BY <1>7, <1>8, <1>9

(* parse_int reads what to_string wrote, unless it is out of range.        *)
LEMMA NumberIsRead ==
    ASSUME NEW b, IsText(b), NEW n, NEW from, NEW to, NumberAt(b, n, from, to)
    PROVE  ParseInt(b, from) = IF n \in -IntMax .. IntMax THEN [end |-> to, num |-> n]
                               ELSE [end |-> Fail, num |-> 0]
  <1>1. n \in Int /\ from \in Nat \ {0} /\ to <= Len(b) + 1 /\ (to <= Len(b) => b[to] \in Enders)
    BY DEF NumberAt
  <1>2. PICK d : /\ n < 0 => b[from] = "-" /\ Numeral(b, n, from + 1, to, d)
                 /\ ~(n < 0) => Numeral(b, n, from, to, d)
    BY NumeralAt
  <1> DEFINE m == IF n < 0 THEN -n ELSE n
             first == IF n < 0 THEN from + 1 ELSE from
  <1>3. Means(d, m) /\ Spells(b, first - 1, d) /\ to = first + Len(d) /\ m \in Nat /\ first \in Nat \ {0}
    BY <1>1, <1>2 DEF Numeral
  <1> HIDE DEF m, first
  <1>4. /\ In(b, first, DigitSet)
        /\ SkipAll(b, first, DigitSet) = to
        /\ Decimal(b, first, to) = m
    BY <1>1, <1>3, NumeralIsRead
  <1>5. from \in DOMAIN b /\ b[from] \notin Spaces /\ (b[from] = "-" <=> n < 0)
    <2>1. CASE n < 0
      <3>1. first = from + 1 /\ first \in DOMAIN b
        BY <1>4, <2>1 DEF In, first
      <3>2. from \in DOMAIN b
        BY <1>1, <3>1 DEF IsText
      <3> QED
        BY <1>2, <2>1, <3>2, DigitsAreNoEnders
    <2>2. CASE ~(n < 0)
      <3>1. from \in DOMAIN b /\ b[from] \in DigitSet
        BY <1>4, <2>2 DEF In, first
      <3> QED
        BY <2>2, <3>1, DigitsAreNoEnders
    <2> QED
      BY <2>1, <2>2
  <1>6. SkipWs(b, from) = from
    <2>1. from \in Nat /\ from <= from /\ from <= Len(b) + 1 /\ \A q \in from .. from - 1 : b[q] \in Spaces
      BY <1>1, <1>5 DEF IsText
    <2> QED
      BY <1>5, <2>1, SkipAllIs DEF SkipWs
  <1>7. (IF At(b, from, "-") THEN from + 1 ELSE from) = first
    BY <1>5 DEF At, first
  <1>8. ParseInt(b, from) = IF m > IntMax THEN [end |-> Fail, num |-> 0]
                            ELSE [end |-> to, num |-> IF At(b, from, "-") THEN -m ELSE m]
    BY <1>4, <1>6, <1>7 DEF ParseInt
  <1>9. (IF At(b, from, "-") THEN -m ELSE m) = n
    <2>1. At(b, from, "-") <=> n < 0
      BY <1>5 DEF At
    <2> QED
      BY <1>1, <2>1 DEF m
  <1>10. m > IntMax <=> n \notin -IntMax .. IntMax
    BY <1>1, ReaderLimits DEF m
  <1> QED
    BY <1>8, <1>9, <1>10

(* It stays where it is when more is written, and still ends there.        *)
LEMMA NumberStays ==
    ASSUME NEW b, NEW x, Sequence(b), Sequence(x), NEW n, NEW from, NEW to, NumberAt(b, n, from, to),
           to = Len(b) + 1 => x = <<>> \/ x[1] \in Enders
    PROVE  NumberAt(b \o x, n, from, to)
  <1> DEFINE k == Len(NumberText(n))
             lb == Len(b)
             lx == Len(x)
             d == b \o x
  <1>1. /\ lb \in Nat /\ lx \in Nat /\ Len(d) = lb + lx
        /\ \A i \in 1 .. lb : d[i] = b[i]
        /\ \A i \in 1 .. lx : d[lb + i] = x[i]
    BY ConcatBytes
  <1>2. n \in Int /\ k \in Nat
    BY NumberTextType DEF NumberAt, Sequence
  <1>3. /\ from \in Nat \ {0} /\ to = from + k /\ to <= lb + 1 /\ (to <= lb => b[to] \in Enders)
        /\ \A j \in 1 .. k : b[from - 1 + j] = NumberText(n)[j]
    BY DEF NumberAt, Spells
  <1>4. lx = 0 => x = <<>>
    BY DEF Sequence
  <1>5. x = <<>> => lx = 0
    OBVIOUS
  <1> HIDE DEF k, lb, lx, d
  <1>6. /\ to <= lb + lx + 1 /\ \A j \in 1 .. k : from - 1 + j \in 1 .. lb
        /\ to <= lb => to \in 1 .. lb
        /\ to <= lb + lx => to <= lb \/ (to = lb + 1 /\ lx # 0 /\ 1 \in 1 .. lx)
    BY <1>1, <1>2, <1>3
  <1>7. \A j \in 1 .. k : d[from - 1 + j] = NumberText(n)[j]
    BY <1>1, <1>3, <1>6
  <1>8. to <= lb + lx => d[to] \in Enders
    <2>1. CASE to <= lb
      BY <1>1, <1>3, <1>6, <2>1
    <2>2. CASE to <= lb + lx /\ ~(to <= lb)
      <3>1. to = lb + 1 /\ 1 \in 1 .. lx /\ x # <<>>
        BY <1>5, <1>6, <2>2
      <3>2. d[lb + 1] = x[1]
        BY <1>1, <3>1
      <3> QED
        BY <3>1, <3>2 DEF lb
    <2> QED
      BY <2>1, <2>2
  <1> QED
    BY <1>1, <1>2, <1>3, <1>6, <1>7, <1>8 DEF NumberAt, Spells, k, d

(* A number put behind what there is.                                      *)
LEMMA NumberBehind ==
    ASSUME NEW a, Sequence(a), NEW n \in Int
    PROVE  NumberAt(a \o NumberText(n), n, Len(a) + 1, Len(a) + 1 + Len(NumberText(n)))
  <1> DEFINE x == NumberText(n)
             la == Len(a)
             lx == Len(x)
             d == a \o x
  <1>1. Sequence(x)
    BY NumberTextType
  <1>2. la \in Nat /\ lx \in Nat /\ Len(d) = la + lx /\ \A i \in 1 .. lx : d[la + i] = x[i]
    <2> HIDE DEF x
    <2> QED
      BY <1>1, ConcatBytes
  <1> HIDE DEF la, lx, d
  <1>3. /\ la + 1 \in Nat \ {0} /\ la + 1 + lx <= la + lx + 1 /\ ~(la + 1 + lx <= la + lx)
        /\ \A j \in 1 .. lx : la + 1 - 1 + j = la + j
    BY <1>2
  <1> QED
    BY <1>2, <1>3 DEF NumberAt, Spells, la, lx, d, x

LEMMA LastIsDigit ==
    ASSUME Sequence(buffer), NEW n, NEW from, NEW to, NumberAt(buffer, n, from, to),
           to = Len(buffer) + 1
    PROVE  buffer # <<>> /\ Last(buffer) \in DigitSet
  <1> DEFINE lb == Len(buffer)
  <1>1. PICK S : buffer \in Seq(S)
    BY DEF Sequence
  <1>2. IsText(buffer)
    BY SequenceIsText
  <1>3. n \in Int /\ from \in Nat \ {0}
    BY DEF NumberAt
  <1>4. PICK d : /\ n < 0 => Numeral(buffer, n, from + 1, to, d)
                 /\ ~(n < 0) => Numeral(buffer, n, from, to, d)
    BY <1>2, NumeralAt
  <1> DEFINE first == IF n < 0 THEN from + 1 ELSE from
             l == Len(d)
  <1>5. Numeral(buffer, n, first, to, d)
    BY <1>4
  <1> HIDE DEF first
  <1>6. /\ l \in Nat /\ l >= 1 /\ to = first + l
        /\ \A j \in 1 .. l : d[j] \in DigitSet /\ buffer[first - 1 + j] = d[j]
    <2>1. Means(d, IF n < 0 THEN -n ELSE n) /\ Spells(buffer, first - 1, d) /\ to = first + l
      BY <1>5 DEF Numeral
    <2>2. d \in Seq(DigitSet) /\ l >= 1
      BY <2>1 DEF Means
    <2>3. \A j \in 1 .. l : buffer[first - 1 + j] = d[j]
      BY <2>1 DEF Spells
    <2> QED
      BY <2>1, <2>2, <2>3
  <1>7. first \in Nat /\ first >= 1 /\ lb \in Nat /\ to = lb + 1
    BY <1>1, <1>3 DEF first
  <1> HIDE DEF l, lb
  <1>8. l \in 1 .. l /\ first - 1 + l = lb /\ lb >= 1
    BY <1>6, <1>7
  <1>9. buffer[lb] \in DigitSet
    BY <1>6, <1>8
  <1>10. buffer # <<>>
    <2>1. buffer = <<>> => lb = 0
      BY DEF lb
    <2> QED
      BY <1>8, <2>1
  <1>11. Last(buffer) = buffer[lb]
    BY DEF lb, Last
  <1> QED
    BY <1>9, <1>10, <1>11

(* What comes behind a number as the last of the text is set off by a      *)
(* comma: no digit opens a container.                                      *)
LEMMA CommaBehindNumber ==
    ASSUME Sequence(buffer), NEW n, NEW from, NEW to, NumberAt(buffer, n, from, to),
           to = Len(buffer) + 1, NEW openers, openers \subseteq Openers
    PROVE  Comma(openers) = <<",">>
  <1>1. buffer # <<>> /\ Last(buffer) \in DigitSet
    BY LastIsDigit
  <1> QED
    BY <1>1, DigitsAreNoEnders DEF Comma, Openers

(* What the ledger tells of a number is where the number is.               *)
NumbersAreTrue ==
    \A i \in DOMAIN ledger : ledger[i].op = "number" =>
      NumberAt(buffer, ledger[i].value, ledger[i].from, ledger[i].to)

(* What the ledger tells of a text is where the text is.                   *)
EntryFields == {"op", "key", "parent", "value", "from", "to"}
LedgerIsTrue ==
    /\ Sequence(buffer) /\ Sequence(ledger)
    /\ \A i \in DOMAIN ledger :
         /\ DOMAIN ledger[i] = EntryFields
         /\ ledger[i].op \in {"field", "element"} =>
              WrittenAt(buffer, ledger[i].value, ledger[i].from, ledger[i].to)

LEMMA AppendedEntry ==
    ASSUME NEW L, Sequence(L), NEW entry
    PROVE  /\ DOMAIN Append(L, entry) = DOMAIN L \cup {Len(L) + 1}
           /\ \A i \in DOMAIN L : Append(L, entry)[i] = L[i]
           /\ Append(L, entry)[Len(L) + 1] = entry
  <1>1. PICK S : L \in Seq(S)
    BY DEF Sequence
  <1> DEFINE U == S \cup {entry}
  <1>2. L \in Seq(U) /\ entry \in U
    <2>1. Seq(S) \subseteq Seq(U)
      OBVIOUS
    <2> QED
      BY <1>1, <2>1
  <1> HIDE DEF U
  <1> QED
    BY <1>2

LEMMA EntryOfCall ==
    ASSUME NEW b, NEW x, Sequence(b), Sequence(x), NEW entry,
           DOMAIN entry = EntryFields,
           entry.op \in {"field", "element"} => WrittenAt(b \o x, entry.value, entry.from, entry.to),
           Sequence(ledger),
           \A i \in DOMAIN ledger :
             /\ DOMAIN ledger[i] = EntryFields
             /\ ledger[i].op \in {"field", "element"} =>
                  WrittenAt(b, ledger[i].value, ledger[i].from, ledger[i].to),
           buffer' = b \o x, ledger' = Append(ledger, entry)
    PROVE  LedgerIsTrue'
  <1> DEFINE L == ledger
             M == Append(L, entry)
  <1>2. Sequence(M)
    BY AppendType
  <1>3. Sequence(b \o x)
    BY SequenceConcat
  <1>4. /\ DOMAIN M = DOMAIN L \cup {Len(L) + 1}
        /\ \A i \in DOMAIN L : M[i] = L[i]
        /\ M[Len(L) + 1] = entry
    BY AppendedEntry
  <1> HIDE DEF L, M
  <1>5. ASSUME NEW i \in DOMAIN M
        PROVE  /\ DOMAIN M[i] = EntryFields
               /\ M[i].op \in {"field", "element"} =>
                    WrittenAt(b \o x, M[i].value, M[i].from, M[i].to)
    <2>1. CASE i \in DOMAIN L
      <3>1. M[i] = ledger[i] /\ i \in DOMAIN ledger
        BY <1>4, <2>1 DEF L
      <3>2. M[i].op \in {"field", "element"} => WrittenAt(b, M[i].value, M[i].from, M[i].to)
        BY <3>1
      <3>3. DOMAIN M[i] = EntryFields
        BY <3>1
      <3> QED
        BY <3>2, <3>3, WrittenStays
    <2>2. CASE i \notin DOMAIN L
      <3>1. M[i] = entry
        BY <1>4, <2>2
      <3> QED
        BY <3>1
    <2> QED
      BY <2>1, <2>2
  <1>6. ledger' = M /\ buffer' = b \o x
    BY DEF M, L
  <1> QED
    BY <1>2, <1>3, <1>5, <1>6 DEF LedgerIsTrue

LEMMA PutMemberTrue ==
    ASSUME NEW c, NEW text, NEW openers, LedgerIsTrue, Sequence(text), PutMember(c, text, openers),
           c.op = "field" => Sequence(c.value) /\ text = <<Quote>> \o Escaped(c.value) \o <<Quote>>,
           c.op # "element"
    PROVE  LedgerIsTrue'
  <1> DEFINE name == <<Quote, c.key, Quote, ":">>
             head == Comma(openers) \o name
             b == buffer \o head
             from == Len(buffer) + Len(head) + 1
             entry == [op |-> c.op, key |-> c.key, parent |-> Last(nesting),
                       value |-> IF c.op \in {"object", "array"} THEN <<>> ELSE c.value,
                       from |-> from, to |-> from + Len(text)]
  <1>1. buffer' = b \o text /\ ledger' = Append(ledger, entry)
    BY DEF PutMember
  <1>2. Sequence(buffer) /\ Sequence(ledger)
    BY DEF LedgerIsTrue
  <1>3. Sequence(head)
    <2>1. Sequence(Comma(openers)) /\ Sequence(name)
      BY SequenceOne, SequenceFour DEF Comma
    <2> HIDE DEF name
    <2> QED
      BY <2>1, SequenceConcat
  <1> HIDE DEF name, head
  <1>4. Sequence(b) /\ from = Len(b) + 1
    BY <1>2, <1>3, SequenceConcat, ConcatBytes
  <1>5. /\ entry.op = c.op /\ entry.from = from /\ entry.to = from + Len(text)
        /\ c.op = "field" => entry.value = c.value
        /\ DOMAIN entry = EntryFields
    BY DEF EntryFields
  <1>6. ASSUME NEW i \in DOMAIN ledger
        PROVE  /\ DOMAIN ledger[i] = EntryFields
               /\ ledger[i].op \in {"field", "element"} =>
                    WrittenAt(b, ledger[i].value, ledger[i].from, ledger[i].to)
    <2>1. /\ DOMAIN ledger[i] = EntryFields
          /\ ledger[i].op \in {"field", "element"} =>
               WrittenAt(buffer, ledger[i].value, ledger[i].from, ledger[i].to)
      BY DEF LedgerIsTrue
    <2> QED
      BY <1>2, <1>3, <2>1, WrittenStays
  <1> HIDE DEF b, entry, from
  <1>7. c.op = "field" => WrittenAt(b \o text, c.value, from, from + Len(text))
    BY <1>4, WrittenBehind
  <1>8. entry.op \in {"field", "element"} => WrittenAt(b \o text, entry.value, entry.from, entry.to)
    BY <1>5, <1>7
  <1> QED
    BY <1>1, <1>2, <1>4, <1>5, <1>6, <1>8, EntryOfCall

LEMMA PutElementTrue ==
    ASSUME NEW c, NEW text, LedgerIsTrue, Sequence(text), PutElement(c, text),
           c.op = "element" => Sequence(c.value) /\ text = <<Quote>> \o Escaped(c.value) \o <<Quote>>,
           c.op # "field"
    PROVE  LedgerIsTrue'
  <1> DEFINE head == Comma({"["})
             b == buffer \o head
             from == Len(buffer') - Len(text) + 1
             to == Len(buffer') + 1
             entry == [op |-> c.op, key |-> "", parent |-> Last(nesting), value |-> c.value,
                       from |-> from, to |-> to]
  <1>1. buffer' = b \o text /\ ledger' = Append(ledger, entry)
    BY DEF PutElement
  <1>2. Sequence(buffer) /\ Sequence(ledger)
    BY DEF LedgerIsTrue
  <1>3. Sequence(head)
    BY SequenceOne DEF Comma
  <1> HIDE DEF head
  <1>4. Sequence(b)
    BY <1>2, <1>3, SequenceConcat
  <1>5. from = Len(b) + 1 /\ to = from + Len(text)
    <2> HIDE DEF b
    <2>1. Len(b) \in Nat /\ Len(text) \in Nat /\ Len(buffer') = Len(b) + Len(text)
      BY <1>1, <1>4, ConcatBytes
    <2> QED
      BY <2>1
  <1>6. /\ entry.op = c.op /\ entry.from = from /\ entry.to = to /\ entry.value = c.value
        /\ DOMAIN entry = EntryFields
    BY DEF EntryFields
  <1>7. ASSUME NEW i \in DOMAIN ledger
        PROVE  /\ DOMAIN ledger[i] = EntryFields
               /\ ledger[i].op \in {"field", "element"} =>
                    WrittenAt(b, ledger[i].value, ledger[i].from, ledger[i].to)
    <2>1. /\ DOMAIN ledger[i] = EntryFields
          /\ ledger[i].op \in {"field", "element"} =>
               WrittenAt(buffer, ledger[i].value, ledger[i].from, ledger[i].to)
      BY DEF LedgerIsTrue
    <2> QED
      BY <1>2, <1>3, <2>1, WrittenStays
  <1> HIDE DEF b, entry, from, to
  <1>8. c.op = "element" => WrittenAt(b \o text, c.value, from, to)
    BY <1>4, <1>5, WrittenBehind
  <1>9. entry.op \in {"field", "element"} => WrittenAt(b \o text, entry.value, entry.from, entry.to)
    BY <1>6, <1>8
  <1> QED
    BY <1>1, <1>2, <1>4, <1>6, <1>7, <1>9, EntryOfCall

(* Closing a container changes its own entry in the ledger only.           *)
LEMMA CloseEntries ==
    ASSUME NEW op, NEW bracket, LedgerIsTrue, CloseField(op, bracket)
    PROVE  /\ buffer' = buffer \o <<bracket>> /\ Sequence(buffer') /\ Sequence(ledger')
           /\ DOMAIN ledger' = DOMAIN ledger
           /\ \A i \in DOMAIN ledger :
                /\ DOMAIN ledger'[i] = EntryFields
                /\ ledger'[i] = ledger[i] \/ ledger'[i].op = op
  <1> DEFINE k == Last(nesting)
             end == Len(buffer) + 2
             M == [ledger EXCEPT ![k].to = end]
  <1>1. buffer' = Append(buffer, bracket) /\ ledger' = M /\ ledger[k].op = op
    BY DEF CloseField
  <1>2. Sequence(buffer) /\ Sequence(ledger)
    BY DEF LedgerIsTrue
  <1>3. Sequence(buffer') /\ buffer' = buffer \o <<bracket>>
    <2>1. PICK S : buffer \in Seq(S)
      BY <1>2 DEF Sequence
    <2>2. Append(buffer, bracket) = buffer \o <<bracket>>
      BY <2>1
    <2> QED
      BY <1>1, <1>2, <2>2, AppendType
  <1> HIDE DEF k, end
  <1>4. ASSUME NEW i \in DOMAIN ledger
        PROVE  /\ DOMAIN M[i] = EntryFields
               /\ i # k => M[i] = ledger[i]
               /\ i = k => M[i].op = op
    <2>1. DOMAIN ledger[i] = EntryFields
      BY DEF LedgerIsTrue
    <2>2. CASE i # k
      BY <2>1, <2>2
    <2>3. CASE i = k
      <3> DEFINE entry == ledger[k]
      <3>1. DOMAIN entry = EntryFields /\ entry.op = op
        BY <1>1, <2>1, <2>3
      <3>2. M[i] = [entry EXCEPT !.to = end]
        BY <2>3
      <3> HIDE DEF entry, M
      <3>3. DOMAIN [entry EXCEPT !.to = end] = EntryFields
        BY <3>1
      <3>4. [entry EXCEPT !.to = end].op = op
        BY <3>1 DEF EntryFields
      <3> QED
        BY <2>3, <3>2, <3>3, <3>4
    <2> QED
      BY <2>2, <2>3
  <1>5. DOMAIN M = DOMAIN ledger /\ Sequence(M)
    <2>1. PICK S : ledger \in Seq(S)
      BY <1>2 DEF Sequence
    <2>2. DOMAIN M = DOMAIN ledger
      OBVIOUS
    <2> DEFINE U == {M[i] : i \in DOMAIN ledger}
    <2>3. Len(ledger) \in Nat /\ DOMAIN ledger = 1 .. Len(ledger)
      BY <2>1
    <2>4. M = [i \in DOMAIN ledger |-> M[i]]
      OBVIOUS
    <2> HIDE DEF M
    <2>5. M \in [1 .. Len(ledger) -> U]
      BY <2>3, <2>4
    <2>6. M \in Seq(U)
      BY <2>3, <2>5, SeqDef
    <2> QED
      BY <2>2, <2>6 DEF Sequence
  <1> HIDE DEF M
  <1> QED
    BY <1>1, <1>3, <1>4, <1>5

(* Closing a container changes where it ends, and no text.                 *)
LEMMA CloseTrue ==
    ASSUME NEW op, op \in {"object", "array"}, NEW bracket, LedgerIsTrue, CloseField(op, bracket)
    PROVE  LedgerIsTrue'
  <1>1. /\ buffer' = buffer \o <<bracket>> /\ Sequence(buffer') /\ Sequence(ledger')
        /\ DOMAIN ledger' = DOMAIN ledger
        /\ \A i \in DOMAIN ledger :
             DOMAIN ledger'[i] = EntryFields /\ (ledger'[i] = ledger[i] \/ ledger'[i].op = op)
    BY CloseEntries
  <1>2. ASSUME NEW i \in DOMAIN ledger, ledger'[i].op \in {"field", "element"}
        PROVE  WrittenAt(buffer', ledger'[i].value, ledger'[i].from, ledger'[i].to)
    <2>1. ledger'[i] = ledger[i]
      BY <1>1, <1>2
    <2>2. WrittenAt(buffer, ledger'[i].value, ledger'[i].from, ledger'[i].to) /\ Sequence(buffer)
      BY <1>2, <2>1 DEF LedgerIsTrue
    <2> QED
      BY <1>1, <2>2, WrittenStays, SequenceOne
  <1> QED
    BY <1>1, <1>2 DEF LedgerIsTrue

LEMMA LedgerStaysTrue == Spec => []LedgerIsTrue
  <1>0. Sequence(<<>>) /\ DOMAIN <<>> = {}
    <2>1. Sequence(<<>>)
      BY SequenceOne
    <2>2. DOMAIN <<>> = {}
      OBVIOUS
    <2> QED
      BY <2>1, <2>2
  <1>1. Init => LedgerIsTrue
    BY <1>0 DEF Init, LedgerIsTrue
  <1>2. ASSUME LedgerIsTrue, [Next]_vars PROVE LedgerIsTrue'
    <2>0. Sequence(buffer) /\ Sequence(ledger)
      BY <1>2 DEF LedgerIsTrue
    <2>1. CASE StartObject
      <3>1. ASSUME NEW i \in DOMAIN ledger, ledger[i].op \in {"field", "element"} PROVE FALSE
        <4>1. WrittenAt(buffer, ledger[i].value, ledger[i].from, ledger[i].to)
          BY <1>2, <3>1 DEF LedgerIsTrue
        <4> DEFINE from == ledger[i].from
                   to == ledger[i].to
                   k == Len(Escaped(ledger[i].value))
        <4>2. from \in Nat \ {0} /\ to = from + k + 2 /\ to <= Len(buffer) + 1
          BY <4>1 DEF WrittenAt
        <4>3. k \in Nat
          BY <4>1, EscapedType DEF WrittenAt, Sequence
        <4>4. Len(buffer) = 0
          BY <2>1 DEF StartObject
        <4> HIDE DEF from, to, k
        <4> QED
          BY <4>2, <4>3, <4>4
      <3>2. buffer' = <<"{">> /\ ledger' = ledger
        BY <2>1 DEF StartObject
      <3> QED
        BY <1>2, <3>1, <3>2, SequenceOne DEF LedgerIsTrue
    <2>2. CASE EndObject
      <3>1. ledger' = ledger /\ buffer' = Append(buffer, "}")
        BY <2>2 DEF EndObject
      <3>2. Sequence(buffer') /\ buffer' = buffer \o <<"}">>
        <4> DEFINE brace == "}"
        <4>1. PICK S : buffer \in Seq(S)
          BY <2>0 DEF Sequence
        <4> HIDE DEF brace
        <4>2. Append(buffer, brace) = buffer \o <<brace>>
          BY <4>1
        <4> QED
          BY <2>0, <3>1, <4>2, AppendType DEF brace
      <3>3. ASSUME NEW i \in DOMAIN ledger, ledger[i].op \in {"field", "element"}
            PROVE  WrittenAt(buffer', ledger[i].value, ledger[i].from, ledger[i].to)
        <4>1. WrittenAt(buffer, ledger[i].value, ledger[i].from, ledger[i].to)
          BY <1>2, <3>3 DEF LedgerIsTrue
        <4> QED
          BY <2>0, <3>2, <4>1, WrittenStays, SequenceOne
      <3> QED
        BY <1>2, <3>1, <3>2, <3>3 DEF LedgerIsTrue
    <2>3. CASE CloseObjectField
      BY <1>2, <2>3, CloseTrue DEF CloseObjectField
    <2>4. CASE CloseArrayField
      BY <1>2, <2>4, CloseTrue DEF CloseArrayField
    <2>5. CASE Reset
      <3>1. buffer' = <<>> /\ ledger' = <<>>
        BY <2>5 DEF Reset
      <3> QED
        BY <1>0, <3>1 DEF LedgerIsTrue
    <2>6. ASSUME NEW c \in Calls, AddField(c) PROVE LedgerIsTrue'
      <3> DEFINE text == <<Quote>> \o Escaped(c.value) \o <<Quote>>
      <3>1. Sequence(c.value) /\ Sequence(text) /\ c.op = "field"
        BY <2>6, CallTypes, QuotedType DEF AddField
      <3>2. PutMember(c, text, {"{"})
        BY <2>6 DEF AddField
      <3> HIDE DEF text
      <3>3. c.op = "field" => Sequence(c.value) /\ text = <<Quote>> \o Escaped(c.value) \o <<Quote>>
        BY <3>1 DEF text
      <3> QED
        BY <1>2, <3>1, <3>2, <3>3, PutMemberTrue
    <2>7. ASSUME NEW c \in Calls, AddFieldNumber(c) PROVE LedgerIsTrue'
      <3>1. Sequence(NumberText(c.value)) /\ c.op = "number"
        BY <2>7, CallTypes, NumberTextType DEF AddFieldNumber
      <3> QED
        BY <1>2, <2>7, <3>1, PutMemberTrue DEF AddFieldNumber
    <2>8. ASSUME NEW c \in Calls, AddFieldDouble(c) PROVE LedgerIsTrue'
      <3>1. Sequence(c.value) /\ c.op = "double"
        BY <2>8, CallTypes DEF AddFieldDouble
      <3> QED
        BY <1>2, <2>8, <3>1, PutMemberTrue DEF AddFieldDouble
    <2>9. ASSUME NEW c \in Calls, AddFieldBool(c) PROVE LedgerIsTrue'
      <3> DEFINE text == <<IF c.value THEN "true" ELSE "false">>
      <3>1. Sequence(text) /\ c.op = "bool" /\ PutMember(c, text, {"{"})
        BY <2>9, SequenceOne DEF AddFieldBool
      <3> HIDE DEF text
      <3> QED
        BY <1>2, <3>1, PutMemberTrue
    <2>10. ASSUME NEW c \in Calls, AddFieldRaw(c) PROVE LedgerIsTrue'
      <3>1. Sequence(c.value) /\ c.op = "raw"
        BY <2>10, CallTypes DEF AddFieldRaw
      <3> QED
        BY <1>2, <2>10, <3>1, PutMemberTrue DEF AddFieldRaw
    <2>11. ASSUME NEW c \in Calls, AddObjectField(c) PROVE LedgerIsTrue'
      <3>1. c.op = "object" /\ PutMember(c, <<"{">>, {"{"})
        BY <2>11 DEF AddObjectField
      <3> QED
        BY <1>2, <3>1, SequenceOne, PutMemberTrue
    <2>12. ASSUME NEW c \in Calls, AddArrayField(c) PROVE LedgerIsTrue'
      <3>1. c.op = "array" /\ PutMember(c, <<"[">>, {"{"})
        BY <2>12 DEF AddArrayField
      <3> QED
        BY <1>2, <3>1, SequenceOne, PutMemberTrue
    <2>13. ASSUME NEW c \in Calls, AddArrayElement(c) PROVE LedgerIsTrue'
      <3> DEFINE text == <<Quote>> \o Escaped(c.value) \o <<Quote>>
      <3>1. Sequence(c.value) /\ Sequence(text) /\ c.op = "element"
        BY <2>13, CallTypes, QuotedType DEF AddArrayElement
      <3>2. PutElement(c, text)
        BY <2>13 DEF AddArrayElement
      <3> HIDE DEF text
      <3>3. c.op = "element" => Sequence(c.value) /\ text = <<Quote>> \o Escaped(c.value) \o <<Quote>>
        BY <3>1 DEF text
      <3> QED
        BY <1>2, <3>1, <3>2, <3>3, PutElementTrue
    <2>14. ASSUME NEW c \in Calls, AddArrayElementRaw(c) PROVE LedgerIsTrue'
      <3>1. Sequence(c.value) /\ c.op = "rawElement"
        BY <2>14, CallTypes DEF AddArrayElementRaw
      <3> QED
        BY <1>2, <2>14, <3>1, PutElementTrue DEF AddArrayElementRaw
    <2>15. CASE UNCHANGED vars
      BY <1>2, <2>15 DEF vars, LedgerIsTrue
    <2> QED
      BY <1>2, <2>1, <2>2, <2>3, <2>4, <2>5, <2>6, <2>7, <2>8, <2>9, <2>10, <2>11, <2>12,
         <2>13, <2>14, <2>15 DEF Next
  <1>3. LedgerIsTrue /\ [Next]_vars => LedgerIsTrue'
    BY <1>2
  <1> QED
    BY <1>1, <1>3, PTL DEF Spec

LEMMA SetOffByComma ==
    ASSUME Sequence(buffer), NEW n, NEW from, NEW to, NumberAt(buffer, n, from, to),
           NEW openers, openers \subseteq Openers, NEW z, Sequence(z), NEW x, Sequence(x)
    PROVE  NumberAt((buffer \o (Comma(openers) \o z)) \o x, n, from, to)
  <1> DEFINE comma == Comma(openers)
             head == comma \o z
             b == buffer \o head
             lb == Len(buffer)
             lh == Len(head)
  <1>1. Sequence(comma)
    BY SequenceOne DEF Comma
  <1>2. to = lb + 1 => comma = <<",">>
    BY CommaBehindNumber
  <1>3. Sequence(<<",">>) /\ Len(<<",">>) = 1 /\ <<",">>[1] = "," /\ "," \in Enders
    BY SequenceOne DEF Enders
  <1> HIDE DEF comma
  <1>4. Sequence(head)
    BY <1>1, SequenceConcat
  <1>5. to = lb + 1 => lh >= 1 /\ head[1] \in Enders
    <2> DEFINE c == <<",">>
    <2>1. to = lb + 1 => comma = c
      BY <1>2
    <2>2. Len(c) = 1 /\ c[1] \in Enders
      BY <1>3
    <2> HIDE DEF c
    <2>3. to = lb + 1 => Len(comma) = 1 /\ comma[1] \in Enders
      BY <2>1, <2>2
    <2>4. lh = Len(comma) + Len(z) /\ Len(z) \in Nat /\ \A i \in 1 .. Len(comma) : head[i] = comma[i]
      BY <1>1, ConcatBytes
    <2> DEFINE lc == Len(comma)
               lz == Len(z)
    <2>5. lc = 1 => lh >= 1 /\ head[1] = comma[1]
      <3>1. lh = lc + lz /\ lz \in Nat /\ \A i \in 1 .. lc : head[i] = comma[i]
        BY <2>4
      <3> HIDE DEF lc, lz, lh, head
      <3> QED
        BY <3>1
    <2> QED
      BY <2>3, <2>5
  <1> HIDE DEF head
  <1>6. NumberAt(b, n, from, to) /\ Sequence(b)
    BY <1>4, <1>5, NumberStays, SequenceConcat
  <1>7. Len(b) = lb + lh /\ lb \in Nat /\ lh \in Nat
    BY <1>4, ConcatBytes
  <1>8. to <= lb + 1 /\ to \in Int
    <2>1. from \in Nat /\ to = from + Len(NumberText(n)) /\ n \in Int /\ to <= lb + 1
      BY DEF NumberAt
    <2>2. Len(NumberText(n)) \in Nat
      BY <2>1, NumberTextType DEF Sequence
    <2> QED
      BY <2>1, <2>2
  <1> HIDE DEF b, lb, lh
  <1>9. to # Len(b) + 1
    BY <1>5, <1>7, <1>8
  <1>10. NumberAt(b \o x, n, from, to)
    BY <1>6, <1>9, NumberStays
  <1> QED
    BY <1>10 DEF b, head, comma

(* A member or an element more: the numbers stay, and if it is one it is   *)
(* there.                                                                  *)
LEMMA EntryKeepsNumbers ==
    ASSUME Sequence(ledger), NumbersAreTrue, NEW entry, ledger' = Append(ledger, entry),
           entry.op = "number" => NumberAt(buffer', entry.value, entry.from, entry.to),
           \A n, from, to : NumberAt(buffer, n, from, to) => NumberAt(buffer', n, from, to)
    PROVE  NumbersAreTrue'
  <1>1. ASSUME NEW i \in DOMAIN ledger', ledger'[i].op = "number"
        PROVE  NumberAt(buffer', ledger'[i].value, ledger'[i].from, ledger'[i].to)
    <2>1. CASE i \in DOMAIN ledger
      <3>1. ledger'[i] = ledger[i]
        BY <2>1, AppendedEntry
      <3>2. NumberAt(buffer, ledger'[i].value, ledger'[i].from, ledger'[i].to)
        BY <1>1, <2>1, <3>1 DEF NumbersAreTrue
      <3> QED
        BY <3>2
    <2>2. CASE i \notin DOMAIN ledger
      <3>1. ledger'[i] = entry
        BY <1>1, <2>2, AppendedEntry
      <3> QED
        BY <1>1, <3>1
    <2> QED
      BY <2>1, <2>2
  <1> QED
    BY <1>1 DEF NumbersAreTrue

LEMMA PutMemberNumbers ==
    ASSUME NEW c, NEW text, NEW openers, openers \subseteq Openers, LedgerIsTrue, NumbersAreTrue,
           Sequence(text), PutMember(c, text, openers),
           c.op = "number" => c.value \in Int /\ text = NumberText(c.value)
    PROVE  NumbersAreTrue'
  <1> DEFINE name == <<Quote, c.key, Quote, ":">>
             head == Comma(openers) \o name
             b == buffer \o head
             from == Len(buffer) + Len(head) + 1
             entry == [op |-> c.op, key |-> c.key, parent |-> Last(nesting),
                       value |-> IF c.op \in {"object", "array"} THEN <<>> ELSE c.value,
                       from |-> from, to |-> from + Len(text)]
  <1>1. buffer' = b \o text /\ ledger' = Append(ledger, entry)
    BY DEF PutMember
  <1>2. Sequence(buffer) /\ Sequence(ledger)
    BY DEF LedgerIsTrue
  <1>3. Sequence(name) /\ Sequence(Comma(openers))
    BY SequenceFour, SequenceOne DEF Comma
  <1> HIDE DEF name
  <1>4. \A n, f, t : NumberAt(buffer, n, f, t) => NumberAt(buffer', n, f, t)
    BY <1>1, <1>2, <1>3, SetOffByComma
  <1>5. Sequence(head)
    BY <1>3, SequenceConcat
  <1> HIDE DEF head
  <1>6. Sequence(b) /\ from = Len(b) + 1
    BY <1>2, <1>5, SequenceConcat, ConcatBytes
  <1>7. /\ entry.op = c.op /\ entry.from = from /\ entry.to = from + Len(text)
        /\ c.op = "number" => entry.value = c.value
    OBVIOUS
  <1> HIDE DEF b, from, entry
  <1>8. c.op = "number" => NumberAt(b \o text, c.value, from, from + Len(text))
    BY <1>6, NumberBehind
  <1>9. entry.op = "number" => NumberAt(buffer', entry.value, entry.from, entry.to)
    BY <1>1, <1>7, <1>8
  <1> QED
    BY <1>1, <1>2, <1>4, <1>9, EntryKeepsNumbers

LEMMA PutElementNumbers ==
    ASSUME NEW c, NEW text, LedgerIsTrue, NumbersAreTrue, Sequence(text), PutElement(c, text),
           c.op # "number"
    PROVE  NumbersAreTrue'
  <1> DEFINE comma == Comma({"["})
             entry == [op |-> c.op, key |-> "", parent |-> Last(nesting), value |-> c.value,
                       from |-> Len(buffer') - Len(text) + 1, to |-> Len(buffer') + 1]
  <1>1. buffer' = (buffer \o comma) \o text /\ ledger' = Append(ledger, entry)
    BY DEF PutElement
  <1>2. Sequence(buffer) /\ Sequence(ledger)
    BY DEF LedgerIsTrue
  <1>3. Sequence(comma) /\ Sequence(<<>>)
    BY SequenceOne DEF Comma
  <1>4. comma \o <<>> = comma
    <2> HIDE DEF comma
    <2>1. PICK S : comma \in Seq(S)
      BY <1>3 DEF Sequence
    <2> QED
      BY <2>1
  <1>5. {"["} \subseteq Openers
    BY DEF Openers
  <1>6. \A n, f, t : NumberAt(buffer, n, f, t) => NumberAt((buffer \o (comma \o <<>>)) \o text, n, f, t)
    BY <1>2, <1>3, <1>5, SetOffByComma
  <1>7. \A n, f, t : NumberAt(buffer, n, f, t) => NumberAt(buffer', n, f, t)
    BY <1>1, <1>4, <1>6
  <1>8. entry.op # "number"
    OBVIOUS
  <1> HIDE DEF entry
  <1> QED
    BY <1>1, <1>2, <1>7, <1>8, EntryKeepsNumbers

LEMMA BracketKeepsNumber ==
    ASSUME NEW bracket \in {"}", "]"}, Sequence(buffer), NEW n, NEW from, NEW to,
           NumberAt(buffer, n, from, to)
    PROVE  NumberAt(buffer \o <<bracket>>, n, from, to)
  <1> DEFINE x == <<bracket>>
  <1>1. Sequence(x) /\ x[1] \in Enders
    BY SequenceOne DEF Enders
  <1> HIDE DEF x
  <1>2. NumberAt(buffer \o x, n, from, to)
    BY <1>1, NumberStays
  <1> QED
    BY <1>2 DEF x

LEMMA CloseNumbers ==
    ASSUME NEW op, op # "number", NEW bracket \in {"}", "]"}, LedgerIsTrue, NumbersAreTrue,
           CloseField(op, bracket)
    PROVE  NumbersAreTrue'
  <1>1. /\ buffer' = buffer \o <<bracket>> /\ DOMAIN ledger' = DOMAIN ledger
        /\ \A i \in DOMAIN ledger : ledger'[i] = ledger[i] \/ ledger'[i].op = op
    BY CloseEntries
  <1>2. ASSUME NEW i \in DOMAIN ledger, ledger'[i].op = "number"
        PROVE  NumberAt(buffer', ledger'[i].value, ledger'[i].from, ledger'[i].to)
    <2>1. ledger'[i] = ledger[i]
      BY <1>1, <1>2
    <2>2. NumberAt(buffer, ledger'[i].value, ledger'[i].from, ledger'[i].to) /\ Sequence(buffer)
      BY <1>2, <2>1 DEF LedgerIsTrue, NumbersAreTrue
    <2> QED
      BY <1>1, <2>2, BracketKeepsNumber
  <1> QED
    BY <1>1, <1>2 DEF NumbersAreTrue

LEMMA NumberNeedsText ==
    ASSUME Sequence(buffer), NEW n, NEW from, NEW to, NumberAt(buffer, n, from, to)
    PROVE  buffer # <<>>
  <1>1. n \in Int /\ from \in Nat \ {0} /\ to = from + Len(NumberText(n)) /\ to <= Len(buffer) + 1
    BY DEF NumberAt
  <1>2. PICK d : /\ Means(d, IF n < 0 THEN -n ELSE n)
                 /\ NumberText(n) = IF n < 0 THEN <<"-">> \o d ELSE d
    BY <1>1, NumberTextMeans
  <1>3. d \in Seq(DigitSet) /\ Len(d) >= 1 /\ Len(d) \in Nat
    BY <1>2 DEF Means
  <1> DEFINE minus == <<"-">>
  <1>4. Sequence(minus) /\ Sequence(d)
    BY <1>3, SequenceOne DEF Sequence
  <1> HIDE DEF minus
  <1>5. Len(minus) \in Nat /\ Len(minus \o d) = Len(minus) + Len(d)
    BY <1>4, ConcatBytes
  <1>6. NumberText(n) = d \/ NumberText(n) = minus \o d
    BY <1>2 DEF minus
  <1> DEFINE l == Len(NumberText(n))
             ld == Len(d)
             lm == Len(minus)
             lb == Len(buffer)
  <1>7. l = ld \/ l = lm + ld
    BY <1>5, <1>6
  <1>8. buffer = <<>> => lb = 0
    OBVIOUS
  <1>9. from \in Nat \ {0} /\ to = from + l /\ to <= lb + 1 /\ ld \in Nat /\ ld >= 1 /\ lm \in Nat
    BY <1>1, <1>3, <1>5
  <1> HIDE DEF l, ld, lm, lb
  <1> QED
    BY <1>7, <1>8, <1>9

LEMMA NumbersStayTrue == Spec => []NumbersAreTrue
  <1>1. Init => NumbersAreTrue
    BY DEF Init, NumbersAreTrue
  <1>2. ASSUME LedgerIsTrue, NumbersAreTrue, [Next]_vars PROVE NumbersAreTrue'
    <2>0. Sequence(buffer) /\ Sequence(ledger)
      BY <1>2 DEF LedgerIsTrue
    <2>16. {"{"} \subseteq Openers /\ {"{", "["} \subseteq Openers
      BY DEF Openers
    <2>1. CASE StartObject
      <3>1. buffer = <<>> /\ ledger' = ledger
        BY <2>1 DEF StartObject
      <3>2. \A i \in DOMAIN ledger : ledger[i].op # "number"
        BY <1>2, <2>0, <3>1, NumberNeedsText DEF NumbersAreTrue
      <3> QED
        BY <3>1, <3>2 DEF NumbersAreTrue
    <2>2. CASE EndObject
      <3> DEFINE brace == "}"
      <3>1. ledger' = ledger /\ buffer' = Append(buffer, brace) /\ brace \in {"}", "]"}
        BY <2>2 DEF EndObject
      <3>2. buffer' = buffer \o <<brace>>
        <4> HIDE DEF brace
        <4>1. PICK S : buffer \in Seq(S)
          BY <2>0 DEF Sequence
        <4>2. Append(buffer, brace) = buffer \o <<brace>>
          BY <4>1
        <4> QED
          BY <3>1, <4>2
      <3> HIDE DEF brace
      <3> QED
        BY <1>2, <2>0, <3>1, <3>2, BracketKeepsNumber DEF NumbersAreTrue
    <2>3. CASE CloseObjectField
      <3>1. CloseField("object", "}") /\ "object" # "number" /\ "}" \in {"}", "]"}
        BY <2>3 DEF CloseObjectField
      <3> QED
        BY <1>2, <3>1, CloseNumbers
    <2>4. CASE CloseArrayField
      <3>1. CloseField("array", "]") /\ "array" # "number" /\ "]" \in {"}", "]"}
        BY <2>4 DEF CloseArrayField
      <3> QED
        BY <1>2, <3>1, CloseNumbers
    <2>5. CASE Reset
      BY <2>5 DEF Reset, NumbersAreTrue
    <2>6. ASSUME NEW c \in Calls, AddField(c) PROVE NumbersAreTrue'
      <3> DEFINE text == <<Quote>> \o Escaped(c.value) \o <<Quote>>
      <3>1. Sequence(text) /\ c.op = "field" /\ PutMember(c, text, {"{"})
        BY <2>6, CallTypes, QuotedType DEF AddField
      <3> HIDE DEF text
      <3> QED
        BY <1>2, <2>16, <3>1, PutMemberNumbers
    <2>7. ASSUME NEW c \in Calls, AddFieldNumber(c) PROVE NumbersAreTrue'
      <3>1. Sequence(NumberText(c.value)) /\ c.value \in Int /\ PutMember(c, NumberText(c.value), {"{"})
        BY <2>7, CallTypes, NumberTextType DEF AddFieldNumber
      <3> QED
        BY <1>2, <2>16, <3>1, PutMemberNumbers
    <2>8. ASSUME NEW c \in Calls, AddFieldDouble(c) PROVE NumbersAreTrue'
      <3>1. Sequence(c.value) /\ c.op = "double" /\ PutMember(c, c.value, {"{"})
        BY <2>8, CallTypes DEF AddFieldDouble
      <3> QED
        BY <1>2, <2>16, <3>1, PutMemberNumbers
    <2>9. ASSUME NEW c \in Calls, AddFieldBool(c) PROVE NumbersAreTrue'
      <3> DEFINE text == <<IF c.value THEN "true" ELSE "false">>
      <3>1. Sequence(text) /\ c.op = "bool" /\ PutMember(c, text, {"{"})
        BY <2>9, SequenceOne DEF AddFieldBool
      <3> HIDE DEF text
      <3> QED
        BY <1>2, <2>16, <3>1, PutMemberNumbers
    <2>10. ASSUME NEW c \in Calls, AddFieldRaw(c) PROVE NumbersAreTrue'
      <3>1. Sequence(c.value) /\ c.op = "raw" /\ PutMember(c, c.value, {"{", "["})
        BY <2>10, CallTypes DEF AddFieldRaw
      <3> QED
        BY <1>2, <2>16, <3>1, PutMemberNumbers
    <2>11. ASSUME NEW c \in Calls, AddObjectField(c) PROVE NumbersAreTrue'
      <3>1. c.op = "object" /\ PutMember(c, <<"{">>, {"{"}) /\ Sequence(<<"{">>)
        BY <2>11, SequenceOne DEF AddObjectField
      <3> QED
        BY <1>2, <2>16, <3>1, PutMemberNumbers
    <2>12. ASSUME NEW c \in Calls, AddArrayField(c) PROVE NumbersAreTrue'
      <3>1. c.op = "array" /\ PutMember(c, <<"[">>, {"{"}) /\ Sequence(<<"[">>)
        BY <2>12, SequenceOne DEF AddArrayField
      <3> QED
        BY <1>2, <2>16, <3>1, PutMemberNumbers
    <2>13. ASSUME NEW c \in Calls, AddArrayElement(c) PROVE NumbersAreTrue'
      <3> DEFINE text == <<Quote>> \o Escaped(c.value) \o <<Quote>>
      <3>1. Sequence(text) /\ c.op = "element" /\ PutElement(c, text)
        BY <2>13, CallTypes, QuotedType DEF AddArrayElement
      <3> HIDE DEF text
      <3> QED
        BY <1>2, <3>1, PutElementNumbers
    <2>14. ASSUME NEW c \in Calls, AddArrayElementRaw(c) PROVE NumbersAreTrue'
      <3>1. Sequence(c.value) /\ c.op = "rawElement" /\ PutElement(c, c.value)
        BY <2>14, CallTypes DEF AddArrayElementRaw
      <3> QED
        BY <1>2, <3>1, PutElementNumbers
    <2>15. CASE UNCHANGED vars
      BY <1>2, <2>15 DEF vars, NumbersAreTrue
    <2> QED
      BY <1>2, <2>1, <2>2, <2>3, <2>4, <2>5, <2>6, <2>7, <2>8, <2>9, <2>10, <2>11, <2>12,
         <2>13, <2>14, <2>15 DEF Next
  <1>3. LedgerIsTrue /\ NumbersAreTrue /\ [Next]_vars => NumbersAreTrue'
    BY <1>2
  <1> QED
    BY <1>1, <1>3, LedgerStaysTrue, PTL DEF Spec

-----------------------------------------------------------------------------
(* Nesting: in a text in which every bracket closes the one opened last, a *)
(* scan of the reader that begins between two values, outside of a string, *)
(* ends outside of a string with the same brackets open.                   *)
InString(open) == [mode |-> "string", open |-> open]
InEscape(open) == [mode |-> "escape", open |-> open]
Stacks == Seq(Openers)
Standings == {Broken} \cup {Plain(o) : o \in Stacks} \cup {InString(o) : o \in Stacks}
               \cup {InEscape(o) : o \in Stacks}

LEMMA BracketsDiffer ==
    /\ \A c \in Openers : c # Quote /\ c \notin Closers /\ c \in Structure
    /\ \A c \in Closers : c # Quote /\ c \notin Openers /\ c \in Structure /\ Opener(c) \in Openers
    /\ \A c, d \in Closers : Opener(c) = Opener(d) => c = d
  BY DEF Openers, Closers, Quote, Structure, Opener

LEMMA OpenedBy ==
    ASSUME NEW o, NEW c
    PROVE  /\ Opened(InEscape(o), c) = InString(o)
           /\ Opened(InString(o), c) = IF c = Quote THEN Plain(o)
                                       ELSE IF c = Backslash THEN InEscape(o) ELSE InString(o)
           /\ c = Quote => Opened(Plain(o), c) = InString(o)
           /\ c \in Openers => Opened(Plain(o), c) = Plain(Append(o, c))
           /\ c \in Closers => Opened(Plain(o), c) = IF o # <<>> /\ Last(o) = Opener(c)
                                                     THEN Plain(Front(o)) ELSE Broken
           /\ c \notin Structure => Opened(Plain(o), c) = Plain(o)
           /\ Opened(Broken, c) = Broken
  <1>1. /\ Plain(o).mode = "plain" /\ Plain(o).open = o
        /\ InString(o).mode = "string" /\ InEscape(o).mode = "escape"
        /\ Broken.mode = "broken"
    BY DEF Plain, InString, InEscape, Broken
  <1> DEFINE mode(s, m) == [s EXCEPT !.mode = m]
  <1>9. /\ mode(InEscape(o), "string") = InString(o) /\ mode(Plain(o), "string") = InString(o)
        /\ mode(InString(o), "string") = InString(o) /\ mode(InString(o), "plain") = Plain(o)
        /\ mode(InString(o), "escape") = InEscape(o)
    BY DEF Plain, InString, InEscape
  <1> HIDE DEF mode
  <1>2. Opened(InEscape(o), c) = InString(o)
    BY <1>1, <1>9 DEF Opened, mode
  <1>3. Opened(InString(o), c) = IF c = Quote THEN Plain(o)
                                 ELSE IF c = Backslash THEN InEscape(o) ELSE InString(o)
    <2>1. Opened(InString(o), c) = mode(InString(o), CASE c = Quote -> "plain" [] c = Backslash -> "escape"
                                                       [] OTHER -> "string")
      BY <1>1 DEF Opened, mode
    <2>2. Quote # Backslash
      BY DEF Quote, Backslash
    <2> QED
      BY <1>9, <2>1, <2>2
  <1>4. c = Quote => Opened(Plain(o), c) = InString(o)
    <2>1. Quote \notin Openers /\ Quote \notin Closers
      BY BracketsDiffer
    <2> QED
      BY <1>1, <1>9, <2>1 DEF Opened, mode
  <1>5. c \in Openers => Opened(Plain(o), c) = Plain(Append(o, c))
    <2> HIDE DEF Openers, Closers
    <2> QED
      BY <1>1, BracketsDiffer DEF Opened
  <1>6. c \in Closers => Opened(Plain(o), c) = IF o # <<>> /\ Last(o) = Opener(c)
                                               THEN Plain(Front(o)) ELSE Broken
    BY <1>1, BracketsDiffer DEF Opened
  <1>7. c \notin Structure => Opened(Plain(o), c) = Plain(o)
    <2>1. c \notin Structure => c # Quote /\ c \notin Openers /\ c \notin Closers
      BY DEF Structure
    <2> QED
      BY <1>1, <2>1 DEF Opened
  <1>8. Opened(Broken, c) = Broken
    BY <1>1 DEF Opened
  <1> QED
    BY <1>2, <1>3, <1>4, <1>5, <1>6, <1>7, <1>8

LEMMA StandingsDiffer ==
    ASSUME NEW o, NEW x
    PROVE  /\ Plain(o) # Broken
           /\ Plain(o) = Plain(x) => o = x
           /\ Plain(o) # InString(x) /\ Plain(o) # InEscape(x)
           /\ Plain(o).open = o /\ InString(o).open = o /\ InEscape(o).open = o
           /\ Broken.open = <<>>
  <1>1. Plain(o).mode = "plain" /\ Broken.mode = "broken" /\ InString(x).mode = "string" /\ InEscape(x).mode = "escape"
    BY DEF Plain, Broken, InString, InEscape
  <1>2. /\ Plain(o).open = o /\ Plain(x).open = x /\ InString(o).open = o /\ InEscape(o).open = o
        /\ Broken.open = <<>>
    BY DEF Plain, InString, InEscape, Broken
  <1> QED
    BY <1>1, <1>2

LEMMA FrontIs ==
    ASSUME NEW S, NEW o \in Seq(S), o # <<>>
    PROVE  /\ Front(o) \in Seq(S) /\ Len(Front(o)) = Len(o) - 1 /\ Len(o) \in Nat /\ Len(o) >= 1
           /\ \A i \in 1 .. Len(o) - 1 : Front(o)[i] = o[i]
           /\ Last(o) = o[Len(o)] /\ Last(o) \in S
           /\ o = Append(Front(o), Last(o))
  <1>1. Len(o) \in Nat /\ Len(o) >= 1 /\ Last(o) = o[Len(o)] /\ Last(o) \in S
    BY DEF Last
  <1>2. Front(o) = SubSeq(o, 1, Len(o) - 1)
    BY DEF Front
  <1>4. /\ Front(o) \in Seq(S) /\ Len(Front(o)) = Len(o) - 1
        /\ \A i \in 1 .. Len(o) - 1 : Front(o)[i] = o[i]
    <2> DEFINE n == Len(o) - 1
               f == SubSeq(o, 1, n)
    <2>1. n \in Nat /\ \A i \in 1 .. n : o[i] \in S
      BY <1>1
    <2> HIDE DEF n
    <2>2. f \in Seq(S) /\ Len(f) = (IF 1 <= n THEN n - 1 + 1 ELSE 0) /\ \A i \in 1 .. n - 1 + 1 : f[i] = o[1 + i - 1]
      BY <2>1, SubSeqProperties
    <2> HIDE DEF f
    <2>3. f \in Seq(S) /\ Len(f) = n /\ \A i \in 1 .. n : f[i] = o[i]
      BY <2>1, <2>2
    <2> QED
      BY <1>2, <2>3 DEF f, n
  <1> HIDE DEF Front
  <1>5. o = Append(Front(o), Last(o))
    BY <1>1, <1>4
  <1> QED
    BY <1>1, <1>4, <1>5

LEMMA FrontOfAppend ==
    ASSUME NEW S, NEW o \in Seq(S), NEW c \in S
    PROVE  Append(o, c) \in Seq(S) /\ Append(o, c) # <<>> /\ Last(Append(o, c)) = c /\ Front(Append(o, c)) = o
  <1>1. Append(o, c) \in Seq(S) /\ Len(Append(o, c)) = Len(o) + 1 /\ Append(o, c)[Len(o) + 1] = c
    OBVIOUS
  <1>2. Append(o, c) # <<>> /\ Last(Append(o, c)) = c
    BY <1>1 DEF Last
  <1>3. /\ Front(Append(o, c)) \in Seq(S) /\ Len(Front(Append(o, c))) = Len(o)
        /\ \A i \in 1 .. Len(o) : Front(Append(o, c))[i] = o[i]
    <2> DEFINE a == Append(o, c)
               l == Len(o)
    <2>1. a \in Seq(S) /\ a # <<>> /\ Len(a) = l + 1 /\ l \in Nat /\ \A i \in 1 .. l : a[i] = o[i]
      BY <1>1, <1>2
    <2> HIDE DEF a, l
    <2>2. /\ Front(a) \in Seq(S) /\ Len(Front(a)) = Len(a) - 1
          /\ \A i \in 1 .. Len(a) - 1 : Front(a)[i] = a[i]
      BY <2>1, FrontIs
    <2>3. Len(a) - 1 = l
      BY <2>1
    <2> QED
      BY <2>1, <2>2, <2>3 DEF a, l
  <1> HIDE DEF Front
  <1>4. Front(Append(o, c)) = o
    BY <1>3
  <1> QED
    BY <1>1, <1>2, <1>4

LEMMA OpenedStands ==
    ASSUME NEW s \in Standings, NEW c
    PROVE  Opened(s, c) \in Standings
  <1>1. CASE s = Broken
    BY <1>1, OpenedBy DEF Standings
  <1>2. ASSUME NEW o \in Stacks, s = InEscape(o) PROVE Opened(s, c) \in Standings
    BY <1>2, OpenedBy DEF Standings
  <1>3. ASSUME NEW o \in Stacks, s = InString(o) PROVE Opened(s, c) \in Standings
    BY <1>3, OpenedBy DEF Standings
  <1>4. ASSUME NEW o \in Stacks, s = Plain(o) PROVE Opened(s, c) \in Standings
    <2>1. CASE c = Quote
      BY <1>4, <2>1, OpenedBy DEF Standings
    <2>2. CASE c \in Openers
      <3>1. Append(o, c) \in Stacks
        BY <2>2, FrontOfAppend DEF Stacks
      <3> QED
        BY <1>4, <2>2, <3>1, OpenedBy DEF Standings
    <2>3. CASE c \in Closers
      <3>1. o # <<>> => Front(o) \in Stacks
        BY FrontIs DEF Stacks
      <3> QED
        BY <1>4, <2>3, <3>1, OpenedBy DEF Standings
    <2>4. CASE c \notin Structure
      BY <1>4, <2>4, OpenedBy DEF Standings
    <2> QED
      BY <2>1, <2>2, <2>3, <2>4 DEF Structure
  <1> QED
    BY <1>1, <1>2, <1>3, <1>4 DEF Standings

(* at is what stands open before each byte of t; and nothing is broken.    *)
Runs(t, at) ==
    /\ at \in [1 .. Len(t) + 1 -> Standings]
    /\ \A q \in 1 .. Len(t) : at[q + 1] = Opened(at[q], t[q])

Nests(t, at) == Runs(t, at) /\ \A q \in 1 .. Len(t) + 1 : at[q] # Broken

LEMMA RunsStep ==
    ASSUME NEW t, IsText(t), NEW at, Runs(t, at), NEW q \in Nat \ {0}, q <= Len(t)
    PROVE  /\ at[q] \in Standings /\ at[q + 1] = Opened(at[q], t[q])
           /\ q + 1 \in Nat \ {0} /\ q + 1 <= Len(t) + 1
  <1>1. q \in 1 .. Len(t) /\ q \in 1 .. Len(t) + 1 /\ Len(t) \in Nat
    BY DEF IsText
  <1> QED
    BY <1>1 DEF Runs

LEMMA NestsStep ==
    ASSUME NEW t, IsText(t), NEW at, Nests(t, at), NEW q \in Nat \ {0}, q <= Len(t)
    PROVE  /\ at[q + 1] = Opened(at[q], t[q]) /\ at[q + 1] # Broken
           /\ q + 1 \in Nat \ {0} /\ q + 1 <= Len(t) + 1
  <1>1. q + 1 \in 1 .. Len(t) + 1 /\ Len(t) \in Nat
    BY DEF IsText
  <1> QED
    BY <1>1, RunsStep DEF Nests

(* All the way from p to e the brackets of o are open.                     *)
KeepsOpen(at, o, p, e) == \A r \in p .. e : at[r] # Broken /\ at[r].open = o

LEMMA KeepsOpenMore ==
    ASSUME NEW at, NEW o, NEW p \in Nat, NEW q \in Nat, NEW e \in Nat, p < q,
           at[p] \in {Plain(o), InString(o), InEscape(o)}, KeepsOpen(at, o, q, e), q = p + 1
    PROVE  KeepsOpen(at, o, p, e)
  <1>1. at[p] # Broken /\ at[p].open = o
    <2>1. Plain(o) # Broken /\ InString(o) # Broken /\ InEscape(o) # Broken
      BY DEF Plain, InString, InEscape, Broken
    <2> QED
      BY <2>1, StandingsDiffer
  <1>2. \A r \in p .. e : r = p \/ r \in q .. e
    OBVIOUS
  <1> QED
    BY <1>1, <1>2 DEF KeepsOpen

LEMMA StringEndRuns ==
    ASSUME NEW t, IsText(t), NEW at, Runs(t, at), NEW o \in Stacks,
           NEW p \in Nat \ {0}, p <= Len(t) + 1, at[p] = InString(o), StringEnd(t, p) # Fail
    PROVE  at[StringEnd(t, p)] = Plain(o) /\ KeepsOpen(at, o, p, StringEnd(t, p))
  <1> DEFINE ends(q) == at[StringEnd(t, q)] = Plain(o) /\ KeepsOpen(at, o, q, StringEnd(t, q))
             good(q) == q # 0 /\ q <= Len(t) + 1 /\ at[q] = InString(o) /\ StringEnd(t, q) # Fail => ends(q)
             P == {q \in Nat : good(q)}
  <1>1. ASSUME NEW q \in Nat, \A r \in Nat : BytesLeft(t)[r] < BytesLeft(t)[q] => r \in P
        PROVE  good(q)
    <2> SUFFICES ASSUME q # 0, q <= Len(t) + 1, at[q] = InString(o), StringEnd(t, q) # Fail
                 PROVE  ends(q)
      OBVIOUS
    <2> DEFINE e == StringEnd(t, q)
    <2>8. e \in Nat
      <3>1. EndsBehind(t, q, e)
        BY StringEndBounds
      <3> QED
        BY <3>1 DEF EndsBehind
    <2>9. Len(t) \in Nat
      BY DEF IsText
    <2> HIDE DEF e, good, ends, P
    <2>1. Len(t) \in Nat /\ q + 1 \in Nat \ {0} /\ q + 2 \in Nat \ {0} /\ (q + 1) + 1 = q + 2 /\ e \in Nat
      BY <2>8, <2>9
    <2> USE DEF e, good, ends, P
    <2>2. q <= Len(t)
      BY <2>1, StringEndStep
    <2>3. at[q + 1] = Opened(InString(o), t[q]) /\ q + 1 <= Len(t) + 1
      BY <2>2, RunsStep
    <2>4. good(q + 1) /\ good(q + 2)
      BY <1>1, <2>1, <2>2, FewerBytesLeft, q < q + 1, q < q + 2
    <2>5. CASE t[q] = Quote
      <3>1. e = q + 1 /\ at[q + 1] = Plain(o)
        BY <2>2, <2>3, <2>5, StringEndStep, OpenedBy
      <3>2. KeepsOpen(at, o, q + 1, q + 1)
        <4>1. \A r \in q + 1 .. q + 1 : r = q + 1
          BY <2>1
        <4> QED
          BY <3>1, <4>1, StandingsDiffer DEF KeepsOpen
      <3>3. KeepsOpen(at, o, q, q + 1)
        BY <2>1, <3>2, KeepsOpenMore, q < q + 1
      <3> QED
        BY <3>1, <3>3
    <2>6. CASE t[q] # Quote /\ t[q] # Backslash
      <3>1. e = StringEnd(t, q + 1) /\ at[q + 1] = InString(o)
        BY <2>1, <2>2, <2>3, <2>6, StringEndStep, OpenedBy
      <3>2. at[e] = Plain(o) /\ KeepsOpen(at, o, q + 1, e)
        BY <2>1, <2>3, <2>4, <3>1
      <3> HIDE DEF e
      <3>3. KeepsOpen(at, o, q, e)
        BY <2>1, <3>2, KeepsOpenMore, q < q + 1
      <3> QED
        BY <3>2, <3>3 DEF e
    <2>7. CASE t[q] # Quote /\ t[q] = Backslash
      <3>1. q # Len(t) /\ e = StringEnd(t, q + 2)
        BY <2>1, <2>2, <2>7, StringEndStep
      <3>2. q + 1 <= Len(t) /\ q + 2 <= Len(t) + 1
        BY <2>1, <2>2, <3>1
      <3>3. at[q + 1] = InEscape(o)
        BY <2>3, <2>7, OpenedBy
      <3>4. at[q + 2] = InString(o)
        BY <2>1, <3>2, <3>3, RunsStep, OpenedBy
      <3>5. at[e] = Plain(o) /\ KeepsOpen(at, o, q + 2, e)
        BY <2>1, <2>4, <3>1, <3>2, <3>4
      <3> HIDE DEF e
      <3>6. KeepsOpen(at, o, q + 1, e)
        BY <2>1, <3>3, <3>5, KeepsOpenMore, q + 1 < q + 2
      <3>7. KeepsOpen(at, o, q, e)
        BY <2>1, <3>6, KeepsOpenMore, q < q + 1
      <3> QED
        BY <3>5, <3>7 DEF e
    <2> QED
      BY <2>5, <2>6, <2>7
  <1>2. Nat \subseteq P
    <2>1. BytesLeft(t) \in [Nat -> Nat]
      BY BytesLeftType
    <2>2. \A q \in Nat : (\A r \in Nat : BytesLeft(t)[r] < BytesLeft(t)[q] => r \in P) => q \in P
      <3> HIDE DEF good
      <3> QED
        BY <1>1
    <2> HIDE DEF P
    <2> QED
      BY ONLY <2>1, <2>2, MeasureInduction
  <1> QED
    BY <1>2

LEMMA SkipStringRuns ==
    ASSUME NEW t, IsText(t), NEW at, Runs(t, at), NEW o \in Stacks,
           NEW p \in Nat \ {0}, at[p] = Plain(o), SkipString(t, p) # Fail
    PROVE  at[SkipString(t, p)] = Plain(o) /\ KeepsOpen(at, o, p, SkipString(t, p))
  <1> DEFINE e == SkipString(t, p)
  <1>1. At(t, p, Quote) /\ e = StringEnd(t, p + 1)
    BY DEF SkipString
  <1>2. p <= Len(t) /\ t[p] = Quote
    BY <1>1 DEF At, IsText
  <1>3. at[p + 1] = InString(o) /\ p + 1 \in Nat \ {0} /\ p + 1 <= Len(t) + 1
    BY <1>2, RunsStep, OpenedBy
  <1>4. at[e] = Plain(o) /\ KeepsOpen(at, o, p + 1, e)
    BY <1>1, <1>3, StringEndRuns
  <1>6. e \in Nat
    <2>1. EndsBehind(t, p, e)
      BY SkipStringBounds
    <2> HIDE DEF e
    <2> QED
      BY <2>1 DEF EndsBehind
  <1> HIDE DEF e
  <1>5. KeepsOpen(at, o, p, e)
    BY <1>3, <1>4, <1>6, KeepsOpenMore, p < p + 1
  <1> QED
    BY <1>4, <1>5 DEF e

LEMMA SkipStringNests ==
    ASSUME NEW t, IsText(t), NEW at, Nests(t, at), NEW o \in Stacks,
           NEW p \in Nat \ {0}, at[p] = Plain(o), SkipString(t, p) # Fail
    PROVE  at[SkipString(t, p)] = Plain(o)
  BY SkipStringRuns DEF Nests

(* How many brackets of the kind c are open beyond the first n.            *)
Beyond(o, n, c) == {k \in n + 1 .. Len(o) : o[k] = c}
Own(o, n, c) == Cardinality(Beyond(o, n, c))

LEMMA OwnType ==
    ASSUME NEW o \in Stacks, NEW n \in Nat, NEW c
    PROVE  IsFiniteSet(Beyond(o, n, c)) /\ Own(o, n, c) \in Nat
  <1>1. Len(o) \in Int /\ n + 1 \in Int
    BY DEF Stacks
  <1>2. IsFiniteSet(n + 1 .. Len(o))
    BY <1>1, FS_Interval
  <1>3. Beyond(o, n, c) \subseteq n + 1 .. Len(o)
    BY DEF Beyond
  <1> QED
    BY <1>2, <1>3, FS_Subset, FS_CardinalityType DEF Own

LEMMA OwnOfAppend ==
    ASSUME NEW o \in Stacks, NEW n \in 0 .. Len(o), NEW c, NEW x \in Openers
    PROVE  Own(Append(o, x), n, c) = IF x = c THEN Own(o, n, c) + 1 ELSE Own(o, n, c)
  <1> DEFINE a == Append(o, x)
             l == Len(o)
  <1>1. l \in Nat /\ Len(a) = l + 1 /\ a[l + 1] = x /\ \A k \in 1 .. l : a[k] = o[k]
    BY DEF Stacks
  <1>2. n \in Nat /\ n <= l
    BY <1>1
  <1> HIDE DEF a
  <1>3. Beyond(a, n, c) = IF x = c THEN Beyond(o, n, c) \cup {l + 1} ELSE Beyond(o, n, c)
    <2>1. \A k : k \in n + 1 .. l + 1 <=> k \in n + 1 .. l \/ k = l + 1
      BY <1>1, <1>2
    <2>2. \A k \in n + 1 .. l : k \in 1 .. l /\ k # l + 1
      BY <1>1, <1>2
    <2>3. \A k : k \in Beyond(a, n, c) <=> k \in n + 1 .. l + 1 /\ a[k] = c
      BY <1>1 DEF Beyond
    <2>4. \A k : k \in Beyond(o, n, c) <=> k \in n + 1 .. l /\ o[k] = c
      BY DEF Beyond
    <2> HIDE DEF l
    <2> QED
      BY <1>1, <2>1, <2>2, <2>3, <2>4
  <1>4. l + 1 \notin Beyond(o, n, c)
    BY <1>1 DEF Beyond
  <1>5. IsFiniteSet(Beyond(o, n, c))
    BY <1>2, OwnType
  <1> QED
    BY <1>3, <1>4, <1>5, FS_AddElement DEF Own, a

LEMMA OwnOfFront ==
    ASSUME NEW o \in Stacks, o # <<>>, NEW n \in Nat, n < Len(o), NEW c
    PROVE  /\ Front(o) \in Stacks /\ Last(o) \in Openers /\ Len(Front(o)) = Len(o) - 1 /\ n <= Len(Front(o))
           /\ \A k \in 1 .. Len(Front(o)) : Front(o)[k] = o[k]
           /\ Own(Front(o), n, c) = IF Last(o) = c THEN Own(o, n, c) - 1 ELSE Own(o, n, c)
  <1> DEFINE f == Front(o)
             x == Last(o)
  <1>1. /\ f \in Stacks /\ x \in Openers /\ o = Append(f, x) /\ Len(f) = Len(o) - 1 /\ Len(o) \in Nat
        /\ \A k \in 1 .. Len(o) - 1 : f[k] = o[k]
    BY FrontIs DEF Stacks
  <1> HIDE DEF f, x
  <1>2. n \in 0 .. Len(f)
    BY <1>1
  <1>3. Own(o, n, c) = (IF x = c THEN Own(f, n, c) + 1 ELSE Own(f, n, c)) /\ Own(f, n, c) \in Nat
    BY <1>1, <1>2, OwnOfAppend, OwnType
  <1> QED
    BY <1>1, <1>2, <1>3 DEF f, x

LEMMA NothingBeyond ==
    ASSUME NEW o \in Stacks, NEW n \in Nat, NEW c, Own(o, n, c) = 0, Len(o) > n
    PROVE  o[n + 1] # c
  <1>1. Beyond(o, n, c) = {}
    BY OwnType, FS_EmptySet DEF Own
  <1>2. n + 1 \in n + 1 .. Len(o)
    BY DEF Stacks
  <1> QED
    BY <1>1, <1>2 DEF Beyond

(* w is open in a container of the kind open with o open around it.       *)
Around(w, o, open) ==
    /\ w \in Stacks /\ Len(o) <= Len(w)
    /\ \A k \in 1 .. Len(o) : w[k] = o[k]
    /\ Len(w) > Len(o) => w[Len(o) + 1] = open

LEMMA ContainerStep ==
    ASSUME NEW o \in Stacks, NEW w, NEW c, NEW open \in Openers, NEW close \in Closers, Opener(close) = open,
           Around(w, o, open), Own(w, Len(o), open) # 0, c # Quote, Opened(Plain(w), c) # Broken
    PROVE  \E v : /\ Opened(Plain(w), c) = Plain(v) /\ Around(v, o, open)
                  /\ Own(v, Len(o), open) = IF c = open THEN Own(w, Len(o), open) + 1
                                            ELSE IF c = close THEN Own(w, Len(o), open) - 1
                                            ELSE Own(w, Len(o), open)
  <1> DEFINE n == Len(o)
  <1>1. w \in Stacks /\ n \in Nat /\ Len(w) \in Nat /\ n <= Len(w)
    BY DEF Around, Stacks
  <1>2. n < Len(w)
    <2>1. CASE Len(w) = n
      <3>1. Beyond(w, n, open) = {}
        BY <1>1, <2>1 DEF Beyond
      <3> QED
        BY <3>1, FS_EmptySet DEF Own
    <2> QED
      BY <1>1, <2>1
  <1>3. w[n + 1] = open /\ \A k \in 1 .. n : w[k] = o[k]
    BY <1>2 DEF Around
  <1> HIDE DEF n
  <1>4. CASE c \in Openers
    <2> DEFINE v == Append(w, c)
    <2>1. v \in Stacks /\ Len(v) = Len(w) + 1 /\ \A k \in 1 .. Len(w) : v[k] = w[k]
      BY <1>1, <1>4 DEF Stacks
    <2>2. Own(v, n, open) = IF c = open THEN Own(w, n, open) + 1 ELSE Own(w, n, open)
      BY <1>1, <1>4, OwnOfAppend
    <2>3. c # close
      BY <1>4, BracketsDiffer
    <2>4. Opened(Plain(w), c) = Plain(v)
      BY <1>4, OpenedBy
    <2> HIDE DEF v
    <2>5. \A k \in 1 .. n + 1 : v[k] = w[k] /\ n + 1 \in 1 .. n + 1 /\ (k <= n => k \in 1 .. n)
      BY <1>1, <1>2, <2>1
    <2>6. Len(v) > n /\ n <= Len(v)
      BY <1>1, <1>2, <2>1
    <2>7. (\A k \in 1 .. n : v[k] = o[k]) /\ v[n + 1] = open
      <3>1. n + 1 \in 1 .. n + 1 /\ \A k \in 1 .. n : k \in 1 .. n + 1
        BY <1>1
      <3> QED
        BY <1>3, <2>5, <3>1
    <2>8. Around(v, o, open)
      BY <2>1, <2>6, <2>7 DEF Around, n
    <2> QED
      BY <2>2, <2>3, <2>4, <2>8 DEF n
  <1>5. CASE c \in Closers
    <2> DEFINE v == Front(w)
    <2>1. w # <<>> /\ Last(w) = Opener(c) /\ Opened(Plain(w), c) = Plain(v)
      BY <1>5, OpenedBy
    <2>2. /\ v \in Stacks /\ Len(v) = Len(w) - 1 /\ n <= Len(v)
          /\ \A k \in 1 .. Len(v) : v[k] = w[k]
          /\ Own(v, n, open) = IF Opener(c) = open THEN Own(w, n, open) - 1 ELSE Own(w, n, open)
      BY <1>1, <1>2, <2>1, OwnOfFront
    <2>3. c # open /\ (Opener(c) = open <=> c = close)
      BY <1>5, BracketsDiffer
    <2> HIDE DEF v
    <2>4. Len(v) > n => n + 1 \in 1 .. Len(v)
      BY <1>1, <2>2
    <2>5. \A k \in 1 .. n : k \in 1 .. Len(v)
      BY <1>1, <1>2, <2>2
    <2>6. Around(v, o, open)
      BY <1>3, <2>2, <2>4, <2>5 DEF Around, n
    <2> QED
      BY <2>1, <2>2, <2>3, <2>6 DEF n
  <1>6. CASE c \notin Structure
    <2>1. Opened(Plain(w), c) = Plain(w) /\ c # open /\ c # close
      BY <1>6, OpenedBy, BracketsDiffer
    <2> QED
      BY <2>1 DEF n
  <1> QED
    BY <1>4, <1>5, <1>6 DEF Structure

LEMMA ContainerEndNests ==
    ASSUME NEW t, IsText(t), NEW at, Nests(t, at), NEW o \in Stacks,
           NEW open \in Openers, NEW close \in Closers, Opener(close) = open,
           NEW p \in Nat \ {0}, NEW w, at[p] = Plain(w), Around(w, o, open), p <= Len(t) + 1,
           ContainerEnd(t, p, Own(w, Len(o), open), open, close) # Fail
    PROVE  at[ContainerEnd(t, p, Own(w, Len(o), open), open, close)] = Plain(o)
  <1> DEFINE
        n == Len(o)
        end(q, d) == ContainerEnd(t, q, d, open, close)
        good(q) == \A v : q # 0 /\ q <= Len(t) + 1 /\ at[q] = Plain(v) /\ Around(v, o, open)
                            /\ end(q, Own(v, n, open)) # Fail =>
                            at[end(q, Own(v, n, open))] = Plain(o)
        P == {q \in Nat : good(q)}
  <1>1. ASSUME NEW q \in Nat, \A r \in Nat : BytesLeft(t)[r] < BytesLeft(t)[q] => r \in P
        PROVE  good(q)
    <2> SUFFICES ASSUME NEW v, q # 0, q <= Len(t) + 1, at[q] = Plain(v), Around(v, o, open),
                        end(q, Own(v, n, open)) # Fail
                 PROVE  at[end(q, Own(v, n, open))] = Plain(o)
      OBVIOUS
    <2> DEFINE d == Own(v, n, open)
    <2>1. /\ Len(t) \in Nat /\ q \in Nat \ {0} /\ q + 1 \in Nat \ {0} /\ n \in Nat /\ v \in Stacks /\ d \in Nat
          /\ d + 1 \in Nat
      BY OwnType DEF IsText, Around, Stacks
    <2>2. \A r \in Nat : q <= Len(t) /\ q < r => good(r)
      BY <1>1, FewerBytesLeft
    <2>3. CASE d = 0
      <3>1. ~(Len(v) > n)
        BY <2>1, <2>3, NothingBeyond DEF Around
      <3>2. Len(v) = n /\ \A k \in 1 .. n : v[k] = o[k]
        BY <2>1, <3>1 DEF Around, Stacks
      <3>3. v = o
        BY <2>1, <3>2 DEF Stacks
      <3>4. end(q, d) = q
        BY <2>3, NothingToClose
      <3> QED
        BY <3>3, <3>4
    <2>4. CASE d # 0 /\ q <= Len(t) /\ t[q] = Quote
      <3> DEFINE r == SkipString(t, q)
      <3> HIDE DEF d
      <3>1. r # Fail /\ end(q, d) = end(r, d)
        BY <2>1, <2>4, ContainerEndStep DEF d
      <3>2. r \in Nat /\ q < r /\ r <= Len(t) + 1
        BY <3>1, SkipStringBounds DEF EndsBehind
      <3>3. at[r] = Plain(v)
        BY <2>1, <3>1, SkipStringNests
      <3>4. r # 0
        BY <3>1 DEF Fail
      <3> HIDE DEF r, end
      <3>5. good(r)
        BY <2>2, <2>4, <3>2
      <3> QED
        BY <3>1, <3>2, <3>3, <3>4, <3>5 DEF d
    <2>5. CASE d # 0 /\ q <= Len(t) /\ t[q] # Quote
      <3> HIDE DEF d
      <3>1. at[q + 1] = Opened(Plain(v), t[q]) /\ at[q + 1] # Broken
        BY <2>1, <2>5, NestsStep
      <3>2. PICK x : /\ Opened(Plain(v), t[q]) = Plain(x) /\ Around(x, o, open)
                     /\ Own(x, n, open) = IF t[q] = open THEN d + 1
                                          ELSE IF t[q] = close THEN d - 1 ELSE d
        BY <2>5, <3>1, ContainerStep DEF d
      <3>3. open # close
        BY BracketsDiffer
      <3>4. end(q, d) = end(q + 1, Own(x, n, open))
        BY <2>1, <2>5, <3>2, <3>3, ContainerEndStep DEF d
      <3>5. q + 1 <= Len(t) + 1 /\ good(q + 1)
        BY <2>1, <2>2, <2>5
      <3> HIDE DEF end
      <3> QED
        BY <2>1, <3>1, <3>2, <3>4, <3>5 DEF d
    <2>6. d # 0 => q <= Len(t)
      <3> HIDE DEF d
      <3> QED
        BY <2>1, ContainerEndStep DEF d
    <2> QED
      BY <2>3, <2>4, <2>5, <2>6
  <1>2. Nat \subseteq P
    <2>1. BytesLeft(t) \in [Nat -> Nat]
      BY BytesLeftType
    <2>2. \A q \in Nat : (\A r \in Nat : BytesLeft(t)[r] < BytesLeft(t)[q] => r \in P) => q \in P
      <3> HIDE DEF good
      <3> QED
        BY <1>1
    <2> HIDE DEF P
    <2> QED
      BY ONLY <2>1, <2>2, MeasureInduction
  <1>3. good(p)
    BY <1>2
  <1> QED
    BY <1>3

LEMMA SkipContainerNests ==
    ASSUME NEW t, IsText(t), NEW at, Nests(t, at), NEW o \in Stacks,
           NEW open \in Openers, NEW close \in Closers, Opener(close) = open,
           NEW p \in Nat \ {0}, at[p] = Plain(o), SkipContainer(t, p, open, close) # Fail
    PROVE  at[SkipContainer(t, p, open, close)] = Plain(o)
  <1> DEFINE w == Append(o, open)
             n == Len(o)
  <1>1. At(t, p, open) /\ SkipContainer(t, p, open, close) = ContainerEnd(t, p + 1, 1, open, close)
    BY DEF SkipContainer
  <1>2. p <= Len(t) /\ t[p] = open
    BY <1>1 DEF At, IsText
  <1>3. at[p + 1] = Plain(w) /\ p + 1 \in Nat \ {0} /\ p + 1 <= Len(t) + 1
    BY <1>2, NestsStep, OpenedBy
  <1>4. w \in Stacks /\ Len(w) = n + 1 /\ w[n + 1] = open /\ n \in Nat /\ \A k \in 1 .. n : w[k] = o[k]
    BY DEF Stacks
  <1>5. Own(o, n, open) = 0
    <2>1. Beyond(o, n, open) = {}
      BY <1>4 DEF Beyond
    <2> QED
      BY <2>1, FS_EmptySet DEF Own
  <1>6. Own(w, n, open) = 1
    BY <1>4, <1>5, OwnOfAppend
  <1>7. Around(w, o, open)
    <2> HIDE DEF w
    <2> QED
      BY <1>4 DEF Around
  <1> HIDE DEF w
  <1> QED
    BY <1>1, <1>3, <1>6, <1>7, ContainerEndNests

(* Bytes without structure change nothing.                                 *)
LEMMA PlainBytes ==
    ASSUME NEW t, IsText(t), NEW at, Runs(t, at), NEW o, NEW p \in Nat \ {0}, at[p] = Plain(o),
           NEW e \in Nat, p <= e, e <= Len(t) + 1, \A r \in p .. e - 1 : t[r] \notin Structure
    PROVE  \A r \in p .. e : at[r] = Plain(o)
  <1> DEFINE P == {d \in Nat : p + d <= e => at[p + d] = Plain(o)}
  <1>1. 0 \in P
    OBVIOUS
  <1>2. ASSUME NEW d \in Nat, d \in P PROVE d + 1 \in P
    <2> SUFFICES ASSUME p + (d + 1) <= e PROVE at[p + (d + 1)] = Plain(o)
      OBVIOUS
    <2> DEFINE q == p + d
    <2>1. q \in Nat \ {0} /\ q \in p .. e - 1 /\ q + 1 = p + (d + 1) /\ p + d <= e
      OBVIOUS
    <2>2. at[q] = Plain(o) /\ t[q] \notin Structure
      BY <1>2, <2>1
    <2>3. q <= Len(t)
      BY <2>1 DEF IsText
    <2> HIDE DEF q
    <2>4. at[q + 1] = Plain(o)
      BY <2>1, <2>2, <2>3, RunsStep, OpenedBy
    <2> QED
      BY <2>1, <2>4
  <1>3. Nat \subseteq P
    <2> HIDE DEF P
    <2> QED
      BY <1>1, <1>2, Induction
  <1>4. ASSUME NEW r \in p .. e PROVE at[r] = Plain(o)
    <2> HIDE DEF P
    <2>1. r - p \in Nat /\ p + (r - p) = r /\ r <= e
      OBVIOUS
    <2>2. r - p \in P
      BY <1>3, <2>1
    <2> USE DEF P
    <2> QED
      BY <2>1, <2>2
  <1> QED
    BY <1>4

(* At p, between two values, with o open.                                  *)
StandsAt(t, at, o, p) == p \in Nat \ {0} /\ p <= Len(t) + 1 /\ at[p] = Plain(o)

(* A scan that fails or ends with o open.                                  *)
EndsWith(t, at, o, e) == e \in Nat /\ (e # Fail => StandsAt(t, at, o, e))

LEMMA SkipAllNests ==
    ASSUME NEW t, IsText(t), NEW at, Nests(t, at), NEW o, NEW p, StandsAt(t, at, o, p),
           NEW S, S \cap Structure = {}
    PROVE  StandsAt(t, at, o, SkipAll(t, p, S)) /\ p <= SkipAll(t, p, S)
  <1> DEFINE e == SkipAll(t, p, S)
  <1>1. p \in Nat \ {0} /\ p <= Len(t) + 1 /\ at[p] = Plain(o)
    BY DEF StandsAt
  <1>2. e \in Nat /\ e <= Len(t) + 1 /\ p <= e /\ \A r \in p .. e - 1 : t[r] \in S
    BY <1>1, SkipAllBounds
  <1> HIDE DEF e
  <1>3. at[e] = Plain(o)
    <2>1. \A r \in p .. e - 1 : t[r] \notin Structure
      BY <1>2
    <2> QED
      BY <1>1, <1>2, <2>1, PlainBytes, e \in p .. e DEF Nests
  <1>4. e # 0
    BY <1>1, <1>2
  <1> QED
    BY <1>2, <1>3, <1>4 DEF StandsAt, e

LEMMA SkipWsNests ==
    ASSUME NEW t, IsText(t), NEW at, Nests(t, at), NEW o, NEW p, StandsAt(t, at, o, p)
    PROVE  StandsAt(t, at, o, SkipWs(t, p)) /\ p <= SkipWs(t, p)
  <1>1. Spaces \cap Structure = {}
    BY DEF Spaces, Structure, Quote, Openers, Closers
  <1> QED
    BY <1>1, SkipAllNests DEF SkipWs

LEMMA OneByteNests ==
    ASSUME NEW t, IsText(t), NEW at, Nests(t, at), NEW o, NEW p, StandsAt(t, at, o, p),
           NEW S, In(t, p, S), S \cap Structure = {}
    PROVE  StandsAt(t, at, o, p + 1)
  <1>1. p \in Nat \ {0} /\ p <= Len(t) /\ t[p] \notin Structure /\ at[p] = Plain(o)
    BY DEF StandsAt, In, IsText
  <1> QED
    BY <1>1, NestsStep, OpenedBy DEF StandsAt

LEMMA BracketNests ==
    ASSUME NEW t, IsText(t), NEW at, Nests(t, at), NEW o \in Stacks, NEW p, StandsAt(t, at, o, p)
    PROVE  /\ \A c \in Openers : At(t, p, c) => StandsAt(t, at, Append(o, c), p + 1)
           /\ \A c \in Closers : At(t, p, c) => /\ o # <<>> /\ Last(o) = Opener(c)
                                               /\ StandsAt(t, at, Front(o), p + 1)
  <1>1. p \in Nat \ {0} /\ at[p] = Plain(o)
    BY DEF StandsAt
  <1>2. ASSUME NEW c, At(t, p, c)
        PROVE  at[p + 1] = Opened(Plain(o), c) /\ at[p + 1] # Broken /\ p + 1 \in Nat \ {0} /\ p + 1 <= Len(t) + 1
    <2>1. p <= Len(t) /\ t[p] = c
      BY <1>1, <1>2 DEF At, IsText
    <2> QED
      BY <1>1, <2>1, NestsStep
  <1> QED
    BY <1>2, OpenedBy DEF StandsAt

LEMMA NumberEndNests ==
    ASSUME NEW t, IsText(t), NEW at, Nests(t, at), NEW o, NEW p, StandsAt(t, at, o, p), p \in DOMAIN t
    PROVE  EndsWith(t, at, o, NumberEnd(t, p))
  <1> DEFINE e == NumberEnd(t, p)
  <1>1. EndsBehind(t, p, e) /\ (e # Fail => NumberTo(t, p, e))
    BY NumberEndBounds
  <1> HIDE DEF e
  <1>2. ASSUME e # Fail PROVE at[e] = Plain(o)
    <2>1. e \in Nat /\ p <= e /\ e <= Len(t) + 1 /\ \A r \in p .. e - 1 : t[r] \notin Structure
      BY <1>1, <1>2, NumberBytesArePlain DEF NumberTo
    <2> QED
      BY <2>1, PlainBytes, e \in p .. e DEF StandsAt, Nests
  <1> QED
    BY <1>1, <1>2 DEF EndsWith, StandsAt, EndsBehind, Fail, e

LEMMA SkipStringEnds ==
    ASSUME NEW t, IsText(t), NEW at, Nests(t, at), NEW o \in Stacks, NEW p, StandsAt(t, at, o, p)
    PROVE  EndsWith(t, at, o, SkipString(t, p))
  <1> DEFINE e == SkipString(t, p)
  <1>1. p \in Nat \ {0} /\ at[p] = Plain(o)
    BY DEF StandsAt
  <1>2. EndsBehind(t, p, e) /\ (e # Fail => at[e] = Plain(o))
    BY <1>1, SkipStringBounds, SkipStringNests
  <1> HIDE DEF e
  <1> QED
    BY <1>2 DEF EndsWith, StandsAt, EndsBehind, Fail, e

LEMMA SkipContainerEnds ==
    ASSUME NEW t, IsText(t), NEW at, Nests(t, at), NEW o \in Stacks, NEW p, StandsAt(t, at, o, p),
           NEW open \in Openers, NEW close \in Closers, Opener(close) = open
    PROVE  EndsWith(t, at, o, SkipContainer(t, p, open, close))
  <1> DEFINE e == SkipContainer(t, p, open, close)
  <1>1. p \in Nat \ {0} /\ at[p] = Plain(o)
    BY DEF StandsAt
  <1>2. EndsBehind(t, p, e) /\ (e # Fail => at[e] = Plain(o))
    BY <1>1, SkipContainerBounds, SkipContainerNests
  <1> HIDE DEF e
  <1> QED
    BY <1>2 DEF EndsWith, StandsAt, EndsBehind, Fail, e

LEMMA SkipValueNests ==
    ASSUME NEW t, IsText(t), NEW at, Nests(t, at), NEW o \in Stacks, NEW p, StandsAt(t, at, o, p)
    PROVE  EndsWith(t, at, o, SkipValue(t, p))
  <1> DEFINE q == SkipWs(t, p)
  <1>1. StandsAt(t, at, o, q)
    BY SkipWsNests
  <1>2. SkipValue(t, p) = IF At(t, q, Quote) THEN SkipString(t, q)
                          ELSE IF At(t, q, "{") THEN SkipContainer(t, q, "{", "}")
                          ELSE IF At(t, q, "[") THEN SkipContainer(t, q, "[", "]")
                          ELSE IF In(t, q, {"true", "false", "null"}) THEN q + 1
                          ELSE IF In(t, q, DigitSet \cup {"-"}) THEN NumberEnd(t, q)
                          ELSE Fail
    BY DEF SkipValue
  <1> HIDE DEF q
  <1>3. EndsWith(t, at, o, SkipString(t, q))
    BY <1>1, SkipStringEnds
  <1>4. EndsWith(t, at, o, SkipContainer(t, q, "{", "}"))
    <2>1. "{" \in Openers /\ "}" \in Closers /\ Opener("}") = "{"
      BY DEF Openers, Closers, Opener
    <2> QED
      BY <1>1, <2>1, SkipContainerEnds
  <1>5. EndsWith(t, at, o, SkipContainer(t, q, "[", "]"))
    <2>1. "[" \in Openers /\ "]" \in Closers /\ Opener("]") = "["
      BY DEF Openers, Closers, Opener
    <2> QED
      BY <1>1, <2>1, SkipContainerEnds
  <1>6. In(t, q, {"true", "false", "null"}) => EndsWith(t, at, o, q + 1)
    <2>1. {"true", "false", "null"} \cap Structure = {}
      BY DEF Structure, Quote, Openers, Closers
    <2>2. In(t, q, {"true", "false", "null"}) => StandsAt(t, at, o, q + 1)
      BY <1>1, <2>1, OneByteNests
    <2> QED
      BY <2>2 DEF EndsWith, StandsAt
  <1>7. In(t, q, DigitSet \cup {"-"}) => EndsWith(t, at, o, NumberEnd(t, q))
    BY <1>1, NumberEndNests DEF In
  <1>8. EndsWith(t, at, o, Fail)
    BY DEF EndsWith, Fail
  <1> QED
    BY <1>2, <1>3, <1>4, <1>5, <1>6, <1>7, <1>8

LEMMA ParseStringNests ==
    ASSUME NEW t, IsText(t), NEW at, Nests(t, at), NEW o \in Stacks, NEW p, StandsAt(t, at, o, p)
    PROVE  EndsWith(t, at, o, ParseString(t, p).end)
  <1>1. ParseString(t, p).end = SkipString(t, SkipWs(t, p))
    BY DEF ParseString
  <1> QED
    BY <1>1, SkipWsNests, SkipStringEnds

LEMMA ParseIntNests ==
    ASSUME NEW t, IsText(t), NEW at, Nests(t, at), NEW o \in Stacks, NEW p, StandsAt(t, at, o, p)
    PROVE  EndsWith(t, at, o, ParseInt(t, p).end)
  <1> DEFINE
        q == SkipWs(t, p)
        first == IF At(t, q, "-") THEN q + 1 ELSE q
        end == SkipAll(t, first, DigitSet)
        value == Decimal(t, first, end)
  <1>1. StandsAt(t, at, o, q)
    BY SkipWsNests
  <1>2. ParseInt(t, p) = IF ~In(t, first, DigitSet) \/ value > IntMax THEN [end |-> Fail, num |-> 0]
                         ELSE [end |-> end, num |-> IF At(t, q, "-") THEN -value ELSE value]
    BY DEF ParseInt
  <1> HIDE DEF value
  <1>3. ParseInt(t, p).end \in {Fail, end}
    BY <1>2
  <1> HIDE DEF q
  <1>4. StandsAt(t, at, o, first)
    <2>1. {"-"} \cap Structure = {}
      BY DEF Structure, Quote, Openers, Closers
    <2>2. At(t, q, "-") => In(t, q, {"-"})
      BY DEF At, In
    <2> QED
      BY <1>1, <2>1, <2>2, OneByteNests
  <1>5. StandsAt(t, at, o, end)
    <2>1. DigitSet \cap Structure = {}
      BY NumberBytesArePlain DEF NumberBytes
    <2> HIDE DEF first
    <2> QED
      BY <1>4, <2>1, SkipAllNests
  <1> QED
    BY <1>3, <1>5 DEF EndsWith, StandsAt, Fail

LEMMA KeyEndNests ==
    ASSUME NEW t, IsText(t), NEW at, Nests(t, at), NEW o \in Stacks, NEW p, StandsAt(t, at, o, p)
    PROVE  EndsWith(t, at, o, KeyEnd(t, p))
  <1> DEFINE e == SkipString(t, p)
             colon == SkipWs(t, e)
  <1>1. EndsWith(t, at, o, e)
    BY SkipStringEnds
  <1>2. KeyEnd(t, p) = IF e = Fail \/ ~At(t, colon, ":") THEN Fail ELSE colon + 1
    BY DEF KeyEnd
  <1> HIDE DEF e
  <1>3. e # Fail => StandsAt(t, at, o, colon)
    BY <1>1, SkipWsNests DEF EndsWith
  <1> HIDE DEF colon
  <1>4. e # Fail /\ At(t, colon, ":") => StandsAt(t, at, o, colon + 1)
    <2>1. {":"} \cap Structure = {}
      BY DEF Structure, Quote, Openers, Closers
    <2>2. At(t, colon, ":") => In(t, colon, {":"})
      BY DEF At, In
    <2> QED
      BY <1>3, <2>1, <2>2, OneByteNests
  <1> QED
    BY <1>2, <1>4 DEF EndsWith, StandsAt, Fail

LEMMA AfterNests ==
    ASSUME NEW t, IsText(t), NEW at, Nests(t, at), NEW o \in Stacks, NEW p, EndsWith(t, at, o, p),
           NEW old, NEW msg
    PROVE  EndsWith(t, at, o, After(t, p, old, msg).at)
  <1> DEFINE next == SkipWs(t, p)
             e == Behind(t)[p]
  <1>1. p \in Nat
    BY DEF EndsWith
  <1>2. e = IF p = Fail \/ ~In(t, next, {",", "}"}) THEN Fail
            ELSE IF t[next] = "," THEN next + 1 ELSE next
    BY <1>1 DEF Behind
  <1>3. After(t, p, old, msg).at = e
    BY DEF After
  <1>4. p # Fail => StandsAt(t, at, o, next)
    BY SkipWsNests DEF EndsWith
  <1> HIDE DEF e, next
  <1>5. p # Fail /\ In(t, next, {",", "}"}) /\ t[next] = "," => StandsAt(t, at, o, next + 1)
    <2>1. {","} \cap Structure = {}
      BY DEF Structure, Quote, Openers, Closers
    <2>2. In(t, next, {",", "}"}) /\ t[next] = "," => In(t, next, {","})
      BY DEF In
    <2> QED
      BY <1>4, <2>1, <2>2, OneByteNests
  <1>6. e = Fail \/ StandsAt(t, at, o, e)
    BY <1>2, <1>4, <1>5
  <1>7. Fail \in Nat
    BY DEF Fail
  <1> QED
    BY <1>3, <1>6, <1>7 DEF EndsWith, StandsAt

LEMMA ReadErrorMemberNests ==
    ASSUME NEW t, IsText(t), NEW at, Nests(t, at), NEW o \in Stacks, NEW p, StandsAt(t, at, o, p),
           NEW name, NEW msg
    PROVE  EndsWith(t, at, o, ReadErrorMember(t, p, name, msg).at)
  BY ParseIntNests, ParseStringNests, SkipValueNests, AfterNests DEF ReadErrorMember

LEMMA ErrorMembersNests ==
    ASSUME NEW t, IsText(t), NEW at, Nests(t, at), NEW o \in Stacks, NEW p,
           StandsAt(t, at, Append(o, "{"), p), NEW msg \in Messages
    PROVE  EndsWith(t, at, o, ErrorMembers(t, p, msg).at)
  <1> DEFINE
        w == Append(o, "{")
        read(s) == ErrorMembers(t, s.at, s.msg)
        good(s) == EndsWith(t, at, w, s.at) => EndsWith(t, at, o, read(s).at)
        P == {s \in Progress : good(s)}
        left == ObjectLeft(t)
  <1>1. "{" \in Openers /\ "}" \in Closers
    BY DEF Openers, Closers
  <1>2. w \in Stacks /\ Front(w) = o
    BY <1>1, FrontOfAppend DEF Stacks
  <1> HIDE DEF w
  <1>3. ASSUME NEW s \in Progress, \A r \in Progress : left[r] < left[s] => r \in P
        PROVE  good(s)
    <2> SUFFICES ASSUME EndsWith(t, at, w, s.at) PROVE EndsWith(t, at, o, read(s).at)
      OBVIOUS
    <2> DEFINE q == SkipWs(t, s.at)
               next == NextErrorMember(t, s)
    <2>1. EndsWith(t, at, o, Fail)
      BY DEF EndsWith, Fail
    <2>2. CASE s.at = Fail
      <3>1. read(s) = s
        BY <2>2, ErrorMembersStep
      <3> DEFINE e == read(s).at
      <3>2. e = Fail
        BY <2>2, <3>1
      <3> HIDE DEF e
      <3>3. EndsWith(t, at, o, e)
        BY <2>1, <3>2
      <3> QED
        BY <3>3 DEF e
    <2>3. s.at # Fail => StandsAt(t, at, w, q)
      BY SkipWsNests DEF EndsWith
    <2>4. CASE s.at # Fail /\ At(t, q, "}")
      <3>1. read(s) = After(t, q + 1, s.msg, TakeError(s.msg))
        BY <2>4, ErrorMembersStep
      <3>2. StandsAt(t, at, o, q + 1)
        BY <1>1, <1>2, <2>3, <2>4, BracketNests
      <3> HIDE DEF q, read
      <3>3. EndsWith(t, at, o, q + 1)
        BY <3>2 DEF EndsWith, StandsAt
      <3> QED
        BY <3>1, <3>3, AfterNests
    <2>5. CASE s.at # Fail /\ ~At(t, q, "}") /\ KeyEnd(t, q) = Fail
      <3> DEFINE e == read(s).at
      <3>1. read(s) = [at |-> Fail, msg |-> s.msg]
        BY <2>5, ErrorMembersStep
      <3> HIDE DEF read
      <3>2. e = Fail
        BY ONLY <3>1 DEF e
      <3> HIDE DEF e
      <3>3. EndsWith(t, at, o, e)
        BY <2>1, <3>2
      <3> QED
        BY <3>3 DEF e
    <2>6. CASE s.at # Fail /\ ~At(t, q, "}") /\ KeyEnd(t, q) # Fail
      <3>1. read(s) = read(next)
        BY <2>6, ErrorMembersStep
      <3>2. Advances(t, KeyEnd(t, q), next)
        BY <2>6, NextErrorMemberBounds
      <3>3. next \in Progress /\ left[next] < left[s]
        BY <2>6, <3>2, MemberRead DEF Advances
      <3>4. good(next)
        BY <1>3, <3>3
      <3>5. StandsAt(t, at, w, KeyEnd(t, q))
        BY <1>2, <2>3, <2>6, KeyEndNests DEF EndsWith
      <3>6. EndsWith(t, at, w, next.at)
        BY <1>2, <3>5, ReadErrorMemberNests DEF NextErrorMember
      <3> HIDE DEF read, next
      <3> QED
        BY <3>1, <3>4, <3>6
    <2> QED
      BY <2>2, <2>4, <2>5, <2>6
  <1>4. Progress \subseteq P
    <2>1. left \in [Progress -> Nat]
      BY ObjectLeftType
    <2>2. \A s \in Progress : (\A r \in Progress : left[r] < left[s] => r \in P) => s \in P
      <3> HIDE DEF good
      <3> QED
        BY <1>3
    <2> HIDE DEF P, left
    <2> QED
      BY ONLY <2>1, <2>2, MeasureInduction
  <1> DEFINE s == [at |-> p, msg |-> msg]
  <1>5. s \in Progress /\ s.at = p /\ s.msg = msg
    BY DEF Progress, StandsAt
  <1>6. good(s)
    BY <1>4, <1>5
  <1>7. EndsWith(t, at, w, s.at)
    <2>1. StandsAt(t, at, w, p)
      BY DEF w
    <2> QED
      BY <1>5, <2>1 DEF EndsWith, StandsAt
  <1> QED
    BY <1>5, <1>6, <1>7

LEMMA ReadMemberNests ==
    ASSUME NEW t, IsText(t), NEW at, Nests(t, at), NEW o \in Stacks, NEW p, StandsAt(t, at, o, p),
           NEW name, NEW msg \in Messages
    PROVE  EndsWith(t, at, o, ReadMember(t, p, name, msg).at)
  <1> DEFINE
        any == SkipValue(t, p)
        start == SkipWs(t, p)
        string == ParseString(t, p)
        int == ParseInt(t, p)
  <1>1. /\ EndsWith(t, at, o, any) /\ EndsWith(t, at, o, string.end) /\ EndsWith(t, at, o, int.end)
        /\ StandsAt(t, at, o, start)
    BY SkipValueNests, ParseStringNests, ParseIntNests, SkipWsNests
  <1>2. EndsWith(t, at, o, Fail)
    BY DEF EndsWith, Fail
  <1>3. At(t, start, "{") => EndsWith(t, at, o, ErrorMembers(t, start + 1, msg).at)
    <2> HIDE DEF start
    <2>2. At(t, start, "{") => StandsAt(t, at, Append(o, "{"), start + 1)
      BY <1>1, BracketNests DEF Openers
    <2> QED
      BY <2>2, ErrorMembersNests
  <1>4. \A x, y : /\ EndsWith(t, at, o, After(t, any, x, y).at)
                  /\ EndsWith(t, at, o, After(t, string.end, x, y).at)
                  /\ EndsWith(t, at, o, After(t, int.end, x, y).at)
    <2> HIDE DEF any, string, int
    <2> QED
      BY <1>1, AfterNests
  <1>5. \/ \E x, y : ReadMember(t, p, name, msg).at \in
             {After(t, any, x, y).at, After(t, string.end, x, y).at, After(t, int.end, x, y).at, Fail}
        \/ At(t, start, "{") /\ ReadMember(t, p, name, msg).at = ErrorMembers(t, start + 1, msg).at
    BY DEF ReadMember
  <1> HIDE DEF any, string, int, start
  <1> QED
    BY <1>2, <1>3, <1>4, <1>5

(* A text in which the brackets of the message are not closed is refused.  *)
LEMMA OpenTextIsRefused ==
    ASSUME NEW t, IsText(t), NEW at, Nests(t, at), at[1] = Plain(<<>>),
           \A q \in 2 .. Len(t) + 1 : at[q].open # <<>>
    PROVE  ~Parse(t).valid
  <1> DEFINE open == SkipWs(t, 1)
             w == Append(<<>>, "{")
             Read == {s \in Progress : EndsWith(t, at, w, s.at)}
             Result == {m \in Messages : ~m.valid}
  <1>1. NewMessage \in Result
    BY NoMessageYet
  <1>2. CASE Len(t) > MaxBytes \/ ~At(t, open, "{")
    <2>1. Parse(t) \in {[NewMessage EXCEPT !.code = ParseErrorCode], NewMessage}
      BY <1>2 DEF Parse
    <2> QED
      BY <1>1, <2>1, TooLong
  <1>3. CASE ~(Len(t) > MaxBytes) /\ At(t, open, "{")
    <2>1. Parse(t) = Members(t, open + 1)
      BY <1>3 DEF Parse
    <2>2. <<>> \in Stacks /\ w \in Stacks /\ Front(w) = <<>> /\ "{" \in Openers /\ "}" \in Closers
      <3>1. "{" \in Openers /\ "}" \in Closers /\ <<>> \in Stacks
        BY DEF Openers, Closers, Stacks
      <3> QED
        BY <3>1, FrontOfAppend DEF Stacks
    <2>3. StandsAt(t, at, <<>>, 1)
      BY DEF StandsAt, IsText
    <2>4. StandsAt(t, at, <<>>, open)
      BY <2>3, SkipWsNests
    <2> HIDE DEF open, w
    <2>5. StandsAt(t, at, w, open + 1)
      BY <1>3, <2>2, <2>4, BracketNests DEF w
    <2>6. [at |-> open + 1, msg |-> NewMessage] \in Read
      BY <1>1, <2>5 DEF Progress, EndsWith, StandsAt
    <2>7. ASSUME NEW s \in Progress, s \in Read, s.at # Fail
          PROVE  IF At(t, SkipWs(t, s.at), "}") THEN [s.msg EXCEPT !.valid = TRUE] \in Result
                 ELSE KeyEnd(t, SkipWs(t, s.at)) # Fail => NextMember(t, s) \in Read
      <3> DEFINE q == SkipWs(t, s.at)
                 k == KeyEnd(t, q)
      <3>1. StandsAt(t, at, w, q)
        BY <2>7, SkipWsNests DEF EndsWith
      <3>2. ~At(t, q, "}")
        <4> SUFFICES ASSUME At(t, q, "}") PROVE FALSE
          OBVIOUS
        <4>1. StandsAt(t, at, <<>>, q + 1)
          BY <2>2, <3>1, BracketNests
        <4> HIDE DEF q
        <4>2. q + 1 \in 2 .. Len(t) + 1 /\ at[q + 1].open = <<>>
          <5>1. q \in Nat \ {0} /\ q + 1 <= Len(t) + 1 /\ at[q + 1] = Plain(<<>>)
            BY <3>1, <4>1 DEF StandsAt
          <5>2. Plain(<<>>).open = <<>>
            BY StandingsDiffer
          <5>3. q + 1 \in 2 .. Len(t) + 1
            <6> DEFINE l == Len(t)
            <6>1. q \in Nat \ {0} /\ q + 1 <= l + 1 /\ l \in Nat
              BY <5>1 DEF IsText
            <6> HIDE DEF l
            <6>2. q + 1 \in 2 .. l + 1
              BY ONLY <6>1
            <6> QED
              BY <6>2 DEF l
          <5> QED
            BY <5>1, <5>2, <5>3
        <4> QED
          BY <4>2
      <3>3. k # Fail => StandsAt(t, at, w, k)
        BY <2>2, <3>1, KeyEndNests DEF EndsWith
      <3>4. s.msg \in Messages
        BY DEF Progress
      <3>5. k # Fail => NextMember(t, s) \in Progress
        BY NextMemberBounds DEF Advances
      <3>6. k # Fail => EndsWith(t, at, w, NextMember(t, s).at)
        BY <2>2, <3>3, <3>4, ReadMemberNests DEF NextMember
      <3> QED
        BY <3>2, <3>5, <3>6
    <2>8. open + 1 \in Nat
      BY <2>5 DEF StandsAt
    <2>10. \A s \in Progress : [s.msg EXCEPT !.valid = FALSE] \in Result
      BY DEF Progress, Messages
    <2> HIDE DEF Read, Result
    <2>9. Members(t, open + 1) \in Result
      BY <2>6, <2>7, <2>8, <2>10, MembersInduction
    <2> QED
      BY <2>1, <2>9 DEF Result
  <1> QED
    BY <1>2, <1>3

-----------------------------------------------------------------------------
(* Nesting in what the writer builds.                                     *)
(* From outside of a string the text x leads to outside of one, and from   *)
(* the open brackets o to w; before its bytes from the first on something  *)
(* stands open.                                                            *)
Leads(x, o, w, first) ==
    \E at : /\ Runs(x, at) /\ at[1] = Plain(o) /\ at[Len(x) + 1] = Plain(w)
            /\ \A r \in first .. Len(x) : at[r] # Broken /\ at[r].open # <<>>

LEMMA RunExists ==
    ASSUME NEW t, IsText(t), NEW s \in Standings
    PROVE  \E at : Runs(t, at) /\ at[1] = s
  <1> DEFINE Upto(n, f) == /\ f \in [1 .. n + 1 -> Standings] /\ f[1] = s
                           /\ \A q \in 1 .. n : f[q + 1] = Opened(f[q], t[q])
             P == {n \in Nat : \E f : Upto(n, f)}
  <1>1. 0 \in P
    <2> DEFINE f == [q \in 1 .. 0 + 1 |-> s]
    <2>1. f \in [1 .. 0 + 1 -> Standings] /\ f[1] = s /\ 1 .. 0 = {}
      OBVIOUS
    <2> HIDE DEF f
    <2>2. Upto(0, f)
      BY <2>1
    <2> QED
      BY <2>2
  <1>2. ASSUME NEW n \in Nat, n \in P PROVE n + 1 \in P
    <2>1. PICK f : Upto(n, f)
      BY <1>2
    <2> DEFINE m == n + 1
               new == Opened(f[m], t[m])
               g == [q \in 1 .. m + 1 |-> IF q = m + 1 THEN new ELSE f[q]]
    <2>2. m \in Nat \ {0} /\ m \in 1 .. m /\ 1 .. n + 1 = 1 .. m
      OBVIOUS
    <2>3. f \in [1 .. m -> Standings] /\ f[1] = s /\ \A q \in 1 .. m - 1 : f[q + 1] = Opened(f[q], t[q])
      BY <2>1, <2>2
    <2>4. new \in Standings
      BY <2>2, <2>3, OpenedStands
    <2>5. new = Opened(f[m], t[m])
      OBVIOUS
    <2> HIDE DEF m, new
    <2>6. g \in [1 .. m + 1 -> Standings] /\ g[m + 1] = new /\ \A q \in 1 .. m : g[q] = f[q]
      BY <2>2, <2>3, <2>4
    <2> HIDE DEF g
    <2>7. g[1] = s
      BY <2>2, <2>3, <2>6
    <2>8. ASSUME NEW q \in 1 .. m PROVE g[q + 1] = Opened(g[q], t[q])
      <3>1. CASE q = m
        BY <2>5, <2>6, <3>1
      <3>2. CASE q # m
        <4>1. q \in 1 .. m - 1 /\ q + 1 \in 1 .. m
          BY <2>2, <3>2
        <4> QED
          BY <2>3, <2>6, <4>1
      <3> QED
        BY <3>1, <3>2
    <2>9. Upto(m, g)
      BY <2>6, <2>7, <2>8
    <2> QED
      BY <2>2, <2>9 DEF m
  <1>3. Nat \subseteq P
    <2> HIDE DEF P
    <2> QED
      BY <1>1, <1>2, Induction
  <1>4. PICK f : Upto(Len(t), f)
    BY <1>3 DEF IsText
  <1>5. Runs(t, f) /\ f[1] = s
    BY <1>4 DEF Runs
  <1> QED
    BY <1>5

LEMMA LeadsJoin ==
    ASSUME NEW a, NEW b, Sequence(a), Sequence(b), NEW o, NEW v, NEW w, NEW first \in Nat \ {0},
           Leads(a, o, v, first), Leads(b, v, w, 1)
    PROVE  Leads(a \o b, o, w, first)
  <1> DEFINE d == a \o b
             la == Len(a)
             lb == Len(b)
  <1>1. /\ la \in Nat /\ lb \in Nat /\ Len(d) = la + lb
        /\ \A i \in 1 .. la : d[i] = a[i]
        /\ \A i \in 1 .. lb : d[la + i] = b[i]
    BY ConcatBytes
  <1>2. PICK f : /\ Runs(a, f) /\ f[1] = Plain(o) /\ f[la + 1] = Plain(v)
                 /\ \A r \in first .. la : f[r] # Broken /\ f[r].open # <<>>
    BY DEF Leads
  <1>3. PICK g : /\ Runs(b, g) /\ g[1] = Plain(v) /\ g[lb + 1] = Plain(w)
                 /\ \A r \in 1 .. lb : g[r] # Broken /\ g[r].open # <<>>
    BY DEF Leads
  <1>4. /\ f \in [1 .. la + 1 -> Standings] /\ \A q \in 1 .. la : f[q + 1] = Opened(f[q], a[q])
        /\ g \in [1 .. lb + 1 -> Standings] /\ \A q \in 1 .. lb : g[q + 1] = Opened(g[q], b[q])
    BY <1>2, <1>3 DEF Runs
  <1> HIDE DEF d, la, lb
  <1> DEFINE h == [r \in 1 .. la + lb + 1 |-> IF r <= la THEN f[r] ELSE g[r - la]]
  <1>5. /\ h \in [1 .. la + lb + 1 -> Standings]
        /\ \A r \in 1 .. la : h[r] = f[r]
        /\ \A r \in 1 .. lb + 1 : h[la + r] = g[r]
    <2>1. ASSUME NEW r \in 1 .. la + lb + 1 PROVE h[r] \in Standings
      BY <1>1, <1>4, SMTT(30)
    <2>2. ASSUME NEW r \in 1 .. lb + 1 PROVE h[la + r] = g[r]
      <3>1. la + r \in 1 .. la + lb + 1 /\ ~(la + r <= la) /\ (la + r) - la = r
        BY <1>1
      <3> QED
        BY <3>1
    <2>3. \A r \in 1 .. la : h[r] = f[r]
      BY <1>1
    <2> QED
      BY <2>1, <2>2, <2>3
  <1> HIDE DEF h
  <1>6. \A r \in 1 .. la + 1 : h[r] = f[r]
    <2>1. h[la + 1] = f[la + 1]
      BY <1>1, <1>2, <1>3, <1>5
    <2> QED
      BY <1>1, <1>5, <2>1
  <1>7. ASSUME NEW q \in 1 .. la + lb PROVE h[q + 1] = Opened(h[q], d[q])
    <2>1. CASE q \in 1 .. la
      <3>1. q \in 1 .. la + 1 /\ q + 1 \in 1 .. la + 1
        BY <1>1, <2>1
      <3> QED
        BY <1>1, <1>4, <1>6, <2>1, <3>1
    <2>2. CASE q \notin 1 .. la
      <3> DEFINE k == q - la
      <3>1. k \in 1 .. lb /\ k \in 1 .. lb + 1 /\ k + 1 \in 1 .. lb + 1 /\ q = la + k /\ q + 1 = la + (k + 1)
        BY <1>1, <2>2
      <3> HIDE DEF k
      <3>2. h[q + 1] = g[k + 1] /\ h[q] = g[k] /\ d[q] = b[k]
        BY <1>1, <1>5, <3>1
      <3> QED
        BY <1>4, <3>1, <3>2
    <2> QED
      BY <2>1, <2>2
  <1>8. ASSUME NEW r \in first .. la + lb PROVE h[r] # Broken /\ h[r].open # <<>>
    <2>1. CASE r <= la
      <3>1. r \in 1 .. la /\ r \in first .. la
        BY <1>1, <2>1
      <3> QED
        BY <1>2, <1>5, <3>1
    <2>2. CASE ~(r <= la)
      <3>1. r - la \in 1 .. lb /\ r - la \in 1 .. lb + 1 /\ r = la + (r - la)
        BY <1>1, <2>2
      <3> QED
        BY <1>3, <1>5, <3>1
    <2> QED
      BY <2>1, <2>2
  <1>9. h[1] = Plain(o)
    <2>1. 1 \in 1 .. la + 1
      BY <1>1
    <2> QED
      BY <1>2, <1>6, <2>1
  <1>10. h[la + lb + 1] = Plain(w)
    <2>1. lb + 1 \in 1 .. lb + 1 /\ la + (lb + 1) = la + lb + 1
      BY <1>1
    <2> QED
      BY <1>3, <1>5, <2>1
  <1>11. Runs(d, h)
    BY <1>1, <1>5, <1>7 DEF Runs
  <1>12. Leads(d, o, w, first)
    BY <1>1, <1>8, <1>9, <1>10, <1>11 DEF Leads
  <1> QED
    BY <1>12 DEF d

(* Text without structure.                                                 *)
LEMMA LeadsPlain ==
    ASSUME NEW x, Sequence(x), \A i \in 1 .. Len(x) : x[i] \notin Structure,
           NEW o \in Stacks, o # <<>>
    PROVE  Leads(x, o, o, 1)
  <1> DEFINE l == Len(x)
  <1>1. IsText(x) /\ l \in Nat
    BY SequenceIsText DEF IsText
  <1>2. Plain(o) \in Standings
    BY DEF Standings
  <1>3. PICK at : Runs(x, at) /\ at[1] = Plain(o)
    BY <1>1, <1>2, RunExists
  <1>4. \A r \in 1 .. l + 1 : at[r] = Plain(o)
    <2>1. /\ 1 \in Nat \ {0} /\ l + 1 \in Nat /\ 1 <= l + 1 /\ l + 1 <= l + 1
          /\ \A r \in 1 .. (l + 1) - 1 : x[r] \notin Structure
      BY <1>1
    <2>2. l + 1 <= Len(x) + 1
      BY <1>1
    <2> HIDE DEF l
    <2> QED
      BY <1>1, <1>3, <2>1, <2>2, PlainBytes
  <1>5. at[l + 1] = Plain(o) /\ \A r \in 1 .. l : at[r] = Plain(o)
    BY <1>1, <1>4
  <1>6. Plain(o) # Broken /\ Plain(o).open = o
    BY StandingsDiffer
  <1> QED
    BY <1>3, <1>5, <1>6 DEF Leads

(* A text written as a string.                                             *)
LEMMA LeadsQuoted ==
    ASSUME NEW s, Sequence(s), NEW o \in Stacks, o # <<>>
    PROVE  Leads(<<Quote>> \o Escaped(s) \o <<Quote>>, o, o, 1)
  <1> DEFINE y == <<Quote>> \o Escaped(s) \o <<Quote>>
             l == Len(y)
  <1>1. Sequence(y)
    BY QuotedType
  <1>2. WrittenAt(y, s, 1, 1 + Len(y))
    <2>1. Sequence(<<>>)
      BY SequenceOne
    <2>4. 1 = Len(<<>>) + 1
      OBVIOUS
    <2>2. WrittenAt(<<>> \o y, s, 1, 1 + Len(y))
      BY <2>1, <2>4, WrittenBehind
    <2>3. <<>> \o y = y
      <3>1. PICK S : y \in Seq(S)
        BY <1>1 DEF Sequence
      <3> HIDE DEF y
      <3> QED
        BY <3>1
    <2> QED
      BY <2>2, <2>3
  <1> HIDE DEF y
  <1>3. SkipString(y, 1) = 1 + l
    BY <1>1, <1>2, WrittenIsRead
  <1>4. IsText(y) /\ l \in Nat
    BY <1>1, SequenceIsText DEF IsText
  <1>5. Plain(o) \in Standings
    BY DEF Standings
  <1>6. PICK at : Runs(y, at) /\ at[1] = Plain(o)
    BY <1>4, <1>5, RunExists
  <1>7. at[1 + l] = Plain(o) /\ KeepsOpen(at, o, 1, 1 + l)
    <2>1. SkipString(y, 1) # Fail
      BY <1>3, <1>4 DEF Fail
    <2> HIDE DEF l
    <2> QED
      BY <1>3, <1>4, <1>6, <2>1, SkipStringRuns, 1 \in Nat \ {0}
  <1>8. at[l + 1] = Plain(o) /\ \A r \in 1 .. l : at[r] # Broken /\ at[r].open = o
    <2>1. l + 1 = 1 + l /\ \A r \in 1 .. l : r \in 1 .. 1 + l
      BY <1>4
    <2> QED
      BY <1>7, <2>1 DEF KeepsOpen
  <1>9. Leads(y, o, o, 1)
    BY <1>6, <1>8 DEF Leads
  <1> QED
    BY <1>9 DEF y

(* A bracket.                                                              *)
LEMMA LeadsBracket ==
    ASSUME NEW c, NEW o \in Stacks, o # <<>>
    PROVE  /\ c \in Openers => Leads(<<c>>, o, Append(o, c), 1)
           /\ c \in Closers /\ Last(o) = Opener(c) => Leads(<<c>>, o, Front(o), 1)
           /\ c \in Openers => Leads(<<c>>, <<>>, <<c>>, 2)
  <1> DEFINE x == <<c>>
  <1>1. Sequence(x) /\ Len(x) = 1 /\ x[1] = c
    BY SequenceOne
  <1> HIDE DEF x
  <1>2. IsText(x)
    BY <1>1, SequenceIsText
  <1>3. ASSUME NEW u \in Stacks, NEW w, Opened(Plain(u), c) = Plain(w)
        PROVE  Leads(x, u, w, 2) /\ (u # <<>> => Leads(x, u, w, 1))
    <2>1. Plain(u) \in Standings
      BY DEF Standings
    <2>2. PICK at : Runs(x, at) /\ at[1] = Plain(u)
      BY <1>2, <2>1, RunExists
    <2>3. at[1 + 1] = Plain(w)
      BY <1>1, <1>2, <1>3, <2>2, RunsStep, 1 \in Nat \ {0}
    <2>4. Plain(u) # Broken /\ Plain(u).open = u
      BY StandingsDiffer
    <2>5. 1 .. 1 = {1} /\ 2 .. 1 = {}
      OBVIOUS
    <2>6. Leads(x, u, w, 2)
      BY <1>1, <2>2, <2>3, <2>5 DEF Leads
    <2>7. u # <<>> => Leads(x, u, w, 1)
      BY <1>1, <2>2, <2>3, <2>4, <2>5 DEF Leads
    <2> QED
      BY <2>6, <2>7
  <1>4. c \in Openers => Leads(x, o, Append(o, c), 1)
    BY <1>3, OpenedBy
  <1>5. c \in Closers /\ Last(o) = Opener(c) => Leads(x, o, Front(o), 1)
    BY <1>3, OpenedBy
  <1>6. c \in Openers => Leads(x, <<>>, <<c>>, 2)
    <2> DEFINE none == <<>>
               one == <<c>>
    <2>1. none \in Stacks /\ Append(none, c) = one
      BY DEF Stacks
    <2> HIDE DEF none, one
    <2>2. c \in Openers => Leads(x, none, one, 2)
      BY <1>3, <2>1, OpenedBy
    <2> QED
      BY <2>2 DEF none, one
  <1> QED
    BY <1>4, <1>5, <1>6 DEF x

(* The name of a member.                                                   *)
LEMMA LeadsName ==
    ASSUME NEW key, key \notin {Quote, Backslash}, NEW o \in Stacks, o # <<>>
    PROVE  Leads(<<Quote, key, Quote, ":">>, o, o, 1)
  <1> DEFINE colon == ":"
             x == <<Quote, key, Quote, colon>>
  <1>1. Sequence(x) /\ Len(x) = 4 /\ x[1] = Quote /\ x[2] = key /\ x[3] = Quote /\ x[4] = colon
    BY SequenceFour
  <1>2. colon \notin Structure
    BY DEF Structure, Openers, Closers, Quote
  <1> HIDE DEF x, colon
  <1>3. IsText(x)
    BY <1>1, SequenceIsText
  <1>4. Plain(o) \in Standings
    BY DEF Standings
  <1>5. PICK at : Runs(x, at) /\ at[1] = Plain(o)
    BY <1>3, <1>4, RunExists
  <1>12. \A q \in 1 .. 4 : at[q + 1] = Opened(at[q], x[q])
    BY <1>1, <1>5 DEF Runs
  <1>13. /\ at[2] = Opened(at[1], Quote) /\ at[3] = Opened(at[2], key)
         /\ at[4] = Opened(at[3], Quote) /\ at[4 + 1] = Opened(at[4], colon)
    <2>1. /\ 1 \in 1 .. 4 /\ 2 \in 1 .. 4 /\ 3 \in 1 .. 4 /\ 4 \in 1 .. 4
          /\ 1 + 1 = 2 /\ 2 + 1 = 3 /\ 3 + 1 = 4
      OBVIOUS
    <2> QED
      BY <1>1, <1>12, <2>1
  <1>6. at[2] = InString(o)
    BY <1>5, <1>13, OpenedBy
  <1>7. at[3] = InString(o)
    BY <1>6, <1>13, OpenedBy
  <1>8. at[4] = Plain(o)
    BY <1>7, <1>13, OpenedBy
  <1>9. at[4 + 1] = Plain(o)
    BY <1>2, <1>8, <1>13, OpenedBy
  <1>10. ASSUME NEW r \in 1 .. 4 PROVE at[r] # Broken /\ at[r].open # <<>>
    <2>1. r = 1 \/ r = 2 \/ r = 3 \/ r = 4
      OBVIOUS
    <2>2. Plain(o) # Broken /\ InString(o) # Broken
      BY DEF Plain, InString, Broken
    <2> QED
      BY <1>5, <1>6, <1>7, <1>8, <2>1, <2>2, StandingsDiffer
  <1>11. Leads(x, o, o, 1)
    BY <1>1, <1>5, <1>9, <1>10 DEF Leads
  <1> QED
    BY <1>11 DEF x, colon

LEMMA LeadsComma ==
    ASSUME NEW openers, NEW o \in Stacks, o # <<>>
    PROVE  Leads(Comma(openers), o, o, 1)
  <1> DEFINE comma == ","
             x == <<comma>>
  <1>1. comma \notin Structure
    BY DEF Structure, Openers, Closers, Quote
  <1> HIDE DEF comma
  <1>2. Sequence(x) /\ Len(x) = 1 /\ x[1] = comma
    BY SequenceOne
  <1>3. \A i \in 1 .. Len(x) : x[i] \notin Structure
    BY <1>1, <1>2
  <1>4. Leads(x, o, o, 1)
    BY <1>2, <1>3, LeadsPlain
  <1>5. Leads(<<>>, o, o, 1)
    <2>1. Sequence(<<>>)
      BY SequenceOne
    <2>2. \A i \in 1 .. Len(<<>>) : <<>>[i] \notin Structure
      OBVIOUS
    <2> QED
      BY <2>1, <2>2, LeadsPlain
  <1>6. Comma(openers) \in {x, <<>>}
    BY DEF Comma, comma
  <1> QED
    BY <1>4, <1>5, <1>6

LEMMA OpenAtRuns ==
    ASSUME NEW t, IsText(t)
    PROVE  Runs(t, OpenAt(t)) /\ OpenAt(t)[1] = Plain(<<>>)
  <1> DEFINE l == Len(t)
             none == Plain(<<>>)
             at == OpenAt(t)
             step(f, q) == IF q = 1 THEN none ELSE Opened(f[q - 1], t[q - 1])
  <1>1. l \in Nat
    BY DEF IsText
  <1>2. none \in Standings
    <2>1. <<>> \in Stacks
      BY DEF Stacks
    <2> QED
      BY <2>1 DEF Standings
  <1>3. at = CHOOSE f : f = [q \in 1 .. l + 1 |-> step(f, q)]
    BY DEF OpenAt
  <1>4. \E f : f = [q \in 1 .. l + 1 |-> step(f, q)]
    <2>1. PICK f : Runs(t, f) /\ f[1] = none
      BY <1>2, RunExists
    <2>2. f \in [1 .. l + 1 -> Standings] /\ \A q \in 1 .. l : f[q + 1] = Opened(f[q], t[q])
      BY <2>1 DEF Runs
    <2> HIDE DEF l, none
    <2>3. ASSUME NEW q \in 1 .. l + 1 PROVE f[q] = step(f, q)
      <3>1. CASE q # 1
        <4>1. q - 1 \in 1 .. l /\ (q - 1) + 1 = q
          BY <1>1, <3>1
        <4> QED
          BY <2>2, <3>1, <4>1
      <3> QED
        BY <2>1, <3>1
    <2> HIDE DEF step
    <2>4. f = [q \in 1 .. l + 1 |-> step(f, q)]
      BY <2>2, <2>3
    <2> QED
      BY <2>4
  <1> HIDE DEF at
  <1>5. at = [q \in 1 .. l + 1 |-> step(at, q)]
    <2> HIDE DEF step, l
    <2> QED
      BY <1>3, <1>4
  <1> HIDE DEF l, none
  <1>6. at[1] = none
    <2>1. 1 \in 1 .. l + 1
      BY <1>1
    <2>2. at[1] = step(at, 1)
      BY <1>5, <2>1
    <2> QED
      BY <2>2
  <1>7. ASSUME NEW q \in 1 .. l PROVE at[q + 1] = Opened(at[q], t[q])
    <2>1. q + 1 \in 1 .. l + 1 /\ q + 1 # 1 /\ (q + 1) - 1 = q
      BY <1>1
    <2>2. at[q + 1] = step(at, q + 1)
      BY <1>5, <2>1
    <2> QED
      BY <2>1, <2>2
  <1> DEFINE P == {n \in Nat : n <= l => at[n + 1] \in Standings}
  <1>8. 0 \in P
    BY <1>2, <1>6
  <1>9. ASSUME NEW n \in Nat, n \in P PROVE n + 1 \in P
    <2> SUFFICES ASSUME n + 1 <= l PROVE at[(n + 1) + 1] \in Standings
      OBVIOUS
    <2>1. n + 1 \in 1 .. l /\ n <= l
      BY <1>1
    <2> QED
      BY <1>7, <1>9, <2>1, OpenedStands
  <1>10. Nat \subseteq P
    <2> HIDE DEF P
    <2> QED
      BY <1>8, <1>9, Induction
  <1>11. ASSUME NEW q \in 1 .. l + 1 PROVE at[q] \in Standings
    <2>1. q - 1 \in Nat /\ q - 1 <= l /\ (q - 1) + 1 = q
      BY <1>1
    <2> HIDE DEF P
    <2>2. q - 1 \in P
      BY <1>10, <2>1
    <2> USE DEF P
    <2> QED
      BY <2>1, <2>2
  <1>12. at \in [1 .. l + 1 -> Standings]
    <2> HIDE DEF step
    <2> QED
      BY <1>5, <1>11
  <1>13. Runs(t, at)
    BY <1>7, <1>12 DEF Runs, l
  <1> QED
    BY <1>6, <1>13 DEF at, none

(* The same run with more brackets open around it.                         *)
Deeper(o, s) == [s EXCEPT !.open = o \o s.open]

LEMMA DeeperIs ==
    ASSUME NEW o, NEW x
    PROVE  /\ Deeper(o, Plain(x)) = Plain(o \o x)
           /\ Deeper(o, InString(x)) = InString(o \o x)
           /\ Deeper(o, InEscape(x)) = InEscape(o \o x)
  <1> DEFINE y == o \o x
  <1>1. ASSUME NEW s, s.open = x PROVE Deeper(o, s) = [s EXCEPT !.open = y]
    BY <1>1 DEF Deeper
  <1> HIDE DEF y
  <1>2. /\ [Plain(x) EXCEPT !.open = y] = Plain(y)
        /\ [InString(x) EXCEPT !.open = y] = InString(y)
        /\ [InEscape(x) EXCEPT !.open = y] = InEscape(y)
    BY DEF Plain, InString, InEscape
  <1>3. Plain(x).open = x /\ InString(x).open = x /\ InEscape(x).open = x
    BY StandingsDiffer
  <1> QED
    BY <1>1, <1>2, <1>3 DEF y

LEMMA OpenedWithin ==
    ASSUME NEW o \in Stacks, NEW s \in Standings, NEW c, Opened(s, c) # Broken
    PROVE  /\ Deeper(o, s) \in Standings
           /\ Opened(Deeper(o, s), c) = Deeper(o, Opened(s, c))
  <1>1. ASSUME NEW x PROVE /\ Deeper(o, Plain(x)) = Plain(o \o x)
                           /\ Deeper(o, InString(x)) = InString(o \o x)
                           /\ Deeper(o, InEscape(x)) = InEscape(o \o x)
    BY DeeperIs
  <1>2. ASSUME NEW x \in Stacks PROVE o \o x \in Stacks
    BY DEF Stacks
  <1>3. s # Broken
    BY OpenedBy
  <1>4. CASE \E x \in Stacks : s = InEscape(x)
    BY <1>1, <1>2, <1>4, OpenedBy DEF Standings
  <1>5. CASE \E x \in Stacks : s = InString(x)
    <2>1. PICK x \in Stacks : s = InString(x)
      BY <1>5
    <2>2. Deeper(o, s) = InString(o \o x) /\ o \o x \in Stacks
      BY <1>1, <1>2, <2>1
    <2>3. CASE c = Quote
      BY <1>1, <2>1, <2>2, <2>3, OpenedBy DEF Standings
    <2>4. CASE c # Quote /\ c = Backslash
      BY <1>1, <2>1, <2>2, <2>4, OpenedBy DEF Standings
    <2>5. CASE c # Quote /\ c # Backslash
      BY <1>1, <2>1, <2>2, <2>5, OpenedBy DEF Standings
    <2> QED
      BY <2>3, <2>4, <2>5
  <1>6. CASE \E x \in Stacks : s = Plain(x)
    <2>1. PICK x \in Stacks : s = Plain(x)
      BY <1>6
    <2>2. Deeper(o, s) = Plain(o \o x) /\ o \o x \in Stacks
      BY <1>1, <1>2, <2>1
    <2>3. Deeper(o, s) \in Standings
      BY <2>2 DEF Standings
    <2>4. CASE c = Quote
      BY <1>1, <2>1, <2>2, <2>3, <2>4, OpenedBy
    <2>5. CASE c \in Openers
      <3>1. o \o Append(x, c) = Append(o \o x, c)
        <4> HIDE DEF Openers
        <4> QED
          BY <2>5 DEF Stacks
      <3>2. Opened(s, c) = Plain(Append(x, c)) /\ Opened(Plain(o \o x), c) = Plain(Append(o \o x, c))
        BY <2>1, <2>5, OpenedBy
      <3> QED
        BY <1>1, <2>2, <2>3, <3>1, <3>2
    <2>6. CASE c \in Closers
      <3>1. x # <<>> /\ Last(x) = Opener(c) /\ Opened(s, c) = Plain(Front(x))
        BY <2>1, <2>6, OpenedBy
      <3> DEFINE f == Front(x)
                 k == Last(x)
      <3>2. f \in Stacks /\ k \in Openers /\ x = Append(f, k)
        BY <3>1, FrontIs DEF Stacks
      <3> HIDE DEF f, k
      <3>3. o \o x = Append(o \o f, k) /\ o \o f \in Stacks
        BY <1>2, <3>2 DEF Stacks
      <3> DEFINE u == o \o x
                 v == o \o f
      <3>6. v \in Seq(Openers) /\ u = Append(v, k)
        BY <3>3 DEF Stacks
      <3> HIDE DEF u, v
      <3>4. u # <<>> /\ Last(u) = k /\ Front(u) = v
        BY <3>2, <3>6, FrontOfAppend
      <3>7. Opened(Plain(u), c) = Plain(v)
        BY <2>6, <3>1, <3>4, OpenedBy DEF k
      <3>5. Opened(Plain(o \o x), c) = Plain(o \o f)
        BY <3>7 DEF u, v
      <3> QED
        BY <1>1, <2>2, <2>3, <3>1, <3>5 DEF f
    <2>7. CASE c \notin Structure
      BY <1>1, <2>1, <2>2, <2>3, <2>7, OpenedBy
    <2> QED
      BY <2>4, <2>5, <2>6, <2>7 DEF Structure
  <1> QED
    BY <1>3, <1>4, <1>5, <1>6 DEF Standings

(* The three stretches that a number is made of, the first behind its sign.*)
DigitsFrom(t, p, q) == \A k \in p .. q - 1 : t[k] \in DigitSet
NumberParts(t, first, point, exp, power) ==
    /\ first = (IF At(t, 1, "-") THEN 2 ELSE 1)
    /\ point \in 1 .. Len(t) + 1 /\ exp \in 1 .. Len(t) + 1
    /\ first < point /\ point <= exp
    /\ DigitsFrom(t, first, point)
    /\ point < exp => t[point] = "." /\ DigitsFrom(t, point + 1, exp)
    /\ power = (IF In(t, exp + 1, {"+", "-"}) THEN exp + 2 ELSE exp + 1)
    /\ exp <= Len(t) => t[exp] \in {"e", "E"} /\ DigitsFrom(t, power, Len(t) + 1)

LEMMA NumberHasParts ==
    ASSUME NEW t, IsNumber(t)
    PROVE  \E first, point, exp, power : NumberParts(t, first, point, exp, power)
  <1> DEFINE digits(p, q) == \A k \in p .. q - 1 : t[k] \in DigitSet
             power(e) == IF In(t, e + 1, {"+", "-"}) THEN e + 2 ELSE e + 1
  <1>1. PICK first \in {1, 2}, point \in 1 .. Len(t) + 1, exp \in 1 .. Len(t) + 1 :
          /\ first = 2 <=> At(t, 1, "-")
          /\ first < point /\ point <= exp /\ digits(first, point)
          /\ point < exp => t[point] = "." /\ digits(point + 1, exp)
          /\ exp <= Len(t) => t[exp] \in {"e", "E"} /\ digits(power(exp), Len(t) + 1)
    BY Zenon DEF IsNumber
  <1>2. first = (IF At(t, 1, "-") THEN 2 ELSE 1)
    BY <1>1
  <1>3. NumberParts(t, first, point, exp, power(exp))
    BY <1>1, <1>2, Zenon DEF NumberParts, DigitsFrom
  <1> QED
    BY <1>3

LEMMA NumberIsPlain ==
    ASSUME NEW t, IsText(t), IsNumber(t)
    PROVE  Len(t) >= 1 /\ \A i \in 1 .. Len(t) : t[i] \in NumberBytes
  <1> DEFINE l == Len(t)
  <1>1. PICK first, point, exp, power : NumberParts(t, first, point, exp, power)
    BY NumberHasParts
  <1>2. l \in Nat
    BY DEF IsText
  <1> DEFINE minus == "-"
             signs == {"+", "-"}
             dot == "."
             powers == {"e", "E"}
  <1>3. /\ DigitSet \subseteq NumberBytes /\ minus \in NumberBytes /\ signs \subseteq NumberBytes
        /\ dot \in NumberBytes /\ powers \subseteq NumberBytes
    BY DEF NumberBytes
  <1>4. /\ first = (IF At(t, 1, minus) THEN 2 ELSE 1)
        /\ point \in 1 .. l + 1 /\ exp \in 1 .. l + 1
        /\ first < point /\ point <= exp
        /\ DigitsFrom(t, first, point)
        /\ point < exp => t[point] = dot /\ DigitsFrom(t, point + 1, exp)
        /\ power = (IF In(t, exp + 1, signs) THEN exp + 2 ELSE exp + 1)
        /\ exp <= l => t[exp] \in powers /\ DigitsFrom(t, power, l + 1)
    BY <1>1 DEF NumberParts
  <1>5. \A p, q : DigitsFrom(t, p, q) => \A k \in p .. q - 1 : t[k] \in NumberBytes
    BY <1>3 DEF DigitsFrom
  <1> HIDE DEF minus, signs, dot, powers, l
  <1>6. first \in {1, 2} /\ (first = 2 => t[1] \in NumberBytes)
    BY <1>3, <1>4 DEF At
  <1>7. power \in {exp + 1, exp + 2} /\ (power = exp + 2 => t[exp + 1] \in NumberBytes)
    BY <1>3, <1>4 DEF In
  <1>8. ASSUME NEW i \in 1 .. l PROVE t[i] \in NumberBytes
    <2>1. \/ i < first \/ i \in first .. point - 1
          \/ (point < exp /\ (i = point \/ i \in point + 1 .. exp - 1))
          \/ (exp <= l /\ (i = exp \/ (power = exp + 2 /\ i = exp + 1) \/ i \in power .. (l + 1) - 1))
      BY <1>2, <1>4, <1>6, <1>7
    <2>2. CASE i < first
      BY <1>6, <2>2
    <2>3. CASE i \in first .. point - 1
      BY <1>4, <1>5, <2>3
    <2>4. CASE point < exp /\ (i = point \/ i \in point + 1 .. exp - 1)
      BY <1>3, <1>4, <1>5, <2>4
    <2>5. CASE exp <= l /\ (i = exp \/ (power = exp + 2 /\ i = exp + 1) \/ i \in power .. (l + 1) - 1)
      BY <1>3, <1>4, <1>5, <1>7, <2>5
    <2> QED
      BY <2>1, <2>2, <2>3, <2>4, <2>5
  <1>9. l >= 1
    BY <1>2, <1>4, <1>6
  <1> QED
    BY <1>8, <1>9 DEF l

LEMMA NotFiniteIsPlain ==
    ASSUME NEW t \in NotFinite
    PROVE  Len(t) >= 1 /\ \A i \in 1 .. Len(t) : t[i] \notin Structure \cup Enders
  <1> DEFINE minus == "-"
             nan == "nan"
             inf == "inf"
             S == Structure \cup Enders
  <1>1. minus \notin S /\ nan \notin S /\ inf \notin S
    BY DEF Structure, Openers, Closers, Quote, Enders
  <1>2. t \in {<<nan>>, <<minus, nan>>, <<inf>>, <<minus, inf>>}
    BY DEF NotFinite
  <1> HIDE DEF minus, nan, inf, S
  <1>3. \A x, y : /\ Len(<<x>>) = 1 /\ <<x>>[1] = x
                  /\ Len(<<x, y>>) = 2 /\ <<x, y>>[1] = x /\ <<x, y>>[2] = y
    OBVIOUS
  <1>4. \/ Len(t) = 1 /\ t[1] \in {nan, inf}
        \/ Len(t) = 2 /\ t[1] = minus /\ t[2] \in {nan, inf}
    BY <1>2, <1>3
  <1>5. Len(t) >= 1 /\ \A i \in 1 .. Len(t) : t[i] \notin S
    BY <1>1, <1>4
  <1> QED
    BY <1>5 DEF S

(* The words that are values.                                              *)
LEMMA WordIsPlain ==
    ASSUME NEW w \in {"true", "false", "null"}
    PROVE  w \notin Structure \cup Enders \cup Spaces
  BY DEF Structure, Openers, Closers, Quote, Enders, Spaces

(* What is given raw leaves nothing open.                                  *)
LEMMA ValueClosesItself ==
    ASSUME NEW t, Sequence(t), IsValue(t)
    PROVE  Len(t) >= 1 /\ OpenAt(t)[Len(t) + 1] = Plain(<<>>)
  <1> DEFINE at == OpenAt(t)
             l == Len(t)
             none == Plain(<<>>)
  <1>1. IsText(t) /\ l \in Nat
    BY SequenceIsText DEF IsText
  <1>2. Runs(t, at) /\ at[1] = none
    BY <1>1, OpenAtRuns
  <1>3. ASSUME l >= 1, \A i \in 1 .. l : t[i] \notin Structure
        PROVE  at[l + 1] = none
    <2> HIDE DEF at, l
    <2>1. \A r \in 1 .. (l + 1) - 1 : t[r] \notin Structure
      BY <1>1, <1>3
    <2>2. \A r \in 1 .. l + 1 : at[r] = Plain(<<>>)
      BY <1>1, <1>2, <2>1, PlainBytes DEF l
    <2> QED
      BY <1>1, <2>2
  <1>4. CASE t \in {<<"true">>, <<"false">>, <<"null">>}
    <2>1. PICK w \in {"true", "false", "null"} : t = <<w>>
      BY <1>4
    <2>2. l = 1 /\ t[1] = w
      BY <2>1
    <2>3. \A i \in 1 .. l : t[i] \notin Structure
      BY <2>2, WordIsPlain
    <2> QED
      BY <1>3, <2>2, <2>3
  <1>5. CASE IsNumber(t)
    BY <1>1, <1>3, <1>5, NumberIsPlain, NumberBytesArePlain
  <1>6. CASE /\ In(t, 1, Structure)
             /\ \A q \in 2 .. Len(t) + 1 : OpenAt(t)[q] = Plain(<<>>) <=> q = Len(t) + 1
    <2>1. l >= 1
      BY <1>1, <1>6 DEF In, IsText
    <2>2. l + 1 \in 2 .. l + 1
      BY <1>1, <2>1
    <2> QED
      BY <1>6, <2>1, <2>2
  <1> QED
    BY <1>4, <1>5, <1>6 DEF IsValue

LEMMA LeadsRaw ==
    ASSUME NEW t \in RawValues, NEW o \in Stacks, o # <<>>
    PROVE  Sequence(t) /\ Leads(t, o, o, 1)
  <1> DEFINE at == OpenAt(t)
             l == Len(t)
             none == Plain(<<>>)
  <1>1. Sequence(t)
    BY TextsAssumption DEF Sequence
  <1>2. IsText(t) /\ l \in Nat
    BY <1>1, SequenceIsText DEF IsText
  <1>3. Runs(t, at) /\ at[1] = none /\ at[l + 1] = none
    BY <1>1, <1>2, OpenAtRuns, ValueClosesItself, RawAssumption
  <1> HIDE DEF at, l
  <1>4. at \in [1 .. l + 1 -> Standings] /\ \A q \in 1 .. l : at[q + 1] = Opened(at[q], t[q])
    BY <1>3 DEF Runs, l
  <1>5. \A q \in 1 .. l + 1 : at[q] # Broken
    <2> SUFFICES ASSUME NEW q \in 1 .. l + 1, at[q] = Broken PROVE FALSE
      OBVIOUS
    <2> DEFINE P == {d \in Nat : q + d <= l + 1 => at[q + d] = Broken}
    <2>1. 0 \in P
      OBVIOUS
    <2>2. ASSUME NEW d \in Nat, d \in P PROVE d + 1 \in P
      <3> SUFFICES ASSUME q + (d + 1) <= l + 1 PROVE at[q + (d + 1)] = Broken
        OBVIOUS
      <3>1. q + d \in 1 .. l /\ (q + d) + 1 = q + (d + 1) /\ q + d <= l + 1
        BY <1>2
      <3> QED
        BY <1>4, <2>2, <3>1, OpenedBy
    <2>3. Nat \subseteq P
      <3> HIDE DEF P
      <3> QED
        BY <2>1, <2>2, Induction
    <2>4. l + 1 - q \in Nat /\ q + (l + 1 - q) = l + 1
      BY <1>2
    <2>5. l + 1 - q \in P
      <3> HIDE DEF P
      <3> QED
        BY <2>3, <2>4
    <2>6. at[l + 1] = Broken
      BY <1>2, <2>4, <2>5
    <2> QED
      BY <1>3, <2>6, StandingsDiffer
  <1> DEFINE h == [q \in 1 .. l + 1 |-> Deeper(o, at[q])]
  <1>6. Deeper(o, none) = Plain(o)
    <2>1. o \o <<>> = o
      BY DEF Stacks
    <2>2. Deeper(o, none) = Plain(o \o <<>>)
      BY DEF Deeper, Plain
    <2> QED
      BY <2>1, <2>2
  <1>7. ASSUME NEW q \in 1 .. l + 1
        PROVE  h[q] \in Standings /\ h[q] # Broken /\ h[q].open # <<>>
    <2> HIDE DEF none
    <2>1. at[q] \in Standings /\ at[q] # Broken
      BY <1>4, <1>5
    <2>2. h[q] = Deeper(o, at[q])
      OBVIOUS
    <2>3. ASSUME NEW x \in Stacks, at[q] \in {Plain(x), InString(x), InEscape(x)}
          PROVE  h[q] \in {Plain(o \o x), InString(o \o x), InEscape(o \o x)}
      BY <2>2, <2>3, DeeperIs
    <2>4. ASSUME NEW x \in Stacks PROVE o \o x \in Stacks /\ o \o x # <<>>
      BY DEF Stacks
    <2>5. \A y : InString(y) # Broken /\ InEscape(y) # Broken
      BY DEF InString, InEscape, Broken
    <2>6. PICK x \in Stacks : at[q] \in {Plain(x), InString(x), InEscape(x)}
      BY <2>1 DEF Standings
    <2>7. h[q] \in {Plain(o \o x), InString(o \o x), InEscape(o \o x)}
      BY <2>3, <2>6
    <2> DEFINE y == o \o x
    <2>8. y \in Stacks /\ y # <<>>
      BY <2>4
    <2> HIDE DEF y, h
    <2>9. h[q] \in {Plain(y), InString(y), InEscape(y)}
      BY <2>7 DEF y
    <2> QED
      BY <2>5, <2>8, <2>9, StandingsDiffer DEF Standings
  <1>8. ASSUME NEW q \in 1 .. l PROVE h[q + 1] = Opened(h[q], t[q])
    <2>1. q \in 1 .. l + 1 /\ q + 1 \in 1 .. l + 1
      BY <1>2
    <2>2. at[q + 1] = Opened(at[q], t[q]) /\ at[q] \in Standings /\ at[q + 1] # Broken
      BY <1>4, <1>5, <2>1
    <2> QED
      BY <2>1, <2>2, OpenedWithin
  <1>9. h[1] = Plain(o) /\ h[l + 1] = Plain(o)
    BY <1>2, <1>3, <1>6
  <1>10. h \in [1 .. l + 1 -> Standings] /\ \A q \in 1 .. l : h[q] # Broken /\ h[q].open # <<>>
    <2>1. \A q \in 1 .. l : q \in 1 .. l + 1
      BY <1>2
    <2> QED
      BY <1>7, <2>1
  <1> HIDE DEF h
  <1>11. Runs(t, h)
    BY <1>8, <1>10 DEF Runs, l
  <1> QED
    BY <1>1, <1>9, <1>10, <1>11 DEF Leads, l

(* The brackets of the containers that the writer has open.                *)
BracketsOf(n, L) == [i \in DOMAIN n |-> IF n[i] = 0 \/ L[n[i]].op = "object" THEN "{" ELSE "["]
Nested(n, L) ==
    /\ n \in Seq(Nat)
    /\ \A i \in DOMAIN n : n[i] \in IF i = 1 THEN {0} ELSE DOMAIN L

(* What the writer holds open stands open in the text, and in a text that  *)
(* has begun something stands open up to its last byte.                    *)
NestingIsTrue ==
    /\ Nested(nesting, ledger)
    /\ Leads(buffer, <<>>, BracketsOf(nesting, ledger), 2)

LEMMA BracketsType ==
    ASSUME NEW n, NEW L, Nested(n, L)
    PROVE  /\ BracketsOf(n, L) \in Stacks /\ Len(BracketsOf(n, L)) = Len(n) /\ Len(n) \in Nat
           /\ n # <<>> => BracketsOf(n, L) # <<>> /\ Len(n) >= 1
  <1> DEFINE o == BracketsOf(n, L)
             l == Len(n)
  <1>1. n \in Seq(Nat) /\ l \in Nat /\ DOMAIN n = 1 .. l
    BY DEF Nested
  <1>2. \A i \in DOMAIN n : o[i] \in Openers
    BY DEF BracketsOf, Openers
  <1>3. o \in [1 .. l -> Openers]
    <2>1. o = [i \in 1 .. l |-> o[i]]
      BY <1>1 DEF BracketsOf
    <2> HIDE DEF o
    <2> QED
      BY <1>1, <1>2, <2>1
  <1> HIDE DEF o
  <1>4. o \in Stacks /\ Len(o) = l
    BY <1>1, <1>3, SeqDef DEF Stacks
  <1>5. n # <<>> => l >= 1
    BY <1>1
  <1>6. l >= 1 => o # <<>>
    BY <1>1, <1>4
  <1> QED
    BY <1>1, <1>4, <1>5, <1>6 DEF o

(* They stay the same when the ledger is continued.                        *)
LEMMA BracketsStay ==
    ASSUME NEW n, NEW L, NEW M, Nested(n, L),
           \A i \in DOMAIN L : i \in DOMAIN M /\ M[i].op = L[i].op
    PROVE  Nested(n, M) /\ BracketsOf(n, M) = BracketsOf(n, L)
  BY DEF Nested, BracketsOf

LEMMA BracketsPush ==
    ASSUME NEW n, NEW L, Nested(n, L), n # <<>>, NEW k \in DOMAIN L, k \in Nat \ {0}
    PROVE  /\ Nested(Append(n, k), L)
           /\ BracketsOf(Append(n, k), L) =
                Append(BracketsOf(n, L), IF L[k].op = "object" THEN "{" ELSE "[")
  <1> DEFINE m == Append(n, k)
             l == Len(n)
             o == BracketsOf(n, L)
             c == IF L[k].op = "object" THEN "{" ELSE "["
             p == BracketsOf(m, L)
             a == Append(o, c)
  <1>1. /\ n \in Seq(Nat) /\ l \in Nat /\ l >= 1 /\ DOMAIN n = 1 .. l
        /\ \A i \in DOMAIN n : n[i] \in IF i = 1 THEN {0} ELSE DOMAIN L
    BY BracketsType DEF Nested
  <1>2. /\ m \in Seq(Nat) /\ Len(m) = l + 1 /\ DOMAIN m = 1 .. l + 1
        /\ m[l + 1] = k /\ \A i \in 1 .. l : m[i] = n[i]
    BY <1>1
  <1> HIDE DEF m
  <1>3. Nested(m, L)
    <2>1. ASSUME NEW i \in DOMAIN m PROVE m[i] \in IF i = 1 THEN {0} ELSE DOMAIN L
      <3>1. CASE i \in 1 .. l
        <4>1. i \in DOMAIN n /\ m[i] = n[i]
          BY <1>1, <1>2, <3>1
        <4> QED
          BY <1>1, <4>1
      <3>2. CASE i \notin 1 .. l
        <4> HIDE DEF l
        <4>1. i = l + 1 /\ i # 1
          BY <1>1, <1>2, <3>2
        <4> QED
          BY <1>2, <4>1
      <3> QED
        BY <3>1, <3>2
    <2> QED
      BY <1>2, <2>1 DEF Nested
  <1>4. c \in Openers /\ o \in Stacks /\ Len(o) = l /\ p \in Stacks /\ Len(p) = l + 1
    BY <1>2, <1>3, BracketsType DEF Openers
  <1>5. p[l + 1] = c
    <2>1. l + 1 \in DOMAIN m /\ m[l + 1] = k /\ k # 0
      BY <1>1, <1>2
    <2> HIDE DEF l
    <2> QED
      BY <2>1 DEF BracketsOf
  <1>6. \A i \in 1 .. l : p[i] = o[i]
    <2>1. \A i \in 1 .. l : i \in DOMAIN n /\ i \in DOMAIN m /\ m[i] = n[i]
      BY <1>1, <1>2
    <2> HIDE DEF l
    <2> QED
      BY <2>1 DEF BracketsOf
  <1> HIDE DEF p, o, c
  <1>7. a \in Stacks /\ Len(a) = l + 1 /\ a[l + 1] = c /\ \A i \in 1 .. l : a[i] = o[i]
    BY <1>4 DEF Stacks
  <1> HIDE DEF a
  <1>8. p = a
    <2>1. \A i \in 1 .. l + 1 : p[i] = a[i]
      BY <1>1, <1>5, <1>6, <1>7
    <2> QED
      BY <1>4, <1>7, <2>1 DEF Stacks
  <1> QED
    BY <1>3, <1>8 DEF m, p, a, o, c

LEMMA BracketsPop ==
    ASSUME NEW n, NEW L, Nested(n, L), n # <<>>
    PROVE  /\ Nested(Front(n), L)
           /\ BracketsOf(Front(n), L) = Front(BracketsOf(n, L))
           /\ Last(BracketsOf(n, L)) =
                IF Last(n) = 0 \/ L[Last(n)].op = "object" THEN "{" ELSE "["
           /\ Len(n) > 1 => Last(n) \in DOMAIN L
  <1> DEFINE m == Front(n)
             l == Len(n)
             o == BracketsOf(n, L)
             p == BracketsOf(m, L)
             a == Front(o)
  <1>1. /\ n \in Seq(Nat) /\ l \in Nat /\ l >= 1 /\ DOMAIN n = 1 .. l
        /\ \A i \in DOMAIN n : n[i] \in IF i = 1 THEN {0} ELSE DOMAIN L
    BY BracketsType DEF Nested
  <1>2. /\ m \in Seq(Nat) /\ Len(m) = l - 1 /\ Last(n) = n[l]
        /\ \A i \in 1 .. l - 1 : m[i] = n[i]
    BY <1>1, FrontIs
  <1>9. DOMAIN m = 1 .. l - 1
    BY <1>2
  <1> HIDE DEF m
  <1>3. Nested(m, L)
    <2>1. ASSUME NEW i \in DOMAIN m PROVE m[i] \in IF i = 1 THEN {0} ELSE DOMAIN L
      <3>1. i \in DOMAIN n /\ m[i] = n[i]
        BY <1>1, <1>2, <1>9
      <3> QED
        BY <1>1, <3>1
    <2> QED
      BY <1>2, <2>1 DEF Nested
  <1>4. o \in Seq(Openers) /\ o # <<>> /\ Len(o) = l /\ p \in Seq(Openers) /\ Len(p) = l - 1
    BY <1>2, <1>3, BracketsType DEF Stacks
  <1>5. o[l] = IF n[l] = 0 \/ L[n[l]].op = "object" THEN "{" ELSE "["
    <2>1. l \in DOMAIN n
      BY <1>1
    <2> QED
      BY <2>1 DEF BracketsOf
  <1>6. \A i \in 1 .. l - 1 : p[i] = o[i]
    <2>1. \A i \in 1 .. l - 1 : i \in DOMAIN n /\ i \in DOMAIN m /\ m[i] = n[i]
      BY <1>1, <1>2, <1>9
    <2> HIDE DEF l
    <2> QED
      BY <2>1 DEF BracketsOf
  <1> HIDE DEF p, o
  <1>7. /\ a \in Seq(Openers) /\ Len(a) = l - 1 /\ Last(o) = o[l]
        /\ \A i \in 1 .. l - 1 : a[i] = o[i]
    BY <1>4, FrontIs
  <1> HIDE DEF a
  <1>8. p = a
    BY <1>4, <1>6, <1>7
  <1>10. l > 1 => n[l] \in DOMAIN L
    <2>1. l > 1 => l \in DOMAIN n /\ l # 1
      BY <1>1
    <2> HIDE DEF l
    <2> QED
      BY <1>1, <2>1
  <1> QED
    BY <1>2, <1>3, <1>5, <1>7, <1>8, <1>10 DEF m, p, a, o

Opening == BracketsOf(nesting, ledger)

LEMMA KeyOfCall ==
    ASSUME NEW c \in Calls, c.op \notin {"element", "rawElement"}
    PROVE  c.key \notin {Quote, Backslash}
  <1>1. c \in CallRecords
    BY CallsAssumption
  <1>2. "key" \in DOMAIN c
    BY <1>1 DEF CallRecords
  <1> QED
    BY <1>2, KeysAssumption

LEMMA MoreText ==
    ASSUME NEW a, NEW b, Sequence(a), Sequence(b), NEW o, NEW v, NEW w,
           Leads(a, o, v, 2), Leads(b, v, w, 1)
    PROVE  Leads(a \o b, o, w, 2)
  BY LeadsJoin, 2 \in Nat \ {0}

(* What a member adds to the text.                                         *)
LEMMA MemberLeads ==
    ASSUME LedgerIsTrue, NestingIsTrue, NEW c \in Calls, c.op \notin {"element", "rawElement"},
           NEW text, Sequence(text), NEW openers, PutMember(c, text, openers),
           NEW w, Leads(text, Opening, w, 1)
    PROVE  Leads(buffer', <<>>, w, 2)
  <1> DEFINE name == <<Quote, c.key, Quote, ":">>
             comma == Comma(openers)
             head == comma \o name
             o == Opening
  <1>1. nesting # <<>> /\ buffer' = (buffer \o head) \o text
    BY DEF PutMember, MayAdd
  <1>2. o \in Stacks /\ o # <<>>
    BY <1>1, BracketsType DEF NestingIsTrue, Opening
  <1>3. Sequence(comma) /\ Sequence(name) /\ Sequence(buffer)
    BY SequenceOne, SequenceFour DEF Comma, LedgerIsTrue
  <1>4. Leads(buffer, <<>>, o, 2)
    BY DEF NestingIsTrue, Opening
  <1> HIDE DEF o
  <1>5. Leads(name, o, o, 1)
    BY <1>2, KeyOfCall, LeadsName
  <1>6. Leads(comma, o, o, 1)
    BY <1>2, LeadsComma
  <1>7. Leads(text, o, w, 1)
    BY DEF o
  <1> HIDE DEF name, comma
  <1>8. Leads(head, o, o, 1) /\ Sequence(head)
    BY <1>3, <1>5, <1>6, LeadsJoin, SequenceConcat
  <1> HIDE DEF head
  <1>9. Leads(buffer \o head, <<>>, o, 2) /\ Sequence(buffer \o head)
    BY <1>3, <1>4, <1>8, LeadsJoin, SequenceConcat
  <1>10. Leads((buffer \o head) \o text, <<>>, w, 2)
    BY <1>7, <1>9, LeadsJoin
  <1> QED
    BY <1>1, <1>10

(* The entries of the ledger before a call stay, and one is added.         *)
LEMMA LedgerGrows ==
    ASSUME LedgerIsTrue, NEW entry, ledger' = Append(ledger, entry)
    PROVE  /\ \A i \in DOMAIN ledger : i \in DOMAIN ledger' /\ ledger'[i].op = ledger[i].op
           /\ Len(ledger) + 1 \in DOMAIN ledger' /\ Len(ledger) + 1 \in Nat \ {0}
           /\ ledger'[Len(ledger) + 1].op = entry.op
  <1>1. Sequence(ledger) /\ Len(ledger) \in Nat
    BY DEF LedgerIsTrue, Sequence
  <1> DEFINE M == Append(ledger, entry)
  <1>2. /\ DOMAIN M = DOMAIN ledger \cup {Len(ledger) + 1}
        /\ \A i \in DOMAIN ledger : M[i] = ledger[i]
        /\ M[Len(ledger) + 1] = entry
    BY <1>1, AppendedEntry
  <1>3. ledger' = M
    OBVIOUS
  <1> HIDE DEF M
  <1> QED
    BY <1>1, <1>2, <1>3

LEMMA ValueNests ==
    ASSUME LedgerIsTrue, NestingIsTrue, NEW c \in Calls, c.op \notin {"element", "rawElement"},
           NEW text, Sequence(text), NEW openers, PutMember(c, text, openers),
           Leads(text, Opening, Opening, 1), nesting' = nesting
    PROVE  NestingIsTrue'
  <1>1. \A i \in DOMAIN ledger : i \in DOMAIN ledger' /\ ledger'[i].op = ledger[i].op
    BY LedgerGrows DEF PutMember
  <1>2. Leads(buffer', <<>>, Opening, 2)
    BY MemberLeads
  <1>3. Nested(nesting, ledger') /\ BracketsOf(nesting, ledger') = Opening
    BY <1>1, BracketsStay DEF NestingIsTrue, Opening
  <1> QED
    BY <1>2, <1>3 DEF NestingIsTrue

LEMMA ContainerNests ==
    ASSUME LedgerIsTrue, NestingIsTrue, NEW c \in Calls, c.op \in {"object", "array"},
           NEW open, open = IF c.op = "object" THEN "{" ELSE "[",
           NEW openers, PutMember(c, <<open>>, openers),
           nesting' = Append(nesting, Len(ledger) + 1)
    PROVE  NestingIsTrue'
  <1> DEFINE k == Len(ledger) + 1
             o == Opening
  <1>1. /\ \A i \in DOMAIN ledger : i \in DOMAIN ledger' /\ ledger'[i].op = ledger[i].op
        /\ k \in DOMAIN ledger' /\ k \in Nat \ {0} /\ ledger'[k].op = c.op
    <2>1. PICK entry : ledger' = Append(ledger, entry) /\ entry.op = c.op
      <3> DEFINE head == Comma(openers) \o <<Quote, c.key, Quote, ":">>
                 from == Len(buffer) + Len(head) + 1
                 entry == [op |-> c.op, key |-> c.key, parent |-> Last(nesting),
                           value |-> IF c.op \in {"object", "array"} THEN <<>> ELSE c.value,
                           from |-> from, to |-> from + Len(<<open>>)]
      <3>1. ledger' = Append(ledger, entry)
        BY DEF PutMember
      <3>2. entry.op = c.op
        OBVIOUS
      <3> HIDE DEF entry
      <3> QED
        BY <3>1, <3>2
    <2> QED
      BY <2>1, LedgerGrows
  <1>2. nesting # <<>>
    BY DEF PutMember, MayAdd
  <1>3. o \in Stacks /\ o # <<>>
    BY <1>2, BracketsType DEF NestingIsTrue, Opening
  <1>4. open \in Openers
    BY DEF Openers
  <1>5. Leads(<<open>>, o, Append(o, open), 1)
    BY <1>3, <1>4, LeadsBracket
  <1>6. Leads(buffer', <<>>, Append(o, open), 2)
    <2>1. c.op \notin {"element", "rawElement"} /\ Sequence(<<open>>)
      BY SequenceOne
    <2> QED
      BY <1>5, <2>1, MemberLeads
  <1>7. Nested(nesting, ledger') /\ BracketsOf(nesting, ledger') = o
    BY <1>1, BracketsStay DEF NestingIsTrue, Opening
  <1> HIDE DEF k, o
  <1>8. Nested(Append(nesting, k), ledger') /\ BracketsOf(Append(nesting, k), ledger') = Append(o, open)
    BY <1>1, <1>2, <1>7, BracketsPush
  <1> QED
    BY <1>6, <1>8 DEF NestingIsTrue, k

LEMMA ElementNests ==
    ASSUME LedgerIsTrue, NestingIsTrue, NEW c, NEW text, Sequence(text), PutElement(c, text),
           \A o \in Stacks : o # <<>> => Leads(text, o, o, 1)
    PROVE  NestingIsTrue'
  <1> DEFINE o == Opening
             comma == Comma({"["})
  <1>1. nesting # <<>> /\ buffer' = (buffer \o comma) \o text /\ nesting' = nesting
    BY DEF PutElement, MayAdd
  <1>2. \A i \in DOMAIN ledger : i \in DOMAIN ledger' /\ ledger'[i].op = ledger[i].op
    BY LedgerGrows DEF PutElement
  <1>3. o \in Stacks /\ o # <<>> /\ Leads(buffer, <<>>, o, 2)
    BY <1>1, BracketsType DEF NestingIsTrue, Opening
  <1>4. Sequence(comma) /\ Sequence(buffer)
    BY SequenceOne DEF Comma, LedgerIsTrue
  <1>5. Nested(nesting, ledger') /\ BracketsOf(nesting, ledger') = o
    BY <1>2, BracketsStay DEF NestingIsTrue, Opening
  <1> HIDE DEF o
  <1>6. Leads(comma, o, o, 1)
    BY <1>3, LeadsComma
  <1> HIDE DEF comma
  <1>7. Leads(buffer \o comma, <<>>, o, 2) /\ Sequence(buffer \o comma)
    BY <1>3, <1>4, <1>6, LeadsJoin, SequenceConcat
  <1>8. Leads((buffer \o comma) \o text, <<>>, o, 2)
    BY <1>3, <1>7, LeadsJoin
  <1> QED
    BY <1>1, <1>5, <1>8 DEF NestingIsTrue

LEMMA CloseNests ==
    ASSUME LedgerIsTrue, NestingIsTrue, NEW op \in {"object", "array"}, NEW bracket,
           bracket = (IF op = "object" THEN "}" ELSE "]"), CloseField(op, bracket)
    PROVE  NestingIsTrue'
  <1> DEFINE o == Opening
             x == <<bracket>>
  <1>1. /\ Len(nesting) > 1 /\ ledger[Last(nesting)].op = op
        /\ nesting' = Front(nesting)
    BY DEF CloseField
  <1>2. /\ buffer' = buffer \o x /\ DOMAIN ledger' = DOMAIN ledger
        /\ \A i \in DOMAIN ledger : ledger'[i] = ledger[i] \/ ledger'[i].op = op
    BY CloseEntries
  <1>3. \A i \in DOMAIN ledger : i \in DOMAIN ledger' /\ ledger'[i].op = ledger[i].op
    <2>1. ASSUME NEW i \in DOMAIN ledger, i # Last(nesting) PROVE ledger'[i] = ledger[i]
      BY <2>1 DEF CloseField
    <2> QED
      BY <1>1, <1>2, <2>1
  <1>4. nesting # <<>> /\ Nested(nesting, ledger) /\ Sequence(buffer) /\ Leads(buffer, <<>>, o, 2)
    <2>2. Len(nesting) > 1
      BY <1>1
    <2>1. nesting # <<>>
      BY ONLY <2>2
    <2> QED
      BY <2>1 DEF NestingIsTrue, LedgerIsTrue, Opening
  <1>5. o \in Stacks /\ o # <<>>
    BY <1>4, BracketsType DEF Opening
  <1>6. Nested(nesting, ledger') /\ BracketsOf(nesting, ledger') = o
    BY <1>3, <1>4, BracketsStay DEF Opening
  <1>7. /\ Nested(Front(nesting), ledger') /\ BracketsOf(Front(nesting), ledger') = Front(o)
    BY <1>4, <1>6, BracketsPop
  <1>8. Last(o) = (IF Last(nesting) = 0 \/ ledger[Last(nesting)].op = "object" THEN "{" ELSE "[")
        /\ Last(nesting) \in DOMAIN ledger
    BY <1>1, <1>4, BracketsPop DEF Opening
  <1>9. Last(nesting) # 0
    <2>1. PICK S : ledger \in Seq(S)
      BY DEF LedgerIsTrue, Sequence
    <2>2. 0 \notin DOMAIN ledger
      BY ONLY <2>1
    <2> QED
      BY <1>8, <2>2
  <1>10. bracket \in Closers /\ Last(o) = Opener(bracket)
    BY <1>1, <1>8, <1>9 DEF Closers, Opener
  <1> HIDE DEF o
  <1>11. Leads(x, o, Front(o), 1) /\ Sequence(x)
    BY <1>5, <1>10, LeadsBracket, SequenceOne
  <1> HIDE DEF x
  <1>12. Leads(buffer \o x, <<>>, Front(o), 2)
    BY <1>4, <1>11, MoreText
  <1> QED
    BY <1>1, <1>2, <1>7, <1>12 DEF NestingIsTrue

LEMMA TextsArePlain ==
    /\ \A n \in Int : Sequence(NumberText(n)) /\ \A i \in 1 .. Len(NumberText(n)) : NumberText(n)[i] \notin Structure
    /\ \A t \in Doubles : Sequence(t) /\ \A i \in 1 .. Len(t) : t[i] \notin Structure
    /\ \A b \in {"true", "false"} : Sequence(<<b>>) /\ \A i \in 1 .. Len(<<b>>) : <<b>>[i] \notin Structure
  <1>1. ASSUME NEW n \in Int
        PROVE  Sequence(NumberText(n)) /\ \A i \in 1 .. Len(NumberText(n)) : NumberText(n)[i] \notin Structure
    <2> DEFINE x == NumberText(n)
               minus == "-"
               m == <<minus>>
    <2>1. PICK d : d \in Seq(DigitSet) /\ x = IF n < 0 THEN m \o d ELSE d
      BY NumberTextMeans DEF Means
    <2>2. minus \notin Structure /\ \A c \in DigitSet : c \notin Structure
      BY NumberBytesArePlain DEF NumberBytes
    <2>3. Sequence(x) /\ Sequence(d) /\ Sequence(m) /\ Len(m) = 1 /\ m[1] = minus
      BY <2>1, NumberTextType, SequenceOne DEF Sequence
    <2> HIDE DEF x, m, minus
    <2>4. \A i \in 1 .. Len(d) : d[i] \in DigitSet
      BY <2>1
    <2>5. CASE n < 0
      <3>1. x = m \o d
        BY <2>1, <2>5
      <3>2. /\ Len(d) \in Nat /\ Len(x) = 1 + Len(d)
            /\ \A i \in 1 .. 1 : x[i] = m[i]
            /\ \A i \in 1 .. Len(d) : x[1 + i] = d[i]
        <4>1. /\ Len(d) \in Nat /\ Len(m \o d) = Len(m) + Len(d)
              /\ \A i \in 1 .. Len(m) : (m \o d)[i] = m[i]
              /\ \A i \in 1 .. Len(d) : (m \o d)[Len(m) + i] = d[i]
          <5>1. Sequence(m) /\ Sequence(d)
            BY <2>3
          <5> QED
            BY ONLY <5>1, ConcatBytes
        <4> QED
          BY <2>3, <3>1, <4>1
      <3>3. ASSUME NEW i \in 1 .. Len(x) PROVE x[i] \notin Structure
        <4>1. CASE i = 1
          BY <2>2, <2>3, <3>2, <4>1, 1 \in 1 .. 1
        <4>2. CASE i # 1
          <5>1. i - 1 \in 1 .. Len(d) /\ 1 + (i - 1) = i
            BY <3>2, <4>2
          <5> QED
            BY <2>2, <2>4, <3>2, <5>1
        <4> QED
          BY <4>1, <4>2
      <3> QED
        BY <2>3, <3>3 DEF x
    <2>6. CASE ~(n < 0)
      BY <2>1, <2>2, <2>3, <2>4, <2>6 DEF x
    <2> QED
      BY <2>5, <2>6
  <1>2. ASSUME NEW t \in Doubles PROVE Sequence(t) /\ \A i \in 1 .. Len(t) : t[i] \notin Structure
    <2>1. t \in Seq(STRING)
      BY TextsAssumption
    <2>2. Sequence(t) /\ DOMAIN t = 1 .. Len(t)
      BY <2>1 DEF Sequence
    <2>3. CASE IsNumber(t)
      BY <2>2, <2>3, NumberIsPlain, NumberBytesArePlain, SequenceIsText
    <2>4. CASE t \in NotFinite
      BY <2>2, <2>4, NotFiniteIsPlain
    <2> QED
      BY <2>3, <2>4, DoublesAssumption
  <1>3. ASSUME NEW b \in {"true", "false"}
        PROVE  Sequence(<<b>>) /\ \A i \in 1 .. Len(<<b>>) : <<b>>[i] \notin Structure
    <2> DEFINE x == <<b>>
    <2>1. b \notin Structure
      BY DEF Structure, Openers, Closers, Quote
    <2>2. Sequence(x) /\ Len(x) = 1 /\ x[1] = b
      BY SequenceOne
    <2> HIDE DEF x
    <2>3. \A i \in 1 .. Len(x) : x[i] \notin Structure
      BY <2>1, <2>2
    <2> QED
      BY <2>2, <2>3 DEF x
  <1> QED
    BY <1>1, <1>2, <1>3

LEMMA ValueOfCall ==
    ASSUME NEW c \in Calls
    PROVE  /\ c.op = "number" => c.value \in Int
           /\ c.op = "double" => c.value \in Doubles
           /\ c.op \in {"raw", "rawElement"} => c.value \in RawValues
           /\ c.op \in {"field", "element"} => Sequence(c.value)
  <1>1. c \in CallRecords
    BY CallsAssumption
  <1>2. c.op = "number" => c.value \in Int
    BY <1>1 DEF CallRecords
  <1>3. c.op = "double" => c.value \in Doubles
    BY <1>1 DEF CallRecords
  <1>4. c.op \in {"raw", "rawElement"} => c.value \in RawValues
    BY <1>1 DEF CallRecords
  <1>5. c.op \in {"field", "element"} => Sequence(c.value)
    BY CallTypes
  <1> QED
    BY <1>2, <1>3, <1>4, <1>5

LEMMA OpenHere ==
    ASSUME NestingIsTrue, NEW c, NEW text, NEW openers, PutMember(c, text, openers)
    PROVE  Opening \in Stacks /\ Opening # <<>>
  <1>1. nesting # <<>>
    BY DEF PutMember, MayAdd
  <1> QED
    BY <1>1, BracketsType DEF NestingIsTrue, Opening

LEMMA NothingNests == Nested(<<>>, <<>>) /\ Leads(<<>>, <<>>, BracketsOf(<<>>, <<>>), 2)
  <1> DEFINE none == <<>>
  <1>2. none \in Stacks /\ Len(none) = 0 /\ DOMAIN none = {} /\ none \in Seq(Nat)
    BY DEF Stacks
  <1>3. BracketsOf(none, none) = none
    <2>1. DOMAIN none = {} /\ none = [i \in {} |-> i]
      OBVIOUS
    <2>2. BracketsOf(none, none) = [i \in {} |-> IF none[i] = 0 \/ none[none[i]].op = "object" THEN "{" ELSE "["]
      BY <1>2 DEF BracketsOf
    <2> QED
      BY <2>1, <2>2
  <1>4. IsText(none) /\ Plain(none) \in Standings
    BY <1>2, SequenceOne, SequenceIsText DEF Standings
  <1> HIDE DEF none
  <1>5. PICK at : Runs(none, at) /\ at[1] = Plain(none)
    BY <1>4, RunExists
  <1>6. Leads(none, none, none, 2)
    <2>1. 0 + 1 = 1 /\ 2 .. 0 = {}
      OBVIOUS
    <2> QED
      BY <1>2, <1>5, <2>1 DEF Leads
  <1>7. Nested(none, none)
    BY <1>2 DEF Nested
  <1> QED
    BY <1>3, <1>6, <1>7 DEF none

LEMMA NestingStaysTrue == Spec => []NestingIsTrue
  <1>1. Init => NestingIsTrue
    BY NothingNests DEF Init, NestingIsTrue
  <1>2. ASSUME LedgerIsTrue, NestingIsTrue, [Next]_vars PROVE NestingIsTrue'
    <2>1. CASE StartObject
      <3> DEFINE brace == "{"
                 one == <<brace>>
                 zero == <<0>>
      <3>1. buffer' = one /\ nesting' = zero /\ ledger' = ledger
        BY <2>1 DEF StartObject
      <3>2. zero \in Seq(Nat) /\ DOMAIN zero = {1} /\ zero[1] = 0
        OBVIOUS
      <3>3. Nested(zero, ledger)
        <4> HIDE DEF zero
        <4> QED
          BY <3>2 DEF Nested
      <3>4. BracketsOf(zero, ledger) = one
        <4>1. BracketsOf(zero, ledger) = [i \in {1} |-> brace]
          <5> HIDE DEF zero, one
          <5> QED
            BY <3>2 DEF BracketsOf, brace
        <4>2. one = [i \in {1} |-> brace]
          <5> HIDE DEF brace
          <5> QED
            OBVIOUS
        <4> QED
          BY <4>1, <4>2
      <3>5. Leads(one, <<>>, one, 2)
        <4>1. brace \in Openers /\ <<brace>> \in Stacks /\ <<brace>> # <<>>
          BY DEF Openers, Stacks
        <4> HIDE DEF brace
        <4> QED
          BY <4>1, LeadsBracket
      <3> HIDE DEF one, zero
      <3> QED
        BY <3>1, <3>3, <3>4, <3>5 DEF NestingIsTrue
    <2>2. CASE EndObject
      <3> DEFINE brace == "}"
                 x == <<brace>>
                 o == Opening
                 none == <<>>
      <3>1. nesting = <<0>> /\ buffer' = Append(buffer, brace) /\ nesting' = none /\ ledger' = ledger
        BY <2>2 DEF EndObject
      <3>2. buffer' = buffer \o x /\ Sequence(buffer)
        <4>1. PICK S : buffer \in Seq(S)
          BY <1>2 DEF LedgerIsTrue, Sequence
        <4> HIDE DEF brace
        <4> QED
          BY <3>1, <4>1 DEF Sequence
      <3>3. nesting # <<>> /\ Last(nesting) = 0 /\ Front(nesting) = none
        <4> DEFINE zero == <<0>>
                   f == Front(zero)
        <4>1. zero \in Seq(Nat) /\ zero # <<>> /\ Len(zero) = 1 /\ zero[1] = 0
          OBVIOUS
        <4> HIDE DEF zero
        <4>2. f \in Seq(Nat) /\ Len(f) = Len(zero) - 1 /\ Last(zero) = zero[Len(zero)]
          BY <4>1, FrontIs
        <4> HIDE DEF f
        <4>3. f = <<>>
          BY <4>1, <4>2
        <4>4. nesting = zero
          BY <3>1 DEF zero
        <4> QED
          BY <4>1, <4>2, <4>3, <4>4 DEF f
      <3>4. o \in Stacks /\ o # <<>>
        BY <1>2, <3>3, BracketsType DEF NestingIsTrue, Opening
      <3>5. Last(o) = "{" /\ Nested(none, ledger) /\ BracketsOf(none, ledger) = Front(o)
        BY <1>2, <3>3, BracketsPop DEF NestingIsTrue, Opening
      <3>6. brace \in Closers /\ Last(o) = Opener(brace)
        BY <3>5 DEF Closers, Opener
      <3>7. Leads(buffer, <<>>, o, 2)
        BY <1>2 DEF NestingIsTrue, Opening
      <3> HIDE DEF brace, o
      <3>8. Leads(x, o, Front(o), 1) /\ Sequence(x)
        BY <3>4, <3>6, LeadsBracket, SequenceOne
      <3> HIDE DEF x
      <3>9. Leads(buffer \o x, <<>>, Front(o), 2)
        BY <3>2, <3>7, <3>8, MoreText
      <3> HIDE DEF none
      <3> QED
        BY <3>1, <3>2, <3>5, <3>9 DEF NestingIsTrue
    <2>3. CASE CloseObjectField
      BY <1>2, <2>3, CloseNests DEF CloseObjectField
    <2>4. CASE CloseArrayField
      BY <1>2, <2>4, CloseNests DEF CloseArrayField
    <2>5. CASE Reset
      <3>1. buffer' = <<>> /\ nesting' = <<>> /\ ledger' = <<>>
        BY <2>5 DEF Reset
      <3> QED
        BY <3>1, NothingNests DEF NestingIsTrue
    <2>6. ASSUME NEW c \in Calls, AddField(c) PROVE NestingIsTrue'
      <3> DEFINE text == <<Quote>> \o Escaped(c.value) \o <<Quote>>
      <3>1. PutMember(c, text, {"{"}) /\ nesting' = nesting /\ c.op = "field"
        BY <2>6 DEF AddField
      <3>2. Sequence(c.value) /\ Sequence(text) /\ c.op \notin {"element", "rawElement"}
        BY <3>1, ValueOfCall, QuotedType
      <3>3. Leads(text, Opening, Opening, 1)
        BY <1>2, <3>1, <3>2, OpenHere, LeadsQuoted
      <3> HIDE DEF text
      <3> QED
        BY <1>2, <3>1, <3>2, <3>3, ValueNests
    <2>7. ASSUME NEW c \in Calls, AddFieldNumber(c) PROVE NestingIsTrue'
      <3> DEFINE text == NumberText(c.value)
      <3>1. PutMember(c, text, {"{"}) /\ nesting' = nesting /\ c.op = "number"
        BY <2>7 DEF AddFieldNumber
      <3>2. c.op \notin {"element", "rawElement"} /\ c.value \in Int
        BY <3>1, ValueOfCall
      <3>3. Sequence(text) /\ \A i \in 1 .. Len(text) : text[i] \notin Structure
        BY <3>2, TextsArePlain
      <3> HIDE DEF text
      <3>4. Leads(text, Opening, Opening, 1)
        BY <1>2, <3>1, <3>3, OpenHere, LeadsPlain
      <3> QED
        BY <1>2, <3>1, <3>2, <3>3, <3>4, ValueNests
    <2>8. ASSUME NEW c \in Calls, AddFieldDouble(c) PROVE NestingIsTrue'
      <3> DEFINE text == c.value
      <3>1. PutMember(c, text, {"{"}) /\ nesting' = nesting /\ c.op = "double"
        BY <2>8 DEF AddFieldDouble
      <3>2. c.op \notin {"element", "rawElement"} /\ text \in Doubles
        BY <3>1, ValueOfCall
      <3> HIDE DEF text
      <3>3. Sequence(text) /\ \A i \in 1 .. Len(text) : text[i] \notin Structure
        BY <3>2, TextsArePlain
      <3>4. Leads(text, Opening, Opening, 1)
        BY <1>2, <3>1, <3>3, OpenHere, LeadsPlain
      <3> QED
        BY <1>2, <3>1, <3>2, <3>3, <3>4, ValueNests
    <2>9. ASSUME NEW c \in Calls, AddFieldBool(c) PROVE NestingIsTrue'
      <3> DEFINE b == IF c.value THEN "true" ELSE "false"
                 text == <<b>>
      <3>1. PutMember(c, text, {"{"}) /\ nesting' = nesting /\ c.op = "bool"
        BY <2>9 DEF AddFieldBool
      <3>2. c.op \notin {"element", "rawElement"} /\ b \in {"true", "false"}
        BY <3>1
      <3> HIDE DEF b
      <3>3. Sequence(text) /\ \A i \in 1 .. Len(text) : text[i] \notin Structure
        BY <3>2, TextsArePlain
      <3> HIDE DEF text
      <3>4. Leads(text, Opening, Opening, 1)
        BY <1>2, <3>1, <3>3, OpenHere, LeadsPlain
      <3> QED
        BY <1>2, <3>1, <3>2, <3>3, <3>4, ValueNests
    <2>10. ASSUME NEW c \in Calls, AddFieldRaw(c) PROVE NestingIsTrue'
      <3> DEFINE text == c.value
      <3>1. PutMember(c, text, {"{", "["}) /\ nesting' = nesting /\ c.op = "raw"
        BY <2>10 DEF AddFieldRaw
      <3>2. c.op \notin {"element", "rawElement"} /\ text \in RawValues
        BY <3>1, ValueOfCall
      <3> HIDE DEF text
      <3>3. Sequence(text) /\ Leads(text, Opening, Opening, 1)
        BY <1>2, <3>1, <3>2, OpenHere, LeadsRaw
      <3> QED
        BY <1>2, <3>1, <3>2, <3>3, ValueNests
    <2>11. ASSUME NEW c \in Calls, AddObjectField(c) PROVE NestingIsTrue'
      <3>1. c.op = "object" /\ PutMember(c, <<"{">>, {"{"}) /\ nesting' = Append(nesting, Len(ledger) + 1)
        BY <2>11 DEF AddObjectField
      <3> QED
        BY <1>2, <3>1, ContainerNests
    <2>12. ASSUME NEW c \in Calls, AddArrayField(c) PROVE NestingIsTrue'
      <3>1. c.op = "array" /\ PutMember(c, <<"[">>, {"{"}) /\ nesting' = Append(nesting, Len(ledger) + 1)
        BY <2>12 DEF AddArrayField
      <3> QED
        BY <1>2, <3>1, ContainerNests
    <2>13. ASSUME NEW c \in Calls, AddArrayElement(c) PROVE NestingIsTrue'
      <3> DEFINE text == <<Quote>> \o Escaped(c.value) \o <<Quote>>
      <3>1. PutElement(c, text) /\ c.op = "element"
        BY <2>13 DEF AddArrayElement
      <3>2. Sequence(c.value) /\ Sequence(text)
        BY <3>1, ValueOfCall, QuotedType
      <3>3. \A o \in Stacks : o # <<>> => Leads(text, o, o, 1)
        BY <3>2, LeadsQuoted
      <3> HIDE DEF text
      <3> QED
        BY <1>2, <3>1, <3>2, <3>3, ElementNests
    <2>14. ASSUME NEW c \in Calls, AddArrayElementRaw(c) PROVE NestingIsTrue'
      <3>1. PutElement(c, c.value) /\ c.op = "rawElement"
        BY <2>14 DEF AddArrayElementRaw
      <3>2. c.value \in RawValues
        BY <3>1, ValueOfCall
      <3>3. Sequence(c.value)
        BY <3>2, TextsAssumption DEF Sequence
      <3>4. \A o \in Stacks : o # <<>> => Leads(c.value, o, o, 1)
        BY <3>2, LeadsRaw
      <3> QED
        BY <1>2, <3>1, <3>3, <3>4, ElementNests
    <2>15. CASE UNCHANGED vars
      BY <1>2, <2>15 DEF vars, NestingIsTrue
    <2> QED
      BY <1>2, <2>1, <2>2, <2>3, <2>4, <2>5, <2>6, <2>7, <2>8, <2>9, <2>10, <2>11, <2>12,
         <2>13, <2>14, <2>15 DEF Next
  <1>3. LedgerIsTrue /\ NestingIsTrue /\ [Next]_vars => NestingIsTrue'
    BY <1>2
  <1> QED
    BY <1>1, <1>3, LedgerStaysTrue, PTL DEF Spec

(* The beginning of a text in which something stands open up to the last   *)
(* byte is no message; nor is the whole of it, if something stands open    *)
(* behind it.                                                              *)
LEMMA BeginningIsRefused ==
    ASSUME NEW b, Sequence(b), NEW o \in Stacks, Leads(b, <<>>, o, 2),
           NEW t, Sequence(t), Len(t) <= Len(b), \A i \in 1 .. Len(t) : t[i] = b[i],
           Len(t) < Len(b) \/ o # <<>> \/ Len(t) = 0
    PROVE  ~Parse(t).valid
  <1> DEFINE n == Len(t)
             l == Len(b)
             none == <<>>
  <1>1. IsText(t) /\ n \in Nat /\ l \in Nat /\ n <= l
    BY SequenceIsText DEF IsText, Sequence
  <1>2. PICK f : /\ Runs(b, f) /\ f[1] = Plain(none) /\ f[l + 1] = Plain(o)
                 /\ \A r \in 2 .. l : f[r] # Broken /\ f[r].open # none
    BY DEF Leads
  <1>3. f \in [1 .. l + 1 -> Standings] /\ \A q \in 1 .. l : f[q + 1] = Opened(f[q], b[q])
    BY <1>2 DEF Runs
  <1>4. n < l \/ o # none \/ n = 0
    OBVIOUS
  <1>5. \A i \in 1 .. n : t[i] = b[i]
    OBVIOUS
  <1> DEFINE at == [q \in 1 .. n + 1 |-> f[q]]
  <1> HIDE DEF n, l, none
  <1>6. at \in [1 .. n + 1 -> Standings] /\ \A q \in 1 .. n + 1 : at[q] = f[q]
    <2>1. \A q \in 1 .. n + 1 : q \in 1 .. l + 1
      BY <1>1
    <2> QED
      BY <1>3, <2>1
  <1> HIDE DEF at
  <1>7. ASSUME NEW q \in 1 .. n PROVE at[q + 1] = Opened(at[q], t[q])
    <2>1. q \in 1 .. n + 1 /\ q + 1 \in 1 .. n + 1 /\ q \in 1 .. l
      BY <1>1
    <2> QED
      BY <1>3, <1>5, <1>6, <2>1
  <1>8. ASSUME NEW q \in 2 .. n + 1 PROVE at[q] # Broken /\ at[q].open # none
    <2>1. CASE q <= l
      <3>1. q \in 1 .. n + 1 /\ q \in 2 .. l
        BY <1>1, <2>1
      <3> QED
        BY <1>2, <1>6, <3>1
    <2>2. CASE ~(q <= l)
      <3>1. q \in 1 .. n + 1 /\ q = l + 1 /\ ~(n < l) /\ n # 0
        BY <1>1, <2>2
      <3> QED
        BY <1>2, <1>4, <1>6, <3>1, StandingsDiffer
    <2> QED
      BY <2>1, <2>2
  <1>9. at[1] = Plain(none)
    <2>1. 1 \in 1 .. n + 1
      BY <1>1
    <2> QED
      BY <1>2, <1>6, <2>1
  <1>10. ASSUME NEW q \in 1 .. n + 1 PROVE at[q] # Broken
    <2>1. q = 1 \/ q \in 2 .. n + 1
      BY <1>1
    <2> QED
      BY <1>8, <1>9, <2>1, StandingsDiffer
  <1>11. Nests(t, at)
    BY <1>6, <1>7, <1>10 DEF Nests, Runs, n
  <1>12. \A q \in 2 .. n + 1 : at[q].open # none
    BY <1>8
  <1> QED
    BY <1>1, <1>9, <1>11, <1>12, OpenTextIsRefused DEF n, none

-----------------------------------------------------------------------------
(* Whatever is written as a string or as an int, and whatever else is: the *)
(* reader finds each where the writer put it, and it means what was        *)
(* written up to a null byte, but for the ints that are out of range.      *)
THEOREM ValuesAlwaysSurvive == Spec => []ValuesSurvive
  <1>1. ASSUME LedgerIsTrue, NumbersAreTrue PROVE ValuesSurvive
    <2>1. ASSUME NEW i \in DOMAIN ledger, ledger[i].op \in {"field", "element"}
          PROVE  /\ ParseString(buffer, ledger[i].from) = [end |-> ledger[i].to, span |-> Content(i)]
                 /\ \E n \in 0 .. Len(ledger[i].value) :
                      /\ Unescaped(SubSeq(buffer, ledger[i].from + 1, ledger[i].to - 2))
                           = SubSeq(ledger[i].value, 1, n)
                      /\ \A k \in 1 .. n : ledger[i].value[k] # Nul
                      /\ n = Len(ledger[i].value) \/ ledger[i].value[n + 1] = Nul
      <3>1. WrittenAt(buffer, ledger[i].value, ledger[i].from, ledger[i].to) /\ Sequence(buffer)
        BY <1>1, <2>1 DEF LedgerIsTrue
      <3>2. Sequence(ledger[i].value)
        BY <3>1 DEF WrittenAt
      <3>3. /\ ParseString(buffer, ledger[i].from) = [end |-> ledger[i].to, span |-> Content(i)]
            /\ Unescaped(SubSeq(buffer, ledger[i].from + 1, ledger[i].to - 2))
                 = CString(ledger[i].value)
        BY <3>1, WrittenIsRead DEF Content
      <3> QED
        <4> DEFINE v == ledger[i].value
                   meant == Unescaped(SubSeq(buffer, ledger[i].from + 1, ledger[i].to - 2))
                   until(n) == /\ \A k \in 1 .. n : v[k] # Nul
                               /\ n = Len(v) \/ v[n + 1] = Nul
        <4>1. PICK n \in 0 .. Len(v) : /\ CString(v) = SubSeq(v, 1, n)
                                       /\ \A k \in 1 .. n : v[k] # Nul
                                       /\ n = Len(v) \/ v[n + 1] = Nul
          BY <3>2, CStringStops
        <4>2. meant = SubSeq(v, 1, n)
          BY <3>3, <4>1
        <4>3. \E k \in 0 .. Len(v) : meant = SubSeq(v, 1, k) /\ until(k)
          <5>1. until(n)
            BY <4>1
          <5> HIDE DEF meant, v, until
          <5> QED
            BY <4>2, <5>1
        <4> QED
          BY <3>3, <4>3
    <2>2. ASSUME NEW i \in DOMAIN ledger, ledger[i].op = "number"
          PROVE  ParseInt(buffer, ledger[i].from) =
                   IF ledger[i].value \in -IntMax .. IntMax
                   THEN [end |-> ledger[i].to, num |-> ledger[i].value]
                   ELSE [end |-> Fail, num |-> 0]
      <3>1. NumberAt(buffer, ledger[i].value, ledger[i].from, ledger[i].to) /\ IsText(buffer)
        BY <1>1, <2>2, SequenceIsText DEF LedgerIsTrue, NumbersAreTrue
      <3> QED
        BY <3>1, NumberIsRead
    <2> QED
      BY <2>1, <2>2 DEF ValuesSurvive
  <1> QED
    BY <1>1, LedgerStaysTrue, NumbersStayTrue, PTL

(* Whatever the params of a message hold, and wherever a key is found in   *)
(* them, the searches of the adapter return nothing that reaches beyond.   *)
THEOREM SearchesStayInside == Spec => []ExtractionStaysInside
  <1>1. ASSUME LedgerIsTrue PROVE ExtractionStaysInside
    <2>1. IsText(buffer)
      BY <1>1, SequenceIsText DEF LedgerIsTrue
    <2>2. GoodParams(buffer, Message)
      BY <2>1, ParseBounds DEF Message
    <2>3. ASSUME Message.params # NoSpan, NEW key
          PROVE  /\ Within(ExtractString(buffer, Message.params, key), Message.params)
                 /\ Within(ExtractValueSpan(buffer, Message.params, key), Message.params)
      <3>1. GoodSpan(buffer, Message.params)
        BY <2>2, <2>3 DEF GoodParams
      <3>2. Message.params \in Spans
        BY <3>1 DEF GoodSpan
      <3> QED
        BY <3>1, <3>2, ExtractStringWithin, ExtractValueSpanWithin
    <2> QED
      BY <2>3 DEF ExtractionStaysInside
  <1> QED
    BY <1>1, LedgerStaysTrue, PTL

(* A message that is not closed, or of which the end is missing, is        *)
(* refused by the reader, whatever was written, wherever it is cut off.    *)
THEOREM PartialMessagesAreRefused == Spec => []PartialMessageIsRefused
  <1>1. ASSUME LedgerIsTrue, NestingIsTrue PROVE PartialMessageIsRefused
    <2> DEFINE o == Opening
    <2>1. Sequence(buffer) /\ o \in Stacks /\ Leads(buffer, <<>>, o, 2)
      BY <1>1, BracketsType DEF LedgerIsTrue, NestingIsTrue, Opening
    <2>2. Len(buffer) \in Nat
      BY <2>1 DEF Sequence
    <2>3. ASSUME ~Whole PROVE ~Parse(buffer).valid
      <3>1. o # <<>> \/ Len(buffer) = 0
        <4>1. CASE buffer = <<>>
          BY <4>1
        <4>2. CASE buffer # <<>>
          <5>1. nesting # <<>>
            BY <2>3, <4>2 DEF Whole
          <5> QED
            BY <1>1, <5>1, BracketsType DEF NestingIsTrue, Opening
        <4> QED
          BY <4>1, <4>2
      <3> HIDE DEF o
      <3> QED
        BY <2>1, <2>2, <3>1, BeginningIsRefused
    <2>4. ASSUME NEW n \in 0 .. Len(buffer) - 1 PROVE ~Parse(SubSeq(buffer, 1, n)).valid
      <3> DEFINE t == SubSeq(buffer, 1, n)
      <3>1. PICK S : buffer \in Seq(S)
        BY <2>1 DEF Sequence
      <3>2. n \in Nat /\ n < Len(buffer) /\ \A i \in 1 .. n : buffer[i] \in S
        BY <2>2, <3>1
      <3>3. t \in Seq(S) /\ Len(t) = n /\ \A i \in 1 .. n : t[i] = buffer[i]
        <4>1. t \in Seq(S) /\ Len(t) = (IF 1 <= n THEN n - 1 + 1 ELSE 0) /\ \A i \in 1 .. n - 1 + 1 : t[i] = buffer[1 + i - 1]
          BY <3>2, SubSeqProperties
        <4> HIDE DEF t
        <4> QED
          BY <3>2, <4>1
      <3> HIDE DEF t, o
      <3>4. Sequence(t)
        BY <3>3 DEF Sequence
      <3>5. ~Parse(t).valid
        BY <2>1, <2>2, <3>2, <3>3, <3>4, BeginningIsRefused
      <3> QED
        BY <3>5 DEF t
    <2> QED
      BY <2>3, <2>4 DEF PartialMessageIsRefused, Message
  <1> QED
    BY <1>1, LedgerStaysTrue, NestingStaysTrue, PTL

=============================================================================
