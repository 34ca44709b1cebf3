---------------------------- MODULE JsonLayout_proofs ----------------------------
(***************************************************************************)
(* What stands in a message, and that it is read back.  The lemmas of      *)
(* JsonMessages_proofs are about any text, those of this module about the  *)
(* texts that JsonBuilder writes.  The ledger is a tree in preorder,       *)
(* and the text says what the ledger does (LayoutIsTrue): every member has *)
(* its name, its value and its comma where the ledger has them.  From it   *)
(* follow, for all calls and all texts, that the reader takes of a whole   *)
(* message just what was written (MessageRoundTrip), and that a search     *)
(* finds the members of the params (MembersAreFound).                      *)
(***************************************************************************)
EXTENDS JsonMessages_proofs

-----------------------------------------------------------------------------
(* One value: a string or a container ends where the reader, and the       *)
(* searches of the adapter, find its end, or the reader gives up.          *)

(* A string ends before the text stands outside of one again.              *)
LEMMA StringCloses ==
    ASSUME NEW t, IsText(t), NEW at, Runs(t, at), NEW o, NEW p \in Nat \ {0}, at[p] = InString(o),
           NEW e \in Nat, p <= e, e <= Len(t) + 1, NEW x, at[e] = Plain(x)
    PROVE  StringEnd(t, p) # Fail /\ p < StringEnd(t, p) /\ StringEnd(t, p) <= e
  <1> DEFINE ends(q) == StringEnd(t, q) # Fail /\ StringEnd(t, q) <= e
             good(q) == q # 0 /\ q <= e /\ at[q] = InString(o) => ends(q)
             P == {q \in Nat : good(q)}
  <1>0. Len(t) \in Nat /\ Fail = 0 /\ \A y : InString(y) # Plain(x) /\ InEscape(y) # Plain(x)
    BY StandingsDiffer DEF IsText, Fail
  <1>1. ASSUME NEW q \in Nat, \A r \in Nat : BytesLeft(t)[r] < BytesLeft(t)[q] => r \in P
        PROVE  good(q)
    <2> SUFFICES ASSUME q # 0, q <= e, at[q] = InString(o)
                 PROVE  ends(q)
      OBVIOUS
    <2>1. q # e
      BY <1>0
    <2> HIDE DEF P, good, ends
    <2>2. /\ q <= Len(t) /\ q + 1 \in Nat \ {0} /\ q + 1 <= e /\ q + 2 \in Nat \ {0} /\ (q + 1) + 1 = q + 2
          /\ q < q + 1 /\ q < q + 2
      BY <1>0, <2>1
    <2>3. at[q + 1] = Opened(InString(o), t[q])
      BY <2>2, RunsStep
    <2>4. q + 1 \in P /\ q + 2 \in P
      BY <1>1, <2>2, FewerBytesLeft
    <2>5. CASE t[q] = Quote
      <3>1. StringEnd(t, q) = q + 1
        BY <2>2, <2>5, StringEndStep
      <3> QED
        BY <1>0, <2>2, <3>1 DEF ends
    <2>6. CASE t[q] # Quote /\ t[q] # Backslash
      <3>1. StringEnd(t, q) = StringEnd(t, q + 1) /\ at[q + 1] = InString(o)
        BY <2>2, <2>3, <2>6, StringEndStep, OpenedBy
      <3>2. ends(q + 1)
        BY <2>2, <2>4, <3>1 DEF P, good
      <3> QED
        BY <3>1, <3>2 DEF ends
    <2>7. CASE t[q] # Quote /\ t[q] = Backslash
      <3>1. at[q + 1] = InEscape(o)
        BY <2>3, <2>7, OpenedBy
      <3>2. q + 1 # e
        BY <1>0, <3>1
      <3>3. q # Len(t) /\ q + 1 <= Len(t) /\ q + 2 <= e
        BY <1>0, <2>2, <3>2
      <3>4. at[q + 2] = InString(o)
        BY <2>2, <3>1, <3>3, RunsStep, OpenedBy
      <3>5. StringEnd(t, q) = StringEnd(t, q + 2)
        BY <2>2, <2>7, <3>3, StringEndStep
      <3>6. ends(q + 2)
        BY <2>2, <2>4, <3>3, <3>4 DEF P, good
      <3> QED
        BY <3>5, <3>6 DEF ends
    <2> QED
      BY <2>5, <2>6, <2>7
  <1>2. Nat \subseteq P
    <2>1. BytesLeft(t) \in [Nat -> Nat]
      BY BytesLeftType
    <2>2. \A q \in Nat : (\A r \in Nat : BytesLeft(t)[r] < BytesLeft(t)[q] => r \in P) => q \in P
      <3> HIDE DEF good
      <3> QED
        BY <1>1
    <2> HIDE DEF P
    <2> QED
      BY ONLY <2>1, <2>2, MeasureInduction
  <1>3. ends(p)
    BY <1>2
  <1>4. EndsBehind(t, p, StringEnd(t, p))
    BY StringEndBounds
  <1> QED
    BY <1>3, <1>4 DEF EndsBehind

(* One value from one place to another, with o open around it.             *)
Encloses(at, o, from, to) ==
    /\ at[from] = Plain(o) /\ at[to] = Plain(o)
    /\ \A r \in from + 1 .. to - 1 : at[r] # Plain(o) /\ at[r] # Broken

Stretch(t, from, to) == from \in Nat \ {0} /\ to \in Nat /\ from < to /\ to <= Len(t) + 1

LEMMA StringIsEnclosed ==
    ASSUME NEW t, IsText(t), NEW at, Runs(t, at), NEW o \in Stacks, NEW from, NEW to, Stretch(t, from, to),
           at[from] = Plain(o), SkipString(t, from) = to
    PROVE  Encloses(at, o, from, to)
  <1>1. from \in Nat \ {0} /\ to \in Nat /\ to # Fail /\ from < to /\ to <= Len(t) + 1 /\ Len(t) \in Nat
    BY DEF Stretch, Fail, IsText
  <1>2. At(t, from, Quote) /\ StringEnd(t, from + 1) = to
    BY <1>1 DEF SkipString
  <1>3. from <= Len(t) /\ t[from] = Quote
    BY <1>2 DEF At, IsText
  <1>4. at[from + 1] = InString(o) /\ from + 1 \in Nat \ {0}
    BY <1>1, <1>3, RunsStep, OpenedBy
  <1>5. at[to] = Plain(o) /\ KeepsOpen(at, o, from, to)
    BY <1>1, SkipStringRuns
  <1>6. ASSUME NEW r \in from + 1 .. to - 1
        PROVE  at[r] # Plain(o) /\ at[r] # Broken
    <2>1. r \in Nat /\ from + 1 <= r /\ r <= Len(t) + 1 /\ r \in from .. to /\ ~(to <= r)
      BY <1>1
    <2>2. at[r] # Plain(o)
      BY <1>2, <1>4, <2>1, StringCloses
    <2> QED
      BY <1>5, <2>1, <2>2 DEF KeepsOpen
  <1> QED
    BY <1>5, <1>6 DEF Encloses

LEMMA EnclosedStringEnds ==
    ASSUME NEW t, IsText(t), NEW at, Runs(t, at), NEW o \in Stacks, NEW from, NEW to, Stretch(t, from, to),
           Encloses(at, o, from, to), At(t, from, Quote)
    PROVE  SkipString(t, from) = to /\ from + 1 < to /\ StringEnd(t, from + 1) = to
  <1>1. from \in Nat \ {0} /\ to \in Nat /\ to # Fail /\ from < to /\ to <= Len(t) + 1 /\ Len(t) \in Nat
    BY DEF Stretch, Fail, IsText
  <1>3. from <= Len(t) /\ t[from] = Quote
    BY DEF At, IsText
  <1>4. at[from + 1] = InString(o) /\ from + 1 \in Nat \ {0} /\ from + 1 <= Len(t) + 1 /\ from + 1 <= to
    BY <1>1, <1>3, RunsStep, OpenedBy DEF Encloses
  <1> DEFINE e == StringEnd(t, from + 1)
  <1>5. e # Fail /\ from + 1 < e /\ e <= to
    BY <1>1, <1>4, StringCloses DEF Encloses
  <1>6. at[e] = Plain(o)
    BY <1>4, <1>5, StringEndRuns
  <1>7. e \in Nat
    BY <1>4, StringEndBounds DEF EndsBehind
  <1>8. e = to
    <2> HIDE DEF e
    <2>1. e # to => e \in from + 1 .. to - 1
      BY <1>1, <1>5, <1>7
    <2> QED
      BY <1>6, <2>1 DEF Encloses
  <1>9. SkipString(t, from) = e
    BY DEF SkipString
  <1> QED
    BY <1>5, <1>8, <1>9

(* From p to e no more brackets of the kind open stand open than the       *)
(* reader takes, those beyond the first n.                                 *)
Shallow(at, n, open, p, e) == \A r \in p .. e : Own(at[r].open, n, open) <= MaxDepth

LEMMA ShallowFrom ==
    ASSUME NEW at, NEW n, NEW open, NEW p \in Nat, NEW q \in Nat, NEW e \in Nat, p <= q, q <= e,
           \A r \in p .. q - 1 : Own(at[r].open, n, open) <= MaxDepth
    PROVE  Shallow(at, n, open, p, e) <=> Shallow(at, n, open, q, e)
  <1>1. \A r \in p .. e : r \in p .. q - 1 \/ r \in q .. e
    OBVIOUS
  <1>2. \A r \in q .. e : r \in p .. e
    OBVIOUS
  <1> QED
    BY <1>1, <1>2 DEF Shallow

LEMMA NothingOwn ==
    ASSUME NEW o \in Stacks, NEW w, NEW open, Around(w, o, open)
    PROVE  Own(w, Len(o), open) = 0 <=> w = o
  <1> DEFINE n == Len(o)
  <1>1. n \in Nat /\ w \in Stacks /\ Len(w) \in Nat /\ n <= Len(w) /\ \A k \in 1 .. n : w[k] = o[k]
    BY DEF Around, Stacks
  <1>2. CASE w = o
    <2>1. Beyond(o, n, open) = {}
      BY <1>1 DEF Beyond
    <2> QED
      BY <1>2, <2>1, FS_EmptySet DEF Own
  <1>3. CASE Own(w, n, open) = 0
    <2> HIDE DEF n
    <2>1. ~(Len(w) > n)
      <3> HIDE DEF Own
      <3>1. Len(w) > n => w[n + 1] = open
        BY DEF Around, n
      <3>2. Len(w) > n => w[n + 1] # open
        BY <1>1, <1>3, NothingBeyond
      <3> QED
        BY <3>1, <3>2
    <2>2. Len(w) = n
      BY <1>1, <2>1
    <2>3. w = o
      BY <1>1, <2>2 DEF Stacks, n
    <2> QED
      BY <1>3, <2>3 DEF n
  <1> QED
    BY <1>2, <1>3

LEMMA ContainerEndIs ==
    ASSUME NEW t, IsText(t), NEW at, Runs(t, at), NEW o \in Stacks, NEW from, NEW to, Stretch(t, from, to),
           Encloses(at, o, from, to),
           NEW open \in Openers, NEW close \in Closers, Opener(close) = open,
           NEW p \in Nat, from < p, p <= to, NEW w, at[p] = Plain(w), Around(w, o, open),
           Own(w, Len(o), open) <= MaxDepth
    PROVE  ContainerEnd(t, p, Own(w, Len(o), open), open, close) =
             IF Shallow(at, Len(o), open, p, to) THEN to ELSE Fail
  <1> DEFINE
        n == Len(o)
        end(q, d) == ContainerEnd(t, q, d, open, close)
        is(q, d) == end(q, d) = IF Shallow(at, n, open, q, to) THEN to ELSE Fail
        good(q) == \A v : from < q /\ q <= to /\ at[q] = Plain(v) /\ Around(v, o, open)
                            /\ Own(v, n, open) <= MaxDepth => is(q, Own(v, n, open))
        P == {q \in Nat : good(q)}
  <1>0. from \in Nat \ {0} /\ to \in Nat /\ from < to /\ to <= Len(t) + 1 /\ Len(t) \in Nat /\ MaxDepth \in Nat
    BY ReaderLimits DEF Stretch, IsText
  <1>1. ASSUME NEW q \in Nat, \A r \in Nat : BytesLeft(t)[r] < BytesLeft(t)[q] => r \in P
        PROVE  good(q)
    <2> SUFFICES ASSUME NEW v, from < q, q <= to, at[q] = Plain(v), Around(v, o, open),
                        Own(v, n, open) <= MaxDepth
                 PROVE  is(q, Own(v, n, open))
      OBVIOUS
    <2> DEFINE d == Own(v, n, open)
    <2>1. /\ q \in Nat \ {0} /\ q + 1 \in Nat \ {0} /\ n \in Nat /\ v \in Stacks /\ d \in Nat /\ d + 1 \in Nat
          /\ q < q + 1
      BY <1>0, OwnType, SMTT(30) DEF Around, Stacks
    <2>2. \A r \in Nat : q <= Len(t) /\ q < r => r \in P
      BY <1>1, FewerBytesLeft
    <2>0. at[q].open = v
      BY StandingsDiffer
    <2> HIDE DEF P, good
    <2>3. CASE d = 0
      <3>1. v = o
        BY <2>3, NothingOwn
      <3>2. ~(q \in from + 1 .. to - 1)
        BY <3>1 DEF Encloses
      <3>3. q = to
        BY <1>0, <3>2
      <3>4. end(q, d) = q
        BY <2>3, NothingToClose
      <3>5. Shallow(at, n, open, q, to)
        <4>1. \A r \in q .. to : r = q
          BY <1>0, <3>3
        <4> QED
          BY <2>0, <4>1 DEF Shallow
      <3> QED
        BY <3>3, <3>4, <3>5
    <2>4. ASSUME d # 0 PROVE q < to /\ q <= Len(t) /\ at[q + 1] # Broken
      <3>1. v # o
        BY <2>4, NothingOwn
      <3>2. q # to
        BY <3>1, StandingsDiffer DEF Encloses
      <3> HIDE DEF d
      <3>3. q < to /\ q <= Len(t) /\ (q + 1 = to \/ q + 1 \in from + 1 .. to - 1)
        BY <1>0, <3>2
      <3> QED
        BY <3>3, StandingsDiffer DEF Encloses
    <2>5. CASE d # 0 /\ t[q] = Quote
      <3> DEFINE r == SkipString(t, q)
      <3> HIDE DEF d, is
      <3>1. q < to /\ q <= Len(t)
        BY <2>4, <2>5
      <3>2. at[q + 1] = InString(v) /\ q + 1 <= to /\ q + 1 <= Len(t) + 1
        BY <1>0, <2>1, <2>5, <3>1, RunsStep, OpenedBy
      <3>3. r # Fail /\ q + 1 < r /\ r <= to
        <4>1. r = StringEnd(t, q + 1)
          <5>1. At(t, q, Quote)
            BY <2>1, <2>5, <3>1 DEF At, IsText
          <5> QED
            BY <5>1 DEF SkipString
        <4> QED
          BY <1>0, <2>1, <3>2, <4>1, StringCloses DEF Encloses
      <3>4. r \in Nat
        BY SkipStringBounds DEF EndsBehind
      <3>5. at[r] = Plain(v) /\ KeepsOpen(at, v, q, r)
        BY <2>1, <3>3, SkipStringRuns
      <3>6. end(q, d) = end(r, d)
        BY <2>1, <2>5, <3>1, <3>3, ContainerEndStep
      <3>7. r \in P
        BY <2>1, <2>2, <3>1, <3>3, <3>4
      <3> HIDE DEF r
      <3>8. is(r, d)
        BY <1>0, <2>1, <3>3, <3>4, <3>5, <3>7 DEF P, good, d
      <3>9. Shallow(at, n, open, q, to) <=> Shallow(at, n, open, r, to)
        <4>1. \A s \in q .. r - 1 : at[s].open = v
          BY <2>1, <3>3, <3>4, <3>5 DEF KeepsOpen
        <4>2. q <= r
          BY <2>1, <3>3, <3>4
        <4> QED
          BY <1>0, <3>3, <3>4, <4>1, <4>2, ShallowFrom DEF d
      <3> QED
        BY <3>6, <3>8, <3>9 DEF is, d
    <2>6. CASE d # 0 /\ t[q] # Quote
      <3> HIDE DEF d, is
      <3>1. q < to /\ q <= Len(t) /\ q + 1 <= to
        BY <1>0, <2>4, <2>6
      <3>2. at[q + 1] = Opened(Plain(v), t[q]) /\ at[q + 1] # Broken
        BY <2>1, <2>4, <2>6, <3>1, RunsStep
      <3>3. PICK x : /\ Opened(Plain(v), t[q]) = Plain(x) /\ Around(x, o, open)
                     /\ Own(x, n, open) = IF t[q] = open THEN d + 1
                                          ELSE IF t[q] = close THEN d - 1 ELSE d
        BY <2>6, <3>2, ContainerStep DEF d
      <3>4. open # close
        BY BracketsDiffer
      <3>5. at[q + 1].open = x
        BY <3>2, <3>3, StandingsDiffer
      <3>6. CASE t[q] = open /\ d + 1 > MaxDepth
        <4>1. end(q, d) = Fail
          BY <2>1, <2>6, <3>1, <3>6, ContainerEndStep
        <4>2. ~Shallow(at, n, open, q, to)
          <5>1. q + 1 \in q .. to /\ ~(d + 1 <= MaxDepth)
            BY <1>0, <2>1, <3>1, <3>6
          <5> QED
            BY <3>3, <3>5, <3>6, <5>1 DEF Shallow
        <4> QED
          BY <4>1, <4>2 DEF is, d
      <3>7. CASE ~(t[q] = open /\ d + 1 > MaxDepth)
        <4>1. end(q, d) = end(q + 1, Own(x, n, open))
          BY <2>1, <2>6, <3>1, <3>3, <3>4, <3>7, ContainerEndStep
        <4>2. Own(x, n, open) <= MaxDepth
          <5>1. d <= MaxDepth /\ d - 1 <= MaxDepth
            BY <1>0, <2>1 DEF d
          <5> QED
            BY <1>0, <2>1, <3>3, <3>7, <5>1
        <4>3. q + 1 \in P /\ from < q + 1
          BY <1>0, <2>1, <2>2, <3>1
        <4>4. is(q + 1, Own(x, n, open))
          BY <2>1, <3>1, <3>2, <3>3, <4>2, <4>3 DEF P, good
        <4>5. Shallow(at, n, open, q, to) <=> Shallow(at, n, open, q + 1, to)
          <5>1. \A s \in q .. (q + 1) - 1 : s = q
            BY <2>1
          <5> QED
            BY <1>0, <2>0, <2>1, <3>1, <5>1, ShallowFrom
        <4> QED
          BY <4>1, <4>4, <4>5 DEF is, d
      <3> QED
        BY <3>6, <3>7
    <2> QED
      BY <2>3, <2>5, <2>6
  <1>2. Nat \subseteq P
    <2>1. BytesLeft(t) \in [Nat -> Nat]
      BY BytesLeftType
    <2>2. \A q \in Nat : (\A r \in Nat : BytesLeft(t)[r] < BytesLeft(t)[q] => r \in P) => q \in P
      <3> HIDE DEF good
      <3> QED
        BY <1>1
    <2> HIDE DEF P
    <2> QED
      BY ONLY <2>1, <2>2, MeasureInduction
  <1>3. good(p)
    BY <1>2
  <1> QED
    BY <1>3

LEMMA EnclosedContainerEnds ==
    ASSUME NEW t, IsText(t), NEW at, Runs(t, at), NEW o \in Stacks, NEW from, NEW to, Stretch(t, from, to),
           Encloses(at, o, from, to),
           NEW open \in Openers, NEW close \in Closers, Opener(close) = open, At(t, from, open)
    PROVE  SkipContainer(t, from, open, close) =
             IF Shallow(at, Len(o), open, from, to) THEN to ELSE Fail
  <1> DEFINE n == Len(o)
             w == Append(o, open)
  <1>0. from \in Nat \ {0} /\ to \in Nat /\ from < to /\ to <= Len(t) + 1 /\ Len(t) \in Nat /\ MaxDepth \in Nat
        /\ MaxDepth >= 1 /\ from + 1 \in Nat /\ from < from + 1 /\ from + 1 <= to /\ n \in Nat
    BY ReaderLimits DEF Stretch, IsText, Stacks
  <1>1. from <= Len(t) /\ t[from] = open
    BY DEF At, IsText
  <1>2. at[from + 1] = Plain(w) /\ at[from].open = o
    BY <1>0, <1>1, RunsStep, OpenedBy, StandingsDiffer DEF Encloses
  <1>3. Around(o, o, open) /\ n \in 0 .. Len(o)
    BY <1>0 DEF Around
  <1>4. Own(o, n, open) = 0
    BY <1>3, NothingOwn
  <1>5. Own(w, n, open) = 1
    BY <1>3, <1>4, OwnOfAppend
  <1>6. Around(w, o, open)
    BY <1>0 DEF Around, Stacks
  <1> HIDE DEF w
  <1>7. ContainerEnd(t, from + 1, 1, open, close) = IF Shallow(at, n, open, from + 1, to) THEN to ELSE Fail
    BY <1>0, <1>2, <1>5, <1>6, ContainerEndIs
  <1>8. Shallow(at, n, open, from, to) <=> Shallow(at, n, open, from + 1, to)
    <2>1. \A r \in from .. (from + 1) - 1 : r = from
      BY <1>0
    <2>2. Own(at[from].open, n, open) <= MaxDepth
      BY <1>0, <1>2, <1>4
    <2> QED
      BY <1>0, <2>1, <2>2, ShallowFrom
  <1> QED
    BY <1>7, <1>8 DEF SkipContainer

(* The searches of the adapter find the end of a string where the reader   *)
(* does, if it lies within their limit.                                    *)
LEMMA SearchesEndStrings ==
    ASSUME NEW t, IsText(t), NEW limit \in Nat, NEW p \in Nat \ {0}, StringEnd(t, p) # Fail,
           StringEnd(t, p) <= limit
    PROVE  /\ ClosingQuote(t, p, limit) = StringEnd(t, p) - 1
           /\ RawStringEnd(t, p - 1, limit) = StringEnd(t, p)
  <1> DEFINE is(q) == /\ ClosingQuote(t, q, limit) = StringEnd(t, q) - 1
                      /\ RawStringEnd(t, q - 1, limit) = StringEnd(t, q)
             good(q) == q # 0 /\ StringEnd(t, q) # Fail /\ StringEnd(t, q) <= limit => is(q)
             P == {q \in Nat : good(q)}
  <1>0. Len(t) \in Nat
    BY DEF IsText
  <1>1. ASSUME NEW q \in Nat, \A r \in Nat : BytesLeft(t)[r] < BytesLeft(t)[q] => r \in P
        PROVE  good(q)
    <2> SUFFICES ASSUME q # 0, StringEnd(t, q) # Fail, StringEnd(t, q) <= limit
                 PROVE  is(q)
      OBVIOUS
    <2> DEFINE e == StringEnd(t, q)
    <2>1. e \in Nat /\ q < e
      BY StringEndBounds DEF EndsBehind
    <2>2. q <= Len(t)
      BY <1>0, StringEndStep
    <2> HIDE DEF P, good, is, e
    <2>3. /\ q + 1 \in Nat /\ q + 2 \in Nat /\ q < q + 1 /\ q < q + 2 /\ q - 1 \in Nat /\ (q - 1) + 1 = q
          /\ (q - 1) + 2 = q + 1 /\ (q + 1) - 1 = q /\ (q + 2) - 1 = q + 1 /\ ~(q >= limit) /\ e <= limit
          /\ q + 1 # 0 /\ q + 2 # 0
      BY <2>1 DEF e
    <2>4. q + 1 \in P /\ q + 2 \in P
      BY <1>1, <2>2, <2>3, FewerBytesLeft
    <2>5. RawStringEnd(t, q - 1, limit) =
            IF t[q] = Quote THEN q + 1
            ELSE RawStringEnd(t, IF t[q] = Backslash THEN q + 1 ELSE q, limit)
      BY <2>3, RawStringEndStep
    <2>6. CASE t[q] = Quote
      <3>1. e = q + 1 /\ ClosingQuote(t, q, limit) = q
        BY <2>2, <2>6, StringEndStep, ClosingQuoteStep DEF e
      <3> QED
        BY <2>3, <2>5, <2>6, <3>1 DEF is, e
    <2>7. CASE t[q] # Quote /\ t[q] # Backslash
      <3>1. e = StringEnd(t, q + 1) /\ ClosingQuote(t, q, limit) = ClosingQuote(t, q + 1, limit)
        BY <2>2, <2>3, <2>7, StringEndStep, ClosingQuoteStep DEF e
      <3>2. is(q + 1)
        BY <2>3, <2>4, <3>1 DEF P, good, e
      <3> QED
        BY <2>3, <2>5, <2>7, <3>1, <3>2 DEF is, e
    <2>8. CASE t[q] # Quote /\ t[q] = Backslash
      <3>1. e = StringEnd(t, q + 2)
        BY <2>2, <2>8, StringEndStep DEF e
      <3>2. q + 2 < e
        <4>1. EndsBehind(t, q + 2, StringEnd(t, q + 2))
          BY <2>3, StringEndBounds
        <4> QED
          BY <3>1, <4>1 DEF EndsBehind, e
      <3>3. q + 1 < limit
        BY <2>1, <2>3, <3>2 DEF e
      <3>4. ClosingQuote(t, q, limit) = ClosingQuote(t, q + 2, limit)
        BY <2>3, <2>8, <3>3, ClosingQuoteStep
      <3>5. is(q + 2)
        BY <2>3, <2>4, <3>1 DEF P, good, e
      <3> QED
        BY <2>3, <2>5, <2>8, <3>1, <3>4, <3>5 DEF is, e
    <2> QED
      BY <2>6, <2>7, <2>8
  <1>2. Nat \subseteq P
    <2>1. BytesLeft(t) \in [Nat -> Nat]
      BY BytesLeftType
    <2>2. \A q \in Nat : (\A r \in Nat : BytesLeft(t)[r] < BytesLeft(t)[q] => r \in P) => q \in P
      <3> HIDE DEF good
      <3> QED
        BY <1>1
    <2> HIDE DEF P
    <2> QED
      BY ONLY <2>1, <2>2, MeasureInduction
  <1> QED
    BY <1>2

(* And that of a container, however deep.                                  *)
LEMMA SearchesEndContainers ==
    ASSUME NEW t, IsText(t), NEW at, Runs(t, at), NEW o \in Stacks, NEW from, NEW to, Stretch(t, from, to),
           Encloses(at, o, from, to),
           NEW open \in Openers, NEW close \in Closers, Opener(close) = open, At(t, from, open),
           NEW limit \in Nat, to <= limit, t[limit - 1] # Backslash
    PROVE  RawContainerEnd(t, from, limit, open, close) = to
  <1> DEFINE n == Len(o)
  <1>0. from \in Nat \ {0} /\ to \in Nat /\ from < to /\ to <= Len(t) + 1 /\ Len(t) \in Nat /\ n \in Nat
    BY DEF Stretch, IsText, Stacks
  <1>15. PICK scan : RawScan(t, limit, open, close, scan)
    <2>1. limit > 0 => t[limit - 1] # Backslash
      OBVIOUS
    <2> QED
      BY ONLY <2>1, limit \in Nat, RawContainerReads
  <1>1. /\ \A q \in Nat, depth \in Int :
             scan[<<q, depth>>] = RawStep(t, limit, open, close, scan, q, depth)
        /\ \A p \in Nat : RawContainerEnd(t, p, limit, open, close) = scan[<<p, 0>>]
    BY <1>15 DEF RawScan
  <1> DEFINE is(q, d) == scan[<<q, d>>] = to
             good(q) == \A v : from < q /\ q <= to /\ at[q] = Plain(v) /\ Around(v, o, open)
                                 /\ Own(v, n, open) # 0 => is(q, Own(v, n, open))
             P == {q \in Nat : good(q)}
  <1>2. open # close /\ open # Quote /\ close # Quote
    BY BracketsDiffer
  <1>3. ASSUME NEW q \in Nat, \A r \in Nat : BytesLeft(t)[r] < BytesLeft(t)[q] => r \in P
        PROVE  good(q)
    <2> SUFFICES ASSUME NEW v, from < q, q <= to, at[q] = Plain(v), Around(v, o, open), Own(v, n, open) # 0
                 PROVE  is(q, Own(v, n, open))
      OBVIOUS
    <2> DEFINE d == Own(v, n, open)
    <2>1. /\ q \in Nat \ {0} /\ q + 1 \in Nat \ {0} /\ v \in Stacks /\ d \in Nat /\ d \in Int /\ d # 0
          /\ q < q + 1
      BY <1>0, OwnType DEF Around, Stacks
    <2>2. \A r \in Nat : q <= Len(t) /\ q < r => r \in P
      BY <1>3, FewerBytesLeft
    <2> HIDE DEF P, good
    <2>3. v # o
      BY NothingOwn
    <2>4. q # to
      BY <2>3, StandingsDiffer DEF Encloses
    <2> HIDE DEF d
    <2>5. q < to /\ q <= Len(t) /\ q + 1 <= to /\ ~(q >= limit) /\ (q + 1 = to \/ q + 1 \in from + 1 .. to - 1)
          /\ from < q + 1
      BY <1>0, <2>1, <2>4
    <2>6. at[q + 1] # Broken
      BY <2>5, StandingsDiffer DEF Encloses
    <2>7. scan[<<q, d>>] =
            IF t[q] = Quote THEN scan[<<RawStringEnd(t, q, limit), d>>]
            ELSE IF t[q] = open THEN scan[<<q + 1, d + 1>>]
            ELSE IF t[q] = close
                 THEN IF d = 1 THEN q + 1 ELSE scan[<<q + 1, d - 1>>]
            ELSE scan[<<q + 1, d>>]
      BY <1>1, <2>1, <2>5 DEF RawStep
    <2>8. CASE t[q] = Quote
      <3> DEFINE r == SkipString(t, q)
      <3> HIDE DEF is
      <3>1. at[q + 1] = InString(v) /\ q + 1 <= Len(t) + 1
        BY <1>0, <2>1, <2>5, <2>8, RunsStep, OpenedBy
      <3>2. r = StringEnd(t, q + 1)
        <4>1. At(t, q, Quote)
          BY <2>1, <2>5, <2>8 DEF At, IsText
        <4> QED
          BY <4>1 DEF SkipString
      <3>3. r # Fail /\ q + 1 < r /\ r <= to
        BY <1>0, <2>1, <2>5, <3>1, <3>2, StringCloses DEF Encloses
      <3>4. r \in Nat
        BY SkipStringBounds DEF EndsBehind
      <3>5. at[r] = Plain(v)
        BY <2>1, <3>3, SkipStringRuns
      <3> HIDE DEF r
      <3>6. RawStringEnd(t, q, limit) = r
        <4>1. r <= limit /\ (q + 1) - 1 = q
          BY <1>0, <2>1, <3>3, <3>4
        <4> QED
          BY <2>1, <3>2, <3>3, <4>1, SearchesEndStrings
      <3>7. q < r /\ from < r
        BY <1>0, <2>1, <3>3, <3>4
      <3>8. is(r, d)
        BY <2>1, <2>2, <2>5, <3>3, <3>4, <3>5, <3>7 DEF P, good, d
      <3> QED
        BY <2>7, <2>8, <3>6, <3>8 DEF is, d
    <2>9. CASE t[q] # Quote
      <3> HIDE DEF is
      <3>1. at[q + 1] = Opened(Plain(v), t[q])
        BY <2>1, <2>5, RunsStep
      <3>2. PICK x : /\ Opened(Plain(v), t[q]) = Plain(x) /\ Around(x, o, open)
                     /\ Own(x, n, open) = IF t[q] = open THEN d + 1
                                          ELSE IF t[q] = close THEN d - 1 ELSE d
        BY <2>1, <2>6, <2>9, <3>1, ContainerStep DEF d
      <3>3. Own(x, n, open) # 0 => is(q + 1, Own(x, n, open))
        BY <2>1, <2>2, <2>5, <3>1, <3>2 DEF P, good
      <3>4. CASE t[q] = close /\ d = 1
        <4>1. Own(x, n, open) = 0
          BY <1>2, <3>2, <3>4
        <4>2. at[q + 1] = Plain(o)
          BY <3>1, <3>2, <4>1, NothingOwn
        <4>3. q + 1 = to
          BY <2>5, <4>2 DEF Encloses
        <4> QED
          BY <1>2, <2>7, <2>9, <3>4, <4>3 DEF is, d
      <3>5. CASE ~(t[q] = close /\ d = 1)
        <4>1. Own(x, n, open) # 0
          BY <1>2, <2>1, <3>2, <3>5
        <4>2. scan[<<q, d>>] = scan[<<q + 1, Own(x, n, open)>>]
          BY <1>2, <2>7, <2>9, <3>2, <3>5
        <4> QED
          BY <3>3, <4>1, <4>2 DEF is, d
      <3> QED
        BY <3>4, <3>5
    <2> QED
      BY <2>8, <2>9
  <1>4. Nat \subseteq P
    <2>1. BytesLeft(t) \in [Nat -> Nat]
      BY BytesLeftType
    <2>2. \A q \in Nat : (\A r \in Nat : BytesLeft(t)[r] < BytesLeft(t)[q] => r \in P) => q \in P
      <3> HIDE DEF good
      <3> QED
        BY <1>3
    <2> HIDE DEF P
    <2> QED
      BY ONLY <2>1, <2>2, MeasureInduction
  <1> DEFINE w == Append(o, open)
  <1>5. from <= Len(t) /\ t[from] = open /\ from + 1 \in Nat /\ from < from + 1 /\ from + 1 <= to /\ ~(from >= limit)
    BY <1>0 DEF At, IsText
  <1>6. at[from + 1] = Plain(w)
    BY <1>0, <1>5, RunsStep, OpenedBy DEF Encloses
  <1>7. Around(o, o, open) /\ n \in 0 .. Len(o)
    BY <1>0 DEF Around
  <1>8. Own(w, n, open) = 1
    <2>1. Own(o, n, open) = 0
      BY <1>7, NothingOwn
    <2> QED
      BY <1>7, <2>1, OwnOfAppend
  <1>9. Around(w, o, open)
    BY <1>0 DEF Around, Stacks
  <1>10. scan[<<from, 0>>] = scan[<<from + 1, 0 + 1>>]
    <2>1. from \in Nat /\ 0 \in Int
      BY <1>0
    <2>2. scan[<<from, 0>>] = RawStep(t, limit, open, close, scan, from, 0)
      BY <1>1, <2>1
    <2> QED
      BY <1>2, <1>5, <2>2 DEF RawStep
  <1>11. good(from + 1)
    BY <1>4, <1>5
  <1> HIDE DEF w
  <1>12. is(from + 1, 1)
    BY <1>5, <1>6, <1>8, <1>9, <1>11
  <1>13. RawContainerEnd(t, from, limit, open, close) = scan[<<from, 0>>]
    BY <1>0, <1>1
  <1> QED
    BY <1>10, <1>12, <1>13

(* Where the text s stands in t.                                           *)
Spelled(t, from, to, s) ==
    Sequence(s) /\ Stretch(t, from, to) /\ to = from + Len(s) /\ Spells(t, from - 1, s)

Ended(t, to) == to <= Len(t) => t[to] \in Enders

LEMMA NumberBytesApart ==
    /\ "-" \notin DigitSet /\ "." \notin DigitSet /\ \A c \in {"e", "E"} : c \notin DigitSet /\ c # "."
    /\ \A c \in Enders : c \notin NumberBytes \cup Spaces \cup {Quote, "{", "["} \cup {"true", "false", "null"}
    /\ \A c \in NumberBytes : c \notin Enders \cup Spaces \cup {Quote, "{", "[", "}", "]", ":"} \cup {"true", "false", "null"}
  <1> DEFINE digits == {"0", "1", "2", "3", "4", "5", "6", "7", "8", "9"}
             others == {"-", "+", ".", "e", "E"}
             apart == Enders \cup Spaces \cup {Quote, "{", "[", "}", "]", ":"} \cup {"true", "false", "null"}
  <1>1. \A c \in DigitSet : c \in digits
    BY DEF DigitSet, Digits
  <1>2. \A c \in digits : c \notin others
    OBVIOUS
  <1>3. \A c \in digits : c \notin apart
    BY DEF Enders, Spaces, Quote
  <1>4. \A c \in others : c \notin apart
    BY DEF Enders, Spaces, Quote
  <1>5. "-" \notin DigitSet /\ "." \notin DigitSet /\ \A c \in {"e", "E"} : c \notin DigitSet /\ c # "."
    BY <1>1
  <1>6. \A c \in NumberBytes : c \notin apart
    <2> HIDE DEF apart, digits
    <2> QED
      BY <1>1, <1>3, <1>4 DEF NumberBytes
  <1>7. \A c \in Enders : c \notin Spaces \cup {Quote, "{", "["} \cup {"true", "false", "null"}
    BY DEF Enders, Spaces, Quote
  <1>8. \A c \in Enders : c \in apart
    OBVIOUS
  <1> HIDE DEF apart
  <1>9. \A c \in Enders : c \notin NumberBytes
    BY <1>6, <1>8
  <1> USE DEF apart
  <1> QED
    BY <1>5, <1>6, <1>7, <1>9

(* A number is scanned to its end.                                         *)
LEMMA NumberIsScanned ==
    ASSUME NEW t, IsText(t), NEW from, NEW to, NEW s, Spelled(t, from, to, s), IsNumber(s), Ended(t, to)
    PROVE  NumberEnd(t, from) = to
  <1> DEFINE
        minus == "-"
        dot == "."
        powers == {"e", "E"}
        signs == {"+", "-"}
        head == IF t[from] = minus THEN from + 1 ELSE from
        fraction == [q \in Nat |-> IF At(t, q, dot) THEN SkipAll(t, q + 1, DigitSet) ELSE q]
        sign(q) == IF In(t, q + 1, signs) THEN q + 2 ELSE q + 1
        exponent == [q \in Nat |-> IF ~In(t, q, powers) THEN q ELSE SkipAll(t, sign(q), DigitSet)]
        whole == SkipAll(t, head, DigitSet)
        l == Len(s)
        lt == Len(t)
  <1>1. NumberEnd(t, from) = IF ~In(t, head, DigitSet) THEN Fail ELSE exponent[fraction[whole]]
    BY DEF NumberEnd
  <1>2. PICK first, point, exp, power : NumberParts(s, first, point, exp, power)
    BY NumberHasParts
  <1>3. /\ first = (IF At(s, 1, minus) THEN 2 ELSE 1)
        /\ point \in 1 .. l + 1 /\ exp \in 1 .. l + 1
        /\ first < point /\ point <= exp
        /\ DigitsFrom(s, first, point)
        /\ point < exp => s[point] = dot /\ DigitsFrom(s, point + 1, exp)
        /\ power = (IF In(s, exp + 1, signs) THEN exp + 2 ELSE exp + 1)
        /\ exp <= l => s[exp] \in powers /\ DigitsFrom(s, power, l + 1)
    BY <1>2 DEF NumberParts
  <1>4. /\ minus \notin DigitSet /\ dot \notin DigitSet
        /\ \A c \in powers : c \notin DigitSet /\ c # dot
        /\ \A c \in Enders : c \notin DigitSet /\ c # dot /\ c \notin powers /\ c \notin signs
    BY NumberBytesApart DEF NumberBytes
  <1>5. /\ l \in Nat /\ l >= 1 /\ DOMAIN s = 1 .. l /\ lt \in Nat /\ DOMAIN t = 1 .. lt
        /\ from \in Nat \ {0} /\ to = from + l /\ to <= lt + 1
    <2>1. IsText(s)
      BY SequenceIsText DEF Spelled
    <2>2. Len(s) >= 1
      BY <2>1, NumberIsPlain
    <2> QED
      BY <2>1, <2>2 DEF IsText, Spelled, Stretch
  <1>6. \A j \in 1 .. l : t[from - 1 + j] = s[j]
    BY DEF Spelled, Spells
  <1>7. to <= lt => t[to] \in Enders
    BY DEF Ended
  <1> DEFINE f == from - 1 + first
             pt == from - 1 + point
             ex == from - 1 + exp
             pw == from - 1 + power
  <1> HIDE DEF minus, dot, powers, signs, l, lt, fraction, exponent, sign, whole, head
  <1>8. head = f
    <2>1. t[from] = s[1]
      <3>1. 1 \in 1 .. l /\ from - 1 + 1 = from
        BY <1>5
      <3> QED
        BY <1>6, <3>1
    <2>2. At(s, 1, minus) <=> t[from] = minus
      BY <1>5, <2>1 DEF At
    <2> QED
      BY <1>3, <1>5, <2>2 DEF head
  <1>9. ASSUME NEW p \in 1 .. l + 1, NEW q \in p .. l + 1, DigitsFrom(s, p, q)
        PROVE  \A r \in from - 1 + p .. (from - 1 + q) - 1 : t[r] \in DigitSet
    <2> SUFFICES ASSUME NEW r \in from - 1 + p .. (from - 1 + q) - 1 PROVE t[r] \in DigitSet
      OBVIOUS
    <2> DEFINE j == r - (from - 1)
    <2>1. j \in p .. q - 1 /\ j \in 1 .. l /\ from - 1 + j = r
      BY <1>5
    <2> HIDE DEF j
    <2> QED
      BY <1>6, <1>9, <2>1 DEF DigitsFrom
  <1>10. first \in 1 .. l + 1 /\ first \in 1 .. l /\ (power = exp + 1 \/ (power = exp + 2 /\ exp + 1 <= l))
    BY <1>3, <1>5 DEF In
  <1>11. In(t, head, DigitSet)
    <2>1. s[first] \in DigitSet
      BY <1>3, <1>10 DEF DigitsFrom
    <2>2. t[f] = s[first] /\ f \in 1 .. lt
      BY <1>5, <1>6, <1>10
    <2> QED
      BY <1>5, <1>8, <2>1, <2>2 DEF In
  <1>12. /\ 1 <= f /\ 1 <= pt /\ 1 <= ex /\ f \in Nat /\ pt \in Nat /\ ex \in Nat /\ f <= pt /\ pt <= ex /\ ex <= to /\ to \in Nat
         /\ (point < exp => pt + 1 <= ex) /\ pt <= lt + 1 /\ ex <= lt + 1 /\ (exp = l + 1 <=> ex = to)
         /\ (exp <= l <=> ex < to) /\ (point < exp <=> pt < ex) /\ pt + 1 \in Nat
    BY <1>3, <1>5, <1>10
  <1>13. /\ point < exp => t[pt] = dot
         /\ exp <= l => t[ex] \in powers
    <2>1. point < exp => point \in 1 .. l
      BY <1>3, <1>5
    <2>2. exp <= l => exp \in 1 .. l
      BY <1>3
    <2> QED
      BY <1>3, <1>6, <2>1, <2>2
  <1>14. ex <= lt => t[ex] \notin DigitSet /\ t[ex] # dot
    <2>1. CASE exp <= l
      BY <1>4, <1>13, <2>1
    <2>2. CASE ~(exp <= l)
      <3>1. ex = to
        BY <1>3, <1>5, <1>12, <2>2
      <3> QED
        BY <1>4, <1>7, <3>1
    <2> QED
      BY <2>1, <2>2
  <1>15. whole = pt
    <2>1. \A r \in f .. pt - 1 : t[r] \in DigitSet
      BY <1>3, <1>9, <1>10
    <2>2. pt <= lt => t[pt] \notin DigitSet
      <3>1. CASE point < exp
        BY <1>4, <1>13, <3>1
      <3>2. CASE ~(point < exp)
        <4>1. pt = ex
          BY <1>3, <1>5, <3>2
        <4> QED
          BY <1>14, <4>1
      <3> QED
        BY <3>1, <3>2
    <2>3. pt = lt + 1 \/ t[pt] \notin DigitSet
      BY <1>5, <1>12, <2>2
    <2> HIDE DEF f, pt
    <2> QED
      BY <1>8, <1>12, <2>1, <2>3, SkipAllIs DEF whole, lt
  <1>16. fraction[pt] = ex
    <2>1. CASE point < exp
      <3>1. At(t, pt, dot)
        <4>1. pt \in DOMAIN t
          BY <1>5, <1>12, <2>1
        <4> QED
          BY <1>13, <2>1, <4>1 DEF At
      <3>2. \A r \in pt + 1 .. ex - 1 : t[r] \in DigitSet
        <4>1. point + 1 \in 1 .. l + 1 /\ exp \in point + 1 .. l + 1 /\ from - 1 + (point + 1) = pt + 1
          BY <1>3, <1>5, <2>1
        <4> QED
          BY <1>3, <1>9, <2>1, <4>1
      <3>3. ex = lt + 1 \/ t[ex] \notin DigitSet
        BY <1>5, <1>12, <1>14
      <3> HIDE DEF pt, ex
      <3>4. SkipAll(t, pt + 1, DigitSet) = ex
        BY <1>12, <2>1, <3>2, <3>3, SkipAllIs DEF lt
      <3> QED
        BY <1>12, <3>1, <3>4 DEF fraction
    <2>2. CASE ~(point < exp)
      <3>1. pt = ex
        BY <1>3, <1>5, <2>2
      <3>2. ~At(t, ex, dot)
        BY <1>5, <1>14 DEF At
      <3> HIDE DEF pt, ex
      <3> QED
        BY <1>12, <3>1, <3>2 DEF fraction
    <2> QED
      BY <2>1, <2>2
  <1>17. exponent[ex] = to
    <2>1. CASE exp <= l
      <3>1. In(t, ex, powers)
        <4>1. ex \in DOMAIN t
          BY <1>5, <1>12, <2>1
        <4> QED
          BY <1>13, <2>1, <4>1 DEF In
      <3>2. In(t, ex + 1, signs) <=> In(s, exp + 1, signs)
        <4>1. CASE exp + 1 <= l
          <5>1. exp + 1 \in 1 .. l /\ from - 1 + (exp + 1) = ex + 1 /\ ex + 1 \in 1 .. lt
            BY <1>3, <1>5, <4>1
          <5>2. t[ex + 1] = s[exp + 1]
            BY <1>6, <5>1
          <5> HIDE DEF ex
          <5> QED
            BY <1>5, <5>1, <5>2 DEF In
        <4>2. CASE ~(exp + 1 <= l)
          <5>1. ex + 1 = to /\ exp + 1 \notin 1 .. l
            BY <1>3, <1>5, <2>1, <4>2
          <5> HIDE DEF ex
          <5>2. to \in 1 .. lt => t[to] \notin signs
            BY <1>4, <1>7
          <5> QED
            BY <1>5, <5>1, <5>2 DEF In
        <4> QED
          BY <4>1, <4>2
      <3>3. sign(ex) = pw
        BY <1>3, <1>5, <3>2 DEF sign
      <3>4. power \in 1 .. l + 1 /\ l + 1 \in power .. l + 1 /\ from - 1 + (l + 1) = to /\ pw \in Nat /\ pw <= to
        BY <1>3, <1>5, <1>10, <2>1
      <3>5. \A r \in pw .. to - 1 : t[r] \in DigitSet
        BY <1>3, <1>9, <2>1, <3>4
      <3>6. to = lt + 1 \/ t[to] \notin DigitSet
        BY <1>4, <1>5, <1>7
      <3> HIDE DEF pw, ex
      <3>7. SkipAll(t, pw, DigitSet) = to
        BY <1>5, <1>12, <3>4, <3>5, <3>6, SkipAllIs DEF lt
      <3> QED
        BY <1>12, <3>1, <3>3, <3>7 DEF exponent
    <2>2. CASE ~(exp <= l)
      <3>1. ex = to
        BY <1>3, <1>5, <1>12, <2>2
      <3>2. ~In(t, to, powers)
        BY <1>4, <1>5, <1>7 DEF In
      <3> HIDE DEF ex
      <3> QED
        BY <1>12, <3>1, <3>2 DEF exponent
    <2> QED
      BY <2>1, <2>2
  <1> HIDE DEF pt, ex
  <1> QED
    BY <1>1, <1>11, <1>15, <1>16, <1>17

WordSet == {"true", "false", "null"}
Simple(s) == IsNumber(s) \/ \E w \in WordSet : s = <<w>>

(* The value of the entry e of a ledger: a string or a container with what *)
(* it holds, or a text without structure.                                  *)
Enclosed(t, e) ==
    /\ In(t, e.from, {Quote} \cup Openers)
    /\ e.op \notin {"number", "double", "bool"}
    /\ \E o \in Stacks : Encloses(OpenAt(t), o, e.from, e.to)

SpelledOut(t, e) ==
    \E s : /\ Spelled(t, e.from, e.to, s)
           /\ e.op = "double" => s = e.value
           /\ Simple(s) \/ (e.op = "double" /\ s \in NotFinite)

ValueAt(t, e) == Stretch(t, e.from, e.to) /\ (Enclosed(t, e) \/ SpelledOut(t, e))

(* A value that the reader takes.                                          *)
Taken(t, e) ==
    /\ \A bracket \in Openers :
         t[e.from] = bracket =>
           Shallow(OpenAt(t), Len(OpenAt(t)[e.from].open), bracket, e.from, e.to)
    /\ e.op = "double" => e.value \notin NotFinite

LEMMA SpelledBytes ==
    ASSUME NEW t, IsText(t), NEW from, NEW to, NEW s, Spelled(t, from, to, s)
    PROVE  /\ Len(s) \in Nat /\ Len(s) >= 1 /\ IsText(s) /\ from \in DOMAIN t /\ t[from] = s[1]
           /\ \A q \in from .. to - 1 : q - from + 1 \in 1 .. Len(s) /\ t[q] = s[q - from + 1]
           /\ from \in Nat \ {0} /\ to \in Nat /\ to = from + Len(s) /\ from < to /\ to <= Len(t) + 1
           /\ Len(t) \in Nat
  <1> DEFINE l == Len(s)
             lt == Len(t)
  <1>1. IsText(s) /\ l \in Nat
    BY SequenceIsText DEF Spelled, IsText
  <1>2. lt \in Nat /\ DOMAIN t = 1 .. lt
    BY DEF IsText
  <1>3. from \in Nat \ {0} /\ to \in Nat /\ from < to /\ to <= lt + 1 /\ to = from + l
        /\ \A j \in 1 .. l : t[from - 1 + j] = s[j]
    BY DEF Spelled, Stretch, Spells
  <1> HIDE DEF l, lt
  <1>4. l >= 1 /\ from \in 1 .. lt
    BY <1>1, <1>2, <1>3
  <1>5. ASSUME NEW q \in from .. to - 1 PROVE q - from + 1 \in 1 .. l /\ t[q] = s[q - from + 1]
    <2>1. q - from + 1 \in 1 .. l /\ from - 1 + (q - from + 1) = q
      BY <1>1, <1>3
    <2> QED
      BY <1>3, <2>1
  <1>6. t[from] = s[1]
    <2>1. from \in from .. to - 1 /\ from - from + 1 = 1
      BY <1>1, <1>3
    <2> QED
      BY <1>5, <2>1
  <1> QED
    BY <1>1, <1>2, <1>3, <1>4, <1>5, <1>6 DEF l, lt

LEMMA NotFiniteHas ==
    ASSUME NEW s \in NotFinite
    PROVE  /\ \/ Len(s) = 1 /\ s[1] \in {"nan", "inf"}
              \/ Len(s) = 2 /\ s[1] = "-" /\ s[2] \in {"nan", "inf"}
           /\ ~Simple(s)
  <1> DEFINE minus == "-"
             nan == "nan"
             inf == "inf"
  <1>1. s \in {<<nan>>, <<minus, nan>>, <<inf>>, <<minus, inf>>}
    BY DEF NotFinite
  <1>2. /\ nan \notin NumberBytes /\ inf \notin NumberBytes
        /\ nan \notin WordSet /\ inf \notin WordSet
    <2>1. nan \notin DigitSet /\ inf \notin DigitSet
      <3>1. \A c \in DigitSet : c \in {"0", "1", "2", "3", "4", "5", "6", "7", "8", "9"}
        BY DEF DigitSet, Digits
      <3> QED
        BY <3>1
    <2> QED
      BY <2>1 DEF NumberBytes, WordSet
  <1> HIDE DEF minus, nan, inf
  <1>3. \A x, y : /\ Len(<<x>>) = 1 /\ <<x>>[1] = x
                  /\ Len(<<x, y>>) = 2 /\ <<x, y>>[1] = x /\ <<x, y>>[2] = y
                  /\ IsText(<<x>>) /\ IsText(<<x, y>>)
    BY DEF IsText
  <1>4. /\ \/ Len(s) = 1 /\ s[1] \in {nan, inf}
           \/ Len(s) = 2 /\ s[1] = minus /\ s[2] \in {nan, inf}
        /\ IsText(s)
    <2>1. (\E x \in {nan, inf} : s = <<x>>) \/ (\E x \in {nan, inf} : s = <<minus, x>>)
      BY <1>1
    <2>2. CASE \E x \in {nan, inf} : s = <<x>>
      BY <1>3, <2>2
    <2>3. CASE \E x \in {nan, inf} : s = <<minus, x>>
      <3>1. PICK x \in {nan, inf} : s = <<minus, x>>
        BY <2>3
      <3>2. Len(s) = 2 /\ s[1] = minus /\ s[2] = x /\ IsText(s)
        BY ONLY <1>3, <3>1
      <3> QED
        BY <3>1, <3>2
    <2> QED
      BY <2>1, <2>2, <2>3
  <1>5. ~IsNumber(s)
    BY <1>2, <1>4, NumberIsPlain
  <1>6. \A w \in WordSet : s # <<w>>
    <2> SUFFICES ASSUME NEW w \in WordSet, s = <<w>> PROVE FALSE
      OBVIOUS
    <2>1. Len(s) = 1 /\ s[1] = w
      BY <1>3
    <2> QED
      BY <1>2, <1>4, <2>1
  <1> QED
    BY <1>4, <1>5, <1>6 DEF Simple, minus, nan, inf

(* At a byte that is no space nothing is skipped.                          *)
LEMMA NoSpace ==
    ASSUME NEW t, IsText(t), NEW p \in Nat, p \in DOMAIN t, t[p] \notin Spaces
    PROVE  SkipWs(t, p) = p
  <1>1. p <= p /\ p <= Len(t) + 1 /\ \A q \in p .. p - 1 : t[q] \in Spaces
    BY DEF IsText
  <1> QED
    BY <1>1, SkipAllIs DEF SkipWs

LEMMA NumberBegins ==
    ASSUME NEW t, IsText(t), NEW from, NEW to, NEW s, Spelled(t, from, to, s), IsNumber(s)
    PROVE  /\ t[from] \in DigitSet \cup {"-"}
           /\ t[from] = "-" => from + 1 < to /\ t[from + 1] \in DigitSet
           /\ \A q \in from .. to - 1 : t[q] \in NumberBytes
  <1> DEFINE minus == "-"
             l == Len(s)
  <1>1. PICK first, point, exp, power : NumberParts(s, first, point, exp, power)
    BY NumberHasParts
  <1>2. first = (IF At(s, 1, minus) THEN 2 ELSE 1) /\ point \in 1 .. l + 1 /\ first < point
        /\ DigitsFrom(s, first, point)
    BY <1>1 DEF NumberParts
  <1>3. /\ l \in Nat /\ l >= 1 /\ IsText(s) /\ t[from] = s[1] /\ DOMAIN s = 1 .. l
        /\ \A q \in from .. to - 1 : q - from + 1 \in 1 .. l /\ t[q] = s[q - from + 1]
        /\ from \in Nat \ {0} /\ to \in Nat /\ to = from + l
    BY SpelledBytes DEF IsText
  <1>4. \A i \in 1 .. l : s[i] \in NumberBytes
    BY <1>3, NumberIsPlain
  <1> HIDE DEF minus, l
  <1>5. s[first] \in DigitSet
    <2>1. first \in first .. point - 1
      BY <1>2, <1>3
    <2> QED
      BY <1>2, <2>1 DEF DigitsFrom
  <1>6. CASE s[1] = minus
    <2>1. first = 2
      BY <1>2, <1>3, <1>6 DEF At
    <2>2. l >= 2
      BY <1>2, <1>3, <2>1
    <2>3. from + 1 < to /\ from + 1 \in from .. to - 1 /\ (from + 1) - from + 1 = 2
      BY <1>3, <2>2
    <2>4. t[from + 1] = s[2]
      BY <1>3, <2>3
    <2> QED
      BY <1>3, <1>4, <1>5, <1>6, <2>1, <2>3, <2>4 DEF minus
  <1>7. CASE s[1] # minus
    <2>1. first = 1
      BY <1>2, <1>7 DEF At
    <2> QED
      BY <1>3, <1>4, <1>5, <1>7, <2>1 DEF minus
  <1> QED
    BY <1>6, <1>7

(* skip_value ends where a value does, unless it fails.                    *)
LEMMA ValueIsSkipped ==
    ASSUME NEW t, IsText(t), NEW e, ValueAt(t, e), Ended(t, e.to)
    PROVE  /\ SkipValue(t, e.from) = IF Taken(t, e) THEN e.to ELSE Fail
           /\ SkipWs(t, e.from) = e.from
  <1> DEFINE at == OpenAt(t)
             from == e.from
             to == e.to
             brace == "{"
             bracket == "["
             numeric == DigitSet \cup {"-"}
             words == {"true", "false", "null"}
             skip(q) == IF At(t, q, Quote) THEN SkipString(t, q)
                        ELSE IF At(t, q, brace) THEN SkipContainer(t, q, brace, "}")
                        ELSE IF At(t, q, bracket) THEN SkipContainer(t, q, bracket, "]")
                        ELSE IF In(t, q, words) THEN q + 1
                        ELSE IF In(t, q, numeric) THEN NumberEnd(t, q)
                        ELSE Fail
  <1>1. SkipValue(t, from) = skip(SkipWs(t, from))
    BY DEF SkipValue
  <1>2. Runs(t, at)
    BY OpenAtRuns
  <1>3. Stretch(t, from, to) /\ from \in DOMAIN t /\ from \in Nat /\ Len(t) \in Nat
    <2>1. Stretch(t, from, to)
      BY DEF ValueAt
    <2> HIDE DEF from, to
    <2> QED
      BY <2>1 DEF Stretch, IsText
  <1>4. /\ brace \in Openers /\ bracket \in Openers /\ Openers = {brace, bracket} /\ Quote \notin Openers
        /\ brace # bracket /\ brace # Quote /\ bracket # Quote
        /\ "}" \in Closers /\ "]" \in Closers /\ Opener("}") = brace /\ Opener("]") = bracket
        /\ brace \notin Spaces /\ bracket \notin Spaces /\ Quote \notin Spaces
        /\ brace \notin words \cup numeric /\ bracket \notin words \cup numeric /\ Quote \notin words \cup numeric
        /\ \A w \in words : w \notin numeric
    <2>1. \A c \in DigitSet : c \in {"0", "1", "2", "3", "4", "5", "6", "7", "8", "9"}
      BY DEF DigitSet, Digits
    <2> QED
      BY <2>1 DEF Openers, Closers, Opener, Quote, Spaces
  <1>5. \A c \in numeric : c \in NumberBytes /\ c \notin Spaces
    <2>1. numeric \subseteq NumberBytes
      BY DEF NumberBytes
    <2> QED
      BY <2>1, NumberBytesApart
  <1>6. CASE Enclosed(t, e)
    <2>1. PICK o \in Stacks : Encloses(at, o, from, to)
      BY <1>6 DEF Enclosed
    <2>2. t[from] = Quote \/ t[from] \in Openers
      BY <1>6 DEF Enclosed, In
    <2>3. e.op # "double"
      BY <1>6 DEF Enclosed
    <2>4. at[from].open = o
      BY <2>1, StandingsDiffer DEF Encloses
    <2>5. t[from] \notin Spaces
      BY <1>4, <2>2
    <2>6. SkipWs(t, from) = from
      <3> HIDE DEF from
      <3> QED
        BY <1>3, <2>5, NoSpace
    <2>7. Taken(t, e) <=> \A c \in Openers : t[from] = c => Shallow(at, Len(o), c, from, to)
      <3>1. Taken(t, e) <=> \A c \in Openers : t[from] = c => Shallow(at, Len(at[from].open), c, from, to)
        BY <2>3 DEF Taken
      <3> QED
        BY <2>4, <3>1
    <2> HIDE DEF at, from, to, brace, bracket, numeric, words
    <2>11. ASSUME NEW open \in Openers, NEW close \in Closers, Opener(close) = open, At(t, from, open)
           PROVE  SkipContainer(t, from, open, close) = IF Shallow(at, Len(o), open, from, to) THEN to ELSE Fail
      BY <1>2, <1>3, <2>1, <2>11, EnclosedContainerEnds
    <2>8. CASE t[from] = Quote
      <3>1. At(t, from, Quote)
        BY <1>3, <2>8 DEF At
      <3>2. SkipString(t, from) = to
        BY <1>2, <1>3, <2>1, <3>1, EnclosedStringEnds
      <3> QED
        BY <1>1, <1>4, <2>6, <2>7, <2>8, <3>1, <3>2 DEF from, to
    <2>9. CASE t[from] = brace
      <3>1. At(t, from, brace) /\ ~At(t, from, Quote)
        BY <1>3, <1>4, <2>9 DEF At
      <3>2. SkipContainer(t, from, brace, "}") = IF Shallow(at, Len(o), brace, from, to) THEN to ELSE Fail
        BY <1>4, <2>11, <3>1
      <3> QED
        BY <1>1, <1>4, <2>6, <2>7, <2>9, <3>1, <3>2 DEF from, to
    <2>10. CASE t[from] = bracket
      <3>1. At(t, from, bracket) /\ ~At(t, from, Quote) /\ ~At(t, from, brace)
        BY <1>3, <1>4, <2>10 DEF At
      <3>2. SkipContainer(t, from, bracket, "]") = IF Shallow(at, Len(o), bracket, from, to) THEN to ELSE Fail
        BY <1>4, <2>11, <3>1
      <3> QED
        BY <1>1, <1>4, <2>6, <2>7, <2>10, <3>1, <3>2 DEF from, to
    <2> QED
      BY <1>4, <2>2, <2>8, <2>9, <2>10
  <1>7. CASE SpelledOut(t, e)
    <2>1. PICK s : /\ Spelled(t, from, to, s) /\ (e.op = "double" => s = e.value)
                   /\ Simple(s) \/ (e.op = "double" /\ s \in NotFinite)
      BY <1>7 DEF SpelledOut
    <2>2. t[from] = s[1] /\ Len(s) >= 1 /\ to = from + Len(s)
      <3> HIDE DEF from, to
      <3> QED
        BY <2>1, SpelledBytes
    <2>3. ASSUME t[from] \notin Openers
          PROVE  Taken(t, e) <=> (e.op = "double" => e.value \notin NotFinite)
      BY <2>3 DEF Taken
    <2> HIDE DEF at, from, to, brace, bracket, numeric, words
    <2>4. CASE IsNumber(s)
      <3>1. t[from] \in numeric
        BY <2>1, <2>4, NumberBegins DEF numeric
      <3>2. ~At(t, from, Quote) /\ ~At(t, from, brace) /\ ~At(t, from, bracket) /\ ~In(t, from, words)
        BY <1>4, <3>1 DEF At, In
      <3>3. In(t, from, numeric) /\ t[from] \notin Openers /\ t[from] \notin Spaces
        BY <1>3, <1>4, <1>5, <3>1 DEF In
      <3>4. SkipWs(t, from) = from
        BY <1>3, <3>3, NoSpace
      <3>5. NumberEnd(t, from) = to
        BY <2>1, <2>4, NumberIsScanned DEF to
      <3>6. s \notin NotFinite
        BY <2>4, NotFiniteHas DEF Simple
      <3> QED
        BY <1>1, <2>1, <2>3, <3>2, <3>3, <3>4, <3>5, <3>6 DEF from, to
    <2>5. CASE \E w \in WordSet : s = <<w>>
      <3>1. s[1] \in words /\ Len(s) = 1
        BY <2>5 DEF WordSet, words
      <3>2. In(t, from, words) /\ t[from] \notin Openers /\ t[from] \notin Spaces
        BY <1>3, <1>4, <2>2, <3>1, WordIsPlain DEF In, words, Structure
      <3>3. ~At(t, from, Quote) /\ ~At(t, from, brace) /\ ~At(t, from, bracket)
        BY <1>4, <2>2, <3>1 DEF At
      <3>4. SkipWs(t, from) = from
        BY <1>3, <3>2, NoSpace
      <3>5. s \notin NotFinite
        BY <2>5, NotFiniteHas DEF Simple
      <3>6. to = from + 1
        BY <2>2, <3>1
      <3> QED
        BY <1>1, <2>1, <2>3, <3>2, <3>3, <3>4, <3>5, <3>6 DEF from, to
    <2>6. CASE e.op = "double" /\ s \in NotFinite
      <3>1. \/ Len(s) = 1 /\ s[1] \in {"nan", "inf"}
            \/ Len(s) = 2 /\ s[1] = "-" /\ s[2] \in {"nan", "inf"}
        BY <2>6, NotFiniteHas
      <3>2. \A c \in {"nan", "inf"} : c \notin words /\ c \notin numeric /\ c \notin DigitSet
        <4>1. \A c \in DigitSet : c \in {"0", "1", "2", "3", "4", "5", "6", "7", "8", "9"}
          BY DEF DigitSet, Digits
        <4> QED
          BY <4>1 DEF words, numeric
      <3>3. \A i \in 1 .. Len(s) : s[i] \notin Structure \cup Enders
        BY <2>6, NotFiniteIsPlain
      <3>4. t[from] \notin {Quote} \cup Openers /\ t[from] \notin Spaces /\ t[from] \notin words
        <4>1. t[from] \in {"nan", "inf", "-"}
          BY <2>2, <3>1
        <4> HIDE <2>1, <2>2
        <4> QED
          BY ONLY <4>1 DEF Quote, Openers, Spaces, words
      <3>5. SkipWs(t, from) = from
        BY <1>3, <3>4, NoSpace
      <3>6. In(t, from, numeric) => NumberEnd(t, from) = Fail
        <4> SUFFICES ASSUME In(t, from, numeric) PROVE NumberEnd(t, from) = Fail
          OBVIOUS
        <4>1. t[from] \in numeric
          BY DEF In
        <4>2. Len(s) = 2 /\ s[1] = "-" /\ s[2] \in {"nan", "inf"}
          BY <2>2, <3>1, <3>2, <4>1
        <4>3. t[from + 1] = s[2]
          <5> DEFINE two == 2
          <5>1. two \in 1 .. Len(s) /\ from - 1 + two = from + 1
            BY <1>3, <4>2
          <5>2. \A j \in 1 .. Len(s) : t[from - 1 + j] = s[j]
            BY <2>1 DEF Spelled, Spells
          <5> QED
            BY <5>1, <5>2
        <4>4. ~In(t, from + 1, DigitSet)
          BY <3>2, <4>2, <4>3 DEF In
        <4> QED
          BY <2>2, <4>2, <4>4 DEF NumberEnd
      <3>7. ~At(t, from, Quote) /\ ~At(t, from, brace) /\ ~At(t, from, bracket) /\ ~In(t, from, words)
        BY <1>4, <3>4 DEF At, In
      <3>8. ~Taken(t, e)
        BY <2>1, <2>6 DEF Taken
      <3> QED
        BY <1>1, <3>5, <3>6, <3>7, <3>8 DEF from
    <2> QED
      BY <2>1, <2>4, <2>5, <2>6 DEF Simple
  <1> QED
    BY <1>6, <1>7 DEF ValueAt

(* parse_string takes the values that are strings, and no others.          *)
LEMMA StringIsParsed ==
    ASSUME NEW t, IsText(t), NEW e, ValueAt(t, e), Ended(t, e.to)
    PROVE  /\ At(t, e.from, Quote) =>
                /\ ParseString(t, e.from) = [end |-> e.to, span |-> <<e.from + 1, e.to - 1>>]
                /\ StringEnd(t, e.from + 1) = e.to
                /\ e.from + 1 < e.to
           /\ ~At(t, e.from, Quote) => ParseString(t, e.from) = [end |-> Fail, span |-> NoSpan]
  <1> DEFINE from == e.from
             to == e.to
  <1>1. SkipWs(t, from) = from
    BY ValueIsSkipped
  <1>2. Stretch(t, from, to)
    BY DEF ValueAt
  <1> HIDE DEF from, to
  <1>3. CASE At(t, from, Quote)
    <2>1. from \in DOMAIN t /\ t[from] = Quote /\ to # Fail /\ from \in Nat
      BY <1>2, <1>3 DEF At, Stretch, Fail
    <2>2. Enclosed(t, e)
      <3>1. CASE Enclosed(t, e)
        BY <3>1
      <3>2. CASE SpelledOut(t, e)
        <4>1. PICK s : /\ Spelled(t, from, to, s)
                       /\ Simple(s) \/ (e.op = "double" /\ s \in NotFinite)
          BY <3>2 DEF SpelledOut, from, to
        <4>2. t[from] = s[1] /\ Len(s) >= 1 /\ Len(s) \in Nat
          BY <4>1, SpelledBytes
        <4>3. IsNumber(s) => t[from] \in NumberBytes
          <5>1. from \in from .. to - 1
            BY <1>2 DEF Stretch
          <5> QED
            BY <4>1, <5>1, NumberBegins
        <4>4. (\E w \in WordSet : s = <<w>>) => s[1] \in WordSet
          OBVIOUS
        <4>5. Quote \in Structure /\ \A w \in WordSet : w \notin Structure
          BY WordIsPlain DEF Structure, WordSet
        <4>6. s \in NotFinite => s[1] \notin Structure
          <5>1. 1 \in 1 .. Len(s)
            BY <4>2
          <5> QED
            BY <5>1, NotFiniteIsPlain
        <4>7. FALSE
          BY <2>1, <4>1, <4>2, <4>3, <4>4, <4>5, <4>6, NumberBytesArePlain DEF Simple
        <4> QED
          BY <4>7
      <3> QED
        BY <3>1, <3>2 DEF ValueAt
    <2>3. PICK o \in Stacks : Encloses(OpenAt(t), o, from, to)
      BY <2>2 DEF Enclosed, from, to
    <2>4. SkipString(t, from) = to /\ from + 1 < to /\ StringEnd(t, from + 1) = to
      BY <1>2, <1>3, <2>3, OpenAtRuns, EnclosedStringEnds
    <2>5. ParseString(t, from) = [end |-> to, span |-> <<from + 1, to - 1>>]
      BY <1>1, <2>1, <2>4 DEF ParseString
    <2> QED
      BY <1>3, <2>4, <2>5 DEF from, to
  <1>4. CASE ~At(t, from, Quote)
    <2>1. SkipString(t, from) = Fail
      BY <1>4 DEF SkipString
    <2>2. ParseString(t, from) = [end |-> Fail, span |-> NoSpan]
      BY <1>1, <2>1 DEF ParseString
    <2> QED
      BY <1>4, <2>2 DEF from
  <1> QED
    BY <1>3, <1>4

(* A value that is written with digits only.                               *)
DigitsStart(t, e) == IF At(t, e.from, "-") THEN e.from + 1 ELSE e.from
AllDigits(t, e) ==
    DigitsStart(t, e) < e.to /\ \A q \in DigitsStart(t, e) .. e.to - 1 : t[q] \in DigitSet
Magnitude(t, e) == Decimal(t, DigitsStart(t, e), e.to)

(* What begins like an int is a number.                                    *)
LEMMA BeginsLikeInt ==
    ASSUME NEW t, IsText(t), NEW e, ValueAt(t, e), Ended(t, e.to), In(t, DigitsStart(t, e), DigitSet)
    PROVE  \E s : Spelled(t, e.from, e.to, s) /\ IsNumber(s)
  <1> DEFINE from == e.from
             to == e.to
             minus == "-"
             first == DigitsStart(t, e)
  <1>1. Stretch(t, from, to)
    BY DEF ValueAt
  <1>2. first = IF At(t, from, minus) THEN from + 1 ELSE from
    BY DEF DigitsStart
  <1>3. minus \notin Structure \cup WordSet /\ \A c \in DigitSet : c \notin Structure \cup WordSet
    <2>1. \A c \in NumberBytes : c \notin Structure
      BY NumberBytesArePlain
    <2>2. \A c \in NumberBytes : c \notin WordSet
      BY NumberBytesApart DEF WordSet
    <2> QED
      BY <2>1, <2>2 DEF NumberBytes
  <1>4. \A c \in {"nan", "inf"} : c \notin DigitSet /\ c # minus
    <2>1. \A c \in DigitSet : c \in {"0", "1", "2", "3", "4", "5", "6", "7", "8", "9"}
      BY DEF DigitSet, Digits
    <2> QED
      BY <2>1
  <1> HIDE DEF minus
  <1>5. t[from] = minus \/ t[from] \in DigitSet
    BY <1>2 DEF At, In
  <1>6. ~Enclosed(t, e)
    <2>1. Enclosed(t, e) => t[from] \in Structure
      BY DEF Enclosed, In, Structure
    <2> QED
      BY <1>3, <1>5, <2>1
  <1>7. PICK s : /\ Spelled(t, from, to, s)
                 /\ Simple(s) \/ (e.op = "double" /\ s \in NotFinite)
    BY <1>6 DEF ValueAt, SpelledOut
  <1> HIDE DEF from, to, first
  <1>8. t[from] = s[1] /\ Len(s) >= 1 /\ Len(s) \in Nat /\ from \in Nat \ {0} /\ to = from + Len(s) /\ from \in DOMAIN t
    BY <1>7, SpelledBytes
  <1>9. ~(\E w \in WordSet : s = <<w>>)
    <2>1. (\E w \in WordSet : s = <<w>>) => s[1] \in WordSet
      OBVIOUS
    <2> QED
      BY <1>3, <1>5, <1>8, <2>1
  <1>10. s \notin NotFinite
    <2> SUFFICES ASSUME s \in NotFinite PROVE FALSE
      OBVIOUS
    <2>1. \/ Len(s) = 1 /\ s[1] \in {"nan", "inf"}
          \/ Len(s) = 2 /\ s[1] = minus /\ s[2] \in {"nan", "inf"}
      BY NotFiniteHas DEF minus
    <2>2. Len(s) = 2 /\ s[1] = minus /\ s[2] \in {"nan", "inf"}
      BY <1>4, <1>5, <1>8, <2>1
    <2>3. first = from + 1
      BY <1>2, <1>8, <2>2 DEF At
    <2>4. t[from + 1] = s[2]
      <3> DEFINE two == 2
      <3>1. two \in 1 .. Len(s) /\ from - 1 + two = from + 1
        BY <1>8, <2>2
      <3>2. \A j \in 1 .. Len(s) : t[from - 1 + j] = s[j]
        BY <1>7 DEF Spelled, Spells
      <3> QED
        BY <3>1, <3>2
    <2>5. t[first] \in DigitSet
      BY DEF In, first
    <2> QED
      BY <1>4, <2>2, <2>3, <2>4, <2>5
  <1> QED
    BY <1>7, <1>9, <1>10 DEF Simple, from, to

(* parse_int takes the values written with digits only that are in range.  *)
LEMMA IntIsParsed ==
    ASSUME NEW t, IsText(t), NEW e, ValueAt(t, e), Ended(t, e.to)
    PROVE  /\ AllDigits(t, e) =>
                /\ Magnitude(t, e) \in Nat
                /\ ParseInt(t, e.from) =
                     IF Magnitude(t, e) > IntMax THEN [end |-> Fail, num |-> 0]
                     ELSE [end |-> e.to, num |-> IF At(t, e.from, "-") THEN -Magnitude(t, e)
                                                 ELSE Magnitude(t, e)]
           /\ ~AllDigits(t, e) => Behind(t)[ParseInt(t, e.from).end] = Fail
  <1> DEFINE from == e.from
             to == e.to
             first == DigitsStart(t, e)
             end == SkipAll(t, first, DigitSet)
             lt == Len(t)
  <1>1. SkipWs(t, from) = from
    BY ValueIsSkipped
  <1>2. Stretch(t, from, to)
    BY DEF ValueAt
  <1>3. ParseInt(t, from) =
          IF ~In(t, first, DigitSet) \/ Decimal(t, first, end) > IntMax
          THEN [end |-> Fail, num |-> 0]
          ELSE [end |-> end, num |-> IF At(t, from, "-") THEN -Decimal(t, first, end)
                                     ELSE Decimal(t, first, end)]
    BY <1>1 DEF ParseInt, DigitsStart
  <1>4. first \in {from, from + 1}
    BY DEF DigitsStart
  <1> HIDE DEF from, to, first
  <1>5. /\ from \in Nat \ {0} /\ to \in Nat /\ from < to /\ to <= lt + 1 /\ lt \in Nat /\ DOMAIN t = 1 .. lt
        /\ first \in Nat \ {0} /\ first <= to
    BY <1>2, <1>4 DEF Stretch, IsText
  <1>6. to <= lt => t[to] \in Enders
    BY DEF Ended, to
  <1>7. CASE AllDigits(t, e)
    <2>1. first < to /\ \A q \in first .. to - 1 : t[q] \in DigitSet
      BY <1>7 DEF AllDigits, first, to
    <2>2. In(t, first, DigitSet)
      <3>1. first \in first .. to - 1 /\ first \in 1 .. lt
        BY <1>5, <2>1
      <3> QED
        BY <1>5, <2>1, <3>1 DEF In
    <2>3. to = lt + 1 \/ t[to] \notin DigitSet
      <3>1. to <= lt => t[to] \notin DigitSet
        BY <1>6, DigitsAreNoEnders
      <3> QED
        BY <1>5, <3>1
    <2>4. end = to
      BY <1>5, <2>1, <2>3, SkipAllIs
    <2>5. Decimal(t, first, to) \in Nat
      BY <1>5, <2>1, DecimalType
    <2> HIDE DEF end
    <2> QED
      BY <1>3, <1>7, <2>2, <2>4, <2>5 DEF from, to, first, Magnitude
  <1>8. CASE ~AllDigits(t, e)
    <2>1. Behind(t)[Fail] = Fail
      BY DEF Behind, Fail
    <2>2. CASE ~In(t, first, DigitSet)
      BY <1>3, <1>8, <2>1, <2>2 DEF from
    <2>3. CASE In(t, first, DigitSet)
      <3>1. PICK s : Spelled(t, from, to, s) /\ IsNumber(s)
        BY <2>3, BeginsLikeInt DEF first, from, to
      <3>2. \A q \in from .. to - 1 : t[q] \in NumberBytes
        BY <3>1, NumberBegins
      <3>3. first < to
        <4>1. first \in 1 .. lt /\ t[first] \in DigitSet
          BY <1>5, <2>3 DEF In
        <4>2. ASSUME first = to PROVE FALSE
          <5>1. to <= lt /\ t[to] \in DigitSet
            BY <1>5, <4>1, <4>2
          <5> QED
            BY <1>6, <5>1, DigitsAreNoEnders
        <4> QED
          BY <1>5, <4>2
      <3>4. end \in Nat /\ end <= lt + 1 /\ first <= end /\ \A q \in first .. end - 1 : t[q] \in DigitSet
        BY <1>5, SkipAllBounds
      <3>5. end < lt + 1 => t[end] \notin DigitSet
        <4>1. ASSUME end < lt + 1, t[end] \in DigitSet PROVE FALSE
          <5>1. SkipAll(t, end, DigitSet) # end
            BY <3>4, <4>1, SkipAllBounds
          <5>2. SkipAll(t, first, DigitSet) = end
            OBVIOUS
          <5> HIDE DEF end
          <5> DEFINE stops == {lt + 1} \cup {q \in first .. lt : t[q] \notin DigitSet}
          <5>3. end = Min(stops)
            BY <5>2 DEF SkipAll
          <5>4. stops \subseteq Nat /\ stops # {}
            BY <1>5
          <5>5. end \in stops
            BY <5>3, <5>4, MinIsLeast
          <5> QED
            BY <1>5, <3>4, <4>1, <5>5
        <4> QED
          BY <4>1
      <3> HIDE DEF end
      <3>6. end < to
        <4>1. ASSUME to <= end PROVE FALSE
          <5>1. \A q \in first .. to - 1 : q \in first .. end - 1
            BY <1>5, <3>4, <4>1
          <5> QED
            BY <1>8, <3>3, <3>4, <5>1 DEF AllDigits, first, to
        <4> QED
          BY <1>5, <3>4, <4>1
      <3>7. end \in from .. to - 1 /\ end \in DOMAIN t /\ end # Fail
        BY <1>4, <1>5, <3>4, <3>6 DEF Fail
      <3>8. t[end] \notin Spaces /\ t[end] \notin Enders
        BY <3>2, <3>7, NumberBytesApart
      <3>9. SkipWs(t, end) = end
        BY <3>4, <3>7, <3>8, NoSpace
      <3>10. ~In(t, end, {",", "}"})
        BY <3>8 DEF In, Enders
      <3>11. Behind(t)[end] = Fail
        BY <3>4, <3>9, <3>10 DEF Behind
      <3>12. ParseInt(t, from).end \in {Fail, end}
        BY <1>3
      <3> QED
        BY <1>8, <2>1, <3>11, <3>12 DEF from
    <2> QED
      BY <2>2, <2>3
  <1> QED
    BY <1>7, <1>8

LEMMA MaxIsGreatest ==
    ASSUME NEW S, S \subseteq Nat, S # {}, NEW n \in Nat, \A x \in S : x <= n
    PROVE  Max(S) \in S /\ \A x \in S : x <= Max(S)
  <1> DEFINE D == {n - x : x \in S}
  <1>1. D \subseteq Nat /\ D # {}
    <2>1. \A x \in S : x \in Nat /\ x <= n /\ n - x \in Nat
      OBVIOUS
    <2>2. D \subseteq Nat
      BY <2>1
    <2>3. PICK x \in S : TRUE
      OBVIOUS
    <2>4. n - x \in D
      OBVIOUS
    <2> QED
      BY <2>2, <2>4
  <1>2. PICK d \in D : \A k \in D : d <= k
    <2> HIDE DEF D
    <2> QED
      BY <1>1, Least
  <1>3. PICK m \in S : d = n - m
    BY DEF D
  <1>4. \A x \in S : x <= m
    <2> TAKE x \in S
    <2>1. n - x \in D
      OBVIOUS
    <2> HIDE DEF D
    <2>2. d <= n - x
      BY <1>2, <2>1
    <2> QED
      BY <1>3, <2>2
  <1>5. \E y \in S : \A x \in S : y >= x
    BY <1>3, <1>4
  <1> HIDE DEF D
  <1>6. Max(S) \in S /\ \A x \in S : Max(S) >= x
    BY <1>5 DEF Max
  <1> QED
    BY <1>6

(* A text without structure.                                               *)
LEMMA SpelledOutIsPlain ==
    ASSUME NEW t, IsText(t), NEW e, SpelledOut(t, e)
    PROVE  \A q \in e.from .. e.to - 1 : t[q] \notin Structure \cup Enders
  <1>1. PICK s : Spelled(t, e.from, e.to, s) /\ (Simple(s) \/ s \in NotFinite)
    BY DEF SpelledOut
  <1>2. \A q \in e.from .. e.to - 1 : q - e.from + 1 \in 1 .. Len(s) /\ t[q] = s[q - e.from + 1]
    BY <1>1, SpelledBytes
  <1>3. CASE IsNumber(s)
    <2>1. \A q \in e.from .. e.to - 1 : t[q] \in NumberBytes
      BY <1>1, <1>3, NumberBegins
    <2> QED
      BY <2>1, NumberBytesArePlain, NumberBytesApart
  <1>4. CASE \E w \in WordSet : s = <<w>>
    <2>1. PICK w \in WordSet : s = <<w>>
      BY <1>4
    <2>2. w \notin Structure \cup Enders
      BY WordIsPlain DEF WordSet
    <2>3. \A i \in 1 .. Len(s) : s[i] \notin Structure \cup Enders
      BY <2>1, <2>2
    <2> QED
      BY <1>2, <2>3
  <1>5. CASE s \in NotFinite
    BY <1>2, <1>5, NotFiniteIsPlain
  <1> QED
    BY <1>1, <1>3, <1>4, <1>5 DEF Simple

(* extract_value_span takes a value to its end, of whatever kind it is.    *)
LEMMA ValueIsExtracted ==
    ASSUME NEW t, IsText(t), NEW e, ValueAt(t, e), Ended(t, e.to),
           NEW limit \in Nat, e.to < limit, limit <= Len(t) + 1, t[limit - 1] # Backslash
    PROVE  RawValueEnd(t, e.from, limit) = e.to
  <1> DEFINE at == OpenAt(t)
             from == e.from
             to == e.to
             brace == "{"
             bracket == "["
             ends == {limit} \cup {q \in from .. limit - 1 : t[q] \in Enders}
  <1>1. Runs(t, at)
    BY OpenAtRuns
  <1>2. Stretch(t, from, to) /\ from \in DOMAIN t /\ from \in Nat /\ Len(t) \in Nat
    <2>1. Stretch(t, from, to)
      BY DEF ValueAt
    <2> HIDE DEF from, to
    <2> QED
      BY <2>1 DEF Stretch, IsText
  <1>3. /\ brace \in Openers /\ bracket \in Openers /\ Openers = {brace, bracket} /\ Quote \notin Openers
        /\ brace # bracket /\ brace # Quote /\ bracket # Quote
        /\ "}" \in Closers /\ "]" \in Closers /\ Opener("}") = brace /\ Opener("]") = bracket
    BY DEF Openers, Closers, Opener, Quote
  <1>4. /\ t[from] = brace => RawValueEnd(t, from, limit) = RawContainerEnd(t, from, limit, brace, "}")
        /\ t[from] = bracket => RawValueEnd(t, from, limit) = RawContainerEnd(t, from, limit, bracket, "]")
        /\ t[from] = Quote => RawValueEnd(t, from, limit) = RawStringEnd(t, from, limit)
        /\ t[from] \notin {brace, bracket, Quote} => RawValueEnd(t, from, limit) = Min(ends)
    BY <1>3 DEF RawValueEnd, Enders
  <1>5. CASE Enclosed(t, e)
    <2>1. PICK o \in Stacks : Encloses(at, o, from, to)
      BY <1>5 DEF Enclosed
    <2>2. t[from] = Quote \/ t[from] \in Openers
      BY <1>5 DEF Enclosed, In
    <2> HIDE DEF at, from, to, brace, bracket
    <2>3. ASSUME NEW open \in Openers, NEW close \in Closers, Opener(close) = open, t[from] = open
          PROVE  RawContainerEnd(t, from, limit, open, close) = to
      <3>1. At(t, from, open)
        BY <1>2, <2>3 DEF At
      <3>2. to <= limit
        BY <1>2 DEF Stretch, to
      <3> QED
        BY <1>1, <1>2, <2>1, <2>3, <3>1, <3>2, SearchesEndContainers
    <2>4. CASE t[from] = Quote
      <3>1. At(t, from, Quote)
        BY <1>2, <2>4 DEF At
      <3>2. StringEnd(t, from + 1) = to
        BY <1>1, <1>2, <2>1, <3>1, EnclosedStringEnds
      <3> DEFINE p == from + 1
      <3>3. to # Fail /\ to <= limit /\ p \in Nat \ {0} /\ p - 1 = from
        BY <1>2 DEF Stretch, Fail, to
      <3>5. StringEnd(t, p) = to
        BY <3>2
      <3> HIDE DEF p
      <3>6. RawStringEnd(t, p - 1, limit) = StringEnd(t, p)
        BY <3>3, <3>5, SearchesEndStrings
      <3>4. RawStringEnd(t, from, limit) = to
        BY <3>3, <3>5, <3>6
      <3> QED
        BY <1>4, <2>4, <3>4 DEF from, to
    <2>5. CASE t[from] = brace
      BY <1>3, <1>4, <2>3, <2>5 DEF from, to
    <2>6. CASE t[from] = bracket
      BY <1>3, <1>4, <2>3, <2>6 DEF from, to
    <2> QED
      BY <1>3, <2>2, <2>4, <2>5, <2>6
  <1>6. CASE SpelledOut(t, e)
    <2>1. \A q \in from .. to - 1 : t[q] \notin Structure \cup Enders
      BY <1>6, SpelledOutIsPlain
    <2>2. to < limit
      OBVIOUS
    <2>3. t[to] \in Enders
      BY <1>2 DEF Ended, Stretch
    <2> HIDE DEF from, to, ends
    <2>4. from \in from .. to - 1
      BY <1>2 DEF Stretch
    <2>5. t[from] \notin {brace, bracket, Quote}
      BY <1>3, <2>1, <2>4 DEF Structure
    <2>6. ends \subseteq Nat /\ ends # {} /\ to \in ends
      BY <1>2, <2>2, <2>3 DEF Stretch, ends
    <2>7. Min(ends) \in ends /\ Min(ends) <= to
      BY <2>6, MinIsLeast
    <2>8. Min(ends) = to
      <3> DEFINE m == Min(ends)
      <3>1. m \in ends /\ m <= to
        BY <2>7
      <3> HIDE DEF m
      <3>2. m \in from .. limit - 1 /\ t[m] \in Enders
        BY <1>2, <2>2, <3>1 DEF ends, Stretch
      <3>3. ~(m < to)
        <4> SUFFICES ASSUME m < to PROVE FALSE
          OBVIOUS
        <4>1. m \in from .. to - 1
          BY <1>2, <3>2 DEF Stretch
        <4> QED
          BY <2>1, <3>2, <4>1
      <3> QED
        BY <1>2, <3>1, <3>2, <3>3 DEF m, Stretch
    <2> QED
      BY <1>4, <2>5, <2>8 DEF from, to
  <1> QED
    BY <1>5, <1>6 DEF ValueAt

(* A stretch of natural numbers is bounded.                                *)
LEMMA BoundedStretch ==
    ASSUME NEW f, NEW p \in Nat, NEW e \in Nat, p <= e, \A q \in p .. e : f[q] \in Nat
    PROVE  \E n \in Nat : \A q \in p .. e : f[q] <= n
  <1> DEFINE good(m) == p + m <= e => \E n \in Nat : \A q \in p .. p + m : f[q] <= n
             P == {m \in Nat : good(m)}
  <1>1. 0 \in P
    <2>1. p \in p .. e /\ f[p] \in Nat
      OBVIOUS
    <2>2. \A q \in p .. p + 0 : f[q] <= f[p]
      <3>1. \A q \in p .. p + 0 : q = p
        OBVIOUS
      <3> QED
        BY <2>1, <3>1
    <2> QED
      BY <2>1, <2>2
  <1>2. ASSUME NEW m \in Nat, m \in P PROVE m + 1 \in P
    <2> SUFFICES ASSUME p + (m + 1) <= e PROVE \E n \in Nat : \A q \in p .. p + (m + 1) : f[q] <= n
      OBVIOUS
    <2>1. PICK n \in Nat : \A q \in p .. p + m : f[q] <= n
      BY <1>2
    <2> DEFINE x == f[p + (m + 1)]
    <2>2. p + (m + 1) \in p .. e /\ x \in Nat
      OBVIOUS
    <2>3. \A q \in p .. p + (m + 1) : q \in p .. p + m \/ q = p + (m + 1)
      OBVIOUS
    <2>4. \A q \in p .. p + (m + 1) : (f[q] <= n) \/ f[q] = x
      BY <2>1, <2>3
    <2> HIDE DEF x
    <2>5. \A q \in p .. p + (m + 1) : q \in p .. e
      OBVIOUS
    <2>6. \A q \in p .. p + (m + 1) : f[q] <= n + x
      <3> TAKE q \in p .. p + (m + 1)
      <3>1. f[q] \in Nat
        BY <2>5
      <3>2. f[q] <= n \/ f[q] = x
        BY <2>4
      <3> QED
        BY <2>2, <3>1, <3>2
    <2> QED
      BY <2>2, <2>6
  <1> HIDE DEF good
  <1>3. Nat \subseteq P
    <2> HIDE DEF P
    <2> QED
      BY <1>1, <1>2, Induction
  <1>4. e - p \in Nat /\ p + (e - p) = e
    OBVIOUS
  <1>5. good(e - p)
    BY <1>3, <1>4
  <1> QED
    BY <1>4, <1>5 DEF good

LEMMA OpenAtStands ==
    ASSUME NEW t, IsText(t), NEW q \in 1 .. Len(t) + 1
    PROVE  OpenAt(t)[q].open \in Stacks
  <1>1. OpenAt(t)[q] \in Standings
    BY OpenAtRuns DEF Runs
  <1>2. <<>> \in Stacks
    BY DEF Stacks
  <1>3. PICK s : s = OpenAt(t)[q]
    OBVIOUS
  <1>4. \/ s = Broken
        \/ \E o \in Stacks : s \in {Plain(o), InString(o), InEscape(o)}
    BY <1>1, <1>3 DEF Standings
  <1>5. s.open \in Stacks
    BY <1>2, <1>4, StandingsDiffer
  <1> QED
    BY <1>3, <1>5

(* Depth, which is told from the text, is what the scan counts.            *)
LEMMA DepthIsCounted ==
    ASSUME IsText(buffer), NEW from, NEW to, Stretch(buffer, from, to), NEW open
    PROVE  Depth(<<from, to>>, open) <= MaxDepth
             <=> Shallow(OpenAt(buffer), Len(OpenAt(buffer)[from].open), open, from, to)
  <1> DEFINE at == OpenAt(buffer)
             n == Len(at[from].open)
             own(q) == Own(at[q].open, n, open)
             S == {0} \cup {own(q) : q \in from .. to}
             f == [q \in from .. to |-> own(q)]
  <1>1. from \in Nat \ {0} /\ to \in Nat /\ from < to /\ to <= Len(buffer) + 1 /\ Len(buffer) \in Nat
    BY DEF Stretch, IsText
  <1>2. \A q \in from .. to : at[q].open \in Stacks
    <2>1. \A q \in from .. to : q \in 1 .. Len(buffer) + 1
      BY <1>1
    <2> QED
      BY <2>1, OpenAtStands
  <1>3. Depth(<<from, to>>, open) = Max(S)
    BY DEF Depth, Own, Beyond
  <1> HIDE DEF at
  <1>4. n \in Nat
    <2>1. from \in from .. to
      BY <1>1
    <2>2. at[from].open \in Seq(Openers)
      BY <1>2, <2>1 DEF Stacks
    <2> QED
      BY <2>2
  <1> HIDE DEF n
  <1>5. \A q \in from .. to : own(q) \in Nat
    BY <1>2, <1>4, OwnType
  <1> HIDE DEF own
  <1>6. PICK m \in Nat : \A q \in from .. to : f[q] <= m
    <2>1. \A q \in from .. to : f[q] \in Nat
      BY <1>5
    <2>2. from \in Nat /\ to \in Nat /\ from <= to
      BY <1>1
    <2> HIDE DEF f
    <2>3. \E m \in Nat : \A q \in from .. to : f[q] <= m
      BY ONLY <2>1, <2>2, BoundedStretch
    <2> QED
      BY <2>3
  <1>7. S \subseteq Nat /\ S # {} /\ \A x \in S : x <= m
    <2>1. \A q \in from .. to : own(q) <= m
      BY <1>6
    <2> QED
      BY <1>5, <2>1
  <1>8. Max(S) \in S /\ \A x \in S : x <= Max(S)
    <2> HIDE DEF S
    <2> QED
      BY <1>7, MaxIsGreatest
  <1>9. MaxDepth \in Nat
    BY ReaderLimits
  <1>10. Max(S) <= MaxDepth <=> \A q \in from .. to : own(q) <= MaxDepth
    <2> DEFINE x == Max(S)
    <2>1. x \in Nat /\ (x = 0 \/ \E q \in from .. to : x = own(q))
      BY <1>7, <1>8
    <2>2. \A q \in from .. to : own(q) <= x
      BY <1>8
    <2> HIDE DEF x
    <2>3. x <= MaxDepth => \A q \in from .. to : own(q) <= MaxDepth
      BY <1>5, <1>9, <2>1, <2>2
    <2>4. (\A q \in from .. to : own(q) <= MaxDepth) => x <= MaxDepth
      BY <1>5, <1>9, <2>1
    <2> QED
      BY <2>3, <2>4 DEF x
  <1>11. Shallow(at, n, open, from, to) <=> \A q \in from .. to : own(q) <= MaxDepth
    BY DEF Shallow, own
  <1> HIDE DEF S
  <1> QED
    BY <1>3, <1>10, <1>11 DEF at, n

(* The reader takes the values that are readable.                          *)
LEMMA ReadableIsTaken ==
    ASSUME IsText(buffer), NEW i, ValueAt(buffer, ledger[i])
    PROVE  AnyValueReadable(i) <=> Taken(buffer, ledger[i])
  <1>1. Stretch(buffer, ledger[i].from, ledger[i].to)
    BY DEF ValueAt
  <1>2. \A open : Depth(Span(i), open) <= MaxDepth
          <=> Shallow(OpenAt(buffer), Len(OpenAt(buffer)[ledger[i].from].open), open,
                      ledger[i].from, ledger[i].to)
    BY <1>1, DepthIsCounted DEF Span
  <1> QED
    BY <1>2 DEF AnyValueReadable, Taken

-----------------------------------------------------------------------------
(* A text that is written goes on where it left off: what was a value      *)
(* stays one, what is put behind is one, and what is closed becomes one.   *)

(* What is broken stays broken.                                            *)
LEMMA NothingBroken ==
    ASSUME NEW t, IsText(t), NEW at, Runs(t, at), at[Len(t) + 1] # Broken
    PROVE  Nests(t, at)
  <1> DEFINE l == Len(t)
  <1>1. l \in Nat
    BY DEF IsText
  <1> SUFFICES ASSUME NEW q \in 1 .. l + 1, at[q] = Broken PROVE FALSE
    BY DEF Nests
  <1>2. \A r \in 1 .. l : at[r + 1] = Opened(at[r], t[r])
    BY DEF Runs
  <1>3. at[l + 1] # Broken
    OBVIOUS
  <1> HIDE DEF l
  <1> DEFINE P == {d \in Nat : q + d <= l + 1 => at[q + d] = Broken}
  <1>4. 0 \in P
    OBVIOUS
  <1>5. ASSUME NEW d \in Nat, d \in P PROVE d + 1 \in P
    <2> SUFFICES ASSUME q + (d + 1) <= l + 1 PROVE at[q + (d + 1)] = Broken
      OBVIOUS
    <2> DEFINE r == q + d
    <2>1. r \in 1 .. l /\ r + 1 = q + (d + 1) /\ q + d <= l + 1
      BY <1>1
    <2>2. at[r] = Broken
      BY <1>5, <2>1
    <2> HIDE DEF r
    <2>4. at[r + 1] = Opened(at[r], t[r])
      BY <1>2, <2>1
    <2>3. at[r + 1] = Broken
      BY <2>2, <2>4, OpenedBy
    <2> QED
      BY <2>1, <2>3
  <1>6. Nat \subseteq P
    <2> HIDE DEF P
    <2> QED
      BY <1>4, <1>5, Induction
  <1>7. l + 1 - q \in Nat /\ q + (l + 1 - q) = l + 1
    BY <1>1
  <1>8. l + 1 - q \in P
    <2> HIDE DEF P
    <2> QED
      BY <1>6, <1>7
  <1>9. at[l + 1] = Broken
    BY <1>1, <1>7, <1>8
  <1> QED
    BY <1>3, <1>9

(* A run that is not broken, with more brackets open around it.            *)
DeeperRun(t, at, o) == [q \in 1 .. Len(t) + 1 |-> Deeper(o, at[q])]

StandsDeeper(t, at, o, h) ==
    \A q \in 1 .. Len(t) + 1 :
        /\ at[q].open \in Stacks
        /\ h[q].open = o \o at[q].open
        /\ \A y : at[q] = Plain(y) => h[q] = Plain(o \o y)
        /\ \A y : h[q] = Plain(y) => at[q] = Plain(at[q].open)

LEMMA DeeperRuns ==
    ASSUME NEW t, IsText(t), NEW at, Nests(t, at), NEW o \in Stacks, NEW h,
           h = DeeperRun(t, at, o)
    PROVE  Nests(t, h) /\ StandsDeeper(t, at, o, h)
  <1> DEFINE l == Len(t)
  <1>1. l \in Nat
    BY DEF IsText
  <1>2. /\ at \in [1 .. l + 1 -> Standings] /\ \A q \in 1 .. l : at[q + 1] = Opened(at[q], t[q])
        /\ \A q \in 1 .. l + 1 : at[q] # Broken /\ h[q] = Deeper(o, at[q])
    BY DEF Nests, Runs, DeeperRun
  <1>3. h = [q \in 1 .. l + 1 |-> h[q]]
    BY DEF DeeperRun
  <1> HIDE DEF l
  <1>4. ASSUME NEW q \in 1 .. l + 1
        PROVE  /\ h[q] \in Standings /\ h[q] # Broken
               /\ at[q].open \in Stacks /\ h[q].open = o \o at[q].open
               /\ \A x : at[q] = Plain(x) => h[q] = Plain(o \o x)
               /\ \A x : h[q] = Plain(x) => at[q] = Plain(at[q].open)
    <2>1. PICK x \in Stacks : at[q] \in {Plain(x), InString(x), InEscape(x)}
      <3>1. at[q] \in Standings /\ at[q] # Broken
        BY <1>2
      <3> QED
        BY <3>1 DEF Standings
    <2> DEFINE y == o \o x
    <2>2. y \in Stacks
      BY DEF Stacks
    <2>3. /\ at[q] = Plain(x) => h[q] = Plain(y)
          /\ at[q] = InString(x) => h[q] = InString(y)
          /\ at[q] = InEscape(x) => h[q] = InEscape(y)
      BY <1>2, DeeperIs
    <2>4. at[q].open = x
      BY <2>1, StandingsDiffer
    <2>5. \A z : InString(z) # Broken /\ InEscape(z) # Broken /\ Plain(z) # Broken
      BY DEF InString, InEscape, Broken, Plain
    <2>6. \A z : at[q] = Plain(z) => z = x
      BY <2>4, StandingsDiffer
    <2>7. y = o \o at[q].open
      BY <2>4
    <2>8. \A z : z = x => o \o z = y
      OBVIOUS
    <2> HIDE DEF y
    <2>9. h[q].open = y
      BY <2>1, <2>3, StandingsDiffer
    <2>10. h[q] \in Standings /\ h[q] # Broken
      BY <2>1, <2>2, <2>3, <2>5 DEF Standings
    <2>11. \A z : at[q] = Plain(z) => h[q] = Plain(o \o z)
      BY <2>3, <2>6, <2>8
    <2>12. \A z : h[q] = Plain(z) => at[q] = Plain(at[q].open)
      BY <2>1, <2>3, <2>4, StandingsDiffer
    <2> QED
      BY <2>2, <2>4, <2>7, <2>9, <2>10, <2>11, <2>12
  <1>5. ASSUME NEW q \in 1 .. l PROVE h[q + 1] = Opened(h[q], t[q])
    <2>1. q \in 1 .. l + 1 /\ q + 1 \in 1 .. l + 1
      BY <1>1
    <2>2. at[q + 1] = Opened(at[q], t[q]) /\ at[q] \in Standings /\ at[q + 1] # Broken
      BY <1>2, <2>1
    <2> QED
      BY <1>2, <2>1, <2>2, OpenedWithin
  <1>6. h \in [1 .. l + 1 -> Standings]
    BY <1>3, <1>4
  <1>7. Nests(t, h)
    BY <1>4, <1>5, <1>6 DEF Nests, Runs, l
  <1> QED
    BY <1>4, <1>7 DEF l, StandsDeeper

(* Where texts are alike, so are their runs.                               *)
LEMMA RunsAlike ==
    ASSUME NEW t, IsText(t), NEW u, IsText(u), NEW a, NEW b, Runs(t, a), Runs(u, b),
           NEW d \in Nat, NEW n \in Nat, d + n <= Len(t), n <= Len(u),
           \A q \in 1 .. n : t[d + q] = u[q], a[d + 1] = b[1]
    PROVE  \A q \in 1 .. n + 1 : a[d + q] = b[q]
  <1> DEFINE lt == Len(t)
             lu == Len(u)
             P == {k \in Nat : k <= n => a[d + (k + 1)] = b[k + 1]}
  <1>1. lt \in Nat /\ lu \in Nat /\ d + n <= lt /\ n <= lu
    BY DEF IsText
  <1>2. /\ \A q \in 1 .. lt : a[q + 1] = Opened(a[q], t[q])
        /\ \A q \in 1 .. lu : b[q + 1] = Opened(b[q], u[q])
    BY DEF Runs
  <1> HIDE DEF lt, lu
  <1>3. 0 \in P
    OBVIOUS
  <1>4. ASSUME NEW k \in Nat, k \in P PROVE k + 1 \in P
    <2> SUFFICES ASSUME k + 1 <= n PROVE a[d + ((k + 1) + 1)] = b[(k + 1) + 1]
      OBVIOUS
    <2> DEFINE q == k + 1
    <2>1. q \in 1 .. n /\ q \in 1 .. lu /\ d + q \in 1 .. lt /\ d + (q + 1) = (d + q) + 1
      BY <1>1
    <2>2. a[d + q] = b[q]
      BY <1>4
    <2> HIDE DEF q
    <2>3. t[d + q] = u[q]
      BY <2>1
    <2>4. a[d + (q + 1)] = b[q + 1]
      BY <1>2, <2>1, <2>2, <2>3
    <2> QED
      BY <2>4 DEF q
  <1>5. Nat \subseteq P
    <2> HIDE DEF P
    <2> QED
      BY <1>3, <1>4, Induction
  <1> TAKE q \in 1 .. n + 1
  <1>6. q - 1 \in Nat /\ q - 1 <= n /\ (q - 1) + 1 = q
    OBVIOUS
  <1>7. q - 1 \in P
    <2> HIDE DEF P
    <2> QED
      BY <1>5, <1>6
  <1> QED
    BY <1>6, <1>7

LEMMA RunsBegin ==
    ASSUME NEW t, IsText(t), NEW u, IsText(u), NEW a, NEW b, Runs(t, a), Runs(u, b),
           NEW n \in Nat, n <= Len(t), n <= Len(u),
           \A q \in 1 .. n : t[q] = u[q], a[1] = b[1]
    PROVE  \A q \in 1 .. n + 1 : a[q] = b[q]
  <1> DEFINE z == 0
  <1>1. z \in Nat /\ z + n <= Len(t) /\ z + 1 = 1 /\ \A q \in Nat : z + q = q
    BY DEF IsText
  <1> HIDE DEF z
  <1>2. \A q \in 1 .. n : t[z + q] = u[q]
    BY <1>1
  <1>3. a[z + 1] = b[1]
    BY <1>1
  <1>4. \A q \in 1 .. n + 1 : a[z + q] = b[q]
    BY <1>1, <1>2, <1>3, RunsAlike
  <1> QED
    BY <1>1, <1>4

(* What stands open in a text that is continued, and in what is added.     *)
LEMMA OpenAtOfMore ==
    ASSUME NEW t, NEW x, Sequence(t), Sequence(x)
    PROVE  /\ \A q \in 1 .. Len(t) + 1 : OpenAt(t \o x)[q] = OpenAt(t)[q]
           /\ \A run : Runs(x, run) /\ run[1] = OpenAt(t)[Len(t) + 1] =>
                \A q \in 1 .. Len(x) + 1 : OpenAt(t \o x)[Len(t) + q] = run[q]
  <1> DEFINE u == t \o x
             lt == Len(t)
             lx == Len(x)
  <1>1. /\ lt \in Nat /\ lx \in Nat /\ Len(u) = lt + lx
        /\ \A i \in 1 .. lt : u[i] = t[i]
        /\ \A i \in 1 .. lx : u[lt + i] = x[i]
    BY ConcatBytes
  <1>2. IsText(t) /\ IsText(x) /\ IsText(u)
    BY SequenceIsText, SequenceConcat
  <1>3. Runs(t, OpenAt(t)) /\ Runs(u, OpenAt(u)) /\ OpenAt(t)[1] = Plain(<<>>) /\ OpenAt(u)[1] = Plain(<<>>)
    BY <1>2, OpenAtRuns
  <1> HIDE DEF u
  <1>4. \A q \in 1 .. lt + 1 : OpenAt(u)[q] = OpenAt(t)[q]
    <2> DEFINE a == OpenAt(u)
               b == OpenAt(t)
    <2>1. Runs(u, a) /\ Runs(t, b) /\ a[1] = b[1]
      BY <1>3
    <2>2. lt \in Nat /\ lt <= Len(u) /\ lt <= Len(t)
      BY <1>1
    <2>3. \A q \in 1 .. lt : u[q] = t[q]
      BY <1>1
    <2> HIDE DEF a, b, lt
    <2>4. \A q \in 1 .. lt + 1 : a[q] = b[q]
      BY ONLY <1>2, <2>1, <2>2, <2>3, RunsBegin
    <2> QED
      BY <2>4 DEF a, b
  <1>5. ASSUME NEW run, Runs(x, run), run[1] = OpenAt(t)[lt + 1]
        PROVE  \A q \in 1 .. lx + 1 : OpenAt(u)[lt + q] = run[q]
    <2>1. lt + 1 \in 1 .. lt + 1 /\ lt + lx <= Len(u) /\ lx <= Len(x)
      BY <1>1
    <2>2. OpenAt(u)[lt + 1] = run[1]
      BY <1>4, <1>5, <2>1
    <2> DEFINE a == OpenAt(u)
    <2>3. Runs(u, a) /\ a[lt + 1] = run[1]
      BY <1>3, <2>2
    <2> HIDE DEF lt, lx, a
    <2>4. \A q \in 1 .. lx + 1 : a[lt + q] = run[q]
      <3>1. lt \in Nat /\ lx \in Nat /\ lt + lx <= Len(u) /\ lx <= Len(x)
        BY <1>1, <2>1
      <3>2. \A q \in 1 .. lx : u[lt + q] = x[q]
        BY <1>1
      <3> QED
        BY ONLY <3>1, <3>2, <1>2, <1>5, <2>3, RunsAlike, SMTT(30)
    <2> QED
      BY <2>4 DEF a
  <1> QED
    BY <1>4, <1>5 DEF u

(* From outside of a string, with W open, the text x leads to outside of   *)
(* one with w open, and never closes what is open in W on the way.         *)
Above(x, W, w) ==
    \E run : /\ Runs(x, run) /\ run[1] = Plain(W) /\ run[Len(x) + 1] = Plain(w)
             /\ \A r \in 1 .. Len(x) : run[r] # Broken /\ Len(run[r].open) >= Len(W)

LEMMA LeadsAbove ==
    ASSUME NEW x, Sequence(x), NEW W \in Stacks, W # <<>>,
           \A o \in Stacks : o # <<>> => Leads(x, o, o, 1)
    PROVE  Above(x, W, W)
  <1> DEFINE f == Front(W)
             o == <<Last(W)>>
             l == Len(x)
  <1>1. /\ f \in Stacks /\ Last(W) \in Openers /\ W = Append(f, Last(W)) /\ Len(W) = Len(f) + 1 /\ Len(f) \in Nat
    <2>1. /\ f \in Seq(Openers) /\ Last(W) \in Openers /\ W = Append(f, Last(W)) /\ Len(f) = Len(W) - 1
          /\ Len(W) \in Nat
      BY FrontIs DEF Stacks
    <2> HIDE DEF f
    <2> QED
      BY <2>1 DEF Stacks
  <1>2. o \in Stacks /\ o # <<>> /\ f \o o = W
    <2> DEFINE c == Last(W)
    <2>1. c \in Openers /\ W = Append(f, c)
      BY <1>1
    <2> HIDE DEF c, f
    <2>2. <<c>> \in Seq(Openers) /\ <<c>> # <<>>
      BY <2>1
    <2>3. f \o <<c>> = Append(f, c)
      BY <1>1, <2>1 DEF Stacks
    <2> QED
      BY <2>1, <2>2, <2>3 DEF Stacks, c
  <1> HIDE DEF f, o
  <1>3. PICK at : /\ Runs(x, at) /\ at[1] = Plain(o) /\ at[l + 1] = Plain(o)
                  /\ \A r \in 1 .. l : at[r] # Broken /\ at[r].open # <<>>
    BY <1>2 DEF Leads
  <1>4. IsText(x) /\ l \in Nat
    BY SequenceIsText DEF IsText
  <1>5. Nests(x, at)
    BY <1>3, <1>4, NothingBroken, StandingsDiffer
  <1> DEFINE h == DeeperRun(x, at, f)
  <1>6. /\ Nests(x, h)
        /\ \A q \in 1 .. l + 1 : /\ at[q].open \in Stacks /\ h[q].open = f \o at[q].open
                                 /\ \A y : at[q] = Plain(y) => h[q] = Plain(f \o y)
    <2> HIDE DEF l
    <2>1. h = DeeperRun(x, at, f)
      OBVIOUS
    <2> HIDE DEF h
    <2>2. f \in Stacks /\ IsText(x)
      BY <1>1, <1>4
    <2>3. Nests(x, h) /\ StandsDeeper(x, at, f, h)
      BY ONLY <1>5, <2>1, <2>2, DeeperRuns
    <2> QED
      BY ONLY <2>3 DEF l, StandsDeeper
  <1> HIDE DEF h, l
  <1>7. 1 \in 1 .. l + 1 /\ l + 1 \in 1 .. l + 1 /\ \A r \in 1 .. l : r \in 1 .. l + 1
    BY <1>4
  <1>8. h[1] = Plain(W) /\ h[l + 1] = Plain(W)
    BY <1>2, <1>3, <1>6, <1>7
  <1>9. ASSUME NEW r \in 1 .. l PROVE h[r] # Broken /\ Len(h[r].open) >= Len(W)
    <2> DEFINE y == at[r].open
    <2>1. y \in Stacks /\ y # <<>> /\ h[r].open = f \o y
      BY <1>3, <1>6, <1>7
    <2> HIDE DEF y
    <2>2. Len(y) \in Nat /\ Len(y) >= 1 /\ Len(f \o y) = Len(f) + Len(y)
      BY <1>1, <2>1 DEF Stacks
    <2>3. Len(h[r].open) >= Len(W)
      BY <1>1, <2>1, <2>2
    <2>4. h[r] # Broken
      BY <1>6, <1>7 DEF Nests, l
    <2> QED
      BY <2>3, <2>4
  <1>10. Runs(x, h)
    BY <1>6 DEF Nests
  <1> QED
    BY <1>8, <1>9, <1>10 DEF Above, l

LEMMA BracketAbove ==
    ASSUME NEW c, NEW W \in Stacks, W # <<>>
    PROVE  /\ c \in Openers => Above(<<c>>, W, Append(W, c))
           /\ c \in Closers /\ Last(W) = Opener(c) => Above(<<c>>, W, Front(W))
  <1>1. ASSUME NEW w, Leads(<<c>>, W, w, 1) PROVE Above(<<c>>, W, w)
    <2> DEFINE l == Len(<<c>>)
    <2>1. l = 1
      OBVIOUS
    <2> HIDE DEF l
    <2>2. PICK at : /\ Runs(<<c>>, at) /\ at[1] = Plain(W) /\ at[l + 1] = Plain(w)
                    /\ \A r \in 1 .. l : at[r] # Broken
      BY <1>1 DEF Leads, l
    <2>3. Len(W) \in Nat
      BY DEF Stacks
    <2>4. \A r \in 1 .. l : r = 1 /\ at[r].open = W
      BY <2>1, <2>2, StandingsDiffer
    <2>5. \A r \in 1 .. l : Len(at[r].open) >= Len(W)
      BY <2>3, <2>4
    <2> QED
      BY <2>2, <2>5 DEF Above, l
  <1> QED
    BY <1>1, LeadsBracket

(* The container that begins at from, with o open around it, is still open.*)
OpenedAt(b, from, o) ==
    /\ o \in Stacks /\ from \in 1 .. Len(b) /\ b[from] \in Openers /\ OpenAt(b)[from] = Plain(o)
    /\ \A r \in from + 1 .. Len(b) + 1 : OpenAt(b)[r] # Broken /\ Len(OpenAt(b)[r].open) > Len(o)

LEMMA OpenedStays ==
    ASSUME NEW b, NEW x, Sequence(b), Sequence(x), NEW from, NEW o, OpenedAt(b, from, o),
           NEW W \in Stacks, NEW w \in Stacks, OpenAt(b)[Len(b) + 1] = Plain(W), Above(x, W, w),
           Len(w) > Len(o)
    PROVE  OpenedAt(b \o x, from, o)
  <1> DEFINE u == b \o x
             lb == Len(b)
             lx == Len(x)
             n == Len(o)
             at == OpenAt(u)
             old == OpenAt(b)
  <1>1. /\ lb \in Nat /\ lx \in Nat /\ Len(u) = lb + lx
        /\ \A i \in 1 .. lb : u[i] = b[i]
    BY ConcatBytes
  <1>2. PICK run : /\ Runs(x, run) /\ run[1] = Plain(W) /\ run[lx + 1] = Plain(w)
                   /\ \A r \in 1 .. lx : run[r] # Broken /\ Len(run[r].open) >= Len(W)
    BY DEF Above
  <1>3. \A q \in 1 .. lb + 1 : at[q] = old[q]
    BY OpenAtOfMore
  <1>4. \A q \in 1 .. lx + 1 : at[lb + q] = run[q]
    BY <1>2, OpenAtOfMore
  <1>5. /\ o \in Stacks /\ from \in 1 .. lb /\ b[from] \in Openers /\ old[from] = Plain(o)
        /\ \A r \in from + 1 .. lb + 1 : old[r] # Broken /\ Len(old[r].open) > n
    BY DEF OpenedAt
  <1>6. n \in Nat /\ Len(W) \in Nat /\ Len(w) \in Nat /\ Len(w) > n
    BY <1>5 DEF Stacks
  <1>7. Len(W) > n
    <2>1. lb + 1 \in from + 1 .. lb + 1 /\ old[lb + 1] = Plain(W)
      BY <1>1, <1>5
    <2> QED
      BY <1>5, <2>1, StandingsDiffer
  <1> HIDE DEF u, lb, lx, at, old, n
  <1>8. ASSUME NEW r \in from + 1 .. (lb + lx) + 1 PROVE at[r] # Broken /\ Len(at[r].open) > n
    <2>1. CASE r <= lb + 1
      <3>1. r \in 1 .. lb + 1 /\ r \in from + 1 .. lb + 1
        BY <1>1, <1>5, <2>1
      <3> QED
        BY <1>3, <1>5, <3>1
    <2>2. CASE ~(r <= lb + 1)
      <3> DEFINE q == r - lb
      <3>1. q \in 1 .. lx + 1 /\ r = lb + q
        BY <1>1, <1>5, <2>2
      <3> HIDE DEF q
      <3>2. at[r] = run[q]
        BY <1>4, <3>1
      <3>3. CASE q = lx + 1
        BY <1>2, <1>6, <3>2, <3>3, StandingsDiffer
      <3>4. CASE q # lx + 1
        <4>1. q \in 1 .. lx
          BY <1>1, <3>1, <3>4
        <4>2. run[q] # Broken /\ Len(run[q].open) >= Len(W) /\ run[q].open \in Stacks
          <5>1. run[q] \in Standings
            BY <1>2, <3>1 DEF Runs, lx
          <5>2. PICK y \in Stacks : run[q] \in {Plain(y), InString(y), InEscape(y)}
            BY <1>2, <4>1, <5>1 DEF Standings
          <5>3. run[q].open = y
            BY <5>2, StandingsDiffer
          <5> QED
            BY <1>2, <4>1, <5>3
        <4>3. Len(run[q].open) \in Nat
          BY <4>2 DEF Stacks
        <4> QED
          BY <1>6, <1>7, <3>2, <4>2, <4>3
      <3> QED
        BY <3>3, <3>4
    <2> QED
      BY <2>1, <2>2
  <1>9. from \in 1 .. lb + lx /\ u[from] \in Openers /\ at[from] = Plain(o)
    <2>1. from \in 1 .. lb + lx /\ from \in 1 .. lb + 1
      BY <1>1, <1>5
    <2> QED
      BY <1>1, <1>3, <1>5, <2>1
  <1> QED
    BY <1>1, <1>5, <1>8, <1>9 DEF OpenedAt, u, at, n

(* u is the text b with x behind it.                                       *)
Joined(u, b, x) == Sequence(b) /\ Sequence(x) /\ u = b \o x

LEMMA JoinedBytes ==
    ASSUME NEW u, NEW b, NEW x, Joined(u, b, x)
    PROVE  /\ Sequence(u) /\ IsText(u) /\ IsText(b) /\ IsText(x)
           /\ Len(b) \in Nat /\ Len(x) \in Nat /\ Len(u) = Len(b) + Len(x) /\ DOMAIN u = 1 .. Len(u)
           /\ \A i \in 1 .. Len(b) : u[i] = b[i]
           /\ \A i \in 1 .. Len(x) : u[Len(b) + i] = x[i]
           /\ \A q \in 1 .. Len(b) + 1 : OpenAt(u)[q] = OpenAt(b)[q]
           /\ \A run : Runs(x, run) /\ run[1] = OpenAt(b)[Len(b) + 1] =>
                \A q \in 1 .. Len(x) + 1 : OpenAt(u)[Len(b) + q] = run[q]
  <1>1. Sequence(b) /\ Sequence(x)
    BY DEF Joined
  <1>2. Sequence(b \o x) /\ IsText(b) /\ IsText(x) /\ IsText(b \o x)
    BY <1>1, SequenceConcat, SequenceIsText
  <1>3. /\ Len(b) \in Nat /\ Len(x) \in Nat
        /\ Len(b \o x) = Len(b) + Len(x)
        /\ \A i \in 1 .. Len(b) : (b \o x)[i] = b[i]
        /\ \A i \in 1 .. Len(x) : (b \o x)[Len(b) + i] = x[i]
    BY <1>1, ConcatBytes
  <1>4. /\ \A q \in 1 .. Len(b) + 1 : OpenAt(b \o x)[q] = OpenAt(b)[q]
        /\ \A run : Runs(x, run) /\ run[1] = OpenAt(b)[Len(b) + 1] =>
             \A q \in 1 .. Len(x) + 1 : OpenAt(b \o x)[Len(b) + q] = run[q]
    BY <1>1, OpenAtOfMore
  <1>5. u = b \o x
    BY DEF Joined
  <1>6. /\ Len(u) = Len(b) + Len(x)
        /\ \A i \in 1 .. Len(b) : u[i] = b[i]
        /\ \A i \in 1 .. Len(x) : u[Len(b) + i] = x[i]
    BY <1>3, <1>5
  <1>7. /\ \A q \in 1 .. Len(b) + 1 : OpenAt(u)[q] = OpenAt(b)[q]
        /\ \A run : Runs(x, run) /\ run[1] = OpenAt(b)[Len(b) + 1] =>
             \A q \in 1 .. Len(x) + 1 : OpenAt(u)[Len(b) + q] = run[q]
    BY ONLY <1>4, <1>5, Zenon
  <1>8. Sequence(u) /\ IsText(u)
    BY <1>2, <1>5
  <1> QED
    BY ONLY <1>2, <1>3, <1>6, <1>7, <1>8 DEF IsText

LEMMA StretchOfMore ==
    ASSUME NEW u, NEW b, NEW x, Joined(u, b, x),
           NEW from, NEW to, Stretch(b, from, to)
    PROVE  /\ Stretch(u, from, to)
           /\ \A q \in from .. to - 1 : u[q] = b[q]
           /\ \A q \in from .. to : OpenAt(u)[q] = OpenAt(b)[q]
           /\ from \in DOMAIN b /\ from \in DOMAIN u /\ u[from] = b[from]
  <1> DEFINE lb == Len(b)
             lx == Len(x)
             at == OpenAt(u)
             old == OpenAt(b)
  <1>1. /\ lb \in Nat /\ lx \in Nat /\ Len(u) = lb + lx
        /\ \A i \in 1 .. lb : u[i] = b[i]
    BY JoinedBytes
  <1>2. \A q \in 1 .. lb + 1 : at[q] = old[q]
    BY JoinedBytes
  <1>3. from \in Nat \ {0} /\ to \in Nat /\ from < to /\ to <= lb + 1
    BY DEF Stretch
  <1>4. DOMAIN b = 1 .. lb /\ DOMAIN u = 1 .. Len(u)
    BY JoinedBytes DEF IsText
  <1> HIDE DEF lb, lx, at, old
  <1>5. Stretch(u, from, to)
    BY <1>1, <1>3 DEF Stretch
  <1>6. \A q \in from .. to - 1 : u[q] = b[q]
    BY <1>1, <1>3
  <1>7. \A q \in from .. to : at[q] = old[q]
    BY <1>1, <1>2, <1>3
  <1>8. from \in DOMAIN b /\ from \in DOMAIN u /\ u[from] = b[from]
    BY <1>1, <1>3, <1>4
  <1> QED
    BY <1>5, <1>6, <1>7, <1>8 DEF at, old

(* A value stays one when more is written.                                 *)
LEMMA ValueStays ==
    ASSUME NEW u, NEW b, NEW x, Joined(u, b, x), NEW e, ValueAt(b, e)
    PROVE  ValueAt(u, e)
  <1> DEFINE from == e.from
             to == e.to
  <1>1. Stretch(b, from, to)
    BY DEF ValueAt
  <1> HIDE DEF from, to
  <1>2. /\ Stretch(u, from, to)
        /\ \A q \in from .. to - 1 : u[q] = b[q]
        /\ \A q \in from .. to : OpenAt(u)[q] = OpenAt(b)[q]
        /\ from \in DOMAIN b /\ from \in DOMAIN u /\ u[from] = b[from]
    BY <1>1, StretchOfMore
  <1>3. CASE Enclosed(b, e)
    <2>1. PICK o \in Stacks : Encloses(OpenAt(b), o, from, to)
      BY <1>3 DEF Enclosed, from, to
    <2>2. /\ from \in from .. to /\ to \in from .. to
          /\ \A r \in from + 1 .. to - 1 : r \in from .. to
      BY <1>1 DEF Stretch
    <2>3. Encloses(OpenAt(u), o, from, to)
      BY <1>2, <2>1, <2>2 DEF Encloses
    <2>4. Enclosed(u, e)
      BY <1>2, <1>3, <2>3 DEF Enclosed, In, from, to
    <2> QED
      BY <1>2, <2>4 DEF ValueAt, from, to
  <1>4. CASE SpelledOut(b, e)
    <2>1. PICK s : /\ Spelled(b, from, to, s)
                   /\ e.op = "double" => s = e.value
                   /\ Simple(s) \/ (e.op = "double" /\ s \in NotFinite)
      BY <1>4 DEF SpelledOut, from, to
    <2>2. Spelled(u, from, to, s)
      <3> DEFINE n == Len(s)
      <3>1. from \in Nat /\ n \in Nat /\ to = from + n /\ \A j \in 1 .. n : b[(from - 1) + j] = s[j]
        BY <1>1, <2>1, SequenceIsText DEF Stretch, Spelled, Spells, IsText
      <3> HIDE DEF n
      <3>3. \A j \in 1 .. n : (from - 1) + j \in from .. to - 1
        BY <3>1
      <3>4. \A j \in 1 .. n : u[(from - 1) + j] = s[j]
        BY <1>2, <3>1, <3>3
      <3> QED
        BY <1>2, <2>1, <3>4 DEF Spelled, Spells, n
    <2> QED
      BY <1>2, <2>1, <2>2 DEF ValueAt, SpelledOut, from, to
  <1> QED
    BY <1>3, <1>4 DEF ValueAt

(* Where a text is put behind another.                                     *)
PutBehind(b, x, e) == e.from = Len(b) + 1 /\ e.to = e.from + Len(x)

LEMMA StretchBehind ==
    ASSUME NEW u, NEW b, NEW x, Joined(u, b, x), Len(x) >= 1,
           NEW from, NEW to, from = Len(b) + 1, to = from + Len(x)
    PROVE  /\ Stretch(u, from, to) /\ to = Len(u) + 1
           /\ from \in DOMAIN u
           /\ u[from] = x[1]
           /\ \A j \in 1 .. Len(x) : u[from - 1 + j] = x[j]
           /\ u[Len(u)] = x[Len(x)]
  <1> DEFINE lb == Len(b)
             lx == Len(x)
  <1>1. /\ lb \in Nat /\ lx \in Nat /\ lx >= 1 /\ Len(u) = lb + lx
        /\ \A i \in 1 .. lx : u[lb + i] = x[i]
    BY JoinedBytes
  <1>2. from = lb + 1 /\ to = from + lx
    OBVIOUS
  <1>3. DOMAIN u = 1 .. Len(u)
    BY JoinedBytes DEF IsText
  <1> HIDE DEF lb, lx
  <1>4. Stretch(u, from, to) /\ to = Len(u) + 1 /\ from \in DOMAIN u
    BY <1>1, <1>2, <1>3 DEF Stretch
  <1>5. from - 1 = lb /\ 1 \in 1 .. lx /\ from = lb + 1 /\ lx \in 1 .. lx
    BY <1>1, <1>2
  <1>6. u[from] = x[1] /\ u[Len(u)] = x[lx] /\ \A j \in 1 .. lx : u[from - 1 + j] = x[j]
    BY <1>1, <1>5
  <1> QED
    BY <1>4, <1>6 DEF lx

(* A text that is a value in itself, written where W is open.              *)
NeitherOf(e) == e.op \notin {"number", "double", "bool"}

Quoted(s) == <<Quote>> \o Escaped(s) \o <<Quote>>

LEMMA NewString ==
    ASSUME NEW s, Sequence(s), NEW x, x = Quoted(s),
           NEW u, NEW b, Joined(u, b, x), NEW W \in Stacks, OpenAt(b)[Len(b) + 1] = Plain(W),
           NEW e, PutBehind(b, x, e), NeitherOf(e)
    PROVE  ValueAt(u, e) /\ u[e.from] = Quote /\ u[Len(u)] \notin Openers
  <1> DEFINE from == e.from
             to == e.to
             lb == Len(b)
             lx == Len(x)
  <1>1. Sequence(x) /\ Sequence(u) /\ IsText(u) /\ IsText(b) /\ IsText(x)
    BY JoinedBytes DEF Joined
  <1>2. from = lb + 1 /\ to = from + lx
    BY DEF PutBehind
  <1>3. WrittenAt(u, s, from, to)
    <2>1. Sequence(b) /\ u = b \o (<<Quote>> \o Escaped(s) \o <<Quote>>)
          /\ from = Len(b) + 1 /\ to = from + Len(<<Quote>> \o Escaped(s) \o <<Quote>>)
      BY <1>2 DEF Joined, Quoted
    <2> HIDE DEF from, to
    <2> QED
      BY <2>1, WrittenBehind
  <1>4. SkipString(u, from) = to
    BY <1>1, <1>3, WrittenIsRead
  <1>5. u[from] = Quote /\ u[to - 1] = Quote /\ to = from + Len(Escaped(s)) + 2 /\ Len(Escaped(s)) \in Nat
    BY <1>3, EscapedType, SequenceIsText DEF WrittenAt, IsText
  <1>6. lb \in Nat /\ lx \in Nat
    BY <1>1 DEF IsText
  <1>7. lx >= 1
    <2> HIDE DEF lb, lx, from, to
    <2>1. from \in Nat /\ to = from + lx
      BY <1>2, <1>6
    <2> QED
      BY <1>5, <1>6, <2>1
  <1>8. Stretch(u, from, to) /\ to = Len(u) + 1 /\ from \in DOMAIN u
    <2> HIDE DEF from, to
    <2> QED
      BY <1>1, <1>2, <1>7, StretchBehind
  <1>9. OpenAt(u)[from] = Plain(W)
    <2>1. \A q \in 1 .. lb + 1 : OpenAt(u)[q] = OpenAt(b)[q]
      BY JoinedBytes
    <2>2. lb + 1 \in 1 .. lb + 1
      BY <1>6
    <2> QED
      BY <1>2, <2>1, <2>2
  <1>10. u[Len(u)] = Quote
    <2>1. Len(u) \in Nat
      BY <1>1 DEF IsText
    <2> HIDE DEF to
    <2>2. to - 1 = Len(u)
      BY <1>8, <2>1
    <2> QED
      BY <1>5, <2>2
  <1> HIDE DEF from, to, lb, lx
  <1>11. Encloses(OpenAt(u), W, from, to)
    BY <1>1, <1>4, <1>8, <1>9, StringIsEnclosed, OpenAtRuns
  <1>12. Enclosed(u, e)
    BY <1>5, <1>8, <1>11 DEF Enclosed, In, NeitherOf, from, to
  <1>13. Quote \notin Openers
    BY DEF Openers, Quote
  <1> QED
    BY <1>5, <1>7, <1>8, <1>10, <1>12, <1>13 DEF ValueAt, from, to

LEMMA NewSpelled ==
    ASSUME NEW u, NEW b, NEW x, Joined(u, b, x), NEW e, PutBehind(b, x, e),
           e.op = "double" => x = e.value, Simple(x) \/ (e.op = "double" /\ x \in NotFinite)
    PROVE  ValueAt(u, e) /\ u[e.from] \notin Structure /\ u[Len(u)] \notin Openers
  <1> DEFINE lx == Len(x)
  <1>1. IsText(x) /\ lx \in Nat
    BY JoinedBytes
  <1>2. lx >= 1 /\ \A i \in 1 .. lx : x[i] \notin Structure
    <2>1. CASE IsNumber(x)
      BY <1>1, <2>1, NumberIsPlain, NumberBytesArePlain
    <2>2. CASE x \in NotFinite
      BY <2>2, NotFiniteIsPlain
    <2>3. CASE \E w \in WordSet : x = <<w>>
      <3>1. PICK w \in WordSet : x = <<w>>
        BY <2>3
      <3>2. lx = 1 /\ x[1] = w
        BY <3>1
      <3>3. w \notin Structure
        BY WordIsPlain DEF WordSet
      <3> HIDE DEF lx
      <3>4. \A i \in 1 .. lx : i = 1
        BY <3>2
      <3> QED
        BY <3>2, <3>3, <3>4
    <2> QED
      BY <2>1, <2>2, <2>3 DEF Simple
  <1> DEFINE from == e.from
             to == e.to
  <1>3. /\ Stretch(u, from, to) /\ u[from] = x[1] /\ u[Len(u)] = x[lx]
        /\ \A j \in 1 .. lx : u[from - 1 + j] = x[j]
    <2>1. from = Len(b) + 1 /\ to = from + lx
      BY DEF PutBehind
    <2> HIDE DEF from, to
    <2> QED
      BY <1>2, <2>1, StretchBehind
  <1>4. Spelled(u, from, to, x)
    BY <1>3 DEF Spelled, Spells, PutBehind, Joined
  <1>5. SpelledOut(u, e)
    BY <1>4 DEF SpelledOut
  <1> HIDE DEF lx, from, to
  <1>6. 1 \in 1 .. lx /\ lx \in 1 .. lx
    BY <1>1, <1>2
  <1>7. u[from] \notin Structure /\ u[Len(u)] \notin Openers
    BY <1>2, <1>3, <1>6 DEF Structure
  <1> QED
    BY <1>3, <1>5, <1>7 DEF ValueAt, from, to

(* What is given raw begins and ends like a value.                         *)
LEMMA StructuredBytes ==
    ASSUME NEW x, IsText(x), In(x, 1, Structure),
           \A q \in 2 .. Len(x) + 1 : OpenAt(x)[q] = Plain(<<>>) <=> q = Len(x) + 1
    PROVE  /\ Len(x) >= 1 /\ Nests(x, OpenAt(x)) /\ OpenAt(x)[Len(x) + 1] = Plain(<<>>)
           /\ x[1] \in {Quote} \cup Openers /\ x[Len(x)] \notin Openers
  <1> DEFINE at == OpenAt(x)
             lx == Len(x)
  <1>1. lx \in Nat /\ lx >= 1
    BY DEF IsText, In
  <1>2. Runs(x, at) /\ at[1] = Plain(<<>>)
    BY OpenAtRuns
  <1>3. at[lx + 1] = Plain(<<>>)
    <2>1. lx + 1 \in 2 .. lx + 1
      BY <1>1
    <2> QED
      BY <2>1
  <1>4. Nests(x, at)
    <2> HIDE DEF at
    <2>1. at[Len(x) + 1] # Broken
      BY <1>3, StandingsDiffer
    <2> QED
      BY <1>2, <2>1, NothingBroken
  <1> HIDE DEF at, lx
  <1>5. at[lx] \in Standings /\ at[lx + 1] = Opened(at[lx], x[lx]) /\ at[lx] # Broken
    <2>1. lx \in Nat \ {0} /\ lx <= Len(x) /\ lx \in 1 .. Len(x) + 1
      BY <1>1 DEF lx
    <2> QED
      BY <1>2, <1>4, <2>1, RunsStep DEF Nests
  <1>6. x[lx] \notin Openers
    <2> SUFFICES ASSUME x[lx] \in Openers PROVE FALSE
      OBVIOUS
    <2>1. x[lx] # Quote
      BY BracketsDiffer
    <2>2. PICK o \in Stacks : at[lx] \in {Plain(o), InString(o), InEscape(o)}
      BY <1>5 DEF Standings
    <2>3. at[lx + 1] \in {Plain(Append(o, x[lx])), InString(o), InEscape(o)}
      BY <1>5, <2>1, <2>2, OpenedBy
    <2>4. at[lx + 1] = Plain(Append(o, x[lx]))
      BY <1>3, <2>3, StandingsDiffer
    <2>5. Append(o, x[lx]) = <<>>
      BY <1>3, <2>4, StandingsDiffer, ZenonT(60)
    <2>6. Append(o, x[lx]) # <<>>
      BY FrontOfAppend DEF Stacks
    <2> QED
      BY <2>5, <2>6
  <1>7. x[1] \in {Quote} \cup Openers
    <2> SUFFICES ASSUME x[1] \notin {Quote} \cup Openers PROVE FALSE
      OBVIOUS
    <2>1. x[1] \in Closers
      BY DEF In, Structure
    <2> DEFINE one == 1
    <2>2. one \in Nat \ {0} /\ one <= Len(x) /\ one + 1 \in 1 .. Len(x) + 1
      BY <1>1 DEF lx
    <2>3. x[one] \in Closers /\ at[one] = Plain(<<>>)
      BY <1>2, <2>1
    <2> HIDE DEF one
    <2>4. at[one + 1] = Opened(at[one], x[one])
      BY <1>2, <2>2, RunsStep
    <2>5. at[one + 1] = Broken
      BY <2>3, <2>4, OpenedBy
    <2> QED
      BY <1>4, <2>2, <2>5 DEF Nests
  <1> QED
    BY <1>1, <1>3, <1>4, <1>6, <1>7 DEF at, lx

LEMMA NewStructured ==
    ASSUME NEW x, NEW u, NEW b, Joined(u, b, x), In(x, 1, Structure),
           \A q \in 2 .. Len(x) + 1 : OpenAt(x)[q] = Plain(<<>>) <=> q = Len(x) + 1,
           NEW W \in Stacks, OpenAt(b)[Len(b) + 1] = Plain(W),
           NEW e, PutBehind(b, x, e), NeitherOf(e)
    PROVE  ValueAt(u, e) /\ u[Len(u)] \notin Openers
  <1> DEFINE from == e.from
             to == e.to
             lb == Len(b)
             lx == Len(x)
             at == OpenAt(x)
             h == DeeperRun(x, at, W)
             all == OpenAt(u)
  <1>1. lb \in Nat /\ lx \in Nat /\ IsText(x) /\ IsText(u)
    BY JoinedBytes
  <1>2. /\ lx >= 1 /\ Nests(x, at) /\ at[lx + 1] = Plain(<<>>)
        /\ x[1] \in {Quote} \cup Openers /\ x[lx] \notin Openers
    BY <1>1, StructuredBytes
  <1>3. from = lb + 1 /\ to = from + lx
    BY DEF PutBehind
  <1>4. at[1] = Plain(<<>>) /\ \A q \in 2 .. lx : at[q] # Plain(<<>>)
    <2>1. \A q \in 2 .. lx : q \in 2 .. lx + 1 /\ q # lx + 1
      BY <1>1
    <2> QED
      BY <1>1, <2>1, OpenAtRuns
  <1> HIDE DEF at
  <1>5. Nests(x, h) /\ StandsDeeper(x, at, W, h)
    <2>1. h = DeeperRun(x, at, W)
      OBVIOUS
    <2>3. W \in Stacks /\ IsText(x) /\ Nests(x, at)
      BY <1>1, <1>2
    <2> HIDE DEF h, lx
    <2> QED
      BY ONLY <2>1, <2>3, DeeperRuns
  <1>6. Stretch(u, from, to) /\ from \in DOMAIN u /\ u[from] = x[1] /\ u[Len(u)] = x[lx]
    <2> HIDE DEF from, to
    <2> QED
      BY <1>2, <1>3, StretchBehind
  <1> HIDE DEF h, all, lb, lx, from, to
  <1>7. W \o <<>> = W
    BY DEF Stacks
  <1>8. h[1] = Plain(W) /\ h[lx + 1] = Plain(W)
    <2>1. 1 \in 1 .. lx + 1 /\ lx + 1 \in 1 .. lx + 1
      BY <1>1
    <2> DEFINE none == <<>>
    <2>2. at[1] = Plain(none) /\ at[lx + 1] = Plain(none) /\ W \o none = W
      BY <1>2, <1>4, <1>7
    <2> HIDE DEF none
    <2>3. h[1] = Plain(W \o none) /\ h[lx + 1] = Plain(W \o none)
      BY <1>5, <2>1, <2>2 DEF StandsDeeper, lx
    <2> QED
      BY <2>2, <2>3
  <1>9. \A q \in 1 .. lx + 1 : all[lb + q] = h[q]
    <2>1. Runs(x, h) /\ h[1] = OpenAt(b)[Len(b) + 1]
      BY <1>5, <1>8 DEF Nests
    <2> QED
      BY <2>1, JoinedBytes DEF all, lb, lx
  <1>10. all[from] = Plain(W) /\ all[to] = Plain(W)
    <2>1. 1 \in 1 .. lx + 1 /\ lx + 1 \in 1 .. lx + 1 /\ from = lb + 1 /\ to = lb + (lx + 1)
      BY <1>1, <1>3
    <2> QED
      BY <1>8, <1>9, <2>1
  <1>11. ASSUME NEW r \in from + 1 .. to - 1 PROVE all[r] # Plain(W) /\ all[r] # Broken
    <2> DEFINE q == r - lb
    <2>1. q \in 2 .. lx /\ q \in 1 .. lx + 1 /\ r = lb + q
      BY <1>1, <1>3
    <2> HIDE DEF q
    <2>2. all[r] = h[q]
      BY <1>9, <2>1
    <2>3. h[q] # Broken
      BY <1>5, <2>1 DEF Nests, lx
    <2>4. h[q] # Plain(W)
      <3> SUFFICES ASSUME h[q] = Plain(W) PROVE FALSE
        OBVIOUS
      <3> DEFINE y == at[q].open
      <3>1. at[q] = Plain(y) /\ y \in Stacks /\ h[q].open = W \o y
        BY <1>5, <2>1 DEF StandsDeeper, lx
      <3> HIDE DEF y
      <3>2. W = W \o y
        BY <3>1, StandingsDiffer
      <3>3. y = <<>>
        <4>1. Len(W \o y) = Len(W) + Len(y) /\ Len(W) \in Nat /\ Len(y) \in Nat
          BY <3>1 DEF Stacks
        <4>2. Len(W \o y) = Len(W)
          BY <3>2
        <4>3. Len(y) = 0
          BY <4>1, <4>2
        <4> QED
          BY <3>1, <4>3 DEF Stacks
      <3> QED
        BY <1>4, <2>1, <3>1, <3>3
    <2> QED
      BY <2>2, <2>3, <2>4
  <1>12. Encloses(all, W, from, to)
    BY <1>10, <1>11 DEF Encloses
  <1>13. Enclosed(u, e)
    BY <1>2, <1>6, <1>12 DEF Enclosed, In, NeitherOf, from, to, all
  <1> QED
    BY <1>2, <1>6, <1>13 DEF ValueAt, from, to

LEMMA NewRaw ==
    ASSUME NEW x, IsValue(x), NEW u, NEW b, Joined(u, b, x),
           NEW W \in Stacks, OpenAt(b)[Len(b) + 1] = Plain(W),
           NEW e, PutBehind(b, x, e), NeitherOf(e)
    PROVE  ValueAt(u, e) /\ u[Len(u)] \notin Openers
  <1>1. CASE x \in {<<"true">>, <<"false">>, <<"null">>}
    <2>1. Simple(x)
      BY <1>1 DEF Simple, WordSet
    <2> QED
      BY <2>1, NewSpelled DEF NeitherOf
  <1>2. CASE IsNumber(x)
    BY <1>2, NewSpelled DEF NeitherOf, Simple
  <1>3. CASE /\ In(x, 1, Structure)
             /\ \A q \in 2 .. Len(x) + 1 : OpenAt(x)[q] = Plain(<<>>) <=> q = Len(x) + 1
    BY <1>3, NewStructured
  <1> QED
    BY <1>1, <1>2, <1>3 DEF IsValue

(* A container that is closed is a value.                                  *)
LEMMA ClosedIsValue ==
    ASSUME NEW c, NEW u, NEW b, Joined(u, b, <<c>>), NEW e, NEW o, OpenedAt(b, e.from, o),
           OpenAt(u)[Len(u) + 1] = Plain(o), e.to = Len(b) + 2, NeitherOf(e)
    PROVE  ValueAt(u, e)
  <1> DEFINE from == e.from
             to == e.to
             lb == Len(b)
             all == OpenAt(u)
             x == <<c>>
             lx == Len(x)
  <1>1. lx = 1
    OBVIOUS
  <1>0. Joined(u, b, x)
    OBVIOUS
  <1> HIDE DEF x
  <1>2. /\ lb \in Nat /\ Len(u) = lb + lx /\ DOMAIN u = 1 .. Len(u)
        /\ \A i \in 1 .. lb : u[i] = b[i]
        /\ \A q \in 1 .. lb + 1 : all[q] = OpenAt(b)[q]
    <2> HIDE DEF lx, lb, all
    <2>1. /\ Len(b) \in Nat /\ Len(u) = Len(b) + Len(x) /\ DOMAIN u = 1 .. Len(u)
          /\ \A i \in 1 .. Len(b) : u[i] = b[i]
          /\ \A q \in 1 .. Len(b) + 1 : OpenAt(u)[q] = OpenAt(b)[q]
      BY ONLY <1>0, JoinedBytes
    <2> QED
      BY ONLY <2>1 DEF lb, lx, all
  <1>3. /\ o \in Stacks /\ from \in 1 .. lb /\ b[from] \in Openers /\ OpenAt(b)[from] = Plain(o)
        /\ \A r \in from + 1 .. lb + 1 : OpenAt(b)[r] # Broken /\ Len(OpenAt(b)[r].open) > Len(o)
    BY DEF OpenedAt
  <1>4. to = lb + 2 /\ all[Len(u) + 1] = Plain(o)
    OBVIOUS
  <1>5. Len(o) \in Nat
    BY <1>3 DEF Stacks
  <1> HIDE DEF from, to, lb, all, lx, x
  <1>6. Stretch(u, from, to) /\ from \in 1 .. lb + 1 /\ from \in DOMAIN u /\ to = Len(u) + 1
    BY <1>1, <1>2, <1>3, <1>4 DEF Stretch
  <1>7. all[from] = Plain(o) /\ all[to] = Plain(o) /\ u[from] \in Openers
    BY <1>2, <1>3, <1>4, <1>6
  <1>8. ASSUME NEW r \in from + 1 .. to - 1 PROVE all[r] # Plain(o) /\ all[r] # Broken
    <2>1. r \in 1 .. lb + 1 /\ r \in from + 1 .. lb + 1
      BY <1>2, <1>3, <1>4
    <2>2. all[r] = OpenAt(b)[r] /\ all[r] # Broken /\ Len(all[r].open) > Len(o)
      BY <1>2, <1>3, <2>1
    <2>3. all[r] # Plain(o)
      <3> SUFFICES ASSUME all[r] = Plain(o) PROVE FALSE
        OBVIOUS
      <3>1. all[r].open = o
        BY StandingsDiffer
      <3> QED
        BY <1>5, <2>2, <3>1
    <2> QED
      BY <2>2, <2>3
  <1>9. Encloses(all, o, from, to)
    BY <1>7, <1>8 DEF Encloses
  <1>10. Enclosed(u, e)
    BY <1>3, <1>6, <1>7, <1>9 DEF Enclosed, In, NeitherOf, from, to, all
  <1> QED
    BY <1>6, <1>10 DEF ValueAt, from, to

LEMMA NumberTextIsNumber ==
    ASSUME NEW n \in Int
    PROVE  IsNumber(NumberText(n))
  <1>1. PICK d : /\ Means(d, IF n < 0 THEN -n ELSE n)
                 /\ NumberText(n) = IF n < 0 THEN <<"-">> \o d ELSE d
    BY NumberTextMeans
  <1> DEFINE minus == "-"
             ld == Len(d)
             t == NumberText(n)
  <1>2. d \in Seq(DigitSet) /\ ld >= 1 /\ ld \in Nat /\ \A j \in 1 .. ld : d[j] \in DigitSet
    BY <1>1 DEF Means
  <1>3. minus \notin DigitSet
    BY NumberBytesApart
  <1>4. ASSUME NEW first \in {1, 2}, NEW e, e = Len(t) + 1, first < e, e \in 1 .. Len(t) + 1,
               \A k \in first .. e - 1 : t[k] \in DigitSet, first = 2 <=> At(t, 1, "-")
        PROVE  IsNumber(t)
    <2> HIDE DEF t
    <2>1. ~(e < e) /\ ~(e <= Len(t)) /\ e <= e
      BY <1>2, <1>4
    <2> QED
      BY <1>4, <2>1 DEF IsNumber
  <1> HIDE DEF minus
  <1>5. CASE n < 0
    <2>1. t = <<minus>> \o d /\ Sequence(<<minus>>) /\ Sequence(d)
      BY <1>1, <1>2, <1>5, SequenceOne DEF minus, Sequence
    <2> DEFINE lm == Len(<<minus>>)
    <2>2. lm = 1 /\ <<minus>>[1] = minus
      OBVIOUS
    <2>3. Len(t) = lm + ld /\ (\A i \in 1 .. lm : t[i] = <<minus>>[i]) /\ \A i \in 1 .. ld : t[lm + i] = d[i]
      BY <2>1, ConcatBytes
    <2>4. IsText(t)
      BY NumberTextType, SequenceIsText
    <2> HIDE DEF lm, ld, t
    <2>5. t[1] = minus /\ Len(t) = ld + 1
      <3>1. 1 \in 1 .. lm
        BY <2>2
      <3> QED
        BY <1>2, <2>2, <2>3, <3>1
    <2>6. \A k \in 2 .. Len(t) : t[k] \in DigitSet
      <3> TAKE k \in 2 .. Len(t)
      <3>1. k - 1 \in 1 .. ld /\ lm + (k - 1) = k
        BY <1>2, <2>2, <2>5
      <3>2. t[lm + (k - 1)] = d[k - 1]
        BY <2>3, <3>1
      <3> QED
        BY <1>2, <3>1, <3>2
    <2>7. At(t, 1, "-")
      <3>1. 1 \in DOMAIN t
        BY <1>2, <2>4, <2>5 DEF IsText
      <3> QED
        BY <2>5, <3>1 DEF At, minus
    <2> DEFINE e == Len(t) + 1
               two == 2
    <2>8. two \in {1, 2} /\ two < e /\ e \in 1 .. Len(t) + 1 /\ \A k \in two .. e - 1 : k \in 2 .. Len(t)
      BY <1>2, <2>5
    <2>9. (\A k \in two .. e - 1 : t[k] \in DigitSet) /\ (two = 2 <=> At(t, 1, "-")) /\ e = Len(t) + 1
      BY <2>6, <2>7, <2>8
    <2> HIDE DEF e, two
    <2> QED
      BY <1>4, <2>8, <2>9 DEF t
  <1>6. CASE ~(n < 0)
    <2>1. t = d
      BY <1>1, <1>6
    <2>2. ~At(t, 1, "-")
      <3> SUFFICES ASSUME At(t, 1, "-") PROVE FALSE
        OBVIOUS
      <3>1. d[1] = minus
        BY <2>1 DEF At, minus
      <3> HIDE DEF ld
      <3>2. 1 \in 1 .. ld
        BY <1>2
      <3> QED
        BY <1>2, <1>3, <3>1, <3>2
    <2> HIDE DEF ld
    <2>3. Len(t) = ld
      BY <2>1 DEF ld
    <2>4. \A k \in 1 .. ld : t[k] \in DigitSet
      BY <1>2, <2>1
    <2> HIDE DEF t
    <2> DEFINE e == Len(t) + 1
               one == 1
    <2>5. one \in {1, 2} /\ one < e /\ e \in 1 .. Len(t) + 1 /\ \A k \in one .. e - 1 : k \in 1 .. ld
      BY <1>2, <2>3
    <2>6. (\A k \in one .. e - 1 : t[k] \in DigitSet) /\ (one = 2 <=> At(t, 1, "-")) /\ e = Len(t) + 1
      BY <2>2, <2>4, <2>5
    <2> HIDE DEF e, one
    <2> QED
      BY <1>4, <2>5, <2>6 DEF t
  <1> QED
    BY <1>5, <1>6

-----------------------------------------------------------------------------
(* The ledger is a tree, and the text says what the ledger does: where     *)
(* each member has its name, its value and the comma in front of it.       *)

Elements == {"element", "rawElement"}
IsObject(L, c) == c = 0 \/ L[c].op = "object"
IsOpen(n, i) == \E k \in DOMAIN n : n[k] = i

(* The members of the ledger are a tree, written in preorder, of which the *)
(* containers that are open are the last branch.                           *)
Fits(L, e) ==
    /\ e.op \notin Elements <=> IsObject(L, e.parent)
    /\ e.op \in Elements => e.key = ""
    /\ e.key \notin {Quote, Backslash}

Tree(n, L) ==
    /\ \A i \in DOMAIN L : L[i].parent \in 0 .. i - 1 /\ Fits(L, L[i])
    /\ \A j, m \in DOMAIN L : L[j].parent < m /\ m < j => L[m].parent >= L[j].parent
    /\ \A k \in 2 .. Len(n) : L[n[k]].parent = n[k - 1]
    /\ \A j, k \in DOMAIN n : j < k => n[j] < n[k]
    /\ \A k \in DOMAIN n, i \in DOMAIN L : i > n[k] => L[i].parent >= n[k]

(* M is the ledger L with the entry e behind it, l being its number.       *)
Grown(L, e, M, l) ==
    /\ l \in Nat /\ DOMAIN L = 1 .. l /\ DOMAIN M = 1 .. l + 1 /\ Len(L) = l /\ Len(M) = l + 1
    /\ \A i \in 1 .. l : M[i] = L[i]
    /\ M[l + 1] = e

LEMMA AppendGrows ==
    ASSUME NEW L, Sequence(L), NEW e
    PROVE  Grown(L, e, Append(L, e), Len(L))
  <1>1. PICK S : L \in Seq(S)
    BY DEF Sequence
  <1>2. L \in Seq(S \cup {e}) /\ Append(L, e) \in Seq(S \cup {e})
    BY <1>1
  <1> QED
    BY <1>1, <1>2 DEF Grown

LEMMA LastIs ==
    ASSUME NEW n \in Seq(Nat), n # <<>>
    PROVE  /\ Len(n) \in Nat /\ Len(n) >= 1 /\ DOMAIN n = 1 .. Len(n) /\ Last(n) = n[Len(n)]
           /\ Front(n) \in Seq(Nat) /\ Len(Front(n)) = Len(n) - 1
           /\ \A i \in 1 .. Len(n) - 1 : Front(n)[i] = n[i]
  <1> DEFINE S == Nat
  <1>1. n \in Seq(S) /\ n # <<>>
    OBVIOUS
  <1>2. DOMAIN n = 1 .. Len(n)
    OBVIOUS
  <1> HIDE DEF S
  <1>3. /\ Front(n) \in Seq(S) /\ Len(Front(n)) = Len(n) - 1 /\ Len(n) \in Nat /\ Len(n) >= 1
        /\ \A i \in 1 .. Len(n) - 1 : Front(n)[i] = n[i]
        /\ Last(n) = n[Len(n)]
    BY ONLY <1>1, FrontIs
  <1> QED
    BY <1>2, <1>3 DEF S

(* The open containers, and one more.                                      *)
NestedIn(n, l) ==
    /\ n \in Seq(Nat) /\ \A k \in DOMAIN n : n[k] \in 0 .. l
    /\ n # <<>> => n[1] = 0
    /\ \A k \in 2 .. Len(n) : n[k] \in 1 .. l

LEMMA NestedIsIn ==
    ASSUME NEW n, NEW L, Nested(n, L), NEW l \in Nat, DOMAIN L = 1 .. l
    PROVE  NestedIn(n, l)
  <1>1. n \in Seq(Nat) /\ DOMAIN n = 1 .. Len(n) /\ Len(n) \in Nat
    BY DEF Nested
  <1>2. \A k \in DOMAIN n : n[k] \in IF k = 1 THEN {0} ELSE 1 .. l
    BY DEF Nested
  <1>3. \A k \in DOMAIN n : n[k] \in 0 .. l
    BY <1>2
  <1>4. \A k \in 2 .. Len(n) : n[k] \in 1 .. l
    BY <1>1, <1>2
  <1>5. n # <<>> => n[1] = 0
    BY <1>1, <1>2
  <1> QED
    BY <1>1, <1>3, <1>4, <1>5 DEF NestedIn

(* m has one container more open than n, the one numbered x.               *)
Pushed(n, x, m, ln) ==
    /\ ln \in Nat /\ DOMAIN n = 1 .. ln /\ Len(n) = ln
    /\ DOMAIN m = 1 .. ln + 1 /\ Len(m) = ln + 1
    /\ (\A k \in 1 .. ln : m[k] = n[k]) /\ m[ln + 1] = x /\ Last(m) = x

LEMMA AppendPushes ==
    ASSUME NEW n \in Seq(Nat), NEW x \in Nat
    PROVE  Pushed(n, x, Append(n, x), Len(n))
  <1>1. Append(n, x) \in Seq(Nat) /\ Append(n, x) # <<>>
    OBVIOUS
  <1>2. Last(Append(n, x)) = Append(n, x)[Len(n) + 1]
    <2> DEFINE m == Append(n, x)
    <2>1. m \in Seq(Nat) /\ m # <<>> /\ Len(m) = Len(n) + 1
      BY <1>1
    <2> HIDE DEF m
    <2>2. Last(m) = m[Len(m)]
      BY <2>1, LastIs
    <2> QED
      BY <2>1, <2>2 DEF m
  <1> QED
    BY <1>1, <1>2 DEF Pushed

LEMMA TreeGrows ==
    ASSUME NEW n, NEW L, Tree(n, L), NEW l, NestedIn(n, l), n # <<>>,
           NEW e, e.parent = Last(n), Fits(L, e),
           NEW M, Grown(L, e, M, l)
    PROVE  Tree(n, M)
  <1> DEFINE ln == Len(n)
             new == l + 1
             last == Last(n)
  <1>1. /\ l \in Nat /\ DOMAIN L = 1 .. l /\ DOMAIN M = 1 .. new /\ (\A i \in 1 .. l : M[i] = L[i])
        /\ M[new] = e /\ new \in Nat
    BY DEF Grown
  <1>2. /\ ln \in Nat /\ ln >= 1 /\ DOMAIN n = 1 .. ln /\ last = n[ln] /\ last \in 0 .. l
        /\ \A k \in 1 .. ln : n[k] \in 0 .. l
        /\ \A k \in 2 .. ln : n[k] \in 1 .. l
    <2>1. n \in Seq(Nat)
      BY DEF NestedIn
    <2>2. last = n[ln] /\ ln \in Nat /\ ln >= 1 /\ DOMAIN n = 1 .. ln
      BY <2>1, LastIs
    <2> QED
      BY <2>2 DEF NestedIn
  <1> HIDE DEF ln, last
  <1>3. \A i \in 1 .. l : L[i].parent \in 0 .. i - 1 /\ Fits(L, L[i])
    BY <1>1 DEF Tree
  <1>4. /\ \A j, m \in 1 .. l : L[j].parent < m /\ m < j => L[m].parent >= L[j].parent
        /\ \A k \in 2 .. ln : L[n[k]].parent = n[k - 1]
        /\ \A j, k \in 1 .. ln : j < k => n[j] < n[k]
        /\ \A k \in 1 .. ln, i \in 1 .. l : i > n[k] => L[i].parent >= n[k]
    BY <1>1, <1>2 DEF Tree, ln
  <1>5. \A x : x.parent \in 0 .. l /\ Fits(L, x) => Fits(M, x)
    <2>1. \A c \in 0 .. l : IsObject(M, c) <=> IsObject(L, c)
      BY <1>1 DEF IsObject
    <2> QED
      BY <2>1 DEF Fits
  <1>6. ASSUME NEW i \in 1 .. new
        PROVE  M[i].parent \in 0 .. i - 1 /\ Fits(M, M[i])
    <2>1. CASE i = new
      BY <1>1, <1>2, <1>5, <2>1 DEF last
    <2>2. CASE i # new
      <3>1. i \in 1 .. l
        BY <1>1, <2>2
      <3>2. M[i] = L[i] /\ L[i].parent \in 0 .. l
        BY <1>1, <1>3, <3>1
      <3> QED
        BY <1>3, <1>5, <3>1, <3>2
    <2> QED
      BY <2>1, <2>2
  <1>7. ASSUME NEW j \in 1 .. new, NEW m \in 1 .. new, M[j].parent < m, m < j
        PROVE  M[m].parent >= M[j].parent
    <2>1. m \in 1 .. l
      BY <1>1, <1>7
    <2>2. CASE j = new
      <3>1. M[j].parent = last /\ n[ln] = last /\ ln \in 1 .. ln
        BY <1>1, <1>2, <2>2 DEF last
      <3>2. L[m].parent >= last
        BY <1>2, <1>4, <1>7, <2>1, <3>1
      <3> QED
        BY <1>1, <2>1, <3>1, <3>2
    <2>3. CASE j # new
      BY <1>1, <1>4, <1>7, <2>1, <2>3
    <2> QED
      BY <2>2, <2>3
  <1>8. \A k \in 2 .. ln : M[n[k]].parent = n[k - 1]
    BY <1>1, <1>2, <1>4
  <1>9. ASSUME NEW k \in 1 .. ln, NEW i \in 1 .. new, i > n[k]
        PROVE  M[i].parent >= n[k]
    <2>1. CASE i = new
      <3>1. M[i].parent = last /\ n[ln] = last
        BY <1>1, <1>2, <2>1 DEF last
      <3>2. k = ln \/ n[k] < n[ln]
        BY <1>2, <1>4
      <3> QED
        BY <1>2, <3>1, <3>2
    <2>2. CASE i # new
      <3>1. i \in 1 .. l
        BY <1>1, <2>2
      <3> QED
        BY <1>1, <1>4, <1>9, <3>1
    <2> QED
      BY <2>1, <2>2
  <1> QED
    BY <1>1, <1>2, <1>4, <1>6, <1>7, <1>8, <1>9 DEF Tree, ln

(* The entry that has just been made may be open.                          *)
LEMMA TreeOpens ==
    ASSUME NEW n, NEW M, Tree(n, M), NEW l \in Nat, NestedIn(n, l), n # <<>>,
           DOMAIN M = 1 .. l + 1, M[l + 1].parent = Last(n),
           NEW m, Pushed(n, l + 1, m, Len(n))
    PROVE  Tree(m, M)
  <1> DEFINE ln == Len(n)
             new == l + 1
  <1>1. /\ ln \in Nat /\ ln >= 1 /\ DOMAIN n = 1 .. ln /\ Last(n) = n[ln]
        /\ \A k \in 1 .. ln : n[k] \in 0 .. l
    <2>1. n \in Seq(Nat)
      BY DEF NestedIn
    <2>2. Last(n) = n[ln] /\ ln \in Nat /\ ln >= 1 /\ DOMAIN n = 1 .. ln
      BY <2>1, LastIs
    <2> QED
      BY <2>2 DEF NestedIn
  <1>2. /\ DOMAIN m = 1 .. ln + 1 /\ Len(m) = ln + 1 /\ (\A k \in 1 .. ln : m[k] = n[k]) /\ m[ln + 1] = new
        /\ new \in Nat
    BY DEF Pushed
  <1>3. M[new].parent = n[ln] /\ DOMAIN M = 1 .. new
    BY <1>1
  <1>4. /\ \A k \in 2 .. ln : M[n[k]].parent = n[k - 1]
        /\ \A j, k \in 1 .. ln : j < k => n[j] < n[k]
        /\ \A k \in 1 .. ln, i \in 1 .. new : i > n[k] => M[i].parent >= n[k]
    BY <1>1, <1>3 DEF Tree, ln
  <1> HIDE DEF ln, new
  <1>5. ASSUME NEW k \in 2 .. ln + 1 PROVE M[m[k]].parent = m[k - 1]
    <2>1. CASE k = ln + 1
      <3>1. k - 1 = ln /\ ln \in 1 .. ln
        BY <1>1, <2>1
      <3> QED
        BY <1>2, <1>3, <2>1, <3>1
    <2>2. CASE k # ln + 1
      <3>1. k \in 1 .. ln /\ k - 1 \in 1 .. ln /\ k \in 2 .. ln
        BY <1>1, <2>2
      <3> QED
        BY <1>2, <1>4, <3>1
    <2> QED
      BY <2>1, <2>2
  <1>6. ASSUME NEW j \in 1 .. ln + 1, NEW k \in 1 .. ln + 1, j < k PROVE m[j] < m[k]
    <2>1. j \in 1 .. ln
      BY <1>1, <1>6
    <2>2. CASE k = ln + 1
      <3>1. m[j] = n[j] /\ n[j] \in 0 .. l /\ m[k] = new
        BY <1>1, <1>2, <2>1, <2>2
      <3> QED
        BY <3>1 DEF new
    <2>3. CASE k # ln + 1
      BY <1>1, <1>2, <1>4, <1>6, <2>1, <2>3
    <2> QED
      BY <2>2, <2>3
  <1>7. ASSUME NEW k \in 1 .. ln + 1, NEW i \in 1 .. new, i > m[k] PROVE M[i].parent >= m[k]
    <2>1. k # ln + 1
      BY <1>2, <1>7
    <2>2. k \in 1 .. ln
      BY <1>1, <2>1
    <2> QED
      BY <1>2, <1>4, <1>7, <2>2
  <1> QED
    BY <1>2, <1>3, <1>5, <1>6, <1>7 DEF Tree

(* Closing the innermost container, which changes its end only.            *)
Closed(L, c, M) ==
    /\ DOMAIN M = DOMAIN L
    /\ \A i \in DOMAIN L : /\ M[i].op = L[i].op /\ M[i].key = L[i].key /\ M[i].parent = L[i].parent
                           /\ M[i].from = L[i].from
                           /\ i # c => M[i] = L[i]

LEMMA TreeCloses ==
    ASSUME NEW n, NEW L, Tree(n, L), NEW l \in Nat, DOMAIN L = 1 .. l, NestedIn(n, l), n # <<>>,
           NEW M, NEW c, Closed(L, c, M)
    PROVE  Tree(Front(n), M)
  <1> DEFINE ln == Len(n)
             m == Front(n)
  <1>1. /\ ln \in Nat /\ ln >= 1 /\ DOMAIN n = 1 .. ln
        /\ DOMAIN m = 1 .. ln - 1 /\ Len(m) = ln - 1
        /\ \A k \in 1 .. ln - 1 : m[k] = n[k]
        /\ \A k \in 2 .. ln : n[k] \in 1 .. l
    <2>1. n \in Seq(Nat) /\ \A k \in 2 .. ln : n[k] \in 1 .. l
      BY DEF NestedIn
    <2>2. m \in Seq(Nat) /\ Len(m) = ln - 1 /\ ln \in Nat /\ ln >= 1 /\ \A i \in 1 .. ln - 1 : m[i] = n[i]
      BY <2>1, LastIs
    <2> HIDE DEF m
    <2> QED
      BY <2>1, <2>2
  <1>2. /\ DOMAIN M = 1 .. l
        /\ \A i \in 1 .. l : M[i].op = L[i].op /\ M[i].key = L[i].key /\ M[i].parent = L[i].parent
    BY DEF Closed
  <1>3. \A i \in 1 .. l : L[i].parent \in 0 .. i - 1 /\ Fits(L, L[i])
    BY DEF Tree
  <1>4. /\ \A j, k \in 1 .. l : L[j].parent < k /\ k < j => L[k].parent >= L[j].parent
        /\ \A k \in 2 .. ln : L[n[k]].parent = n[k - 1]
        /\ \A j, k \in 1 .. ln : j < k => n[j] < n[k]
        /\ \A k \in 1 .. ln, i \in 1 .. l : i > n[k] => L[i].parent >= n[k]
    BY <1>1 DEF Tree
  <1> HIDE DEF ln, m
  <1>5. ASSUME NEW i \in 1 .. l, L[i].parent \in 0 .. l, Fits(L, L[i]) PROVE Fits(M, M[i])
    <2>1. \A j \in 0 .. l : IsObject(M, j) <=> IsObject(L, j)
      BY <1>2 DEF IsObject
    <2> QED
      BY <1>2, <1>5, <2>1 DEF Fits
  <1>6. ASSUME NEW i \in 1 .. l
        PROVE  M[i].parent \in 0 .. i - 1 /\ Fits(M, M[i])
    <2>1. L[i].parent \in 0 .. l
      BY <1>3
    <2> QED
      BY <1>2, <1>3, <1>5, <2>1
  <1>7. \A j, k \in 1 .. l : M[j].parent < k /\ k < j => M[k].parent >= M[j].parent
    BY <1>2, <1>4
  <1>8. ASSUME NEW k \in 2 .. ln - 1 PROVE M[m[k]].parent = m[k - 1]
    <2>1. k \in 1 .. ln - 1 /\ k - 1 \in 1 .. ln - 1 /\ k \in 2 .. ln
      BY <1>1
    <2> QED
      BY <1>1, <1>2, <1>4, <2>1
  <1>9. ASSUME NEW j \in 1 .. ln - 1, NEW k \in 1 .. ln - 1, j < k PROVE m[j] < m[k]
    <2>1. j \in 1 .. ln /\ k \in 1 .. ln
      BY <1>1
    <2>2. m[j] = n[j] /\ m[k] = n[k]
      BY <1>1
    <2> QED
      BY <1>4, <1>9, <2>1, <2>2
  <1>10. ASSUME NEW k \in 1 .. ln - 1, NEW i \in 1 .. l, i > m[k] PROVE M[i].parent >= m[k]
    <2>1. k \in 1 .. ln /\ m[k] = n[k]
      BY <1>1
    <2> QED
      BY <1>2, <1>4, <1>10, <2>1
  <1> QED
    BY <1>1, <1>2, <1>6, <1>7, <1>8, <1>9, <1>10 DEF Tree, m

(* What a value may begin with, to be told from an object.                 *)
BeginsLike(c, op) == (op = "object" => c = "{") /\ (op \notin {"object", "raw"} => c # "{")

(* The name of a member in front of its value.                             *)
HeadAt(b, e) ==
    /\ e.from \in 6 .. Len(b)
    /\ b[e.from - 4] = Quote /\ b[e.from - 3] = e.key /\ b[e.from - 2] = Quote /\ b[e.from - 1] = ":"
    /\ BeginsLike(b[e.from], e.op)

LEMMA HeadStays ==
    ASSUME NEW u, NEW b, NEW x, Joined(u, b, x), NEW e, HeadAt(b, e)
    PROVE  HeadAt(u, e)
  <1> DEFINE from == e.from
             lb == Len(b)
             lu == Len(u)
  <1>1. lb \in Nat /\ Len(x) \in Nat /\ lu = lb + Len(x) /\ \A i \in 1 .. lb : u[i] = b[i]
    BY JoinedBytes
  <1>2. from \in 6 .. lb
    BY DEF HeadAt
  <1> HIDE DEF from, lb, lu
  <1>3. from \in 6 .. lu /\ from \in 1 .. lb /\ from - 4 \in 1 .. lb /\ from - 3 \in 1 .. lb
        /\ from - 2 \in 1 .. lb /\ from - 1 \in 1 .. lb
    BY ONLY <1>1, <1>2, Len(x) \in Nat
  <1>4. u[from] = b[from] /\ u[from - 4] = b[from - 4] /\ u[from - 3] = b[from - 3]
        /\ u[from - 2] = b[from - 2] /\ u[from - 1] = b[from - 1]
    BY ONLY <1>1, <1>3
  <1> QED
    BY <1>3, <1>4 DEF HeadAt, from, lu

LEMMA OpenAtEnd ==
    ASSUME NEW b, Sequence(b), NEW w, Leads(b, <<>>, w, 2)
    PROVE  OpenAt(b)[Len(b) + 1] = Plain(w)
  <1> DEFINE n == Len(b)
             a == OpenAt(b)
  <1>1. PICK at : Runs(b, at) /\ at[1] = Plain(<<>>) /\ at[Len(b) + 1] = Plain(w)
    BY DEF Leads
  <1>2. IsText(b)
    BY SequenceIsText
  <1>3. Runs(b, a) /\ a[1] = Plain(<<>>)
    BY <1>2, OpenAtRuns
  <1>4. n \in Nat
    BY <1>2 DEF IsText
  <1> HIDE DEF a, n
  <1>5. \A q \in 1 .. n + 1 : a[q] = at[q]
    <2>1. a[1] = at[1] /\ n <= n /\ \A q \in 1 .. n : b[q] = b[q]
      BY <1>1, <1>3, <1>4
    <2>2. n <= Len(b)
      BY <1>4 DEF n
    <2> QED
      BY ONLY <1>1, <1>2, <1>3, <1>4, <2>1, <2>2, RunsBegin
  <1>6. n + 1 \in 1 .. n + 1
    BY <1>4
  <1> QED
    BY <1>1, <1>5, <1>6 DEF a, n

LEMMA AboveEnds ==
    ASSUME NEW u, NEW b, NEW x, Joined(u, b, x), NEW W, NEW w, OpenAt(b)[Len(b) + 1] = Plain(W),
           Above(x, W, w)
    PROVE  OpenAt(u)[Len(u) + 1] = Plain(w)
  <1>1. PICK run : Runs(x, run) /\ run[1] = Plain(W) /\ run[Len(x) + 1] = Plain(w)
    BY DEF Above
  <1>2. /\ Len(b) \in Nat /\ Len(x) \in Nat /\ Len(u) = Len(b) + Len(x)
        /\ \A q \in 1 .. Len(x) + 1 : OpenAt(u)[Len(b) + q] = run[q]
    BY <1>1, JoinedBytes
  <1> DEFINE q == Len(x) + 1
  <1>3. q \in 1 .. Len(x) + 1 /\ Len(b) + q = Len(u) + 1
    BY <1>2
  <1>4. OpenAt(u)[Len(b) + q] = run[q]
    BY <1>2, <1>3
  <1> QED
    BY <1>1, <1>3, <1>4

LEMMA OpenedRemains ==
    ASSUME NEW u, NEW b, NEW x, Joined(u, b, x), NEW from, NEW o, OpenedAt(b, from, o),
           NEW W \in Stacks, NEW w \in Stacks, OpenAt(b)[Len(b) + 1] = Plain(W), Above(x, W, w),
           Len(w) > Len(o)
    PROVE  OpenedAt(u, from, o)
  <1>1. Sequence(b) /\ Sequence(x) /\ u = b \o x
    BY DEF Joined
  <1>2. OpenedAt(b \o x, from, o)
    BY <1>1, OpenedStays
  <1> QED
    BY <1>1, <1>2

(* A bracket opens a container.                                            *)
LEMMA OpensNew ==
    ASSUME NEW u, NEW b, NEW c \in Openers, Joined(u, b, <<c>>), NEW W \in Stacks, W # <<>>,
           OpenAt(b)[Len(b) + 1] = Plain(W)
    PROVE  OpenedAt(u, Len(b) + 1, W) /\ u[Len(b) + 1] = c /\ Len(u) = Len(b) + 1
  <1> DEFINE x == <<c>>
             lb == Len(b)
             from == lb + 1
  <1>1. Joined(u, b, x) /\ Len(x) = 1 /\ x[1] = c
    OBVIOUS
  <1>2. Above(x, W, Append(W, c))
    BY BracketAbove
  <1> HIDE DEF x
  <1>3. /\ lb \in Nat /\ Len(u) = lb + Len(x) /\ \A i \in 1 .. Len(x) : u[lb + i] = x[i]
        /\ \A q \in 1 .. lb + 1 : OpenAt(u)[q] = OpenAt(b)[q]
    <2> HIDE DEF lb, from
    <2>1. Joined(u, b, x)
      BY <1>1
    <2>2. /\ Len(b) \in Nat /\ Len(u) = Len(b) + Len(x)
          /\ \A q \in 1 .. Len(b) + 1 : OpenAt(u)[q] = OpenAt(b)[q]
      BY ONLY <2>1, JoinedBytes
    <2>3. \A i \in 1 .. Len(x) : u[Len(b) + i] = x[i]
      BY ONLY <2>1, JoinedBytes
    <2> QED
      BY ONLY <2>2, <2>3 DEF lb
  <1>4. OpenAt(u)[Len(u) + 1] = Plain(Append(W, c))
    BY <1>1, <1>2, AboveEnds
  <1>5. Len(u) = from /\ u[from] = c /\ from \in 1 .. Len(u) /\ OpenAt(u)[from] = Plain(W)
    <2>1. 1 \in 1 .. Len(x) /\ from \in 1 .. lb + 1
      BY <1>1, <1>3
    <2> QED
      BY <1>1, <1>3, <2>1
  <1>6. Len(Append(W, c)) > Len(W)
    BY DEF Stacks
  <1> DEFINE ww == Append(W, c)
             end == Len(u) + 1
  <1> HIDE DEF lb, from, ww
  <1>7. ASSUME NEW r \in from + 1 .. Len(u) + 1
        PROVE  OpenAt(u)[r] # Broken /\ Len(OpenAt(u)[r].open) > Len(W)
    <2>1. r = end
      BY <1>3, <1>5 DEF from
    <2>2. OpenAt(u)[r] = Plain(ww)
      BY <1>4, <2>1 DEF ww
    <2>3. OpenAt(u)[r] # Broken /\ OpenAt(u)[r].open = ww
      BY <2>2, StandingsDiffer
    <2> QED
      BY <1>6, <2>3 DEF ww
  <1>8. OpenedAt(u, from, W)
    BY <1>5, <1>7 DEF OpenedAt
  <1> QED
    BY <1>5, <1>8 DEF from, lb

(* A text that may be put as the value of an entry.                        *)
Fitting(x, e) ==
    /\ Sequence(x) /\ Len(x) >= 1
    /\ \A o \in Stacks : o # <<>> => Leads(x, o, o, 1)
    /\ \A u, b, W : /\ Joined(u, b, x) /\ PutBehind(b, x, e)
                    /\ W \in Stacks /\ OpenAt(b)[Len(b) + 1] = Plain(W)
                    => ValueAt(u, e) /\ u[Len(u)] \notin Openers /\ BeginsLike(u[e.from], e.op)

LEMMA StringFits ==
    ASSUME NEW s, Sequence(s), NEW e, e.op = "field"
    PROVE  Fitting(Quoted(s), e)
  <1> DEFINE x == Quoted(s)
  <1>1. Sequence(x) /\ \A o \in Stacks : o # <<>> => Leads(x, o, o, 1)
    BY QuotedType, LeadsQuoted DEF Quoted
  <1>2. NeitherOf(e) /\ \A c : c # "{" => BeginsLike(c, e.op)
    BY DEF NeitherOf, BeginsLike
  <1>3. Quote # "{"
    BY DEF Quote
  <1>4. Len(x) >= 1
    <2> DEFINE a == <<Quote>>
               y == Escaped(s)
    <2>1. Sequence(a) /\ Len(a) = 1 /\ Sequence(y) /\ Sequence(a \o y)
      BY SequenceOne, EscapedType, SequenceConcat
    <2>2. x = (a \o y) \o a
      BY DEF Quoted
    <2> HIDE DEF a, y
    <2>3. Len(a \o y) = Len(a) + Len(y) /\ Len(a) \in Nat /\ Len(y) \in Nat
      BY <2>1, ConcatBytes
    <2>4. Len((a \o y) \o a) = Len(a \o y) + Len(a)
      BY <2>1, ConcatBytes
    <2> QED
      BY <2>1, <2>2, <2>3, <2>4
  <1>5. x = Quoted(s)
    OBVIOUS
  <1> HIDE DEF x
  <1>6. ASSUME NEW u, NEW b, NEW W, Joined(u, b, x), PutBehind(b, x, e), W \in Stacks,
               OpenAt(b)[Len(b) + 1] = Plain(W)
        PROVE  ValueAt(u, e) /\ u[Len(u)] \notin Openers /\ BeginsLike(u[e.from], e.op)
    <2>1. ValueAt(u, e) /\ u[e.from] = Quote /\ u[Len(u)] \notin Openers
      BY <1>2, <1>5, <1>6, NewString
    <2> QED
      BY <1>2, <1>3, <2>1
  <1> QED
    BY <1>1, <1>4, <1>5, <1>6 DEF Fitting

LEMMA SpelledFits ==
    ASSUME NEW x, Sequence(x), Len(x) >= 1, \A i \in 1 .. Len(x) : x[i] \notin Structure,
           NEW e, e.op \in {"number", "double", "bool"}, e.op = "double" => x = e.value,
           Simple(x) \/ (e.op = "double" /\ x \in NotFinite)
    PROVE  Fitting(x, e)
  <1>1. \A o \in Stacks : o # <<>> => Leads(x, o, o, 1)
    BY LeadsPlain
  <1>2. \A c : c \notin Structure => BeginsLike(c, e.op)
    BY DEF BeginsLike, Structure, Openers
  <1>3. ASSUME NEW u, NEW b, NEW W, Joined(u, b, x), PutBehind(b, x, e), W \in Stacks,
               OpenAt(b)[Len(b) + 1] = Plain(W)
        PROVE  ValueAt(u, e) /\ u[Len(u)] \notin Openers /\ BeginsLike(u[e.from], e.op)
    <2>1. ValueAt(u, e) /\ u[e.from] \notin Structure /\ u[Len(u)] \notin Openers
      BY <1>3, NewSpelled
    <2> QED
      BY <1>2, <2>1
  <1> QED
    BY <1>1, <1>3 DEF Fitting

LEMMA RawFits ==
    ASSUME NEW x \in RawValues, NEW e, e.op = "raw"
    PROVE  Fitting(x, e)
  <1>1. Sequence(x) /\ \A o \in Stacks : o # <<>> => Leads(x, o, o, 1)
    <2> DEFINE top == <<"{">>
    <2>1. top \in Stacks /\ top # <<>>
      BY DEF Stacks, Openers
    <2> HIDE DEF top
    <2> QED
      BY <2>1, LeadsRaw
  <1>2. IsValue(x)
    BY RawAssumption
  <1>3. Len(x) >= 1
    BY <1>1, <1>2, ValueClosesItself
  <1>4. NeitherOf(e) /\ \A c : BeginsLike(c, e.op)
    BY DEF NeitherOf, BeginsLike
  <1>5. ASSUME NEW u, NEW b, NEW W, Joined(u, b, x), PutBehind(b, x, e), W \in Stacks,
               OpenAt(b)[Len(b) + 1] = Plain(W)
        PROVE  ValueAt(u, e) /\ u[Len(u)] \notin Openers /\ BeginsLike(u[e.from], e.op)
    <2>1. ValueAt(u, e) /\ u[Len(u)] \notin Openers
      BY <1>2, <1>4, <1>5, NewRaw
    <2> QED
      BY <1>4, <2>1
  <1> QED
    BY <1>1, <1>3, <1>5 DEF Fitting

Heads(b, L) == \A i \in DOMAIN L : L[i].op \notin Elements => HeadAt(b, L[i])
Values(b, n, L) == \A i \in DOMAIN L : L[i].op \notin Elements /\ ~IsOpen(n, i) => ValueAt(b, L[i])

(* The open containers, each within the brackets W of those before it.     *)
Branch(b, n, L, W) ==
    \A k \in 2 .. Len(n) :
      \E o : OpenedAt(b, L[n[k]].from, o) /\ Len(o) = k - 1 /\ \A j \in 1 .. k - 1 : o[j] = W[j]

(* Every member stands in the text as the ledger tells.                    *)
Spelling(b, n, L) ==
    /\ At(b, 1, "{")
    /\ Heads(b, L)
    /\ Values(b, n, L)
    /\ Branch(b, n, L, BracketsOf(n, L))

LEMMA EntriesStay ==
    ASSUME NEW u, NEW b, NEW x, Joined(u, b, x), NEW n, NEW L
    PROVE  /\ \A c : At(b, 1, c) => At(u, 1, c)
           /\ Heads(b, L) => Heads(u, L)
           /\ Values(b, n, L) => Values(u, n, L)
  <1>1. ASSUME NEW c, At(b, 1, c) PROVE At(u, 1, c)
    <2>1. /\ IsText(b) /\ Len(b) \in Nat /\ Len(x) \in Nat /\ Len(u) = Len(b) + Len(x)
          /\ DOMAIN u = 1 .. Len(u)
      BY JoinedBytes
    <2>2. \A i \in 1 .. Len(b) : u[i] = b[i]
      BY JoinedBytes
    <2>3. 1 \in 1 .. Len(b) /\ b[1] = c
      BY <1>1, <2>1 DEF At, IsText
    <2>4. 1 \in 1 .. Len(u)
      BY <2>1, <2>3
    <2> QED
      BY <2>1, <2>2, <2>3, <2>4 DEF At
  <1>2. Heads(b, L) => Heads(u, L)
    BY HeadStays DEF Heads
  <1>3. Values(b, n, L) => Values(u, n, L)
    BY ValueStays DEF Values
  <1> QED
    BY <1>1, <1>2, <1>3

LEMMA SpellingExtends ==
    ASSUME NEW u, NEW b, NEW x, Joined(u, b, x), NEW n, NEW L, Spelling(b, n, L), Len(n) \in Nat,
           NEW W \in Stacks, OpenAt(b)[Len(b) + 1] = Plain(W),
           NEW w \in Stacks, Above(x, W, w), Len(w) >= Len(n)
    PROVE  Spelling(u, n, L)
  <1> DEFINE B == BracketsOf(n, L)
  <1>1. ASSUME NEW k \in 2 .. Len(n)
        PROVE  \E o : OpenedAt(u, L[n[k]].from, o) /\ Len(o) = k - 1 /\ \A j \in 1 .. k - 1 : o[j] = B[j]
    <2> DEFINE from == L[n[k]].from
    <2>1. PICK o : OpenedAt(b, from, o) /\ Len(o) = k - 1 /\ \A j \in 1 .. k - 1 : o[j] = B[j]
      BY DEF Spelling, Branch
    <2> HIDE DEF from, B
    <2>2. Len(w) > Len(o)
      <3>1. Len(w) \in Nat
        BY DEF Stacks
      <3> QED
        BY ONLY <2>1, <3>1, k \in 2 .. Len(n), Len(n) \in Nat, Len(w) >= Len(n)
    <2>3. OpenedAt(u, from, o)
      BY <2>1, <2>2, OpenedRemains
    <2> QED
      BY <2>1, <2>3 DEF from
  <1> HIDE DEF B
  <1>2. Branch(u, n, L, B)
    BY <1>1 DEF Branch
  <1> QED
    BY <1>2, EntriesStay DEF Spelling, B

(* The head of a member that is put behind the text.                       *)
LEMMA NewHead ==
    ASSUME NEW b, NEW mid, NEW u, NEW key, NEW comma, NEW x, Sequence(comma), Len(b) >= 1, Len(x) >= 1,
           Joined(mid, b, comma \o <<Quote, key, Quote, ":">>), Joined(u, mid, x),
           NEW e, e.from = Len(mid) + 1, e.key = key, BeginsLike(u[e.from], e.op)
    PROVE  HeadAt(u, e)
  <1> DEFINE name == <<Quote, key, Quote, ":">>
             head == comma \o name
             from == e.from
             lb == Len(b)
             lc == Len(comma)
             lm == Len(mid)
  <1>1. Len(name) = 4 /\ name[1] = Quote /\ name[2] = key /\ name[3] = Quote /\ name[4] = ":"
    OBVIOUS
  <1>2. Sequence(name)
    BY SequenceFour
  <1>3. Joined(mid, b, head)
    OBVIOUS
  <1>0. Sequence(comma)
    OBVIOUS
  <1>20. Joined(head, comma, name)
    BY ONLY <1>2, <1>0 DEF Joined
  <1> HIDE DEF name, head
  <1>4. lc \in Nat /\ Len(head) = lc + 4 /\ \A i \in 1 .. 4 : head[lc + i] = name[i]
    <2> HIDE DEF lc
    <2>1. Len(comma) \in Nat /\ Len(head) = Len(comma) + Len(name)
      BY ONLY <1>20, JoinedBytes
    <2>2. \A i \in 1 .. Len(name) : head[Len(comma) + i] = name[i]
      BY ONLY <1>20, JoinedBytes
    <2> QED
      BY <1>1, <2>1, <2>2 DEF lc
  <1> HIDE DEF from, lb, lc, lm
  <1>5. lb \in Nat /\ lm = lb + Len(head) /\ \A i \in 1 .. Len(head) : mid[lb + i] = head[i]
    <2>1. Len(b) \in Nat /\ Len(mid) = Len(b) + Len(head)
      BY ONLY <1>3, JoinedBytes
    <2>2. \A i \in 1 .. Len(head) : mid[Len(b) + i] = head[i]
      BY ONLY <1>3, JoinedBytes
    <2> QED
      BY ONLY <2>1, <2>2 DEF lb, lm
  <1>6. Len(u) = lm + Len(x) /\ Len(x) \in Nat /\ \A i \in 1 .. lm : u[i] = mid[i]
    BY JoinedBytes DEF lm
  <1>8. from = lb + lc + 5 /\ lb >= 1
    <2>1. from = lm + 1 /\ lb >= 1
      BY DEF from, lm, lb
    <2> QED
      BY ONLY <1>4, <1>5, <2>1
  <1> DEFINE lh == Len(head)
             lx == Len(x)
  <1>21. /\ lc \in Nat /\ lb \in Nat /\ lx \in Nat /\ lh = lc + 4 /\ lm = lb + lh /\ Len(u) = lm + lx
         /\ from = lb + lc + 5 /\ lb >= 1 /\ lx >= 1
    BY <1>4, <1>5, <1>6, <1>8
  <1> HIDE DEF lh, lx
  <1>9. \A i \in 1 .. 4 : u[lb + (lc + i)] = name[i]
    <2> TAKE i \in 1 .. 4
    <2>1. lc + i \in 1 .. Len(head) /\ lb + (lc + i) \in 1 .. lm
      <3>1. lc + i \in 1 .. lh /\ lb + (lc + i) \in 1 .. lm
        BY ONLY <1>21, i \in 1 .. 4
      <3> QED
        BY <3>1 DEF lh
    <2>2. u[lb + (lc + i)] = mid[lb + (lc + i)] /\ mid[lb + (lc + i)] = head[lc + i]
      BY <1>5, <1>6, <2>1
    <2> QED
      BY <1>4, <2>2
  <1>10. u[from - 4] = name[1] /\ u[from - 3] = name[2] /\ u[from - 2] = name[3] /\ u[from - 1] = name[4]
    <2>1. from - 4 = lb + (lc + 1) /\ from - 3 = lb + (lc + 2) /\ from - 2 = lb + (lc + 3)
          /\ from - 1 = lb + (lc + 4)
      BY <1>4, <1>5, <1>8
    <2>2. 1 \in 1 .. 4 /\ 2 \in 1 .. 4 /\ 3 \in 1 .. 4 /\ 4 \in 1 .. 4
      OBVIOUS
    <2> QED
      BY ONLY <1>9, <2>1, <2>2
  <1>11. from \in 6 .. Len(u)
    BY ONLY <1>21
  <1> QED
    BY <1>1, <1>10, <1>11 DEF HeadAt, from

(* Another entry: its value is written, or it is a container that opens.   *)
LEMMA SpellingPuts ==
    ASSUME NEW u, NEW n, NEW L, Spelling(u, n, L), Nested(n, L),
           NEW e, e.op \notin Elements => HeadAt(u, e) /\ ValueAt(u, e),
           NEW M, NEW l, Grown(L, e, M, l)
    PROVE  Spelling(u, n, M)
  <1>1. /\ l \in Nat /\ DOMAIN L = 1 .. l /\ DOMAIN M = 1 .. l + 1 /\ (\A i \in 1 .. l : M[i] = L[i])
        /\ M[l + 1] = e
    BY DEF Grown
  <1>2. \A i \in 1 .. l + 1 : i \in 1 .. l \/ i = l + 1
    BY <1>1
  <1>3. \A i \in 1 .. l : i \in 1 .. l + 1
    BY <1>1
  <1>4. BracketsOf(n, M) = BracketsOf(n, L)
    <2>1. \A i \in DOMAIN L : i \in DOMAIN M /\ M[i].op = L[i].op
      BY <1>1, <1>3
    <2> QED
      BY <2>1, BracketsStay
  <1>5. Heads(u, M)
    BY <1>1, <1>2 DEF Heads, Spelling
  <1>6. Values(u, n, M)
    BY <1>1, <1>2 DEF Values, Spelling
  <1>7. \A k \in 2 .. Len(n) : M[n[k]] = L[n[k]]
    <2>1. NestedIn(n, l)
      BY <1>1, NestedIsIn
    <2> QED
      BY <1>1, <2>1 DEF NestedIn
  <1>8. Branch(u, n, M, BracketsOf(n, L))
    BY <1>7 DEF Branch, Spelling
  <1> QED
    BY <1>4, <1>5, <1>6, <1>8 DEF Spelling

LEMMA SpellingOpens ==
    ASSUME NEW u, NEW n, NEW L, Spelling(u, n, L), Nested(n, L), n # <<>>,
           NEW e, HeadAt(u, e), OpenedAt(u, e.from, BracketsOf(n, L)),
           NEW M, NEW l, Grown(L, e, M, l), NEW m, Pushed(n, l + 1, m, Len(n)),
           \A j \in 1 .. Len(n) : BracketsOf(m, M)[j] = BracketsOf(n, L)[j]
    PROVE  Spelling(u, m, M)
  <1> DEFINE W == BracketsOf(n, L)
             ln == Len(n)
             V == BracketsOf(m, M)
  <1>1. /\ l \in Nat /\ DOMAIN L = 1 .. l /\ DOMAIN M = 1 .. l + 1 /\ (\A i \in 1 .. l : M[i] = L[i])
        /\ M[l + 1] = e
    BY DEF Grown
  <1>2. \A i \in 1 .. l + 1 : i \in 1 .. l \/ i = l + 1
    BY <1>1
  <1>3. /\ ln \in Nat /\ DOMAIN n = 1 .. ln /\ DOMAIN m = 1 .. ln + 1 /\ Len(m) = ln + 1
        /\ (\A k \in 1 .. ln : m[k] = n[k]) /\ m[ln + 1] = l + 1
    BY DEF Pushed
  <1>4. Heads(u, M)
    BY <1>1, <1>2 DEF Heads, Spelling
  <1>5. Values(u, m, M)
    <2> SUFFICES ASSUME NEW i \in 1 .. l + 1, M[i].op \notin Elements, ~IsOpen(m, i)
                 PROVE  ValueAt(u, M[i])
      BY <1>1 DEF Values
    <2>1. i # l + 1
      <3>1. ln + 1 \in DOMAIN m
        BY <1>3
      <3> QED
        BY <1>3, <3>1 DEF IsOpen
    <2>2. ~IsOpen(n, i)
      <3>1. \A k \in DOMAIN n : k \in DOMAIN m /\ m[k] = n[k]
        BY <1>3
      <3> QED
        BY <3>1 DEF IsOpen
    <2> QED
      BY <1>1, <1>2, <2>1, <2>2 DEF Values, Spelling
  <1>6. Len(W) = ln
    BY BracketsType
  <1>7. ASSUME NEW k \in 2 .. ln + 1
        PROVE  \E o : OpenedAt(u, M[m[k]].from, o) /\ Len(o) = k - 1 /\ \A j \in 1 .. k - 1 : o[j] = V[j]
    <2>1. \A j \in 1 .. ln : V[j] = W[j]
      OBVIOUS
    <2>2. CASE k = ln + 1
      <3>1. M[m[k]] = e /\ k - 1 = ln
        BY <1>1, <1>3, <2>2
      <3> HIDE DEF W, V, ln
      <3>2. OpenedAt(u, M[m[k]].from, W)
        BY <3>1 DEF W
      <3> WITNESS W
      <3> QED
        BY <1>6, <2>1, <3>1, <3>2
    <2>3. CASE k # ln + 1
      <3>1. k \in 2 .. ln /\ k \in 1 .. ln
        BY <1>3, <2>3
      <3>2. m[k] = n[k] /\ n[k] \in 1 .. l
        <4>1. NestedIn(n, l)
          BY <1>1, NestedIsIn
        <4> QED
          BY <1>3, <3>1, <4>1 DEF NestedIn
      <3>3. M[m[k]] = L[n[k]]
        BY <1>1, <3>2
      <3>4. PICK o : OpenedAt(u, L[n[k]].from, o) /\ Len(o) = k - 1 /\ \A j \in 1 .. k - 1 : o[j] = W[j]
        BY <3>1 DEF Spelling, Branch
      <3> HIDE DEF W, V, ln
      <3>5. \A j \in 1 .. k - 1 : j \in 1 .. ln
        BY <1>3, <3>1
      <3> WITNESS o
      <3> QED
        BY <2>1, <3>3, <3>4, <3>5
    <2> QED
      BY <2>2, <2>3
  <1>8. Branch(u, m, M, V)
    BY <1>3, <1>7 DEF Branch
  <1> QED
    BY <1>4, <1>5, <1>8 DEF Spelling

LEMMA SpellingCloses ==
    ASSUME NEW b, NEW u, NEW bracket \in Closers, Joined(u, b, <<bracket>>),
           NEW n, NEW L, Spelling(b, n, L), Nested(n, L), Len(n) > 1, NEW l \in Nat, DOMAIN L = 1 .. l,
           OpenAt(b)[Len(b) + 1] = Plain(BracketsOf(n, L)),
           Last(BracketsOf(n, L)) = Opener(bracket),
           NEW c, c = Last(n), NEW M, Closed(L, c, M), M[c].to = Len(b) + 2, NeitherOf(L[c])
    PROVE  Spelling(u, Front(n), M)
  <1> DEFINE W == BracketsOf(n, L)
             V == BracketsOf(Front(n), M)
             ln == Len(n)
             m == Front(n)
             x == <<bracket>>
  <1>1. /\ ln \in Nat /\ ln >= 2 /\ DOMAIN n = 1 .. ln /\ c = n[ln]
        /\ DOMAIN m = 1 .. ln - 1 /\ Len(m) = ln - 1
        /\ \A k \in 1 .. ln - 1 : m[k] = n[k]
        /\ \A k \in 2 .. ln : n[k] \in 1 .. l
    <2>1. n \in Seq(Nat) /\ \A k \in 2 .. ln : n[k] \in 1 .. l
      BY NestedIsIn DEF NestedIn
    <2>2. n # <<>>
      OBVIOUS
    <2>3. /\ Len(n) \in Nat /\ DOMAIN n = 1 .. Len(n) /\ Last(n) = n[Len(n)]
          /\ m \in Seq(Nat) /\ Len(m) = Len(n) - 1
          /\ \A i \in 1 .. Len(n) - 1 : m[i] = n[i]
      BY ONLY <2>1, <2>2, LastIs
    <2>4. Len(n) > 1 /\ c = Last(n)
      OBVIOUS
    <2> HIDE DEF m
    <2> QED
      BY ONLY <2>1, <2>3, <2>4 DEF ln
  <1>2. /\ W \in Stacks /\ Len(W) = ln /\ W # <<>>
    BY <1>1, BracketsType
  <1>3. Joined(u, b, x) /\ Above(x, W, Front(W)) /\ OpenAt(b)[Len(b) + 1] = Plain(W)
    BY <1>2, BracketAbove
  <1>4. V = Front(W) /\ Front(W) \in Stacks /\ Len(Front(W)) = ln - 1 /\ \A i \in 1 .. ln - 1 : Front(W)[i] = W[i]
    <2>1. n # <<>>
      BY <1>1
    <2>2. Nested(m, L) /\ BracketsOf(m, L) = Front(W)
      BY <2>1, BracketsPop
    <2>3. \A i \in DOMAIN L : i \in DOMAIN M /\ M[i].op = L[i].op
      BY DEF Closed
    <2>4. V = BracketsOf(m, L)
      BY <2>2, <2>3, BracketsStay
    <2> HIDE DEF V, W, m, ln
    <2>5. W \in Seq(Openers) /\ W # <<>>
      BY <1>2 DEF Stacks
    <2>6. /\ Front(W) \in Seq(Openers) /\ Len(Front(W)) = Len(W) - 1
          /\ \A i \in 1 .. Len(W) - 1 : Front(W)[i] = W[i]
      BY ONLY <2>5, FrontIs
    <2> QED
      BY <1>2, <2>2, <2>4, <2>6 DEF Stacks
  <1> HIDE DEF W, V, ln, m, x
  <1>5. /\ DOMAIN M = 1 .. l
        /\ \A i \in 1 .. l : /\ M[i].op = L[i].op /\ M[i].key = L[i].key /\ M[i].from = L[i].from
                             /\ i # c => M[i] = L[i]
    BY DEF Closed
  <1>6. OpenAt(u)[Len(u) + 1] = Plain(Front(W))
    BY <1>3, AboveEnds
  <1>7. Spelling(b, n, L)
    OBVIOUS
  <1>8. At(u, 1, "{") /\ Heads(u, L) /\ Values(u, n, L)
    BY <1>3, <1>7, EntriesStay DEF Spelling
  <1>9. Heads(u, M)
    <2> SUFFICES ASSUME NEW i \in 1 .. l, M[i].op \notin Elements PROVE HeadAt(u, M[i])
      BY <1>5 DEF Heads
    <2>1. HeadAt(u, L[i])
      BY <1>5, <1>8 DEF Heads
    <2> QED
      BY <1>5, <2>1 DEF HeadAt
  <1>10. c \in 1 .. l /\ \E o : OpenedAt(b, L[c].from, o) /\ o = Front(W)
    <2>1. ln \in 2 .. Len(n)
      BY <1>1 DEF ln
    <2>2. PICK o : OpenedAt(b, L[n[ln]].from, o) /\ Len(o) = ln - 1 /\ \A j \in 1 .. ln - 1 : o[j] = W[j]
      BY <1>7, <2>1 DEF Spelling, Branch, W
    <2>3. o \in Stacks
      BY <2>2 DEF OpenedAt
    <2>4. o = Front(W)
      <3> DEFINE f == Front(W)
      <3>1. o \in Seq(Openers) /\ f \in Seq(Openers) /\ Len(o) = ln - 1 /\ Len(f) = ln - 1
            /\ \A j \in 1 .. ln - 1 : o[j] = f[j]
        BY <1>4, <2>2, <2>3 DEF Stacks
      <3> HIDE DEF f
      <3>2. o = f
        BY ONLY <3>1
      <3> QED
        BY <3>2 DEF f
    <2> QED
      BY <1>1, <2>1, <2>2, <2>4 DEF ln
  <1>11. ValueAt(u, M[c])
    <2> DEFINE e == M[c]
               o == Front(W)
    <2>1. OpenedAt(b, e.from, o)
      BY <1>5, <1>10
    <2>2. NeitherOf(e)
      BY <1>5, <1>10 DEF NeitherOf
    <2>3. e.to = Len(b) + 2
      OBVIOUS
    <2>4. OpenAt(u)[Len(u) + 1] = Plain(o) /\ Joined(u, b, <<bracket>>)
      BY <1>6
    <2> HIDE DEF e, o
    <2>5. ValueAt(u, e)
      BY <2>1, <2>2, <2>3, <2>4, ClosedIsValue
    <2> QED
      BY <2>5 DEF e
  <1>12. Values(u, m, M)
    <2> SUFFICES ASSUME NEW i \in 1 .. l, M[i].op \notin Elements, ~IsOpen(m, i), i # c
                 PROVE  ValueAt(u, M[i])
      BY <1>5, <1>11 DEF Values
    <2>1. ~IsOpen(n, i)
      <3> SUFFICES ASSUME NEW k \in 1 .. ln, n[k] = i PROVE FALSE
        BY <1>1 DEF IsOpen
      <3>1. k \in 1 .. ln - 1
        BY <1>1
      <3>2. k \in DOMAIN m /\ m[k] = i
        BY <1>1, <3>1
      <3> QED
        BY <3>2 DEF IsOpen
    <2> QED
      BY <1>5, <1>8, <2>1 DEF Values
  <1>13. Branch(u, m, M, V)
    <2> SUFFICES ASSUME NEW k \in 2 .. ln - 1
                 PROVE  \E o : /\ OpenedAt(u, M[m[k]].from, o) /\ Len(o) = k - 1
                               /\ \A j \in 1 .. k - 1 : o[j] = V[j]
      BY <1>1 DEF Branch
    <2>1. k \in 2 .. Len(n) /\ k \in 1 .. ln - 1 /\ k \in 2 .. ln
      BY <1>1 DEF ln
    <2>2. m[k] = n[k] /\ n[k] \in 1 .. l
      BY <1>1, <2>1
    <2>3. PICK o : OpenedAt(b, L[n[k]].from, o) /\ Len(o) = k - 1 /\ \A j \in 1 .. k - 1 : o[j] = W[j]
      BY <1>7, <2>1 DEF Spelling, Branch, W
    <2>4. Len(Front(W)) > Len(o)
      BY <1>1, <1>4, <2>3
    <2> DEFINE from == L[n[k]].from
               f == Front(W)
    <2> HIDE DEF from, f
    <2>5. /\ Joined(u, b, x) /\ OpenedAt(b, from, o) /\ W \in Stacks /\ f \in Stacks
          /\ OpenAt(b)[Len(b) + 1] = Plain(W) /\ Above(x, W, f) /\ Len(f) > Len(o)
      BY <1>2, <1>3, <1>4, <2>3, <2>4 DEF from, f
    <2>6. OpenedAt(u, from, o)
      BY ONLY <2>5, OpenedRemains
    <2>7. \A j \in 1 .. k - 1 : j \in 1 .. ln - 1
      BY <1>1
    <2> WITNESS o
    <2> QED
      BY <1>4, <1>5, <2>2, <2>3, <2>6, <2>7 DEF from, f
  <1> QED
    BY <1>8, <1>9, <1>12, <1>13 DEF Spelling, V, m

(* The message itself, opened and closed.                                  *)
LEMMA SpellingEnds ==
    ASSUME NEW b, NEW u, NEW x, Joined(u, b, x), NEW L, Spelling(b, << 0 >>, L),
           NEW l \in Nat, DOMAIN L = 1 .. l
    PROVE  Spelling(u, <<>>, L)
  <1> DEFINE zero == << 0 >>
             none == <<>>
  <1>1. \A i \in 1 .. l : ~IsOpen(zero, i)
    BY DEF IsOpen
  <1>2. Heads(b, L) /\ Values(b, zero, L) /\ At(b, 1, "{")
    BY DEF Spelling
  <1> HIDE DEF zero
  <1>3. Values(b, none, L)
    BY <1>1, <1>2 DEF Values
  <1>4. \A B : Branch(u, none, L, B)
    BY DEF Branch
  <1> HIDE DEF none
  <1>5. At(u, 1, "{") /\ Heads(u, L) /\ Values(u, none, L)
    BY <1>2, <1>3, EntriesStay
  <1>6. Spelling(u, none, L)
    BY <1>4, <1>5 DEF Spelling
  <1> QED
    BY <1>6 DEF none

LEMMA SpellingStarts ==
    Spelling(<<"{">>, << 0 >>, <<>>)
  <1> DEFINE brace == <<"{">>
             zero == << 0 >>
             none == <<>>
  <1>1. At(brace, 1, "{")
    BY DEF At
  <1>2. Heads(brace, none) /\ Values(brace, zero, none)
    BY DEF Heads, Values
  <1>3. \A B : Branch(brace, zero, none, B)
    <2>1. Len(zero) = 1
      OBVIOUS
    <2> HIDE DEF brace, zero, none
    <2>2. \A k \in 2 .. Len(zero) : FALSE
      BY <2>1
    <2> QED
      BY <2>2 DEF Branch
  <1> HIDE DEF brace, zero, none
  <1>4. Spelling(brace, zero, none)
    BY <1>1, <1>2, <1>3 DEF Spelling
  <1> QED
    BY <1>4 DEF brace, zero, none

(* Where the first member of an object has its name.                       *)
Inner(L, c) == IF c = 0 THEN 2 ELSE L[c].from + 1
IsMember(e) == e.op \notin Elements

(* Members of the same container, one after the other.                     *)
FirstOf(L, j) == \A k \in DOMAIN L : k < j => L[k].parent # L[j].parent
LastOf(L, j) == \A k \in DOMAIN L : j < k => L[k].parent # L[j].parent
Adjacent(L, k, j) ==
    /\ k < j /\ L[k].parent = L[j].parent
    /\ \A m \in DOMAIN L : k < m /\ m < j => L[m].parent # L[j].parent
Childless(L, c) == \A j \in DOMAIN L : L[j].parent # c

(* What is written in the container c ends before e.                       *)
EndsAt(L, c, e) ==
    /\ Childless(L, c) => e = Inner(L, c)
    /\ \A j \in DOMAIN L : L[j].parent = c /\ LastOf(L, j) => L[j].to = e

CommaAt(b, p) == At(b, p, ",")
BraceAt(b, p) == At(b, p, "}")

Firsts(L) ==
    \A j \in DOMAIN L : IsMember(L[j]) /\ FirstOf(L, j) => L[j].from = Inner(L, L[j].parent) + 4
Commas(b, L) ==
    \A j, k \in DOMAIN L :
      IsMember(L[j]) /\ Adjacent(L, k, j) => L[j].from = L[k].to + 5 /\ CommaAt(b, L[k].to)
Inwards(n, L) ==
    \A j \in DOMAIN L :
      IsMember(L[j]) /\ L[j].parent # 0 =>
        /\ L[L[j].parent].from + 4 < L[j].from
        /\ ~IsOpen(n, L[j].parent) => L[j].to < L[L[j].parent].to
JustOpened(b) == Last(b) \in Openers
Frontier(b, n, L) ==
    n # <<>> /\ IsObject(L, Last(n)) =>
      /\ EndsAt(L, Last(n), Len(b) + 1)
      /\ JustOpened(b) <=> Childless(L, Last(n))
      /\ JustOpened(b) => Last(b) = "{"
Ends(b, n, L) ==
    \A c \in DOMAIN L : IsObject(L, c) /\ ~IsOpen(n, c) =>
      EndsAt(L, c, L[c].to - 1) /\ BraceAt(b, L[c].to - 1)
Finish(b, n, L) == n = <<>> => EndsAt(L, 0, Len(b)) /\ BraceAt(b, Len(b))

(* Members follow each other, with a comma between them, and fill the      *)
(* object that they are in.                                                *)
Order(b, n, L) ==
    Firsts(L) /\ Commas(b, L) /\ Inwards(n, L) /\ Frontier(b, n, L) /\ Ends(b, n, L) /\ Finish(b, n, L)

LEMMA AtStays ==
    ASSUME NEW u, NEW b, NEW x, Joined(u, b, x), NEW p, NEW c, At(b, p, c)
    PROVE  At(u, p, c)
  <1>1. /\ IsText(b) /\ Len(b) \in Nat /\ Len(x) \in Nat /\ Len(u) = Len(b) + Len(x)
        /\ DOMAIN u = 1 .. Len(u)
    BY JoinedBytes
  <1>2. \A i \in 1 .. Len(b) : u[i] = b[i]
    BY JoinedBytes
  <1>3. p \in 1 .. Len(b) /\ b[p] = c
    BY <1>1 DEF At, IsText
  <1>4. p \in 1 .. Len(u)
    BY <1>1, <1>3
  <1> QED
    BY <1>1, <1>2, <1>3, <1>4 DEF At

(* The parents of the members, as numbers.                                 *)
Parents(L, l) ==
    /\ l \in Nat /\ DOMAIN L = 1 .. l
    /\ \A j \in 1 .. l : L[j].parent \in Nat /\ L[j].parent < j

LEMMA TreeParents ==
    ASSUME NEW n, NEW L, Tree(n, L), NEW l \in Nat, DOMAIN L = 1 .. l
    PROVE  Parents(L, l)
  <1>1. ASSUME NEW j \in 1 .. l PROVE L[j].parent \in Nat /\ L[j].parent < j
    <2>1. L[j].parent \in 0 .. j - 1
      BY DEF Tree
    <2> QED
      BY <2>1
  <1> QED
    BY <1>1 DEF Parents

(* What one more entry, the last of its container, changes.                *)
LEMMA RelationsGrow ==
    ASSUME NEW L, NEW l, Parents(L, l), NEW e, NEW M, Grown(L, e, M, l), NEW c \in 0 .. l, e.parent = c
    PROVE  /\ \A j \in 1 .. l : /\ FirstOf(M, j) => FirstOf(L, j)
                                /\ LastOf(M, j) => LastOf(L, j)
                                /\ \A k \in 1 .. l + 1 : Adjacent(M, k, j) => k \in 1 .. l /\ Adjacent(L, k, j)
                                /\ L[j].parent = c => ~LastOf(M, j)
           /\ FirstOf(M, l + 1) => Childless(L, c)
           /\ \A k \in 1 .. l + 1 : Adjacent(M, k, l + 1) => k \in 1 .. l /\ L[k].parent = c /\ LastOf(L, k)
           /\ \A d \in 0 .. l : /\ Inner(M, d) = Inner(L, d)
                                /\ d # c => \A end : EndsAt(L, d, end) => EndsAt(M, d, end)
           /\ ~Childless(M, c) /\ Childless(M, l + 1)
  <1> DEFINE new == l + 1
  <1>1. /\ l \in Nat /\ DOMAIN L = 1 .. l /\ DOMAIN M = 1 .. new /\ (\A i \in 1 .. l : M[i] = L[i])
        /\ M[new] = e /\ new \in Nat /\ M[new].parent = c /\ c < new /\ c \in Nat
    BY DEF Grown
  <1>2. \A j \in 1 .. l : L[j].parent \in Nat /\ L[j].parent < j /\ j \in 1 .. new /\ j < new
    BY <1>1 DEF Parents
  <1>3. \A j \in 1 .. new : j \in 1 .. l \/ j = new
    BY <1>1
  <1> HIDE DEF new
  <1>4. ASSUME NEW j \in 1 .. l
        PROVE  /\ FirstOf(M, j) => FirstOf(L, j)
               /\ LastOf(M, j) => LastOf(L, j)
               /\ \A k \in 1 .. new : Adjacent(M, k, j) => k \in 1 .. l /\ Adjacent(L, k, j)
               /\ L[j].parent = c => ~LastOf(M, j)
    <2>1. FirstOf(M, j) => FirstOf(L, j)
      BY <1>1, <1>2 DEF FirstOf
    <2>2. LastOf(M, j) => LastOf(L, j)
      BY <1>1, <1>2 DEF LastOf
    <2>3. ASSUME NEW k \in 1 .. new, Adjacent(M, k, j) PROVE k \in 1 .. l /\ Adjacent(L, k, j)
      <3>1. k < j
        BY <2>3 DEF Adjacent
      <3>2. k \in 1 .. l
        BY <1>1, <3>1
      <3> QED
        BY <1>1, <1>2, <2>3, <3>2 DEF Adjacent
    <2>4. L[j].parent = c => ~LastOf(M, j)
      <3>1. new \in 1 .. new /\ j < new
        BY <1>1, <1>2
      <3> QED
        BY <1>1, <3>1 DEF LastOf
    <2> QED
      BY <2>1, <2>2, <2>3, <2>4
  <1>5. FirstOf(M, new) => Childless(L, c)
    BY <1>1, <1>2 DEF FirstOf, Childless
  <1>6. ASSUME NEW k \in 1 .. new, Adjacent(M, k, new)
        PROVE  k \in 1 .. l /\ L[k].parent = c /\ LastOf(L, k)
    <2>1. k < new /\ M[k].parent = c /\ \A m \in 1 .. new : k < m /\ m < new => M[m].parent # c
      BY <1>1, <1>6 DEF Adjacent
    <2>2. k \in 1 .. l
      BY <1>3, <1>1, <2>1
    <2>3. L[k].parent = c
      BY <1>1, <2>1, <2>2
    <2>4. \A m \in 1 .. l : k < m => L[m].parent # c
      BY <1>1, <1>2, <2>1
    <2> QED
      BY <1>1, <2>2, <2>3, <2>4 DEF LastOf
  <1>7. ASSUME NEW d \in 0 .. l PROVE Inner(M, d) = Inner(L, d)
    BY <1>1 DEF Inner
  <1>8. ASSUME NEW d \in 0 .. l, d # c, NEW end, EndsAt(L, d, end) PROVE EndsAt(M, d, end)
    <2>1. Childless(M, d) => Childless(L, d)
      BY <1>1, <1>2 DEF Childless
    <2>2. ASSUME NEW j \in 1 .. new, M[j].parent = d, LastOf(M, j) PROVE M[j].to = end
      <3>1. j \in 1 .. l
        BY <1>1, <1>3, <1>8, <2>2
      <3>2. M[j] = L[j] /\ LastOf(L, j)
        BY <1>1, <1>4, <2>2, <3>1
      <3> QED
        BY <1>1, <1>8, <2>2, <3>1, <3>2 DEF EndsAt
    <2> QED
      BY <1>1, <1>7, <1>8, <2>1, <2>2 DEF EndsAt
  <1>9. ~Childless(M, c)
    <2>1. new \in DOMAIN M
      BY <1>1
    <2> QED
      BY <1>1, <2>1 DEF Childless
  <1>10. Childless(M, new)
    <2>1. \A j \in 1 .. l : M[j].parent # new
      BY <1>1, <1>2
    <2>2. M[new].parent # new
      BY <1>1
    <2> QED
      BY <1>1, <1>3, <2>1, <2>2 DEF Childless
  <1> QED
    BY <1>4, <1>5, <1>6, <1>7, <1>8, <1>9, <1>10 DEF new

(* u has the bytes that b has.                                             *)
Keeps(u, b) == \A p, c : At(b, p, c) => At(u, p, c)
StaysOpen(n, m) == \A p : IsOpen(n, p) => IsOpen(m, p)

(* Where the value of a member is put, behind the end of the text so far.  *)
PlacedBehind(u, L, c, e, end) ==
    /\ Childless(L, c) => e.from = end + 4
    /\ ~Childless(L, c) => e.from = end + 5 /\ CommaAt(u, end)

LEMMA OrderGrows ==
    ASSUME NEW b, NEW u, Keeps(u, b), NEW n \in Seq(Nat), n # <<>>,
           NEW L, NEW l, Parents(L, l), Order(b, n, L), Heads(b, L),
           NEW c \in 0 .. l, c = Last(n),
           NEW e, e.parent = c, Fits(L, e), NEW end \in Nat, end = Len(b) + 1,
           IsMember(e) => PlacedBehind(u, L, c, e, end),
           NEW M, Grown(L, e, M, l), NEW m, StaysOpen(n, m), IsObject(M, l + 1) => IsOpen(m, l + 1)
    PROVE  Firsts(M) /\ Commas(u, M) /\ Inwards(m, M) /\ Ends(u, m, M)
  <1> DEFINE new == l + 1
  <1>1. /\ l \in Nat /\ DOMAIN L = 1 .. l /\ DOMAIN M = 1 .. new /\ (\A i \in 1 .. l : M[i] = L[i])
        /\ M[new] = e /\ M[new].parent = c
    BY DEF Grown
  <1>2. \A j \in 1 .. l : L[j].parent \in 0 .. l /\ j \in 1 .. new
    BY <1>1 DEF Parents
  <1>3. \A j \in 1 .. new : j \in 1 .. l \/ j = new
    BY <1>1
  <1>4. /\ \A j \in 1 .. l : /\ FirstOf(M, j) => FirstOf(L, j)
                             /\ \A k \in 1 .. new : Adjacent(M, k, j) => k \in 1 .. l /\ Adjacent(L, k, j)
        /\ FirstOf(M, new) => Childless(L, c)
        /\ \A k \in 1 .. new : Adjacent(M, k, new) => k \in 1 .. l /\ L[k].parent = c /\ LastOf(L, k)
        /\ \A d \in 0 .. l : /\ Inner(M, d) = Inner(L, d)
                             /\ d # c => \A z : EndsAt(L, d, z) => EndsAt(M, d, z)
    BY RelationsGrow
  <1>5. IsMember(e) => EndsAt(L, c, end)
    <2>1. IsMember(e) => IsObject(L, c)
      BY DEF Fits, IsMember
    <2> QED
      BY <2>1 DEF Order, Frontier
  <1>6. IsOpen(n, c)
    <2>1. Len(n) \in DOMAIN n /\ n[Len(n)] = c
      BY LastIs
    <2> QED
      BY <2>1 DEF IsOpen
  <1> HIDE DEF new
  <1>7. Firsts(M)
    <2> SUFFICES ASSUME NEW j \in 1 .. new, IsMember(M[j]), FirstOf(M, j)
                 PROVE  M[j].from = Inner(M, M[j].parent) + 4
      BY <1>1 DEF Firsts
    <2>1. CASE j = new
      <3>1. Childless(L, c) /\ IsMember(e)
        BY <1>1, <1>4, <2>1
      <3>2. e.from = end + 4 /\ end = Inner(L, c)
        BY <1>5, <3>1 DEF EndsAt, PlacedBehind
      <3> QED
        BY <1>1, <1>4, <2>1, <3>2
    <2>2. CASE j \in 1 .. l
      <3>1. M[j] = L[j] /\ FirstOf(L, j) /\ L[j].parent \in 0 .. l
        BY <1>1, <1>2, <1>4, <2>2
      <3>2. L[j].from = Inner(L, L[j].parent) + 4
        BY <1>1, <2>2, <3>1 DEF Order, Firsts
      <3> QED
        BY <1>4, <3>1, <3>2
    <2> QED
      BY <1>3, <2>1, <2>2
  <1>8. Commas(u, M)
    <2> SUFFICES ASSUME NEW j \in 1 .. new, NEW k \in 1 .. new, IsMember(M[j]), Adjacent(M, k, j)
                 PROVE  M[j].from = M[k].to + 5 /\ CommaAt(u, M[k].to)
      BY <1>1 DEF Commas
    <2>1. CASE j = new
      <3>1. k \in 1 .. l /\ L[k].parent = c /\ LastOf(L, k)
        BY <1>4, <2>1
      <3>2. ~Childless(L, c) /\ IsMember(e)
        BY <1>1, <2>1, <3>1 DEF Childless
      <3>3. L[k].to = end
        BY <1>1, <1>5, <3>1, <3>2 DEF EndsAt
      <3>4. e.from = end + 5 /\ CommaAt(u, end)
        BY <3>2 DEF PlacedBehind
      <3> QED
        BY <1>1, <2>1, <3>1, <3>3, <3>4
    <2>2. CASE j \in 1 .. l
      <3>1. k \in 1 .. l /\ Adjacent(L, k, j) /\ M[j] = L[j] /\ M[k] = L[k]
        BY <1>1, <1>4, <2>2
      <3>2. L[j].from = L[k].to + 5 /\ CommaAt(b, L[k].to)
        BY <1>1, <2>2, <3>1 DEF Order, Commas
      <3> QED
        BY <3>1, <3>2 DEF Keeps, CommaAt
    <2> QED
      BY <1>3, <2>1, <2>2
  <1>9. Inwards(m, M)
    <2> SUFFICES ASSUME NEW j \in 1 .. new, IsMember(M[j]), M[j].parent # 0
                 PROVE  /\ M[M[j].parent].from + 4 < M[j].from
                        /\ ~IsOpen(m, M[j].parent) => M[j].to < M[M[j].parent].to
      BY <1>1 DEF Inwards
    <2>1. CASE j = new
      <3>1. c \in 1 .. l /\ M[c] = L[c] /\ IsMember(e)
        BY <1>1, <2>1
      <3>2. IsMember(L[c])
        <4>1. L[c].op = "object"
          BY <1>1, <2>1, <3>1 DEF Fits, IsMember, IsObject
        <4> QED
          BY <4>1 DEF IsMember, Elements
      <3>3. L[c].from \in 6 .. Len(b)
        BY <1>1, <3>1, <3>2 DEF Heads, HeadAt, IsMember
      <3>4. e.from = end + 4 \/ e.from = end + 5
        BY <3>1 DEF PlacedBehind
      <3>5. L[c].from + 4 < e.from
        BY <3>3, <3>4, SMTT(30)
      <3>6. IsOpen(m, c)
        BY <1>6 DEF StaysOpen
      <3> QED
        BY <1>1, <2>1, <3>1, <3>5, <3>6
    <2>2. CASE j \in 1 .. l
      <3> DEFINE p == L[j].parent
      <3>1. M[j] = L[j] /\ p \in 0 .. l /\ p # 0 /\ IsMember(L[j])
        BY <1>1, <1>2, <2>2
      <3>2. M[p] = L[p]
        BY <1>1, <3>1
      <3>3. L[p].from + 4 < L[j].from /\ (~IsOpen(n, p) => L[j].to < L[p].to)
        BY <1>1, <2>2, <3>1 DEF Order, Inwards
      <3> QED
        BY <3>1, <3>2, <3>3 DEF StaysOpen
    <2> QED
      BY <1>3, <2>1, <2>2
  <1>10. Ends(u, m, M)
    <2> SUFFICES ASSUME NEW d \in 1 .. new, IsObject(M, d), ~IsOpen(m, d)
                 PROVE  EndsAt(M, d, M[d].to - 1) /\ BraceAt(u, M[d].to - 1)
      BY <1>1 DEF Ends
    <2>1. d # new
      BY <1>1 DEF new
    <2>2. d \in 1 .. l /\ d \in 0 .. l /\ M[d] = L[d]
      BY <1>1, <1>3, <2>1
    <2>3. ~IsOpen(n, d) /\ d # c
      BY <1>6 DEF StaysOpen
    <2>5. IsObject(L, d)
      BY <2>2 DEF IsObject
    <2>4. EndsAt(L, d, L[d].to - 1) /\ BraceAt(b, L[d].to - 1)
      BY <1>1, <2>2, <2>3, <2>5 DEF Order, Ends
    <2> QED
      BY <1>4, <2>2, <2>3, <2>4 DEF Keeps, BraceAt
  <1> QED
    BY <1>7, <1>8, <1>9, <1>10

(* Behind a value the text ends as it has to before the next member.       *)
LEMMA FrontierPuts ==
    ASSUME NEW u, NEW n, NEW L, NEW l, Parents(L, l), NEW c \in 0 .. l, c = Last(n),
           NEW e, e.parent = c, Fits(L, e), NEW M, Grown(L, e, M, l),
           IsMember(e) => e.to = Len(u) + 1 /\ ~JustOpened(u)
    PROVE  Frontier(u, n, M)
  <1> DEFINE new == l + 1
             end == Len(u) + 1
  <1>1. /\ l \in Nat /\ DOMAIN L = 1 .. l /\ DOMAIN M = 1 .. new /\ (\A i \in 1 .. l : M[i] = L[i])
        /\ M[new] = e /\ M[new].parent = c
    BY DEF Grown
  <1>2. \A j \in 1 .. l : L[j].parent = c => ~LastOf(M, j)
    BY RelationsGrow
  <1>3. ~Childless(M, c)
    BY RelationsGrow
  <1>4. \A j \in 1 .. new : j \in 1 .. l \/ j = new
    BY <1>1
  <1> HIDE DEF new, end
  <1>5. IsMember(e) => EndsAt(M, c, end)
    <2> SUFFICES ASSUME IsMember(e) PROVE EndsAt(M, c, end)
      OBVIOUS
    <2>1. e.to = end
      BY DEF end
    <2>2. ASSUME NEW j \in 1 .. new, M[j].parent = c, LastOf(M, j) PROVE M[j].to = end
      <3>1. j = new
        BY <1>1, <1>2, <1>4, <2>2
      <3> QED
        BY <1>1, <2>1, <3>1
    <2> QED
      BY <1>1, <1>3, <2>2 DEF EndsAt
  <1>6. IsObject(M, c) => IsMember(e)
    <2>1. IsObject(M, c) => IsObject(L, c)
      BY <1>1 DEF IsObject
    <2> QED
      BY <2>1 DEF Fits, IsMember
  <1> QED
    BY <1>3, <1>5, <1>6 DEF Frontier, end

LEMMA FrontierOpens ==
    ASSUME NEW u, NEW L, NEW l, Parents(L, l), NEW c \in 0 .. l,
           NEW e, e.parent = c, NEW M, Grown(L, e, M, l), NEW m, Last(m) = l + 1,
           e.from = Len(u), JustOpened(u), e.op = "object" => Last(u) = "{"
    PROVE  Frontier(u, m, M)
  <1> DEFINE new == l + 1
  <1>0. Grown(L, e, M, l) /\ Parents(L, l) /\ c \in 0 .. l /\ e.parent = c
    OBVIOUS
  <1>1. l \in Nat /\ DOMAIN M = 1 .. new /\ M[new] = e /\ new # 0
    BY ONLY <1>0 DEF Grown
  <1>2. Childless(M, new)
    <2>1. Childless(M, l + 1)
      BY ONLY <1>0, RelationsGrow
    <2> QED
      BY ONLY <2>1
  <1>3. Last(m) = new
    OBVIOUS
  <1> HIDE DEF new
  <1>4. Inner(M, new) = Len(u) + 1
    BY <1>1 DEF Inner
  <1>5. EndsAt(M, new, Len(u) + 1)
    BY <1>2, <1>4 DEF EndsAt, Childless
  <1>6. IsObject(M, new) => e.op = "object"
    BY <1>1 DEF IsObject
  <1> QED
    BY <1>2, <1>3, <1>5, <1>6 DEF Frontier

LEMMA JoinedKeeps ==
    ASSUME NEW u, NEW b, NEW x, Joined(u, b, x)
    PROVE  Keeps(u, b)
  BY AtStays DEF Keeps

LEMMA LastByte ==
    ASSUME NEW u, NEW b, NEW c, Joined(u, b, <<c>>)
    PROVE  /\ Len(u) = Len(b) + 1 /\ Len(b) \in Nat /\ u[Len(u)] = c /\ Last(u) = c /\ At(u, Len(b) + 1, c)
  <1> DEFINE x == <<c>>
  <1>1. Joined(u, b, x) /\ Len(x) = 1 /\ x[1] = c
    OBVIOUS
  <1> HIDE DEF x
  <1>2. Len(b) \in Nat /\ Len(u) = Len(b) + Len(x) /\ DOMAIN u = 1 .. Len(u) /\ Sequence(u)
    BY <1>1, JoinedBytes
  <1>3. \A i \in 1 .. Len(x) : u[Len(b) + i] = x[i]
    BY <1>1, JoinedBytes
  <1>4. Len(u) = Len(b) + 1 /\ u[Len(b) + 1] = c
    <2>1. 1 \in 1 .. Len(x)
      BY <1>1
    <2> QED
      BY <1>1, <1>2, <1>3, <2>1
  <1>5. Last(u) = u[Len(u)]
    BY DEF Last
  <1> QED
    BY <1>2, <1>4, <1>5 DEF At

(* Closing changes no relation between members.                            *)
LEMMA RelationsStay ==
    ASSUME NEW L, NEW l, Parents(L, l), NEW c, NEW M, Closed(L, c, M)
    PROVE  /\ \A j \in 1 .. l : /\ FirstOf(M, j) <=> FirstOf(L, j)
                                /\ LastOf(M, j) <=> LastOf(L, j)
                                /\ \A k \in 1 .. l : Adjacent(M, k, j) <=> Adjacent(L, k, j)
           /\ \A d \in 0 .. l : /\ Inner(M, d) = Inner(L, d)
                                /\ Childless(M, d) <=> Childless(L, d)
                                /\ IsObject(M, d) <=> IsObject(L, d)
  <1>1. /\ l \in Nat /\ DOMAIN L = 1 .. l /\ DOMAIN M = 1 .. l
        /\ \A i \in 1 .. l : /\ M[i].parent = L[i].parent /\ M[i].from = L[i].from /\ M[i].op = L[i].op
    BY DEF Closed, Parents
  <1>2. ASSUME NEW j \in 1 .. l
        PROVE  /\ FirstOf(M, j) <=> FirstOf(L, j)
               /\ LastOf(M, j) <=> LastOf(L, j)
               /\ \A k \in 1 .. l : Adjacent(M, k, j) <=> Adjacent(L, k, j)
    <2>1. FirstOf(M, j) <=> FirstOf(L, j)
      BY <1>1 DEF FirstOf
    <2>2. LastOf(M, j) <=> LastOf(L, j)
      BY <1>1 DEF LastOf
    <2>3. \A k \in 1 .. l : Adjacent(M, k, j) <=> Adjacent(L, k, j)
      BY <1>1 DEF Adjacent
    <2> QED
      BY <2>1, <2>2, <2>3
  <1>3. \A d \in 0 .. l : d = 0 \/ d \in 1 .. l
    BY <1>1
  <1>4. \A d \in 0 .. l : Inner(M, d) = Inner(L, d)
    BY <1>1, <1>3 DEF Inner
  <1>5. \A d \in 0 .. l : Childless(M, d) <=> Childless(L, d)
    BY <1>1 DEF Childless
  <1>6. \A d \in 0 .. l : IsObject(M, d) <=> IsObject(L, d)
    BY <1>1, <1>3 DEF IsObject
  <1> QED
    BY <1>2, <1>4, <1>5, <1>6

(* An object is closed by a brace.                                         *)
ClosedBy(L, c, bracket) == IsObject(L, c) => bracket = "}"

LEMMA OrderCloses ==
    ASSUME NEW b, NEW u, NEW bracket \in Closers, Joined(u, b, <<bracket>>),
           NEW n \in Seq(Nat), Len(n) > 1, NEW L, NEW l, Parents(L, l), Tree(n, L), NestedIn(n, l),
           Order(b, n, L), Values(b, n, L),
           NEW c, c = Last(n), NEW M, Closed(L, c, M), M[c].to = Len(b) + 2,
           ClosedBy(L, c, bracket)
    PROVE  Order(u, Front(n), M)
  <1> DEFINE ln == Len(n)
             m == Front(n)
             lb == Len(b)
             d == Last(m)
  <1>1. /\ ln \in Nat /\ ln >= 2 /\ DOMAIN n = 1 .. ln /\ c = n[ln]
        /\ m \in Seq(Nat) /\ DOMAIN m = 1 .. ln - 1 /\ Len(m) = ln - 1 /\ m # <<>>
        /\ \A k \in 1 .. ln - 1 : m[k] = n[k]
        /\ \A k \in 2 .. ln : n[k] \in 1 .. l
        /\ d = n[ln - 1]
    <2>1. n \in Seq(Nat) /\ n # <<>>
      OBVIOUS
    <2>2. \A k \in 2 .. ln : n[k] \in 1 .. l
      BY DEF NestedIn
    <2>3. /\ Len(n) \in Nat /\ DOMAIN n = 1 .. Len(n) /\ Last(n) = n[Len(n)]
          /\ m \in Seq(Nat) /\ Len(m) = Len(n) - 1
          /\ \A i \in 1 .. Len(n) - 1 : m[i] = n[i]
      BY ONLY <2>1, LastIs
    <2>4. Len(n) > 1 /\ c = Last(n)
      OBVIOUS
    <2> HIDE DEF m
    <2>5. m \in Seq(Nat) /\ m # <<>>
      BY ONLY <2>3, <2>4
    <2>6. Last(m) = m[Len(m)]
      BY ONLY <2>5, LastIs
    <2>7. ln - 1 \in 1 .. ln - 1
      BY ONLY <2>3, <2>4
    <2>8. ln \in Nat /\ ln >= 2 /\ DOMAIN n = 1 .. ln /\ c = n[ln] /\ Len(m) = ln - 1
      BY ONLY <2>3, <2>4
    <2>9. \A k \in 1 .. ln - 1 : m[k] = n[k]
      BY ONLY <2>3
    <2>10. DOMAIN m = 1 .. ln - 1
      <3>1. DOMAIN m = 1 .. Len(m)
        BY ONLY <2>5
      <3> QED
        BY ONLY <3>1, <2>8
    <2>11. d = n[ln - 1]
      BY ONLY <2>6, <2>7, <2>8, <2>9
    <2> QED
      BY ONLY <2>2, <2>5, <2>8, <2>9, <2>10, <2>11
  <1> HIDE DEF m, d, ln
  <1>2. /\ l \in Nat /\ DOMAIN L = 1 .. l /\ DOMAIN M = 1 .. l
        /\ \A i \in 1 .. l : /\ M[i].parent = L[i].parent /\ M[i].from = L[i].from /\ M[i].op = L[i].op
                             /\ i # c => M[i] = L[i]
        /\ \A i \in 1 .. l : L[i].parent \in 0 .. l /\ L[i].parent < i
    <2>1. l \in Nat /\ DOMAIN L = 1 .. l /\ \A i \in 1 .. l : L[i].parent \in Nat /\ L[i].parent < i
      BY DEF Parents
    <2>2. \A i \in 1 .. l : L[i].parent \in 0 .. l
      BY <2>1
    <2>3. DOMAIN M = 1 .. l
      BY <2>1 DEF Closed
    <2>4. \A i \in 1 .. l : /\ M[i].parent = L[i].parent /\ M[i].from = L[i].from /\ M[i].op = L[i].op
                            /\ i # c => M[i] = L[i]
      BY <2>1 DEF Closed
    <2> QED
      BY <2>1, <2>2, <2>3, <2>4
  <1>3. /\ lb \in Nat /\ Len(u) = lb + 1 /\ Last(u) = bracket /\ At(u, lb + 1, bracket) /\ Keeps(u, b)
    BY JoinedKeeps, LastByte
  <1>4. /\ c \in 1 .. l /\ L[c].parent = d /\ d \in 0 .. l /\ d < c
        /\ \A i \in 1 .. l : i > c => L[i].parent >= c
        /\ \A i \in 1 .. l : L[i].parent = d => i <= c
    <2>1. ln \in 2 .. Len(n) /\ ln \in DOMAIN n
      BY <1>1 DEF ln
    <2>5. c \in 1 .. l /\ L[n[ln]].parent = n[ln - 1]
      BY <1>1, <2>1 DEF Tree
    <2>6. \A i \in 1 .. l : i > n[ln] => L[i].parent >= n[ln]
      BY <1>2, <2>1 DEF Tree
    <2>2. c \in 1 .. l /\ L[c].parent = d /\ \A i \in 1 .. l : i > c => L[i].parent >= c
      BY <1>1, <2>5, <2>6
    <2>3. d \in 0 .. l /\ d < c
      BY <1>2, <2>2
    <2>4. \A i \in 1 .. l : L[i].parent \in Int
      BY <1>2
    <2> QED
      BY <2>2, <2>3, <2>4, SMTT(30)
  <1>5. ASSUME NEW p, ~IsOpen(m, p), p # c PROVE ~IsOpen(n, p)
    <2> SUFFICES ASSUME NEW k \in 1 .. ln, n[k] = p PROVE FALSE
      BY <1>1 DEF IsOpen
    <2>1. k \in 1 .. ln - 1
      BY <1>1, <1>5
    <2> QED
      BY <1>1, <1>5, <2>1 DEF IsOpen
  <1>6. IsOpen(m, d)
    <2>1. ln - 1 \in DOMAIN m /\ m[ln - 1] = d
      BY <1>1
    <2> QED
      BY <2>1 DEF IsOpen
  <1>7. ASSUME NEW j \in 1 .. l, j > c PROVE ~IsOpen(n, j)
    <2> SUFFICES ASSUME NEW k \in 1 .. ln, n[k] = j PROVE FALSE
      BY <1>1 DEF IsOpen
    <2>1. k = ln \/ k < ln
      BY <1>1
    <2>2. n[k] <= c
      <3>1. ln \in DOMAIN n /\ k \in DOMAIN n
        BY <1>1
      <3>2. k < ln => n[k] < n[ln]
        BY <3>1 DEF Tree
      <3>3. n[k] \in Nat /\ c \in Nat
        BY <1>4, <3>1
      <3> QED
        BY <1>1, <2>1, <3>2, <3>3
    <2> QED
      BY <1>4, <1>7, <2>2
  <1>8. /\ \A j \in 1 .. l : /\ FirstOf(M, j) <=> FirstOf(L, j)
                             /\ LastOf(M, j) <=> LastOf(L, j)
                             /\ \A k \in 1 .. l : Adjacent(M, k, j) <=> Adjacent(L, k, j)
        /\ \A i \in 0 .. l : /\ Inner(M, i) = Inner(L, i)
                             /\ Childless(M, i) <=> Childless(L, i)
                             /\ IsObject(M, i) <=> IsObject(L, i)
    BY RelationsStay
  <1>9. \A j \in 1 .. l : IsMember(M[j]) <=> IsMember(L[j])
    BY <1>2 DEF IsMember
  <1>10. Firsts(M)
    <2> SUFFICES ASSUME NEW j \in 1 .. l, IsMember(M[j]), FirstOf(M, j)
                 PROVE  M[j].from = Inner(M, M[j].parent) + 4
      BY <1>2 DEF Firsts
    <2>1. L[j].from = Inner(L, L[j].parent) + 4
      BY <1>2, <1>8, <1>9 DEF Order, Firsts
    <2> QED
      BY <1>2, <1>8, <2>1
  <1>11. Commas(u, M)
    <2> SUFFICES ASSUME NEW j \in 1 .. l, NEW k \in 1 .. l, IsMember(M[j]), Adjacent(M, k, j)
                 PROVE  M[j].from = M[k].to + 5 /\ CommaAt(u, M[k].to)
      BY <1>2 DEF Commas
    <2>1. Adjacent(L, k, j)
      BY <1>8
    <2>2. L[j].from = L[k].to + 5 /\ CommaAt(b, L[k].to)
      BY <1>2, <1>9, <2>1 DEF Order, Commas
    <2>3. k # c
      <3> SUFFICES ASSUME k = c PROVE FALSE
        OBVIOUS
      <3>1. j > c /\ L[j].parent = d
        BY <1>2, <1>4, <2>1 DEF Adjacent
      <3> QED
        BY <1>4, <3>1
    <2> QED
      BY <1>2, <1>3, <2>2, <2>3 DEF Keeps, CommaAt
  <1>12. Inwards(m, M)
    <2> SUFFICES ASSUME NEW j \in 1 .. l, IsMember(M[j]), M[j].parent # 0
                 PROVE  /\ M[M[j].parent].from + 4 < M[j].from
                        /\ ~IsOpen(m, M[j].parent) => M[j].to < M[M[j].parent].to
      BY <1>2 DEF Inwards
    <2> DEFINE p == L[j].parent
    <2>1. M[j].parent = p /\ p \in 1 .. l /\ p # 0 /\ IsMember(L[j]) /\ p < j
      BY <1>2, <1>9
    <2>2. L[p].from + 4 < L[j].from /\ (~IsOpen(n, p) => L[j].to < L[p].to)
      BY <1>2, <2>1 DEF Order, Inwards
    <2>3. M[p].from + 4 < M[j].from
      BY <1>2, <2>1, <2>2
    <2>4. ASSUME ~IsOpen(m, p) PROVE M[j].to < M[p].to
      <3>1. CASE p = c
        <4>1. j > c /\ j # c
          BY <1>4, <2>1, <3>1
        <4>2. M[j] = L[j] /\ ~IsOpen(n, j)
          BY <1>2, <1>7, <4>1
        <4>3. ValueAt(b, L[j])
          BY <1>2, <2>1, <4>2 DEF Values, IsMember
        <4>4. L[j].to \in Nat /\ L[j].to <= lb + 1
          BY <4>3 DEF ValueAt, Stretch
        <4>5. M[p].to = lb + 2
          BY <3>1
        <4> QED
          BY <1>3, <4>2, <4>4, <4>5
      <3>2. CASE p # c
        <4>1. j # c
          BY <1>4, <1>6, <2>4
        <4> QED
          BY <1>2, <1>5, <2>1, <2>2, <2>4, <3>2, <4>1
      <3> QED
        BY <3>1, <3>2
    <2> QED
      BY <2>1, <2>3, <2>4
  <1>13. Frontier(u, m, M)
    <2> DEFINE end == Len(u) + 1
    <2>1. ~Childless(M, d)
      BY <1>2, <1>4 DEF Childless
    <2>2. ~JustOpened(u)
      BY <1>3, BracketsDiffer DEF JustOpened
    <2>3. M[c].to = end
      BY <1>3
    <2> HIDE DEF end
    <2>4. ASSUME NEW j \in 1 .. l, M[j].parent = d, LastOf(M, j) PROVE M[j].to = end
      <3>1. L[j].parent = d
        BY <1>2, <2>4
      <3>2. j <= c
        BY <1>4, <3>1
      <3>3. ~(j < c)
        BY <1>2, <1>4, <2>4 DEF LastOf
      <3>4. j = c
        BY <1>4, <3>2, <3>3
      <3> QED
        BY <2>3, <3>4
    <2>5. EndsAt(M, d, end)
      BY <1>2, <2>1, <2>4 DEF EndsAt
    <2> QED
      BY <2>1, <2>2, <2>5 DEF Frontier, d, end
  <1>14. Ends(u, m, M)
    <2> SUFFICES ASSUME NEW i \in 1 .. l, IsObject(M, i), ~IsOpen(m, i)
                 PROVE  EndsAt(M, i, M[i].to - 1) /\ BraceAt(u, M[i].to - 1)
      BY <1>2 DEF Ends
    <2>1. i \in 0 .. l /\ IsObject(L, i)
      BY <1>2, <1>8
    <2>2. CASE i = c
      <3> DEFINE end == lb + 1
      <3>1. end = M[i].to - 1
        BY <1>3, <2>2
      <3>2. BraceAt(u, end)
        BY <1>3, <2>1, <2>2 DEF BraceAt, ClosedBy
      <3>3. EndsAt(L, c, end)
        <4>1. IsObject(L, c) /\ n # <<>>
          BY <2>1, <2>2
        <4> QED
          BY <4>1 DEF Order, Frontier
      <3> HIDE DEF end
      <3>4. ASSUME NEW j \in 1 .. l, M[j].parent = c, LastOf(M, j) PROVE M[j].to = end
        <4>1. L[j].parent = c /\ LastOf(L, j) /\ j # c
          BY <1>2, <1>8, <3>4
        <4> QED
          BY <1>2, <3>3, <4>1 DEF EndsAt
      <3>5. EndsAt(M, c, end)
        BY <1>2, <1>8, <2>1, <2>2, <3>3, <3>4 DEF EndsAt
      <3> QED
        BY <2>2, <3>1, <3>2, <3>5
    <2>3. CASE i # c
      <3> DEFINE end == L[i].to - 1
      <3>1. M[i] = L[i] /\ ~IsOpen(n, i)
        BY <1>2, <1>5, <2>3
      <3>2. EndsAt(L, i, end) /\ BraceAt(b, end)
        BY <1>2, <2>1, <3>1 DEF Order, Ends
      <3> HIDE DEF end
      <3>3. ASSUME NEW j \in 1 .. l, M[j].parent = i, LastOf(M, j) PROVE M[j].to = end
        <4>1. L[j].parent = i /\ LastOf(L, j)
          BY <1>2, <1>8, <3>3
        <4>2. j # c
          BY <1>4, <1>6, <4>1
        <4> QED
          BY <1>2, <3>2, <4>1, <4>2 DEF EndsAt
      <3>4. EndsAt(M, i, end)
        BY <1>2, <1>8, <2>1, <3>2, <3>3 DEF EndsAt
      <3> QED
        BY <1>3, <3>1, <3>2, <3>4 DEF Keeps, BraceAt, end
    <2> QED
      BY <2>2, <2>3
  <1>15. Finish(u, m, M)
    BY <1>1 DEF Finish
  <1> QED
    BY <1>10, <1>11, <1>12, <1>13, <1>14, <1>15 DEF Order, m

LEMMA OnlyZero ==
    /\ << 0 >> # <<>> /\ Last(<< 0 >>) = 0 /\ << 0 >> \in Seq(Nat) /\ Len(<< 0 >>) = 1 /\ << 0 >>[1] = 0
    /\ \A i \in Nat \ {0} : ~IsOpen(<< 0 >>, i)
  BY DEF Last, IsOpen

LEMMA OrderEnds ==
    ASSUME NEW b, NEW u, Joined(u, b, <<"}">>), NEW L, NEW l, Parents(L, l), Order(b, << 0 >>, L)
    PROVE  Order(u, <<>>, L)
  <1> DEFINE zero == << 0 >>
             none == <<>>
             brace == "}"
  <1>1. Joined(u, b, <<brace>>) /\ Order(b, zero, L)
    OBVIOUS
  <1>20. zero # <<>> /\ Last(zero) = 0
    BY OnlyZero
  <1>21. \A i \in Nat \ {0} : ~IsOpen(zero, i)
    BY OnlyZero
  <1> HIDE DEF zero, brace
  <1>22. l \in Nat
    BY DEF Parents
  <1>2. zero # <<>> /\ Last(zero) = 0 /\ \A i \in 1 .. l : ~IsOpen(zero, i)
    BY ONLY <1>20, <1>21, <1>22
  <1>3. Len(u) = Len(b) + 1 /\ Len(b) \in Nat /\ At(u, Len(b) + 1, brace) /\ Keeps(u, b)
    BY <1>1, JoinedKeeps, LastByte
  <1>4. /\ l \in Nat /\ DOMAIN L = 1 .. l
        /\ \A i \in 1 .. l : L[i].parent \in Nat /\ L[i].parent < i
    BY DEF Parents
  <1>5. Firsts(L)
    BY <1>1 DEF Order
  <1>6. Commas(u, L)
    BY <1>1, <1>3 DEF Order, Commas, Keeps, CommaAt
  <1>7. Inwards(none, L)
    <2> SUFFICES ASSUME NEW j \in 1 .. l, IsMember(L[j]), L[j].parent # 0
                 PROVE  /\ L[L[j].parent].from + 4 < L[j].from
                        /\ L[j].to < L[L[j].parent].to
      BY <1>4 DEF Inwards
    <2>4. L[j].parent \in Nat /\ L[j].parent < j /\ j \in 1 .. l /\ l \in Nat /\ L[j].parent # 0
      BY <1>4
    <2>1. L[j].parent \in 1 .. l
      BY ONLY <2>4
    <2>2. ~IsOpen(zero, L[j].parent)
      BY <1>2, <2>1
    <2> QED
      BY <1>1, <1>4, <2>2 DEF Order, Inwards
  <1>8. Frontier(u, none, L)
    BY DEF Frontier
  <1>9. Ends(u, none, L)
    <2> SUFFICES ASSUME NEW c \in 1 .. l, IsObject(L, c)
                 PROVE  EndsAt(L, c, L[c].to - 1) /\ BraceAt(u, L[c].to - 1)
      BY <1>4 DEF Ends
    <2>1. ~IsOpen(zero, c)
      BY <1>2
    <2>2. EndsAt(L, c, L[c].to - 1) /\ BraceAt(b, L[c].to - 1)
      BY <1>1, <1>4, <2>1 DEF Order, Ends
    <2> QED
      BY <1>3, <2>2 DEF Keeps, BraceAt
  <1>10. Finish(u, none, L)
    <2>1. IsObject(L, 0)
      BY DEF IsObject
    <2>2. EndsAt(L, 0, Len(b) + 1)
      BY <1>1, <1>2, <2>1 DEF Order, Frontier
    <2>3. BraceAt(u, Len(u))
      BY <1>3 DEF BraceAt, brace
    <2> QED
      BY <1>3, <2>2, <2>3 DEF Finish
  <1> HIDE DEF none
  <1>11. Order(u, none, L)
    BY <1>5, <1>6, <1>7, <1>8, <1>9, <1>10 DEF Order
  <1> QED
    BY <1>11 DEF none

LEMMA OrderStarts == Order(<<"{">>, << 0 >>, <<>>)
  <1> DEFINE brace == <<"{">>
             zero == << 0 >>
             none == <<>>
  <1>1. Len(brace) = 1 /\ Last(brace) = "{" /\ zero # <<>> /\ Last(zero) = 0 /\ DOMAIN none = {}
    BY DEF Last
  <1>2. JustOpened(brace)
    BY <1>1 DEF JustOpened, Openers
  <1> HIDE DEF brace, zero, none
  <1>3. Childless(none, 0) /\ Inner(none, 0) = 2
    BY <1>1 DEF Childless, Inner
  <1>10. Len(brace) = 1
    BY <1>1
  <1>9. Len(brace) + 1 = 2
    BY ONLY <1>10
  <1>4. EndsAt(none, 0, Len(brace) + 1)
    BY <1>1, <1>3, <1>9 DEF EndsAt
  <1>5. Frontier(brace, zero, none)
    BY <1>1, <1>2, <1>3, <1>4 DEF Frontier
  <1>6. Firsts(none) /\ Commas(brace, none) /\ Inwards(zero, none) /\ Ends(brace, zero, none)
    BY <1>1 DEF Firsts, Commas, Inwards, Ends
  <1>7. Finish(brace, zero, none)
    BY <1>1 DEF Finish
  <1>8. Order(brace, zero, none)
    BY <1>5, <1>6, <1>7 DEF Order
  <1> QED
    BY <1>8 DEF brace, zero, none

(* The message in the text: what the ledger tells of it is so.             *)
Containers(n, L) == \A k \in 2 .. Len(n) : L[n[k]].op \in {"object", "array"}
LayoutOf(b, n, L) ==
    /\ Tree(n, L) /\ Containers(n, L)
    /\ b = <<>> => n = <<>> /\ L = <<>>
    /\ b # <<>> => Spelling(b, n, L) /\ Order(b, n, L)
LayoutIsTrue == LayoutOf(buffer, nesting, ledger)

OpenerSets == {{"{"}, {"{", "["}}

LEMMA CommaIs ==
    ASSUME NEW openers \in OpenerSets, buffer # <<>>,
           JustOpened(buffer) => Last(buffer) = "{"
    PROVE  Comma(openers) = IF JustOpened(buffer) THEN <<>> ELSE <<",">>
  BY DEF Comma, JustOpened, Openers, OpenerSets

(* In an object: the innermost open container, unless it is an array.      *)
LEMMA WithinObject ==
    ASSUME LayoutIsTrue, NestingIsTrue, nesting # <<>>
    PROVE  /\ InArray <=> ~IsObject(ledger, Last(nesting))
           /\ Last(nesting) # 0 => Last(nesting) \in DOMAIN ledger
  <1>1. nesting \in Seq(Nat) /\ \A i \in DOMAIN nesting : nesting[i] \in IF i = 1 THEN {0} ELSE DOMAIN ledger
    BY DEF NestingIsTrue, Nested
  <1>2. Len(nesting) \in Nat /\ Len(nesting) >= 1 /\ DOMAIN nesting = 1 .. Len(nesting) /\ Last(nesting) = nesting[Len(nesting)]
    BY <1>1, LastIs
  <1>3. CASE Len(nesting) = 1
    BY <1>1, <1>2, <1>3 DEF InArray, IsObject
  <1>4. CASE Len(nesting) # 1
    <2>1. Len(nesting) \in 2 .. Len(nesting) /\ Len(nesting) \in DOMAIN nesting
      BY <1>2, <1>4
    <2>2. Last(nesting) \in DOMAIN ledger
      BY <1>1, <1>2, <1>4, <2>1
    <2>3. ledger[Last(nesting)].op \in {"object", "array"}
      BY <1>2, <2>1 DEF LayoutIsTrue, LayoutOf, Containers
    <2> QED
      BY <2>2, <2>3 DEF InArray, IsObject
  <1> QED
    BY <1>3, <1>4

-----------------------------------------------------------------------------
(* Every call of the writer keeps it so.                                   *)

LEMMA WhileWriting ==
    ASSUME LedgerIsTrue, NestingIsTrue, LayoutIsTrue, nesting # <<>>
    PROVE  /\ Sequence(buffer) /\ Sequence(ledger) /\ buffer # <<>> /\ Len(buffer) \in Nat /\ Len(buffer) >= 1
           /\ Len(ledger) \in Nat /\ DOMAIN ledger = 1 .. Len(ledger)
           /\ nesting \in Seq(Nat) /\ Nested(nesting, ledger) /\ NestedIn(nesting, Len(ledger))
           /\ Parents(ledger, Len(ledger))
           /\ Tree(nesting, ledger) /\ Spelling(buffer, nesting, ledger) /\ Order(buffer, nesting, ledger)
           /\ Containers(nesting, ledger)
           /\ Opening \in Stacks /\ Opening # <<>> /\ Len(Opening) = Len(nesting)
           /\ OpenAt(buffer)[Len(buffer) + 1] = Plain(Opening)
           /\ Last(nesting) \in 0 .. Len(ledger)
  <1>1. Sequence(buffer) /\ Sequence(ledger)
    BY DEF LedgerIsTrue
  <1>2. IsText(buffer) /\ IsText(ledger)
    BY <1>1, SequenceIsText
  <1>3. Len(ledger) \in Nat /\ DOMAIN ledger = 1 .. Len(ledger) /\ Len(buffer) \in Nat
    BY <1>2 DEF IsText
  <1>4. buffer # <<>>
    BY DEF LayoutIsTrue, LayoutOf
  <1>5. Len(buffer) >= 1
    <2>1. PICK S : buffer \in Seq(S)
      BY <1>1 DEF Sequence
    <2> QED
      BY <2>1, <1>4
  <1>6. Nested(nesting, ledger) /\ Leads(buffer, <<>>, Opening, 2)
    BY DEF NestingIsTrue, Opening
  <1>7. nesting \in Seq(Nat)
    BY <1>6 DEF Nested
  <1>8. NestedIn(nesting, Len(ledger))
    BY <1>3, <1>6, NestedIsIn
  <1>9. /\ Tree(nesting, ledger) /\ Spelling(buffer, nesting, ledger) /\ Order(buffer, nesting, ledger)
        /\ Containers(nesting, ledger)
    BY <1>4 DEF LayoutIsTrue, LayoutOf
  <1>10. Parents(ledger, Len(ledger))
    BY <1>3, <1>9, TreeParents
  <1>11. Opening \in Stacks /\ Opening # <<>> /\ Len(Opening) = Len(nesting)
    BY <1>6, BracketsType DEF Opening
  <1>12. OpenAt(buffer)[Len(buffer) + 1] = Plain(Opening)
    BY <1>1, <1>6, OpenAtEnd
  <1>13. Last(nesting) \in 0 .. Len(ledger)
    BY <1>7, <1>8, LastIs DEF NestedIn
  <1> QED
    BY <1>1, <1>3, <1>4, <1>5, <1>6, <1>7, <1>8, <1>9, <1>10, <1>11, <1>12, <1>13

(* A member is put behind the text before it, its name in between.         *)
Headed(mid, b, key) == \E comma : Sequence(comma) /\ Joined(mid, b, comma \o <<Quote, key, Quote, ":">>)
MemberPut(mid, text, e) ==
    /\ Headed(mid, buffer, e.key)
    /\ Joined(buffer', mid, text) /\ PutBehind(mid, text, e)
    /\ Grown(ledger, e, ledger', Len(ledger)) /\ e.parent = Last(nesting)
    /\ OpenAt(mid)[Len(mid) + 1] = Plain(Opening) /\ Spelling(mid, nesting, ledger)
    /\ PlacedBehind(buffer', ledger, Last(nesting), e, Len(buffer) + 1)
    /\ Fits(ledger, e) /\ IsMember(e)

LEMMA OneByte ==
    ASSUME NEW c
    PROVE  Len(<<c>>) = 1 /\ <<c>>[1] = c
  OBVIOUS

LEMMA HeadIs ==
    ASSUME LedgerIsTrue, NestingIsTrue, LayoutIsTrue, nesting # <<>>,
           NEW key, key \notin {Quote, Backslash}, NEW openers,
           NEW mid, mid = buffer \o (Comma(openers) \o <<Quote, key, Quote, ":">>)
    PROVE  /\ Sequence(Comma(openers)) /\ Len(Comma(openers)) \in {0, 1}
           /\ Joined(mid, buffer, Comma(openers) \o <<Quote, key, Quote, ":">>)
           /\ Len(mid) = Len(buffer) + Len(Comma(openers)) + 4
           /\ Comma(openers) = <<",">> => CommaAt(mid, Len(buffer) + 1)
           /\ OpenAt(mid)[Len(mid) + 1] = Plain(Opening)
           /\ Spelling(mid, nesting, ledger)
  <1> DEFINE comma == Comma(openers)
             name == <<Quote, key, Quote, ":">>
             head == comma \o name
  <1>1. Sequence(comma) /\ Len(comma) \in {0, 1}
    BY SequenceOne DEF Comma
  <1>2. Sequence(name) /\ Len(name) = 4
    BY SequenceFour
  <1>3. \A o \in Stacks : o # <<>> => Leads(comma, o, o, 1) /\ Leads(name, o, o, 1)
    BY LeadsComma, LeadsName
  <1>4. mid = buffer \o head
    OBVIOUS
  <1>18. comma = <<",">> => Len(comma) = 1 /\ comma[1] = ","
    BY ONLY OneByte
  <1>5. Comma(openers) = comma /\ Comma(openers) \o <<Quote, key, Quote, ":">> = head
    OBVIOUS
  <1> HIDE DEF comma, name
  <1>19. /\ Len(head) = Len(comma) + Len(name) /\ Sequence(head)
         /\ \A i \in 1 .. Len(comma) : head[i] = comma[i]
    BY ONLY <1>1, <1>2, SequenceConcat, ConcatBytes, ZenonT(60)
  <1>6. Sequence(head) /\ Len(head) = Len(comma) + 4 /\ \A i \in 1 .. Len(comma) : head[i] = comma[i]
    BY ONLY <1>19, <1>2
  <1>7. \A o \in Stacks : o # <<>> => Leads(head, o, o, 1)
    BY <1>1, <1>2, <1>3, LeadsJoin
  <1> HIDE DEF head
  <1>8. Sequence(buffer) /\ Opening \in Stacks /\ Opening # <<>> /\ Len(Opening) = Len(nesting)
    BY WhileWriting
  <1>9. OpenAt(buffer)[Len(buffer) + 1] = Plain(Opening) /\ Spelling(buffer, nesting, ledger) /\ nesting \in Seq(Nat)
    BY WhileWriting
  <1>10. Above(head, Opening, Opening)
    BY <1>6, <1>7, <1>8, LeadsAbove
  <1>11. Joined(mid, buffer, head)
    BY <1>4, <1>6, <1>8 DEF Joined
  <1>12. OpenAt(mid)[Len(mid) + 1] = Plain(Opening)
    BY ONLY <1>9, <1>10, <1>11, AboveEnds
  <1>13. Len(nesting) \in Nat /\ Len(Opening) >= Len(nesting)
    BY <1>8, <1>9
  <1>14. Spelling(mid, nesting, ledger)
    BY ONLY <1>8, <1>9, <1>10, <1>11, <1>13, SpellingExtends
  <1>15. Len(mid) = Len(buffer) + Len(head) /\ DOMAIN mid = 1 .. Len(mid) /\ Len(buffer) \in Nat
         /\ \A i \in 1 .. Len(head) : mid[Len(buffer) + i] = head[i]
    BY ONLY <1>11, JoinedBytes
  <1>16. Len(mid) = Len(buffer) + Len(comma) + 4
    BY ONLY <1>1, <1>6, <1>15
  <1>17. ASSUME comma = <<",">>
         PROVE  CommaAt(mid, Len(buffer) + 1)
    <2>4. Len(comma) = 1
      BY <1>17, <1>18
    <2>1. Len(comma) = 1 /\ head[1] = comma[1]
      BY ONLY <1>6, <2>4
    <2>2. 1 \in 1 .. Len(head) /\ Len(buffer) + 1 \in 1 .. Len(mid)
      BY ONLY <1>6, <1>15, <2>1
    <2>3. mid[Len(buffer) + 1] = head[1] /\ Len(buffer) + 1 \in DOMAIN mid
      BY ONLY <1>15, <2>2
    <2> QED
      BY <2>1, <2>3, <1>18, <1>17 DEF CommaAt, At
  <1> QED
    BY <1>1, <1>5, <1>11, <1>12, <1>14, <1>16, <1>17

LEMMA MemberPutIs ==
    ASSUME LedgerIsTrue, NestingIsTrue, LayoutIsTrue, NEW c \in Calls, c.op \notin Elements,
           NEW text, Sequence(text), Len(text) >= 1, NEW openers \in OpenerSets,
           PutMember(c, text, openers)
    PROVE  \E mid, e : /\ MemberPut(mid, text, e) /\ e.op = c.op
                       /\ c.op \notin {"object", "array"} => e.value = c.value
  <1> DEFINE head == Comma(openers) \o <<Quote, c.key, Quote, ":">>
             start == Len(buffer) + Len(head) + 1
             mid == buffer \o head
             e == [op |-> c.op, key |-> c.key, parent |-> Last(nesting),
                   value |-> IF c.op \in {"object", "array"} THEN <<>> ELSE c.value,
                   from |-> start, to |-> start + Len(text)]
  <1>1. /\ nesting # <<>> /\ ~InArray
        /\ buffer' = buffer \o head \o text
        /\ ledger' = Append(ledger, e)
    BY DEF PutMember, MayAdd
  <1>2. c.key \notin {Quote, Backslash}
    BY KeyOfCall DEF Elements
  <1>3. /\ Sequence(Comma(openers)) /\ Len(Comma(openers)) \in {0, 1}
        /\ Joined(mid, buffer, head)
        /\ Len(mid) = Len(buffer) + Len(Comma(openers)) + 4
        /\ Comma(openers) = <<",">> => CommaAt(mid, Len(buffer) + 1)
        /\ OpenAt(mid)[Len(mid) + 1] = Plain(Opening)
        /\ Spelling(mid, nesting, ledger)
    BY <1>1, <1>2, HeadIs
  <1>4. /\ e.op = c.op /\ e.key = c.key /\ e.parent = Last(nesting) /\ e.from = start /\ e.to = start + Len(text)
        /\ c.op \notin {"object", "array"} => e.value = c.value
    OBVIOUS
  <1>5. Headed(mid, buffer, e.key)
    BY <1>3, <1>4 DEF Headed
  <1> HIDE DEF e
  <1>6. Sequence(ledger)
    BY DEF LedgerIsTrue
  <1>7. Grown(ledger, e, ledger', Len(ledger))
    BY <1>1, <1>6, AppendGrows
  <1>19. buffer' = mid \o text /\ start = Len(buffer) + Len(head) + 1
    BY <1>1
  <1> HIDE DEF mid, head, start
  <1>20. Joined(mid, buffer, head)
    BY <1>3
  <1>8. Len(mid) = Len(buffer) + Len(head)
    BY ONLY <1>20, JoinedBytes
  <1>9. Sequence(mid) /\ buffer' = mid \o text
    BY <1>19, <1>3, JoinedBytes
  <1>10. Joined(buffer', mid, text)
    BY <1>9 DEF Joined
  <1>11. PutBehind(mid, text, e)
    BY <1>4, <1>8, <1>19 DEF PutBehind
  <1>12. IsObject(ledger, Last(nesting))
    BY <1>1, WithinObject
  <1>13. IsMember(e) /\ Fits(ledger, e)
    BY <1>2, <1>4, <1>12 DEF IsMember, Fits
  <1>14. buffer # <<>> /\ Len(buffer) \in Nat /\ Order(buffer, nesting, ledger)
    BY <1>1, WhileWriting
  <1>15. /\ JustOpened(buffer) <=> Childless(ledger, Last(nesting))
         /\ JustOpened(buffer) => Last(buffer) = "{"
    BY <1>1, <1>12, <1>14 DEF Order, Frontier
  <1>16. Comma(openers) = IF JustOpened(buffer) THEN <<>> ELSE <<",">>
    BY <1>14, <1>15, CommaIs
  <1>17. PlacedBehind(buffer', ledger, Last(nesting), e, Len(buffer) + 1)
    <2>1. e.from = Len(mid) + 1 /\ Len(mid) = Len(buffer) + Len(Comma(openers)) + 4
      BY <1>3, <1>11 DEF PutBehind
    <2>2. CASE Childless(ledger, Last(nesting))
      <3>1. Comma(openers) = <<>>
        BY <1>15, <1>16, <2>2
      <3>2. Len(Comma(openers)) = 0
        BY <3>1
      <3>3. e.from = Len(buffer) + 1 + 4
        BY ONLY <2>1, <3>2, <1>14
      <3> QED
        BY <2>2, <3>3 DEF PlacedBehind
    <2>3. CASE ~Childless(ledger, Last(nesting))
      <3>1. Comma(openers) = <<",">>
        BY <1>15, <1>16, <2>3
      <3>2. Len(Comma(openers)) = 1
        BY ONLY <3>1, OneByte
      <3>3. e.from = Len(buffer) + 1 + 5
        BY ONLY <2>1, <3>2, <1>14
      <3>4. CommaAt(mid, Len(buffer) + 1)
        BY <1>3, <3>1
      <3>5. CommaAt(buffer', Len(buffer) + 1)
        BY <1>10, <3>4, JoinedKeeps DEF Keeps, CommaAt
      <3> QED
        BY <2>3, <3>3, <3>5 DEF PlacedBehind
    <2> QED
      BY <2>2, <2>3
  <1>18. MemberPut(mid, text, e)
    BY <1>3, <1>4, <1>5, <1>7, <1>10, <1>11, <1>13, <1>17 DEF MemberPut
  <1> QED
    BY <1>4, <1>18

LEMMA HasFirst ==
    ASSUME NEW b, NEW c, At(b, 1, c)
    PROVE  b # <<>>
  <1>1. 1 \in DOMAIN b
    BY DEF At
  <1>2. 1 \notin DOMAIN <<>>
    OBVIOUS
  <1> QED
    BY <1>1, <1>2

IsValueOp(op) == op \notin {"object", "array"}

(* A value is put into the innermost open container.                       *)
LEMMA ValueLaid ==
    ASSUME LedgerIsTrue, NestingIsTrue, LayoutIsTrue, nesting # <<>>, nesting' = nesting,
           NEW mid, NEW text, Joined(buffer', mid, text), Keeps(mid, buffer),
           Spelling(mid, nesting, ledger), OpenAt(mid)[Len(mid) + 1] = Plain(Opening),
           Sequence(text), Len(text) >= 1, \A o \in Stacks : o # <<>> => Leads(text, o, o, 1),
           NEW e, Grown(ledger, e, ledger', Len(ledger)), e.parent = Last(nesting), Fits(ledger, e),
           IsValueOp(e.op),
           IsMember(e) => /\ HeadAt(buffer', e) /\ ValueAt(buffer', e)
                          /\ buffer'[Len(buffer')] \notin Openers /\ e.to = Len(buffer') + 1
                          /\ PlacedBehind(buffer', ledger, Last(nesting), e, Len(buffer) + 1)
    PROVE  LayoutIsTrue'
  <1> DEFINE l == Len(ledger)
  <1>1. /\ Sequence(buffer) /\ buffer # <<>> /\ Len(buffer) \in Nat /\ l \in Nat
        /\ nesting \in Seq(Nat) /\ Nested(nesting, ledger) /\ NestedIn(nesting, l)
        /\ Parents(ledger, l) /\ Tree(nesting, ledger) /\ Order(buffer, nesting, ledger)
        /\ Containers(nesting, ledger)
        /\ Opening \in Stacks /\ Opening # <<>> /\ Len(Opening) = Len(nesting)
        /\ Last(nesting) \in 0 .. l
    BY WhileWriting
  <1>2. Heads(buffer, ledger)
    BY WhileWriting DEF Spelling
  <1>3. Grown(ledger, e, ledger', l)
    OBVIOUS
  <1> HIDE DEF l
  <1>4. Above(text, Opening, Opening)
    BY <1>1, LeadsAbove
  <1>5. Len(nesting) \in Nat /\ Len(Opening) >= Len(nesting)
    BY <1>1
  <1>6. Spelling(buffer', nesting, ledger)
    BY <1>1, <1>4, <1>5, SpellingExtends
  <1>7. Spelling(buffer', nesting, ledger')
    <2>1. e.op \notin Elements => HeadAt(buffer', e) /\ ValueAt(buffer', e)
      BY DEF IsMember
    <2> QED
      BY <1>1, <1>3, <1>6, <2>1, SpellingPuts
  <1>8. Keeps(buffer', buffer)
    BY JoinedKeeps DEF Keeps
  <1>9. /\ DOMAIN ledger = 1 .. l /\ DOMAIN ledger' = 1 .. l + 1 /\ l \in Nat
        /\ \A i \in 1 .. l : ledger'[i] = ledger[i]
        /\ ledger'[l + 1] = e
    BY <1>3 DEF Grown
  <1>10. ~IsObject(ledger', l + 1)
    <2>1. l + 1 # 0 /\ ledger'[l + 1].op = e.op
      BY <1>9
    <2> QED
      BY <2>1 DEF IsObject, IsValueOp
  <1>11. StaysOpen(nesting, nesting)
    BY DEF StaysOpen
  <1>12. \E end \in Nat : end = Len(buffer) + 1
    BY <1>1
  <1>13. PICK end \in Nat : end = Len(buffer) + 1
    BY <1>12
  <1>14. IsMember(e) => PlacedBehind(buffer', ledger, Last(nesting), e, end)
    BY <1>13
  <1>15. PICK c \in 0 .. l : c = Last(nesting)
    BY <1>1
  <1>16. e.parent = c /\ Fits(ledger, e) /\ IsMember(e) => PlacedBehind(buffer', ledger, c, e, end)
    BY <1>14, <1>15
  <1>17. /\ Firsts(ledger') /\ Commas(buffer', ledger') /\ Inwards(nesting, ledger')
         /\ Ends(buffer', nesting, ledger')
    <2>1. e.parent = c /\ Fits(ledger, e)
      BY <1>15
    <2> QED
      BY ONLY <1>1, <1>2, <1>3, <1>8, <1>10, <1>11, <1>13, <1>14, <1>15, <2>1, nesting # <<>>, OrderGrows
  <1>18. Frontier(buffer', nesting, ledger')
    <2>1. IsMember(e) => e.to = Len(buffer') + 1 /\ ~JustOpened(buffer')
      BY DEF JustOpened, Last
    <2>2. e.parent = c /\ Fits(ledger, e)
      BY <1>15
    <2> QED
      BY ONLY <1>1, <1>3, <1>15, <2>1, <2>2, FrontierPuts
  <1>19. Finish(buffer', nesting, ledger')
    BY DEF Finish
  <1>20. Tree(nesting, ledger')
    BY ONLY <1>1, <1>3, e.parent = Last(nesting), Fits(ledger, e), nesting # <<>>, TreeGrows
  <1>21. Containers(nesting, ledger')
    BY <1>1, <1>9 DEF Containers, NestedIn
  <1>22. buffer' # <<>>
    BY <1>7, HasFirst DEF Spelling
  <1>23. LayoutOf(buffer', nesting, ledger')
    BY <1>7, <1>17, <1>18, <1>19, <1>20, <1>21, <1>22 DEF LayoutOf, Order
  <1> QED
    BY <1>23 DEF LayoutIsTrue

LEMMA MemberLaid ==
    ASSUME LedgerIsTrue, NestingIsTrue, LayoutIsTrue, nesting # <<>>, nesting' = nesting,
           NEW mid, NEW text, NEW e, MemberPut(mid, text, e), IsValueOp(e.op), Fitting(text, e)
    PROVE  LayoutIsTrue'
  <1>1. /\ Headed(mid, buffer, e.key) /\ Joined(buffer', mid, text) /\ PutBehind(mid, text, e)
        /\ Grown(ledger, e, ledger', Len(ledger)) /\ e.parent = Last(nesting)
        /\ OpenAt(mid)[Len(mid) + 1] = Plain(Opening) /\ Spelling(mid, nesting, ledger)
        /\ PlacedBehind(buffer', ledger, Last(nesting), e, Len(buffer) + 1)
        /\ Fits(ledger, e) /\ IsMember(e)
    BY DEF MemberPut
  <1>2. Opening \in Stacks /\ Len(buffer) >= 1
    BY WhileWriting
  <1>3. /\ Sequence(text) /\ Len(text) >= 1
        /\ \A o \in Stacks : o # <<>> => Leads(text, o, o, 1)
    BY DEF Fitting
  <1>4. ValueAt(buffer', e) /\ buffer'[Len(buffer')] \notin Openers /\ BeginsLike(buffer'[e.from], e.op)
    BY <1>1, <1>2 DEF Fitting
  <1>5. PICK comma : Sequence(comma) /\ Joined(mid, buffer, comma \o <<Quote, e.key, Quote, ":">>)
    BY <1>1 DEF Headed
  <1>6. e.from = Len(mid) + 1
    BY <1>1 DEF PutBehind
  <1>7. HeadAt(buffer', e)
    BY <1>1, <1>2, <1>3, <1>4, <1>5, <1>6, NewHead
  <1>8. Keeps(mid, buffer)
    BY <1>5, JoinedKeeps
  <1>9. e.to = Len(buffer') + 1
    <2>1. Len(buffer') = Len(mid) + Len(text) /\ Len(mid) \in Nat /\ Len(text) \in Nat
      BY ONLY <1>1, JoinedBytes
    <2>2. e.from = Len(mid) + 1 /\ e.to = e.from + Len(text)
      BY <1>1 DEF PutBehind
    <2> QED
      BY ONLY <2>1, <2>2
  <1> QED
    BY <1>1, <1>3, <1>4, <1>7, <1>8, <1>9, ValueLaid

LEMMA ElementLaid ==
    ASSUME LedgerIsTrue, NestingIsTrue, LayoutIsTrue, NEW c \in Calls, c.op \in Elements,
           NEW text, Sequence(text), Len(text) >= 1, \A o \in Stacks : o # <<>> => Leads(text, o, o, 1),
           PutElement(c, text)
    PROVE  LayoutIsTrue'
  <1> DEFINE comma == Comma({"["})
             mid == buffer \o comma
             e == [op |-> c.op, key |-> "", parent |-> Last(nesting), value |-> c.value,
                   from |-> Len(buffer') - Len(text) + 1, to |-> Len(buffer') + 1]
  <1>1. /\ nesting # <<>> /\ InArray /\ nesting' = nesting
        /\ buffer' = mid \o text /\ ledger' = Append(ledger, e)
    BY DEF PutElement, MayAdd
  <1>2. e.op = c.op /\ e.key = "" /\ e.parent = Last(nesting)
    OBVIOUS
  <1> HIDE DEF e
  <1>3. Sequence(comma) /\ \A o \in Stacks : o # <<>> => Leads(comma, o, o, 1)
    BY SequenceOne, LeadsComma DEF Comma
  <1> HIDE DEF comma
  <1>4. /\ Sequence(buffer) /\ Sequence(ledger) /\ nesting \in Seq(Nat)
        /\ Opening \in Stacks /\ Opening # <<>> /\ Len(Opening) = Len(nesting)
    BY <1>1, WhileWriting
  <1>5. OpenAt(buffer)[Len(buffer) + 1] = Plain(Opening) /\ Spelling(buffer, nesting, ledger)
    BY <1>1, WhileWriting
  <1>6. Joined(mid, buffer, comma) /\ Joined(buffer', mid, text)
    BY <1>1, <1>3, <1>4, SequenceConcat DEF Joined
  <1> HIDE DEF mid
  <1>7. Above(comma, Opening, Opening)
    BY <1>3, <1>4, LeadsAbove
  <1>8. OpenAt(mid)[Len(mid) + 1] = Plain(Opening)
    BY ONLY <1>5, <1>6, <1>7, AboveEnds
  <1>9. Len(nesting) \in Nat /\ Len(Opening) >= Len(nesting)
    BY <1>4
  <1>10. Spelling(mid, nesting, ledger)
    BY ONLY <1>4, <1>5, <1>6, <1>7, <1>9, SpellingExtends
  <1>11. Keeps(mid, buffer)
    BY <1>6, JoinedKeeps
  <1>12. Grown(ledger, e, ledger', Len(ledger))
    BY <1>1, <1>4, AppendGrows
  <1>13. ~IsObject(ledger, Last(nesting))
    BY <1>1, WithinObject
  <1>14. Fits(ledger, e) /\ ~IsMember(e) /\ IsValueOp(e.op)
    BY <1>2, <1>13 DEF Fits, IsMember, IsValueOp, Elements, Quote, Backslash
  <1> QED
    BY <1>1, <1>2, <1>6, <1>8, <1>10, <1>11, <1>12, <1>14, ValueLaid

BracketOf(op) == IF op = "object" THEN "{" ELSE "["
IsContainerOp(op) == op \in {"object", "array"}

LEMMA BracketIs ==
    ASSUME NEW op, IsContainerOp(op)
    PROVE  BracketOf(op) \in Openers /\ BeginsLike(BracketOf(op), op)
           /\ (op = "object" => BracketOf(op) = "{")
  BY DEF BracketOf, IsContainerOp, Openers, BeginsLike

(* A container is opened in the innermost open one.                        *)
LEMMA ContainerLaid ==
    ASSUME LedgerIsTrue, NestingIsTrue, LayoutIsTrue, nesting # <<>>,
           nesting' = Append(nesting, Len(ledger) + 1),
           NEW mid, NEW e, IsContainerOp(e.op), MemberPut(mid, <<BracketOf(e.op)>>, e)
    PROVE  LayoutIsTrue'
  <1> DEFINE l == Len(ledger)
             c == BracketOf(e.op)
             text == <<c>>
             ln == Len(nesting)
  <1>1. /\ Headed(mid, buffer, e.key) /\ Joined(buffer', mid, text) /\ PutBehind(mid, text, e)
        /\ Grown(ledger, e, ledger', l) /\ e.parent = Last(nesting)
        /\ OpenAt(mid)[Len(mid) + 1] = Plain(Opening) /\ Spelling(mid, nesting, ledger)
        /\ PlacedBehind(buffer', ledger, Last(nesting), e, Len(buffer) + 1)
        /\ Fits(ledger, e) /\ IsMember(e)
    BY DEF MemberPut
  <1>2. c \in Openers /\ BeginsLike(c, e.op) /\ (e.op = "object" => c = "{")
    BY BracketIs
  <1>3. Joined(buffer', mid, <<c>>) /\ Len(text) = 1 /\ nesting' = Append(nesting, l + 1)
    BY <1>1
  <1>4. /\ Sequence(buffer) /\ buffer # <<>> /\ Len(buffer) \in Nat /\ Len(buffer) >= 1 /\ l \in Nat
        /\ nesting \in Seq(Nat) /\ Nested(nesting, ledger) /\ NestedIn(nesting, l)
        /\ Parents(ledger, l) /\ Tree(nesting, ledger) /\ Order(buffer, nesting, ledger)
        /\ Opening \in Stacks /\ Opening # <<>> /\ Len(Opening) = ln
        /\ Last(nesting) \in 0 .. l
    BY WhileWriting
  <1>5. Containers(nesting, ledger)
    BY WhileWriting
  <1>6. Heads(buffer, ledger)
    BY WhileWriting DEF Spelling
  <1>7. e.from = Len(mid) + 1 /\ e.to = e.from + Len(text)
    BY <1>1 DEF PutBehind
  <1> HIDE DEF l, c, text, ln
  <1>8. OpenedAt(buffer', Len(mid) + 1, Opening) /\ buffer'[Len(mid) + 1] = c /\ Len(buffer') = Len(mid) + 1
    BY <1>1, <1>2, <1>3, <1>4, OpensNew
  <1>9. OpenedAt(buffer', e.from, Opening) /\ BeginsLike(buffer'[e.from], e.op)
    BY <1>2, <1>7, <1>8
  <1>10. PICK comma : Sequence(comma) /\ Joined(mid, buffer, comma \o <<Quote, e.key, Quote, ":">>)
    BY <1>1 DEF Headed
  <1>11. HeadAt(buffer', e)
    <2>1. Len(text) >= 1
      BY <1>3
    <2> QED
      BY <1>1, <1>4, <1>7, <1>9, <1>10, <2>1, NewHead
  <1>12. Keeps(buffer', buffer)
    BY <1>1, <1>10, JoinedKeeps DEF Keeps
  <1>13. /\ DOMAIN ledger = 1 .. l /\ DOMAIN ledger' = 1 .. l + 1 /\ l \in Nat
         /\ \A i \in 1 .. l : ledger'[i] = ledger[i]
         /\ ledger'[l + 1] = e
    BY <1>1 DEF Grown
  <1>14. Pushed(nesting, l + 1, nesting', ln)
    BY <1>3, <1>4, AppendPushes DEF ln
  <1>15. /\ BracketsOf(nesting, ledger') = Opening /\ Nested(nesting, ledger')
    <2>1. \A i \in DOMAIN ledger : i \in DOMAIN ledger' /\ ledger'[i].op = ledger[i].op
      BY <1>13
    <2> QED
      BY <1>4, <2>1, BracketsStay DEF Opening
  <1>16. BracketsOf(nesting', ledger') = Append(Opening, IF ledger'[l + 1].op = "object" THEN "{" ELSE "[")
    <2>1. l + 1 \in DOMAIN ledger' /\ l + 1 \in Nat \ {0} /\ nesting # <<>>
      BY <1>13
    <2> QED
      BY <1>3, <1>15, <2>1, BracketsPush, ZenonT(60)
  <1>17. \A j \in 1 .. ln : BracketsOf(nesting', ledger')[j] = Opening[j]
    <2>1. PICK x : BracketsOf(nesting', ledger') = Append(Opening, x)
      BY <1>16
    <2>2. Opening \in Seq(Openers) /\ Len(Opening) = ln
      BY <1>4 DEF Stacks
    <2> QED
      BY ONLY <2>1, <2>2
  <1>18. Above(text, Opening, Append(Opening, c))
    BY <1>2, <1>4, BracketAbove DEF text
  <1>19. Append(Opening, c) \in Stacks /\ Len(Append(Opening, c)) >= ln /\ ln \in Nat
    <2>1. Opening \in Seq(Openers) /\ Len(Opening) = ln /\ c \in Openers /\ nesting \in Seq(Nat)
      BY <1>2, <1>4 DEF Stacks
    <2> QED
      BY ONLY <2>1 DEF Stacks, ln
  <1>20. Spelling(buffer', nesting, ledger)
    <2>1. Len(Append(Opening, c)) >= Len(nesting) /\ Len(nesting) \in Nat
      BY <1>19 DEF ln
    <2> QED
      BY ONLY <1>1, <1>4, <1>18, <1>19, <2>1, SpellingExtends
  <1>21. Spelling(buffer', nesting', ledger')
    <2>1. \A j \in 1 .. Len(nesting) : BracketsOf(nesting', ledger')[j] = BracketsOf(nesting, ledger)[j]
      BY <1>17 DEF ln, Opening
    <2>2. OpenedAt(buffer', e.from, BracketsOf(nesting, ledger)) /\ Pushed(nesting, l + 1, nesting', Len(nesting))
      BY <1>9, <1>14 DEF ln, Opening
    <2> QED
      BY ONLY <1>1, <1>4, <1>11, <1>20, <2>1, <2>2, nesting # <<>>, SpellingOpens
  <1>22. /\ StaysOpen(nesting, nesting') /\ IsOpen(nesting', l + 1)
    BY <1>14 DEF StaysOpen, IsOpen, Pushed
  <1>23. PICK end \in Nat : end = Len(buffer) + 1
    BY <1>4
  <1>24. PICK d \in 0 .. l : d = Last(nesting)
    BY <1>4
  <1>25. e.parent = d /\ Fits(ledger, e) /\ PlacedBehind(buffer', ledger, d, e, end)
    BY <1>1, <1>23, <1>24
  <1>26. /\ Firsts(ledger') /\ Commas(buffer', ledger') /\ Inwards(nesting', ledger')
         /\ Ends(buffer', nesting', ledger')
    BY ONLY <1>1, <1>4, <1>6, <1>12, <1>22, <1>23, <1>24, <1>25, nesting # <<>>, OrderGrows
  <1>27. Frontier(buffer', nesting', ledger')
    <2>1. Last(nesting') = l + 1
      BY <1>14 DEF Pushed
    <2>2. e.from = Len(buffer') /\ Last(buffer') = c
      BY <1>7, <1>8 DEF Last
    <2>3. JustOpened(buffer') /\ (e.op = "object" => Last(buffer') = "{")
      BY <1>2, <2>2 DEF JustOpened
    <2> QED
      BY <1>1, <1>4, <1>24, <1>25, <2>1, <2>2, <2>3, FrontierOpens
  <1>28. Len(nesting') = ln + 1 /\ ln \in Nat
    BY <1>14 DEF Pushed
  <1>29. nesting' # <<>>
    BY <1>28
  <1>30. Finish(buffer', nesting', ledger')
    BY <1>29 DEF Finish
  <1>31. Tree(nesting, ledger')
    BY ONLY <1>1, <1>4, nesting # <<>>, TreeGrows
  <1>32. Tree(nesting', ledger')
    <2>1. ledger'[l + 1].parent = Last(nesting) /\ Pushed(nesting, l + 1, nesting', Len(nesting))
      BY <1>1, <1>13, <1>14 DEF ln
    <2> QED
      BY ONLY <1>4, <1>13, <1>31, <2>1, nesting # <<>>, TreeOpens
  <1>33. Containers(nesting', ledger')
    <2>1. \A k \in 1 .. ln : nesting'[k] = nesting[k]
      BY <1>14 DEF Pushed
    <2>2. nesting'[ln + 1] = l + 1
      BY <1>14 DEF Pushed
    <2>3. \A k \in 2 .. ln : nesting[k] \in 1 .. l
      BY <1>4 DEF NestedIn, ln
    <2>4. \A k \in 2 .. ln + 1 : k \in 2 .. ln \/ k = ln + 1
      BY <1>28
    <2>5. \A k \in 2 .. ln : k \in 1 .. ln
      BY <1>28
    <2>6. \A k \in 2 .. ln : ledger[nesting[k]].op \in {"object", "array"}
      BY <1>5 DEF Containers, ln
    <2>7. \A k \in 2 .. ln : ledger'[nesting'[k]].op \in {"object", "array"}
      BY <1>13, <2>1, <2>3, <2>5, <2>6
    <2>8. ledger'[nesting'[ln + 1]].op \in {"object", "array"}
      BY <1>13, <2>2 DEF IsContainerOp
    <2> QED
      BY <1>28, <2>4, <2>7, <2>8 DEF Containers
  <1>34. buffer' # <<>>
    BY <1>21, HasFirst DEF Spelling
  <1>35. LayoutOf(buffer', nesting', ledger')
    BY <1>21, <1>26, <1>27, <1>30, <1>32, <1>33, <1>34 DEF LayoutOf, Order
  <1> QED
    BY <1>35 DEF LayoutIsTrue

LEMMA Nothing == DOMAIN <<>> = {} /\ Len(<<>>) = 0 /\ 2 .. Len(<<>>) = {}
  OBVIOUS

LEMMA NoPair ==
    /\ 2 .. Len(<< 0 >>) = {}
    /\ \A j, k \in DOMAIN << 0 >> : ~(j < k)
  OBVIOUS

LEMMA AppendIs ==
    ASSUME NEW s, Sequence(s), NEW x
    PROVE  Append(s, x) = s \o <<x>>
  BY DEF Sequence

(* Of an entry closed only the end changes.                                *)
LEMMA EntryClosed ==
    ASSUME NEW e, DOMAIN e = EntryFields, NEW end
    PROVE  LET f == [e EXCEPT !.to = end]
           IN f.op = e.op /\ f.key = e.key /\ f.parent = e.parent /\ f.from = e.from /\ f.to = end
  BY DEF EntryFields

LEMMA CloseCloses ==
    ASSUME LedgerIsTrue, NEW op, NEW bracket, CloseField(op, bracket), Last(nesting) \in DOMAIN ledger
    PROVE  /\ Closed(ledger, Last(nesting), ledger')
           /\ ledger'[Last(nesting)].to = Len(buffer) + 2
  <1> DEFINE k == Last(nesting)
             end == Len(buffer) + 2
  <1>1. ledger' = [ledger EXCEPT ![k].to = end] /\ k \in DOMAIN ledger
    BY DEF CloseField
  <1>2. DOMAIN ledger' = DOMAIN ledger
    BY <1>1
  <1>3. \A i \in DOMAIN ledger : i # k => ledger'[i] = ledger[i]
    BY <1>1
  <1>4. ledger'[k] = [ledger[k] EXCEPT !.to = end]
    BY <1>1
  <1>5. DOMAIN ledger[k] = EntryFields
    BY <1>1 DEF LedgerIsTrue
  <1> HIDE DEF k, end
  <1>6. /\ ledger'[k].op = ledger[k].op /\ ledger'[k].key = ledger[k].key
        /\ ledger'[k].parent = ledger[k].parent /\ ledger'[k].from = ledger[k].from
        /\ ledger'[k].to = end
    BY <1>4, <1>5, EntryClosed
  <1>7. Closed(ledger, k, ledger')
    BY <1>2, <1>3, <1>6 DEF Closed
  <1> QED
    BY <1>6, <1>7 DEF k, end

BracketFor(op) == IF op = "object" THEN "}" ELSE "]"

LEMMA BracketForIs ==
    ASSUME NEW op, IsContainerOp(op)
    PROVE  /\ BracketFor(op) \in Closers /\ Opener(BracketFor(op)) = BracketOf(op)
           /\ (op = "object" => BracketFor(op) = "}")
           /\ op \notin {"number", "double", "bool"}
  BY DEF BracketFor, BracketOf, IsContainerOp, Closers, Opener

LEMMA CloseLaid ==
    ASSUME LedgerIsTrue, NestingIsTrue, LayoutIsTrue, NEW op, IsContainerOp(op),
           CloseField(op, BracketFor(op))
    PROVE  LayoutIsTrue'
  <1> DEFINE l == Len(ledger)
             bracket == BracketFor(op)
             k == Last(nesting)
             n == nesting
             m == Front(nesting)
  <1>1. Len(n) > 1 /\ ledger[k].op = op /\ nesting' = m
    BY DEF CloseField
  <1>2. n # <<>>
    <2>1. Len(n) > 1
      BY <1>1
    <2> QED
      BY ONLY <2>1
  <1>3. /\ Sequence(buffer) /\ buffer # <<>> /\ Len(buffer) \in Nat /\ l \in Nat /\ DOMAIN ledger = 1 .. l
        /\ n \in Seq(Nat) /\ Nested(n, ledger) /\ NestedIn(n, l)
        /\ Parents(ledger, l) /\ Tree(n, ledger) /\ Order(buffer, n, ledger) /\ Spelling(buffer, n, ledger)
        /\ OpenAt(buffer)[Len(buffer) + 1] = Plain(Opening)
    BY <1>2, WhileWriting
  <1>4. Containers(n, ledger)
    BY <1>2, WhileWriting
  <1>5. bracket \in Closers /\ Opener(bracket) = BracketOf(op) /\ (op = "object" => bracket = "}")
        /\ op \notin {"number", "double", "bool"}
    BY BracketForIs
  <1>6. Last(Opening) = (IF k = 0 \/ ledger[k].op = "object" THEN "{" ELSE "[") /\ k \in DOMAIN ledger
    BY <1>1, <1>2, <1>3, BracketsPop DEF Opening
  <1>7. k # 0
    <2>1. k \in 1 .. l /\ l \in Nat
      BY <1>3, <1>6
    <2> QED
      BY ONLY <2>1
  <1>8. Last(Opening) = Opener(bracket)
    BY <1>1, <1>5, <1>6, <1>7 DEF BracketOf
  <1>9. NeitherOf(ledger[k])
    BY <1>1, <1>5 DEF NeitherOf
  <1>10. ClosedBy(ledger, k, bracket)
    BY <1>1, <1>5, <1>7 DEF ClosedBy, IsObject
  <1>11. buffer' = buffer \o <<bracket>>
    BY CloseEntries
  <1>12. Joined(buffer', buffer, <<bracket>>)
    BY <1>3, <1>11, SequenceOne DEF Joined
  <1>13. Closed(ledger, k, ledger') /\ ledger'[k].to = Len(buffer) + 2
    BY <1>6, CloseCloses
  <1>14. Len(n) > 1
    BY <1>1
  <1>15. k = Last(n) /\ Last(BracketsOf(n, ledger)) = Opener(bracket)
         /\ OpenAt(buffer)[Len(buffer) + 1] = Plain(BracketsOf(n, ledger))
    BY <1>3, <1>8 DEF Opening
  <1>16. m = Front(n) /\ nesting' = m
    BY <1>1
  <1> HIDE DEF l, bracket, k, n, m
  <1>17. bracket \in Closers
    BY <1>5
  <1>18. Spelling(buffer', Front(n), ledger')
    BY ONLY <1>3, <1>9, <1>12, <1>13, <1>14, <1>15, <1>17, SpellingCloses
  <1>19. Values(buffer, n, ledger)
    BY <1>3 DEF Spelling
  <1>20. Order(buffer', Front(n), ledger')
    BY ONLY <1>3, <1>10, <1>12, <1>13, <1>14, <1>15, <1>17, <1>19, OrderCloses
  <1>21. Tree(Front(n), ledger')
    BY ONLY <1>2, <1>3, <1>13, TreeCloses
  <1>22. Containers(m, ledger')
    <2>1. Len(m) = Len(n) - 1 /\ Len(n) \in Nat /\ \A i \in 1 .. Len(n) - 1 : m[i] = n[i]
      BY <1>2, <1>3, <1>16, LastIs
    <2>2. \A i \in 2 .. Len(n) : n[i] \in DOMAIN ledger
      BY <1>3 DEF NestedIn
    <2>3. \A i \in 2 .. Len(m) : i \in 2 .. Len(n) /\ m[i] = n[i]
      BY ONLY <2>1
    <2>4. \A i \in DOMAIN ledger : ledger'[i].op = ledger[i].op
      BY <1>13 DEF Closed
    <2> QED
      BY <1>4, <2>2, <2>3, <2>4 DEF Containers
  <1>23. buffer' # <<>>
    BY <1>18, HasFirst DEF Spelling
  <1>24. LayoutOf(buffer', nesting', ledger')
    BY <1>16, <1>18, <1>20, <1>21, <1>22, <1>23 DEF LayoutOf
  <1> QED
    BY <1>24 DEF LayoutIsTrue

LEMMA StartLaid ==
    ASSUME LayoutIsTrue, buffer = <<>>, buffer' = <<"{">>, nesting' = << 0 >>, ledger' = ledger
    PROVE  LayoutIsTrue'
  <1> DEFINE zero == << 0 >>
             none == <<>>
             one == <<"{">>
  <1>1. ledger' = none /\ nesting' = zero /\ buffer' = one
    BY DEF LayoutIsTrue, LayoutOf
  <1>2. Spelling(one, zero, none) /\ Order(one, zero, none)
    BY SpellingStarts, OrderStarts
  <1>3. Len(zero) = 1 /\ zero[1] = 0 /\ DOMAIN zero = {1}
    BY ONLY OnlyZero, zero = << 0 >>
  <1>4. DOMAIN none = {}
    BY Nothing
  <1>5. one # <<>>
    BY <1>2, HasFirst DEF Spelling
  <1> HIDE DEF zero, none, one
  <1>6. 2 .. Len(zero) = {} /\ \A j, k \in DOMAIN zero : ~(j < k)
    BY NoPair DEF zero
  <1>7. Tree(zero, none)
    BY <1>4, <1>6 DEF Tree
  <1>8. Containers(zero, none)
    BY <1>6 DEF Containers
  <1>9. LayoutOf(one, zero, none)
    BY <1>2, <1>5, <1>7, <1>8 DEF LayoutOf
  <1> QED
    BY <1>1, <1>9 DEF LayoutIsTrue

LEMMA EndLaid ==
    ASSUME LedgerIsTrue, NestingIsTrue, LayoutIsTrue, nesting = << 0 >>, buffer' = Append(buffer, "}"),
           nesting' = <<>>, ledger' = ledger
    PROVE  LayoutIsTrue'
  <1> DEFINE brace == "}"
             none == <<>>
  <1>0. nesting # <<>> /\ nesting' = none /\ ledger' = ledger /\ buffer' = Append(buffer, brace)
    BY OnlyZero
  <1>1. /\ Sequence(buffer) /\ Len(ledger) \in Nat /\ DOMAIN ledger = 1 .. Len(ledger)
        /\ Parents(ledger, Len(ledger)) /\ Tree(nesting, ledger)
        /\ Order(buffer, nesting, ledger) /\ Spelling(buffer, nesting, ledger)
    BY <1>0, WhileWriting
  <1>2. Order(buffer, << 0 >>, ledger) /\ Spelling(buffer, << 0 >>, ledger)
    BY <1>1
  <1>3. Joined(buffer', buffer, <<brace>>)
    <2> HIDE DEF brace
    <2>2. Append(buffer, brace) = buffer \o <<brace>>
      BY <1>1, AppendIs
    <2> QED
      BY <1>0, <1>1, <2>2, SequenceOne DEF Joined
  <1>4. Order(buffer', <<>>, ledger)
    BY <1>1, <1>2, <1>3, OrderEnds
  <1>5. Spelling(buffer', <<>>, ledger)
    BY <1>1, <1>2, <1>3, SpellingEnds
  <1>6. DOMAIN none = {} /\ Len(none) = 0
    BY Nothing
  <1>7. Order(buffer', none, ledger) /\ Spelling(buffer', none, ledger)
    BY <1>4, <1>5
  <1> HIDE DEF none, brace
  <1>8. 2 .. Len(none) = {}
    BY Nothing DEF none
  <1>9. Tree(none, ledger)
    BY <1>1, <1>6, <1>8 DEF Tree
  <1>10. Containers(none, ledger)
    BY <1>8 DEF Containers
  <1>11. buffer' # <<>>
    BY <1>7, HasFirst DEF Spelling
  <1>12. LayoutOf(buffer', none, ledger)
    BY <1>7, <1>9, <1>10, <1>11 DEF LayoutOf
  <1> QED
    BY <1>0, <1>12 DEF LayoutIsTrue

LEMMA NothingLaid == LayoutOf(<<>>, <<>>, <<>>)
  <1> DEFINE none == <<>>
  <1>1. DOMAIN none = {} /\ Len(none) = 0
    OBVIOUS
  <1> HIDE DEF none
  <1>2. 2 .. Len(none) = {}
    BY <1>1
  <1>3. Tree(none, none) /\ Containers(none, none)
    BY <1>1, <1>2 DEF Tree, Containers
  <1>4. LayoutOf(none, none, none)
    BY <1>3 DEF LayoutOf, none
  <1> QED
    BY <1>4 DEF none

(* A call that writes a member whose value fits.                           *)
LEMMA CallLaid ==
    ASSUME LedgerIsTrue, NestingIsTrue, LayoutIsTrue, NEW c \in Calls, c.op \notin Elements,
           IsValueOp(c.op), NEW text, NEW openers \in OpenerSets, PutMember(c, text, openers),
           nesting' = nesting,
           \A e : e.op = c.op /\ e.value = c.value => Fitting(text, e)
    PROVE  LayoutIsTrue'
  <1>1. \E e : e.op = c.op /\ e.value = c.value
    <2>1. [op |-> c.op, value |-> c.value].op = c.op /\ [op |-> c.op, value |-> c.value].value = c.value
      OBVIOUS
    <2> QED
      BY <2>1
  <1>2. Sequence(text) /\ Len(text) >= 1
    BY <1>1 DEF Fitting
  <1>3. PICK mid, e : /\ MemberPut(mid, text, e) /\ e.op = c.op
                      /\ c.op \notin {"object", "array"} => e.value = c.value
    BY <1>2, MemberPutIs
  <1>4. IsValueOp(e.op) /\ Fitting(text, e)
    BY <1>3 DEF IsValueOp
  <1>5. nesting # <<>>
    BY DEF PutMember, MayAdd
  <1> QED
    BY <1>3, <1>4, <1>5, MemberLaid

LEMMA ContainerCallLaid ==
    ASSUME LedgerIsTrue, NestingIsTrue, LayoutIsTrue, NEW c \in Calls, IsContainerOp(c.op),
           NEW openers \in OpenerSets, PutMember(c, <<BracketOf(c.op)>>, openers),
           nesting' = Append(nesting, Len(ledger) + 1)
    PROVE  LayoutIsTrue'
  <1>1. c.op \notin Elements
    BY DEF IsContainerOp, Elements
  <1>2. Sequence(<<BracketOf(c.op)>>) /\ Len(<<BracketOf(c.op)>>) >= 1
    BY SequenceOne, OneByte
  <1>3. PICK mid, e : MemberPut(mid, <<BracketOf(c.op)>>, e) /\ e.op = c.op
    BY <1>1, <1>2, MemberPutIs, SMTT(30)
  <1>4. nesting # <<>>
    BY DEF PutMember, MayAdd
  <1>5. IsContainerOp(e.op) /\ MemberPut(mid, <<BracketOf(e.op)>>, e)
    BY <1>3
  <1> QED
    BY <1>4, <1>5, ContainerLaid

LEMMA OpenerSetsHas == {"{"} \in OpenerSets /\ {"{", "["} \in OpenerSets
  BY DEF OpenerSets

LEMMA WordLength == \A w \in {"true", "false"} : Len(<<w>>) >= 1 /\ Simple(<<w>>)
  BY DEF Simple, WordSet

LEMMA QuotedLength ==
    ASSUME NEW s, Sequence(s)
    PROVE  Len(<<Quote>> \o Escaped(s) \o <<Quote>>) >= 1
  <1> DEFINE x == Escaped(s)
             q == <<Quote>>
  <1>1. Sequence(x) /\ Sequence(q) /\ Len(q) = 1
    BY EscapedType, SequenceOne
  <1> HIDE DEF x, q
  <1>2. Len(q \o x) = Len(q) + Len(x) /\ Len(x) \in Nat /\ Sequence(q \o x)
    BY <1>1, ConcatBytes, SequenceConcat
  <1>3. Len((q \o x) \o q) = Len(q \o x) + Len(q)
    BY <1>1, <1>2, ConcatBytes
  <1>4. Len((q \o x) \o q) >= 1
    BY <1>1, <1>2, <1>3
  <1> QED
    BY <1>4 DEF q, x

LEMMA NumberTextLength ==
    ASSUME NEW n \in Int
    PROVE  Len(NumberText(n)) >= 1
  BY NumberTextIsNumber, NumberTextType, SequenceIsText, NumberIsPlain

LEMMA DoubleLength ==
    ASSUME NEW t \in Doubles
    PROVE  Sequence(t) /\ Len(t) >= 1 /\ (IsNumber(t) \/ t \in NotFinite)
  BY TextsArePlain, SequenceIsText, NumberIsPlain, NotFiniteIsPlain, DoublesAssumption

LEMMA LayoutStaysTrue == Spec => []LayoutIsTrue
  <1>1. Init => LayoutIsTrue
    BY NothingLaid DEF Init, LayoutIsTrue
  <1>2. ASSUME LedgerIsTrue, NestingIsTrue, LayoutIsTrue, [Next]_vars PROVE LayoutIsTrue'
    <2>1. CASE StartObject
      BY <1>2, <2>1, StartLaid DEF StartObject
    <2>2. CASE EndObject
      BY <1>2, <2>2, EndLaid DEF EndObject
    <2>3. CASE CloseObjectField
      <3>1. IsContainerOp("object") /\ BracketFor("object") = "}"
        BY DEF IsContainerOp, BracketFor
      <3> QED
        BY <1>2, <2>3, <3>1, CloseLaid DEF CloseObjectField
    <2>4. CASE CloseArrayField
      <3>1. IsContainerOp("array") /\ BracketFor("array") = "]"
        BY DEF IsContainerOp, BracketFor
      <3> QED
        BY <1>2, <2>4, <3>1, CloseLaid DEF CloseArrayField
    <2>5. CASE Reset
      <3>1. buffer' = <<>> /\ nesting' = <<>> /\ ledger' = <<>>
        BY <2>5 DEF Reset
      <3> QED
        BY <3>1, NothingLaid DEF LayoutIsTrue
    <2>6. ASSUME NEW c \in Calls, AddField(c) PROVE LayoutIsTrue'
      <3>1. /\ PutMember(c, Quoted(c.value), {"{"}) /\ nesting' = nesting /\ c.op = "field"
        BY <2>6 DEF AddField, Quoted
      <3>2. Sequence(c.value) /\ IsValueOp(c.op) /\ c.op \notin Elements
        BY <3>1, ValueOfCall DEF IsValueOp, Elements
      <3>3. \A e : e.op = c.op /\ e.value = c.value => Fitting(Quoted(c.value), e)
        BY <3>1, <3>2, StringFits
      <3> QED
        BY <1>2, <3>1, <3>2, <3>3, OpenerSetsHas, CallLaid
    <2>7. ASSUME NEW c \in Calls, AddFieldNumber(c) PROVE LayoutIsTrue'
      <3>1. PutMember(c, NumberText(c.value), {"{"}) /\ nesting' = nesting /\ c.op = "number"
        BY <2>7 DEF AddFieldNumber
      <3>2. c.value \in Int /\ IsValueOp(c.op) /\ c.op \notin Elements
        BY <3>1, ValueOfCall DEF IsValueOp, Elements
      <3>3. /\ Sequence(NumberText(c.value)) /\ Len(NumberText(c.value)) >= 1 /\ Simple(NumberText(c.value))
            /\ \A i \in 1 .. Len(NumberText(c.value)) : NumberText(c.value)[i] \notin Structure
        BY <3>2, TextsArePlain, NumberTextLength, NumberTextIsNumber DEF Simple
      <3>4. \A e : e.op = c.op /\ e.value = c.value => Fitting(NumberText(c.value), e)
        <4> DEFINE x == NumberText(c.value)
        <4> HIDE DEF x
        <4>1. \A e : e.op = "number" => Fitting(x, e)
          BY <3>3, SpelledFits DEF x
        <4> QED
          BY <3>1, <4>1 DEF x
      <3> QED
        BY <1>2, <3>1, <3>2, <3>4, OpenerSetsHas, CallLaid
    <2>8. ASSUME NEW c \in Calls, AddFieldDouble(c) PROVE LayoutIsTrue'
      <3>1. PutMember(c, c.value, {"{"}) /\ nesting' = nesting /\ c.op = "double"
        BY <2>8 DEF AddFieldDouble
      <3>2. c.value \in Doubles /\ IsValueOp(c.op) /\ c.op \notin Elements
        BY <3>1, ValueOfCall DEF IsValueOp, Elements
      <3>3. /\ Sequence(c.value) /\ Len(c.value) >= 1
            /\ Simple(c.value) \/ c.value \in NotFinite
            /\ \A i \in 1 .. Len(c.value) : c.value[i] \notin Structure
        BY <3>2, TextsArePlain, DoubleLength DEF Simple
      <3>4. ASSUME NEW e, e.op = c.op, e.value = c.value PROVE Fitting(c.value, e)
        <4>1. e.op \in {"number", "double", "bool"} /\ e.op = "double"
          BY <3>1, <3>4
        <4>2. /\ e.op = "double" => c.value = e.value
              /\ Simple(c.value) \/ (e.op = "double" /\ c.value \in NotFinite)
          BY <3>3, <4>1, <3>4
        <4> DEFINE x == c.value
        <4>3. /\ Sequence(x) /\ Len(x) >= 1 /\ \A i \in 1 .. Len(x) : x[i] \notin Structure
              /\ e.op = "double" => x = e.value
              /\ Simple(x) \/ (e.op = "double" /\ x \in NotFinite)
          BY <3>3, <4>2
        <4> HIDE DEF x
        <4>4. Fitting(x, e)
          BY ONLY <4>1, <4>3, SpelledFits
        <4> QED
          BY <4>4 DEF x
      <3> QED
        BY <1>2, <3>1, <3>2, <3>4, OpenerSetsHas, CallLaid
    <2>9. ASSUME NEW c \in Calls, AddFieldBool(c) PROVE LayoutIsTrue'
      <3> DEFINE w == IF c.value THEN "true" ELSE "false"
                 x == <<w>>
      <3>1. PutMember(c, x, {"{"}) /\ nesting' = nesting /\ c.op = "bool"
        BY <2>9 DEF AddFieldBool
      <3>2. IsValueOp(c.op) /\ c.op \notin Elements /\ w \in {"true", "false"}
        BY <3>1 DEF IsValueOp, Elements
      <3> HIDE DEF w
      <3>3. /\ Sequence(x) /\ Len(x) >= 1 /\ Simple(x)
            /\ \A i \in 1 .. Len(x) : x[i] \notin Structure
        BY <3>2, TextsArePlain, WordLength
      <3> HIDE DEF x
      <3>4. ASSUME NEW e, e.op = c.op, e.value = c.value PROVE Fitting(x, e)
        <4>1. e.op \in {"number", "double", "bool"} /\ e.op # "double"
          BY <3>1, <3>4
        <4>2. /\ e.op = "double" => x = e.value
              /\ Simple(x) \/ (e.op = "double" /\ x \in NotFinite)
          BY <3>3, <4>1
        <4> QED
          BY ONLY <3>3, <4>1, <4>2, SpelledFits
      <3> QED
        BY <1>2, <3>1, <3>2, <3>4, OpenerSetsHas, CallLaid
    <2>10. ASSUME NEW c \in Calls, AddFieldRaw(c) PROVE LayoutIsTrue'
      <3>1. PutMember(c, c.value, {"{", "["}) /\ nesting' = nesting /\ c.op = "raw"
        BY <2>10 DEF AddFieldRaw
      <3>2. c.value \in RawValues /\ IsValueOp(c.op) /\ c.op \notin Elements
        BY <3>1, ValueOfCall DEF IsValueOp, Elements
      <3>3. \A e : e.op = c.op /\ e.value = c.value => Fitting(c.value, e)
        BY <3>1, <3>2, RawFits
      <3> QED
        BY <1>2, <3>1, <3>2, <3>3, OpenerSetsHas, CallLaid
    <2>11. ASSUME NEW c \in Calls, AddObjectField(c) PROVE LayoutIsTrue'
      <3>1. c.op = "object" /\ PutMember(c, <<"{">>, {"{"}) /\ nesting' = Append(nesting, Len(ledger) + 1)
        BY <2>11 DEF AddObjectField
      <3>2. IsContainerOp(c.op) /\ BracketOf(c.op) = "{"
        BY <3>1 DEF IsContainerOp, BracketOf
      <3> QED
        BY <1>2, <3>1, <3>2, OpenerSetsHas, ContainerCallLaid
    <2>12. ASSUME NEW c \in Calls, AddArrayField(c) PROVE LayoutIsTrue'
      <3>1. c.op = "array" /\ PutMember(c, <<"[">>, {"{"}) /\ nesting' = Append(nesting, Len(ledger) + 1)
        BY <2>12 DEF AddArrayField
      <3>2. IsContainerOp(c.op) /\ BracketOf(c.op) = "["
        BY <3>1 DEF IsContainerOp, BracketOf
      <3> QED
        BY <1>2, <3>1, <3>2, OpenerSetsHas, ContainerCallLaid
    <2>13. ASSUME NEW c \in Calls, AddArrayElement(c) PROVE LayoutIsTrue'
      <3> DEFINE text == <<Quote>> \o Escaped(c.value) \o <<Quote>>
      <3>1. PutElement(c, text) /\ c.op = "element"
        BY <2>13 DEF AddArrayElement
      <3>2. Sequence(c.value) /\ Sequence(text) /\ c.op \in Elements
        BY <3>1, ValueOfCall, QuotedType DEF Elements
      <3>3. Len(text) >= 1 /\ \A o \in Stacks : o # <<>> => Leads(text, o, o, 1)
        BY <3>2, LeadsQuoted, QuotedLength
      <3> HIDE DEF text
      <3> QED
        BY <1>2, <3>1, <3>2, <3>3, ElementLaid
    <2>14. ASSUME NEW c \in Calls, AddArrayElementRaw(c) PROVE LayoutIsTrue'
      <3>1. PutElement(c, c.value) /\ c.op = "rawElement"
        BY <2>14 DEF AddArrayElementRaw
      <3>2. c.value \in RawValues /\ c.op \in Elements
        BY <3>1, ValueOfCall DEF Elements
      <3>3. Sequence(c.value)
        BY <3>2, TextsAssumption DEF Sequence
      <3>4. Len(c.value) >= 1 /\ \A o \in Stacks : o # <<>> => Leads(c.value, o, o, 1)
        BY <3>2, <3>3, LeadsRaw, RawAssumption, ValueClosesItself
      <3> QED
        BY <1>2, <3>1, <3>2, <3>3, <3>4, ElementLaid
    <2>15. CASE UNCHANGED vars
      BY <1>2, <2>15 DEF vars, LayoutIsTrue
    <2> QED
      BY <1>2, <2>1, <2>2, <2>3, <2>4, <2>5, <2>6, <2>7, <2>8, <2>9, <2>10, <2>11, <2>12,
         <2>13, <2>14, <2>15 DEF Next
  <1>3. LedgerIsTrue /\ NestingIsTrue /\ LayoutIsTrue /\ [Next]_vars => LayoutIsTrue'
    BY <1>2
  <1> QED
    BY <1>1, <1>3, LedgerStaysTrue, NestingStaysTrue, PTL DEF Spec

-----------------------------------------------------------------------------
(* Reading a message that is written out, from member to member.           *)

(* A message that is written out, with what the reader meets in it.        *)
EndOf(b, L, c) == IF c = 0 THEN Len(b) ELSE L[c].to - 1

WrittenOut(b, L, l) ==
    /\ IsText(b) /\ Len(b) >= 1
    /\ Parents(L, l) /\ Tree(<<>>, L) /\ Heads(b, L)
    /\ \A i \in 1 .. l : IsMember(L[i]) => ValueAt(b, L[i])
    /\ Firsts(L) /\ Commas(b, L)
    /\ \A j \in 1 .. l : IsMember(L[j]) /\ L[j].parent # 0 =>
         L[L[j].parent].from + 4 < L[j].from /\ L[j].to < L[L[j].parent].to
    /\ \A c \in 0 .. l : IsObject(L, c) => EndsAt(L, c, EndOf(b, L, c)) /\ BraceAt(b, EndOf(b, L, c))

LEMMA NoneOpen == \A i : ~IsOpen(<<>>, i)
  BY Nothing DEF IsOpen

LEMMA WholeIsWritten ==
    ASSUME LedgerIsTrue, LayoutIsTrue, Whole
    PROVE  WrittenOut(buffer, ledger, Len(ledger)) /\ At(buffer, 1, "{")
  <1> DEFINE l == Len(ledger)
             none == <<>>
  <1>1. nesting = none /\ buffer # <<>> /\ Sequence(buffer) /\ Sequence(ledger)
    BY DEF Whole, LedgerIsTrue
  <1>2. \A i : ~IsOpen(none, i)
    BY NoneOpen
  <1>3. /\ Tree(none, ledger) /\ Spelling(buffer, none, ledger) /\ Order(buffer, none, ledger)
    BY <1>1 DEF LayoutIsTrue, LayoutOf
  <1>4. IsText(buffer) /\ IsText(ledger)
    BY <1>1, SequenceIsText
  <1>5. Len(buffer) >= 1
    <2>1. PICK S : buffer \in Seq(S)
      BY <1>1 DEF Sequence
    <2>2. buffer # <<>>
      BY <1>1
    <2> QED
      BY ONLY <2>1, <2>2
  <1>6. l \in Nat /\ DOMAIN ledger = 1 .. l
    BY <1>4 DEF IsText
  <1>7. Parents(ledger, l)
    BY <1>3, <1>6, TreeParents
  <1>12. Tree(<<>>, ledger)
    BY <1>3
  <1> HIDE DEF none
  <1>8. /\ Heads(buffer, ledger) /\ Firsts(ledger) /\ Commas(buffer, ledger)
        /\ Values(buffer, none, ledger) /\ Inwards(none, ledger) /\ Ends(buffer, none, ledger)
        /\ Finish(buffer, none, ledger)
    BY <1>3 DEF Spelling, Order
  <1>9. \A i \in 1 .. l : IsMember(ledger[i]) => ValueAt(buffer, ledger[i])
    BY <1>2, <1>6, <1>8 DEF Values, IsMember
  <1>10. \A j \in 1 .. l : IsMember(ledger[j]) /\ ledger[j].parent # 0 =>
           ledger[ledger[j].parent].from + 4 < ledger[j].from /\ ledger[j].to < ledger[ledger[j].parent].to
    BY <1>2, <1>6, <1>8 DEF Inwards
  <1>11. ASSUME NEW c \in 0 .. l, IsObject(ledger, c)
         PROVE  EndsAt(ledger, c, EndOf(buffer, ledger, c)) /\ BraceAt(buffer, EndOf(buffer, ledger, c))
    <2>1. CASE c = 0
      BY <1>8, <2>1 DEF Finish, none, EndOf
    <2>2. CASE c # 0
      <3>1. c \in DOMAIN ledger
        BY <1>6, <2>2
      <3> QED
        BY <1>2, <1>8, <1>11, <2>2, <3>1 DEF Ends, EndOf
    <2> QED
      BY <2>1, <2>2
  <1>13. WrittenOut(buffer, ledger, l)
    BY <1>4, <1>5, <1>7, <1>8, <1>9, <1>10, <1>11, <1>12 DEF WrittenOut
  <1> QED
    BY <1>3, <1>13 DEF Spelling

(* Where the reader stands before the member k of c, or before its end.    *)
Place(b, L, c, k) == IF k \in DOMAIN L THEN L[k].from - 4 ELSE EndOf(b, L, c)

(* The member k of c, or its end, is the next behind i.                    *)
ComesNext(L, l, c, i, k) ==
    /\ k \in 1 .. l + 1 /\ i < k
    /\ k \in 1 .. l => L[k].parent = c
    /\ \A m \in 1 .. l : i < m /\ m < k => L[m].parent # c

LEMMA ChildIsMember ==
    ASSUME NEW b, NEW L, NEW l, WrittenOut(b, L, l), NEW c, IsObject(L, c), NEW j \in 1 .. l, L[j].parent = c
    PROVE  /\ IsMember(L[j]) /\ ValueAt(b, L[j]) /\ HeadAt(b, L[j])
           /\ L[j].from \in 6 .. Len(b) /\ L[j].to \in Nat /\ L[j].from < L[j].to /\ L[j].to <= Len(b) + 1
           /\ L[j].key \notin {Quote, Backslash}
  <1>1. DOMAIN L = 1 .. l /\ l \in Nat
    BY DEF WrittenOut, Parents
  <1>2. Fits(L, L[j])
    BY <1>1 DEF WrittenOut, Tree
  <1>3. IsMember(L[j]) /\ L[j].op \notin Elements /\ L[j].key \notin {Quote, Backslash}
    BY <1>2 DEF Fits, IsMember
  <1>4. ValueAt(b, L[j]) /\ HeadAt(b, L[j])
    BY <1>1, <1>3 DEF WrittenOut, Heads
  <1>5. L[j].from \in 6 .. Len(b)
    BY <1>4 DEF HeadAt
  <1>6. L[j].to \in Nat /\ L[j].from < L[j].to /\ L[j].to <= Len(b) + 1
    BY <1>4 DEF ValueAt, Stretch
  <1> QED
    BY <1>3, <1>4, <1>5, <1>6

LEMMA FirstPlace ==
    ASSUME NEW b, NEW L, NEW l, WrittenOut(b, L, l), NEW c \in 0 .. l, IsObject(L, c),
           c # 0 => L[c].from \in Nat
    PROVE  \E k : ComesNext(L, l, c, c, k) /\ Place(b, L, c, k) = Inner(L, c)
  <1> DEFINE S == {j \in 1 .. l : L[j].parent = c}
  <1>1. DOMAIN L = 1 .. l /\ l \in Nat /\ \A j \in 1 .. l : L[j].parent \in Nat /\ L[j].parent < j
    BY DEF WrittenOut, Parents
  <1>2. EndsAt(L, c, EndOf(b, L, c)) /\ Firsts(L)
    BY DEF WrittenOut
  <1>3. CASE S = {}
    <2>1. Childless(L, c)
      BY <1>1, <1>3 DEF Childless
    <2>2. EndOf(b, L, c) = Inner(L, c)
      BY <1>2, <2>1 DEF EndsAt
    <2>3. l + 1 \notin DOMAIN L /\ l + 1 \in 1 .. l + 1 /\ c < l + 1 /\ l + 1 \notin 1 .. l
      BY <1>1
    <2>4. ComesNext(L, l, c, c, l + 1)
      BY <1>3, <2>3 DEF ComesNext
    <2>5. Place(b, L, c, l + 1) = Inner(L, c)
      BY <2>2, <2>3 DEF Place
    <2> QED
      BY <2>4, <2>5
  <1>4. CASE S # {}
    <2>1. PICK k \in S : \A m \in S : k <= m
      <3>1. S \subseteq Nat
        BY <1>1
      <3> HIDE DEF S
      <3> QED
        BY <1>4, <3>1, Least
    <2>2. k \in 1 .. l /\ L[k].parent = c /\ c < k /\ k \in DOMAIN L /\ k \in 1 .. l + 1
      BY <1>1
    <2>3. \A m \in 1 .. l : m < k => L[m].parent # c
      BY <1>1, <2>1
    <2>4. FirstOf(L, k)
      BY <1>1, <2>2, <2>3 DEF FirstOf
    <2>5. ComesNext(L, l, c, c, k)
      BY <2>2, <2>3 DEF ComesNext
    <2>6. IsMember(L[k])
      BY <2>2, ChildIsMember
    <2>7. L[k].from = Inner(L, c) + 4
      BY <1>2, <2>2, <2>4, <2>6 DEF Firsts
    <2>8. Inner(L, c) \in Nat
      BY <1>1 DEF Inner
    <2>9. L[k].from - 4 = Inner(L, c)
      BY ONLY <2>7, <2>8
    <2>10. Place(b, L, c, k) = Inner(L, c)
      BY <2>2, <2>9 DEF Place
    <2> QED
      BY <2>5, <2>10
  <1> QED
    BY <1>3, <1>4

LEMMA NoSpaces == "," \notin Spaces /\ "}" \notin Spaces /\ ":" \notin Spaces /\ Quote \notin Spaces
                  /\ Quote # "}" /\ "," \in Enders /\ "}" \in Enders
  BY DEF Spaces, Quote, Enders

LEMMA BehindComma ==
    ASSUME NEW b, IsText(b), NEW p \in Nat \ {0}, CommaAt(b, p)
    PROVE  Behind(b)[p] = p + 1 /\ Ended(b, p)
  <1>1. p \in DOMAIN b /\ b[p] = ","
    BY DEF CommaAt, At
  <1>2. SkipWs(b, p) = p
    BY <1>1, NoSpace, NoSpaces
  <1>3. In(b, p, {",", "}"}) /\ p # Fail
    BY <1>1 DEF In, Fail
  <1>4. Behind(b)[p] = p + 1
    BY <1>1, <1>2, <1>3 DEF Behind
  <1> QED
    BY <1>1, <1>4, NoSpaces DEF Ended

LEMMA BehindBrace ==
    ASSUME NEW b, IsText(b), NEW p \in Nat \ {0}, BraceAt(b, p)
    PROVE  Behind(b)[p] = p /\ Ended(b, p) /\ SkipWs(b, p) = p /\ At(b, p, "}")
  <1>1. p \in DOMAIN b /\ b[p] = "}" /\ At(b, p, "}")
    BY DEF BraceAt, At
  <1>2. SkipWs(b, p) = p
    BY <1>1, NoSpace, NoSpaces
  <1>3. In(b, p, {",", "}"}) /\ p # Fail /\ b[p] # ","
    BY <1>1 DEF In, Fail
  <1>4. Behind(b)[p] = p
    BY <1>1, <1>2, <1>3 DEF Behind
  <1> QED
    BY <1>1, <1>2, <1>4, NoSpaces DEF Ended

LEMMA NextPlace ==
    ASSUME NEW b, NEW L, NEW l, WrittenOut(b, L, l), NEW c \in 0 .. l, IsObject(L, c),
           NEW j \in 1 .. l, L[j].parent = c
    PROVE  /\ Ended(b, L[j].to)
           /\ \E k : ComesNext(L, l, c, j, k) /\ Behind(b)[L[j].to] = Place(b, L, c, k)
  <1> DEFINE S == {m \in 1 .. l : j < m /\ L[m].parent = c}
  <1>1. DOMAIN L = 1 .. l /\ l \in Nat /\ \A m \in 1 .. l : L[m].parent \in Nat /\ L[m].parent < m
    BY DEF WrittenOut, Parents
  <1>2. EndsAt(L, c, EndOf(b, L, c)) /\ BraceAt(b, EndOf(b, L, c)) /\ Commas(b, L) /\ IsText(b)
    BY DEF WrittenOut
  <1>3. L[j].to \in Nat \ {0}
    <2>1. L[j].to \in Nat /\ L[j].from < L[j].to /\ L[j].from \in 6 .. Len(b)
      BY ChildIsMember
    <2> QED
      BY ONLY <2>1
  <1>4. CASE S = {}
    <2>1. \A m \in 1 .. l : j < m => L[m].parent # c
      BY <1>4
    <2>2. LastOf(L, j)
      BY <1>1, <2>1 DEF LastOf
    <2>3. L[j].to = EndOf(b, L, c)
      BY <1>1, <1>2, <2>2 DEF EndsAt
    <2>4. BraceAt(b, L[j].to)
      BY <1>2, <2>3
    <2>5. Behind(b)[L[j].to] = L[j].to /\ Ended(b, L[j].to)
      BY <1>2, <1>3, <2>4, BehindBrace
    <2>6. l + 1 \notin DOMAIN L /\ l + 1 \in 1 .. l + 1 /\ j < l + 1 /\ l + 1 \notin 1 .. l
      BY <1>1
    <2>7. ComesNext(L, l, c, j, l + 1)
      BY <2>1, <2>6 DEF ComesNext
    <2>8. Place(b, L, c, l + 1) = L[j].to
      BY <2>3, <2>6 DEF Place
    <2> QED
      BY <2>5, <2>7, <2>8
  <1>5. CASE S # {}
    <2>1. PICK k \in S : \A m \in S : k <= m
      <3>1. S \subseteq Nat
        BY <1>1
      <3> HIDE DEF S
      <3> QED
        BY <1>5, <3>1, Least
    <2>2. k \in 1 .. l /\ L[k].parent = c /\ j < k /\ k \in DOMAIN L /\ k \in 1 .. l + 1
      BY <1>1
    <2>3. \A m \in 1 .. l : j < m /\ m < k => L[m].parent # c
      BY <1>1, <2>1
    <2>4. Adjacent(L, j, k)
      BY <1>1, <2>2, <2>3 DEF Adjacent
    <2>5. ComesNext(L, l, c, j, k)
      BY <2>2, <2>3 DEF ComesNext
    <2>6. IsMember(L[k])
      BY <2>2, ChildIsMember
    <2>7. L[k].from = L[j].to + 5 /\ CommaAt(b, L[j].to)
      BY <1>1, <1>2, <2>2, <2>4, <2>6 DEF Commas
    <2>8. Behind(b)[L[j].to] = L[j].to + 1 /\ Ended(b, L[j].to)
      BY <1>2, <1>3, <2>7, BehindComma
    <2>10. L[k].from = L[j].to + 5
      BY <2>7
    <2>9. L[k].from - 4 = L[j].to + 1
      BY ONLY <2>10, <1>3
    <2>11. Place(b, L, c, k) = L[j].to + 1
      BY <2>2, <2>9 DEF Place
    <2> QED
      BY <2>5, <2>8, <2>11
  <1> QED
    BY <1>4, <1>5

LEMMA MemberAt ==
    ASSUME NEW b, IsText(b), NEW e, HeadAt(b, e), e.key \notin {Quote, Backslash},
           NEW p, p = e.from - 4
    PROVE  /\ p \in Nat \ {0} /\ SkipWs(b, p) = p /\ ~At(b, p, "}")
           /\ KeyName(b, p) = e.key /\ KeyEnd(b, p) = e.from /\ KeyEnd(b, p) # Fail
  <1> DEFINE l == Len(b)
             r == p + 2
             colon == p + 3
  <1>1. /\ e.from \in 6 .. l
        /\ b[e.from - 4] = Quote /\ b[e.from - 3] = e.key /\ b[e.from - 2] = Quote /\ b[e.from - 1] = ":"
    BY DEF HeadAt
  <1>2. l \in Nat /\ DOMAIN b = 1 .. l
    BY DEF IsText
  <1>3. e.from \in 6 .. l
    BY <1>1
  <1> HIDE DEF l
  <1>4. /\ e.from \in Nat /\ p \in Nat \ {0} /\ p + 4 = e.from /\ p + 4 <= l
        /\ e.from - 4 = p /\ e.from - 3 = p + 1 /\ e.from - 2 = r /\ e.from - 1 = colon
    BY ONLY <1>2, <1>3, p = e.from - 4
  <1>5. b[p] = Quote /\ b[p + 1] = e.key /\ b[r] = Quote /\ b[colon] = ":"
    BY <1>1, <1>4
  <1>6. p \in 1 .. l /\ r \in 1 .. l /\ colon \in 1 .. l /\ p + 1 \in Nat /\ ~(p + 1 > l) /\ ~(r > l)
        /\ r \in Nat /\ colon \in Nat \ {0} /\ (p + 1) + 1 = r /\ r + 1 = colon /\ colon + 1 = e.from
    BY ONLY <1>2, <1>4
  <1>7. p \in DOMAIN b /\ r \in DOMAIN b /\ colon \in DOMAIN b
    BY <1>2, <1>6
  <1>8. SkipWs(b, p) = p /\ ~At(b, p, "}") /\ At(b, p, Quote) /\ At(b, p + 2, Quote)
    BY <1>4, <1>5, <1>7, NoSpace, NoSpaces DEF At
  <1>9. KeyName(b, p) = e.key
    BY <1>5, <1>8 DEF KeyName
  <1>10. StringEnd(b, p + 1) = StringEnd(b, r)
    BY <1>5, <1>6, StringEndStep, ZenonT(60) DEF l
  <1>11. StringEnd(b, r) = colon
    BY <1>5, <1>6, StringEndStep DEF l
  <1>12. SkipString(b, p) = colon
    BY <1>8, <1>10, <1>11 DEF SkipString
  <1>13. SkipWs(b, colon) = colon /\ At(b, colon, ":")
    BY <1>5, <1>6, <1>7, NoSpace, NoSpaces DEF At
  <1> HIDE DEF colon, r
  <1>14. KeyEnd(b, p) = e.from
    BY <1>6, <1>12, <1>13 DEF KeyEnd, Fail
  <1>15. e.from # Fail
    BY <1>4 DEF Fail
  <1> QED
    BY <1>4, <1>8, <1>9, <1>14, <1>15

LEMMA EndPlace ==
    ASSUME NEW b, NEW L, NEW l, WrittenOut(b, L, l), NEW c \in 0 .. l, IsObject(L, c),
           c # 0 => L[c].to \in Nat /\ L[c].to >= 2
    PROVE  LET p == EndOf(b, L, c)
           IN /\ p \in Nat \ {0} /\ SkipWs(b, p) = p /\ BraceAt(b, p)
              /\ c # 0 => p + 1 = L[c].to
  <1> DEFINE p == EndOf(b, L, c)
  <1>1. BraceAt(b, p) /\ IsText(b) /\ Len(b) \in Nat /\ Len(b) >= 1
    BY DEF WrittenOut, IsText
  <1>2. CASE c = 0
    <2>1. p = Len(b)
      BY <1>2 DEF EndOf
    <2>2. p \in Nat \ {0}
      BY <1>1, <2>1
    <2> QED
      BY <1>1, <1>2, <2>2, BehindBrace
  <1>3. CASE c # 0
    <2>1. p = L[c].to - 1
      BY <1>3 DEF EndOf
    <2>2. L[c].to \in Nat /\ L[c].to >= 2
      BY <1>3
    <2> HIDE DEF p
    <2>3. p \in Nat \ {0} /\ p + 1 = L[c].to
      BY ONLY <2>1, <2>2
    <2>4. SkipWs(b, p) = p /\ BraceAt(b, p)
      BY <1>1, <2>3, BehindBrace
    <2> QED
      BY <2>3, <2>4 DEF p
  <1> QED
    BY <1>2, <1>3

LEMMA BehindFail ==
    ASSUME NEW t
    PROVE  Behind(t)[Fail] = Fail
  BY DEF Behind, Fail

(* After a value that was read: where to go on, and what it makes of the   *)
(* message.                                                                *)
LEMMA AfterRead ==
    ASSUME NEW t, NEW p, NEW old, NEW msg
    PROVE  /\ After(t, p, old, msg).at = Behind(t)[p]
           /\ p # Fail => After(t, p, old, msg).msg = msg
  BY DEF After

(* A number written as such begins with its sign or its first digit.       *)
LEMMA NumeralDigits ==
    ASSUME NEW b, NEW n, NEW first \in Nat, NEW to, NEW d, Numeral(b, n, first, to, d), first >= 1
    PROVE  first < to /\ to \in Nat /\ \A q \in first .. to - 1 : b[q] \in DigitSet
  <1>1. d \in Seq(DigitSet) /\ Len(d) >= 1 /\ to = first + Len(d)
    BY DEF Numeral, Means
  <1>2. Len(d) \in Nat /\ \A j \in 1 .. Len(d) : d[j] \in DigitSet
    BY <1>1
  <1>3. \A j \in 1 .. Len(d) : b[first - 1 + j] = d[j]
    BY DEF Numeral, Spells
  <1>4. first < to /\ to \in Nat
    BY <1>1, <1>2
  <1>5. ASSUME NEW q \in first .. to - 1 PROVE b[q] \in DigitSet
    <2>1. q - first + 1 \in 1 .. Len(d) /\ first - 1 + (q - first + 1) = q
      BY ONLY <1>1, <1>2, first \in Nat, first >= 1, q \in first .. to - 1
    <2>2. b[first - 1 + (q - first + 1)] = d[q - first + 1]
      BY <1>3, <2>1
    <2> QED
      BY <1>2, <2>1, <2>2
  <1> QED
    BY <1>4, <1>5

LEMMA NumberIsInt ==
    ASSUME IsText(buffer), NEW j, ledger[j].op = "number",
           NumberAt(buffer, ledger[j].value, ledger[j].from, ledger[j].to)
    PROVE  IntReadable(j) <=> ledger[j].value \in -IntMax .. IntMax
  <1> DEFINE n == ledger[j].value
             from == ledger[j].from
             to == ledger[j].to
  <1>1. NumberAt(buffer, n, from, to)
    OBVIOUS
  <1>2. n \in Int /\ from \in Nat /\ from >= 1 /\ to <= Len(buffer) + 1 /\ Len(buffer) \in Nat
        /\ DOMAIN buffer = 1 .. Len(buffer)
    BY DEF NumberAt, IsText
  <1> HIDE DEF n, from, to
  <1>3. PICK d : /\ n < 0 => buffer[from] = "-" /\ Numeral(buffer, n, from + 1, to, d)
                 /\ ~(n < 0) => Numeral(buffer, n, from, to, d)
    BY <1>1, NumeralAt
  <1>4. CASE n < 0
    <2>1. from + 1 \in Nat /\ from + 1 >= 1
      BY <1>2
    <2>2. from + 1 < to /\ to \in Nat /\ \A q \in from + 1 .. to - 1 : buffer[q] \in DigitSet
      BY <1>3, <1>4, <2>1, NumeralDigits
    <2>3. from \in 1 .. Len(buffer)
      BY ONLY <1>2, <2>2
    <2>4. At(buffer, from, "-")
      BY <1>2, <1>3, <1>4, <2>3 DEF At
    <2>5. FirstDigit(j) = from + 1
      BY <2>4 DEF FirstDigit, Negative, from
    <2> QED
      BY <2>2, <2>5 DEF IntReadable, IntOf, n, from, to
  <1>5. CASE ~(n < 0)
    <2>1. from < to /\ to \in Nat /\ \A q \in from .. to - 1 : buffer[q] \in DigitSet
      BY <1>2, <1>3, <1>5, NumeralDigits
    <2>2. from \in from .. to - 1
      BY ONLY <1>2, <2>1
    <2>3. ~At(buffer, from, "-")
      BY <2>1, <2>2, NumberBytesApart DEF At
    <2>4. FirstDigit(j) = from
      BY <2>3 DEF FirstDigit, Negative, from
    <2> QED
      BY <2>1, <2>4 DEF IntReadable, IntOf, n, from, to
  <1> QED
    BY <1>4, <1>5

(* The int of a member: whether it is read, and as what.                   *)
LEMMA IntIsReadable ==
    ASSUME IsText(buffer), NumbersAreTrue, NEW j \in DOMAIN ledger, ValueAt(buffer, ledger[j]),
           Ended(buffer, ledger[j].to)
    PROVE  /\ IntReadable(j) => ParseInt(buffer, ledger[j].from) = [end |-> ledger[j].to, num |-> IntOf(j)]
           /\ ~IntReadable(j) => Behind(buffer)[ParseInt(buffer, ledger[j].from).end] = Fail
  <1> DEFINE e == ledger[j]
             int == ParseInt(buffer, e.from)
             none == [end |-> Fail, num |-> 0]
  <1>0. none.end = Fail
    OBVIOUS
  <1>1. CASE e.op = "number"
    <2>1. NumberAt(buffer, e.value, e.from, e.to)
      BY <1>1 DEF NumbersAreTrue
    <2>2. IntReadable(j) <=> e.value \in -IntMax .. IntMax
      BY <1>1, <2>1, NumberIsInt
    <2>3. int = IF e.value \in -IntMax .. IntMax THEN [end |-> e.to, num |-> e.value] ELSE none
      BY <2>1, NumberIsRead
    <2>4. IntOf(j) = e.value
      BY <1>1 DEF IntOf
    <2> HIDE DEF int, none, e
    <2>5. ~IntReadable(j) => int.end = Fail
      BY <1>0, <2>2, <2>3
    <2> QED
      BY <2>2, <2>3, <2>4, <2>5, BehindFail DEF int, e
  <1>2. CASE e.op # "number"
    <2> DEFINE m == Magnitude(buffer, e)
    <2>1. DigitsStart(buffer, e) = FirstDigit(j)
      BY DEF DigitsStart, FirstDigit, Negative
    <2>2. IntOf(j) = IF At(buffer, e.from, "-") THEN -m ELSE m
      BY <1>2, <2>1 DEF IntOf, Negative, Magnitude
    <2>3. IntReadable(j) <=> AllDigits(buffer, e) /\ IntOf(j) \in -IntMax .. IntMax
      BY <2>1 DEF IntReadable, AllDigits
    <2>4. /\ AllDigits(buffer, e) =>
               m \in Nat /\ int = IF m > IntMax THEN none
                                  ELSE [end |-> e.to, num |-> IF At(buffer, e.from, "-") THEN -m ELSE m]
          /\ ~AllDigits(buffer, e) => Behind(buffer)[int.end] = Fail
      BY IntIsParsed
    <2> HIDE DEF m, int, none, e
    <2>5. ASSUME AllDigits(buffer, e)
          PROVE  IntOf(j) \in -IntMax .. IntMax <=> ~(m > IntMax)
      <3>1. m \in Nat /\ IntMax \in Nat
        BY <2>4, <2>5, ReaderLimits
      <3>2. IntOf(j) = -m \/ IntOf(j) = m
        BY <2>2
      <3> QED
        BY ONLY <3>1, <3>2
    <2>6. CASE ~AllDigits(buffer, e)
      BY <2>3, <2>4, <2>6 DEF int, e
    <2>7. CASE AllDigits(buffer, e) /\ m > IntMax
      <3>1. int.end = Fail
        BY <1>0, <2>4, <2>7
      <3> QED
        BY <2>3, <2>5, <2>7, <3>1, BehindFail DEF int, e
    <2>8. CASE AllDigits(buffer, e) /\ ~(m > IntMax)
      <3>1. int = [end |-> e.to, num |-> IntOf(j)]
        BY <2>2, <2>4, <2>8
      <3> QED
        BY <2>3, <2>5, <2>8, <3>1 DEF int, e
    <2> QED
      BY <2>6, <2>7, <2>8
  <1> QED
    BY <1>1, <1>2

-----------------------------------------------------------------------------
(* The error object, member by member, if the ledger knows its members.    *)

(* What holds of all that is read of an error object, member by member,    *)
(* holds of what comes of it.                                              *)
LEMMA ErrorMembersInduction ==
    ASSUME NEW t, IsText(t), NEW start \in Progress, NEW Read, NEW Result, start \in Read,
           \A s \in Progress : s \in Read =>
             IF s.at # Fail /\ At(t, SkipWs(t, s.at), "}")
             THEN After(t, SkipWs(t, s.at) + 1, s.msg, TakeError(s.msg)) \in Result
             ELSE IF s.at # Fail /\ KeyEnd(t, SkipWs(t, s.at)) # Fail THEN NextErrorMember(t, s) \in Read
             ELSE \A r \in Progress : r.at = Fail => r \in Result
    PROVE  ErrorMembers(t, start.at, start.msg) \in Result
  <1> DEFINE read(s) == ErrorMembers(t, s.at, s.msg)
             good(s) == s \in Read => read(s) \in Result
             P == {s \in Progress : good(s)}
             left == ObjectLeft(t)
  <1>1. ASSUME NEW s \in Progress, \A r \in Progress : left[r] < left[s] => r \in P
        PROVE  good(s)
    <2> SUFFICES ASSUME s \in Read PROVE read(s) \in Result
      OBVIOUS
    <2> DEFINE q == SkipWs(t, s.at)
               next == NextErrorMember(t, s)
               none == [at |-> Fail, msg |-> s.msg]
    <2>1. s.at \in Nat /\ s.msg \in Messages
      BY DEF Progress
    <2>2. CASE s.at = Fail
      <3>1. read(s) = s
        BY <2>2, ErrorMembersStep
      <3>2. \A r \in Progress : r.at = Fail => r \in Result
        BY <2>2
      <3> QED
        BY <2>2, <3>1, <3>2
    <2>3. CASE s.at # Fail /\ At(t, q, "}")
      <3>1. read(s) = After(t, q + 1, s.msg, TakeError(s.msg))
        BY <2>3, ErrorMembersStep
      <3> QED
        BY <2>3, <3>1
    <2>4. CASE s.at # Fail /\ ~At(t, q, "}") /\ KeyEnd(t, q) = Fail
      <3>1. read(s) = none
        BY <2>4, ErrorMembersStep
      <3>2. \A r \in Progress : r.at = Fail => r \in Result
        BY <2>4
      <3>3. none \in Progress /\ none.at = Fail
        BY <2>1 DEF Progress, Fail
      <3> QED
        BY <3>1, <3>2, <3>3
    <2>5. CASE s.at # Fail /\ ~At(t, q, "}") /\ KeyEnd(t, q) # Fail
      <3>1. read(s) = read(next)
        BY <2>5, ErrorMembersStep
      <3>2. next \in Read
        BY <2>5
      <3>3. Advances(t, KeyEnd(t, q), next)
        BY <2>5, NextErrorMemberBounds
      <3>4. Advances(t, s.at, next) /\ left[next] < left[s]
        BY <2>5, <3>3, MemberRead
      <3>5. next \in P
        BY <1>1, <3>4 DEF Advances
      <3> QED
        BY <3>1, <3>2, <3>5
    <2> QED
      BY <2>2, <2>3, <2>4, <2>5
  <1>2. left \in [Progress -> Nat]
    BY ObjectLeftType
  <1>3. \A s \in Progress : (\A r \in Progress : left[r] < left[s] => r \in P) => s \in P
    BY <1>1
  <1> HIDE DEF P, left, good
  <1>4. Progress \subseteq P
    BY ONLY <1>2, <1>3, MeasureInduction
  <1> QED
    BY <1>4 DEF P, good

(* The greatest of some of the members, 0 if there is none.                *)
Latest(S) == Max({0} \cup S)

LEMMA LatestIs ==
    ASSUME NEW l \in Nat, NEW S, S \subseteq 1 .. l
    PROVE  /\ S = {} => Latest(S) = 0
           /\ S # {} => Latest(S) \in S
           /\ \A x \in S : x <= Latest(S)
           /\ Latest(S) \in 0 .. l
           /\ \A n \in S : (\A x \in S : x <= n) => Latest(S) = n
  <1> DEFINE Z == {0} \cup S
             m == Max(Z)
  <1>1. Z \subseteq Nat /\ Z # {} /\ \A x \in Z : x <= l
    OBVIOUS
  <1>2. m \in Z /\ \A x \in Z : x <= m
    <2> HIDE DEF Z
    <2> QED
      BY <1>1, MaxIsGreatest
  <1>3. Latest(S) = m
    BY DEF Latest
  <1> HIDE DEF m
  <1>4. m \in 0 .. l
    BY <1>2
  <1>5. ASSUME NEW n \in S, \A x \in S : x <= n PROVE m = n
    <2>1. n \in Nat /\ n >= 1 /\ n <= m
      BY <1>2
    <2>2. m \in S
      BY <1>2, <2>1
    <2> QED
      BY <1>4, <1>5, <2>1, <2>2
  <1>6. ASSUME NEW x \in S PROVE m \in S
    <2>1. x >= 1 /\ x <= m
      BY <1>2
    <2> QED
      BY <1>2, <2>1
  <1> QED
    BY <1>2, <1>3, <1>4, <1>5, <1>6

(* The members of c with a name before k, and all of them.                 *)
Named(L, c, key, k) == {j \in DOMAIN L : L[j].parent = c /\ L[j].key = key /\ j < k}

LEMMA NamedOnes ==
    ASSUME NEW L, NEW l, Parents(L, l), NEW c, NEW key, NEW i, NEW k, ComesNext(L, l, c, i, k)
    PROVE  /\ i = c => Named(L, c, key, k) = {}
           /\ i \in 1 .. l /\ L[i].parent = c =>
                /\ L[i].key = key => Named(L, c, key, k) = Named(L, c, key, i) \cup {i}
                /\ L[i].key # key => Named(L, c, key, k) = Named(L, c, key, i)
  BY DEF Parents, ComesNext, Named

LEMMA LatestNext ==
    ASSUME NEW L, NEW l, Parents(L, l), NEW c, NEW key, NEW i \in 1 .. l, L[i].parent = c,
           NEW k, ComesNext(L, l, c, i, k)
    PROVE  Latest(Named(L, c, key, k)) = IF L[i].key = key THEN i ELSE Latest(Named(L, c, key, i))
  <1>1. DOMAIN L = 1 .. l /\ l \in Nat
    BY DEF Parents
  <1>2. CASE L[i].key = key
    <2>1. Named(L, c, key, k) = Named(L, c, key, i) \cup {i}
      BY <1>2, NamedOnes
    <2>2. Named(L, c, key, k) \subseteq 1 .. l /\ i \in Named(L, c, key, k)
          /\ \A x \in Named(L, c, key, k) : x <= i
      <3>1. \A x \in Named(L, c, key, i) : x \in 1 .. l /\ x < i
        BY <1>1 DEF Named
      <3> HIDE DEF Named
      <3> QED
        BY <1>1, <2>1, <3>1
    <2> QED
      BY <1>1, <1>2, <2>2, LatestIs
  <1>3. CASE L[i].key # key
    BY <1>3, NamedOnes
  <1> QED
    BY <1>2, <1>3

(* What reading the error object leaves as it is in the message.           *)
SameBut(m, msg) ==
    /\ m.method = msg.method /\ m.id = msg.id /\ m.params = msg.params /\ m.result = msg.result
    /\ m.request = msg.request /\ m.response = msg.response /\ m.error = msg.error

CodeKey == "code"
MessageKey == "message"

LEMMA KeysDiffer == CodeKey # MessageKey
  BY DEF CodeKey, MessageKey

LEMMA ErrorFieldsChange ==
    ASSUME NEW msg \in Messages, NEW code, NEW span
    PROVE  /\ SameBut([msg EXCEPT !.code = code], msg)
           /\ [msg EXCEPT !.code = code].code = code /\ [msg EXCEPT !.code = code].message = msg.message
           /\ SameBut([msg EXCEPT !.message = span], msg)
           /\ [msg EXCEPT !.message = span].message = span /\ [msg EXCEPT !.message = span].code = msg.code
           /\ SameBut(msg, msg)
  BY DEF Messages, SameBut

(* One member j of the error object.                                       *)
ErrorStep(j, m, msg) ==
    /\ SameBut(m, msg)
    /\ m.code = IF ledger[j].key = CodeKey THEN IntOf(j) ELSE msg.code
    /\ m.message = IF ledger[j].key = MessageKey THEN Content(j) ELSE msg.message

LEMMA ErrorMemberIsRead ==
    ASSUME IsText(buffer), NumbersAreTrue, NEW j \in DOMAIN ledger, ValueAt(buffer, ledger[j]),
           Ended(buffer, ledger[j].to), NEW msg \in Messages,
           NEW r, r = ReadErrorMember(buffer, ledger[j].from, ledger[j].key, msg)
    PROVE  /\ r.at = IF InErrorReadable(j) THEN Behind(buffer)[ledger[j].to] ELSE Fail
           /\ InErrorReadable(j) => ErrorStep(j, r.msg, msg)
  <1> DEFINE from == ledger[j].from
             to == ledger[j].to
             key == ledger[j].key
             behind == Behind(buffer)
  <1>0. behind[Fail] = Fail
    BY BehindFail
  <1>4. to # Fail
    BY DEF ValueAt, Stretch, Fail
  <1>1. CASE key = CodeKey
    <2> DEFINE int == ParseInt(buffer, from)
               new == [msg EXCEPT !.code = int.num]
    <2>1. r = After(buffer, int.end, msg, new)
      BY <1>1 DEF ReadErrorMember, CodeKey
    <2>2. r.at = behind[int.end] /\ (int.end # Fail => r.msg = new)
      BY <2>1, AfterRead
    <2>3. InErrorReadable(j) <=> IntReadable(j)
      BY <1>1 DEF InErrorReadable, CodeKey
    <2>4. /\ IntReadable(j) => int = [end |-> to, num |-> IntOf(j)]
          /\ ~IntReadable(j) => behind[int.end] = Fail
      BY IntIsReadable
    <2>5. SameBut(new, msg) /\ new.code = int.num /\ new.message = msg.message
      BY ErrorFieldsChange, ZenonT(60)
    <2>6. key # MessageKey
      BY <1>1, KeysDiffer
    <2> HIDE DEF int, new, behind
    <2>7. IntReadable(j) => int.end = to /\ int.num = IntOf(j)
      BY <2>4
    <2>8. r.at = IF InErrorReadable(j) THEN behind[to] ELSE Fail
      BY <2>2, <2>3, <2>4, <2>7
    <2>9. InErrorReadable(j) => ErrorStep(j, r.msg, msg)
      BY <1>1, <1>4, <2>2, <2>3, <2>5, <2>6, <2>7 DEF ErrorStep
    <2> QED
      BY <2>8, <2>9 DEF behind
  <1>2. CASE key = MessageKey
    <2> DEFINE string == ParseString(buffer, from)
               new == [msg EXCEPT !.message = string.span]
    <2>0. key # CodeKey
      BY <1>2, KeysDiffer
    <2>1. r = After(buffer, string.end, msg, new)
      BY <1>2, <2>0 DEF ReadErrorMember, CodeKey, MessageKey
    <2>2. r.at = behind[string.end] /\ (string.end # Fail => r.msg = new)
      BY <2>1, AfterRead
    <2>3. InErrorReadable(j) <=> At(buffer, from, Quote)
      BY <1>2, <2>0 DEF InErrorReadable, CodeKey, MessageKey, StringReadable
    <2>4. /\ At(buffer, from, Quote) => string = [end |-> to, span |-> <<from + 1, to - 1>>]
          /\ ~At(buffer, from, Quote) => string = [end |-> Fail, span |-> NoSpan]
      BY StringIsParsed
    <2>5. SameBut(new, msg) /\ new.message = string.span /\ new.code = msg.code
      BY ErrorFieldsChange, ZenonT(60)
    <2>6. Content(j) = <<from + 1, to - 1>>
      BY DEF Content
    <2> HIDE DEF string, new, behind
    <2>7. /\ At(buffer, from, Quote) => string.end = to /\ string.span = Content(j)
          /\ ~At(buffer, from, Quote) => string.end = Fail
      BY <2>4, <2>6
    <2>8. r.at = IF InErrorReadable(j) THEN behind[to] ELSE Fail
      BY <1>0, <2>2, <2>3, <2>7
    <2>9. InErrorReadable(j) => ErrorStep(j, r.msg, msg)
      BY <1>2, <1>4, <2>0, <2>2, <2>3, <2>5, <2>7 DEF ErrorStep
    <2> QED
      BY <2>8, <2>9 DEF behind
  <1>3. CASE key # CodeKey /\ key # MessageKey
    <2> DEFINE any == SkipValue(buffer, from)
    <2>1. r = After(buffer, any, msg, msg)
      BY <1>3 DEF ReadErrorMember, CodeKey, MessageKey
    <2>2. r.at = behind[any] /\ r.msg = msg
      BY <2>1 DEF After
    <2>3. InErrorReadable(j) <=> AnyValueReadable(j)
      BY <1>3 DEF InErrorReadable, CodeKey, MessageKey
    <2>4. AnyValueReadable(j) <=> Taken(buffer, ledger[j])
      BY ReadableIsTaken
    <2>5. any = IF Taken(buffer, ledger[j]) THEN to ELSE Fail
      BY ValueIsSkipped
    <2>6. SameBut(msg, msg)
      BY ErrorFieldsChange
    <2> HIDE DEF any, behind
    <2>8. r.at = IF InErrorReadable(j) THEN behind[to] ELSE Fail
      BY <1>0, <2>2, <2>3, <2>4, <2>5
    <2>9. InErrorReadable(j) => ErrorStep(j, r.msg, msg)
      BY <1>3, <2>2, <2>6 DEF ErrorStep
    <2> QED
      BY <2>8, <2>9 DEF behind
  <1> QED
    BY <1>1, <1>2, <1>3

(* The error object i has been read up to its member k.                    *)
InError(i, k, m, msg) ==
    LET code == Latest(Named(ledger, i, CodeKey, k))
        message == Latest(Named(ledger, i, MessageKey, k))
    IN /\ \A j \in Children(i) : j < k => InErrorReadable(j)
       /\ SameBut(m, msg)
       /\ m.code = IF code = 0 THEN msg.code ELSE IntOf(code)
       /\ m.message = IF message = 0 THEN msg.message ELSE Content(message)

LEMMA SameTwice ==
    ASSUME NEW a, NEW b, NEW c, SameBut(a, b), SameBut(b, c)
    PROVE  SameBut(a, c)
  BY DEF SameBut

LEMMA InErrorFirst ==
    ASSUME NEW l, Parents(ledger, l), NEW i, NEW k, ComesNext(ledger, l, i, i, k), NEW msg \in Messages
    PROVE  InError(i, k, msg, msg)
  <1>1. \A key : Named(ledger, i, key, k) = {}
    BY NamedOnes
  <1>2. \A key : Latest(Named(ledger, i, key, k)) = 0
    <2>1. l \in Nat /\ {} \subseteq 1 .. l
      BY DEF Parents
    <2> QED
      BY <1>1, <2>1, LatestIs
  <1>3. \A j \in Children(i) : ~(j < k)
    BY DEF Children, ComesNext, Parents
  <1>4. SameBut(msg, msg)
    BY DEF SameBut
  <1> QED
    BY <1>2, <1>3, <1>4 DEF InError

LEMMA InErrorNext ==
    ASSUME NEW l, Parents(ledger, l), NEW i, NEW j \in 1 .. l, ledger[j].parent = i,
           NEW k, ComesNext(ledger, l, i, j, k),
           NEW msg, NEW m, InError(i, j, m, msg), InErrorReadable(j), NEW n, ErrorStep(j, n, m)
    PROVE  InError(i, k, n, msg)
  <1> DEFINE last(key, to) == Latest(Named(ledger, i, key, to))
  <1>1. \A key : last(key, k) = IF ledger[j].key = key THEN j ELSE last(key, j)
    BY LatestNext
  <1>2. \A h \in Children(i) : h < k => h < j \/ h = j
    BY DEF Children, ComesNext, Parents
  <1>3. j # 0
    OBVIOUS
  <1>4. /\ \A h \in Children(i) : h < j => InErrorReadable(h)
        /\ SameBut(m, msg)
        /\ m.code = IF last(CodeKey, j) = 0 THEN msg.code ELSE IntOf(last(CodeKey, j))
        /\ m.message = IF last(MessageKey, j) = 0 THEN msg.message ELSE Content(last(MessageKey, j))
    BY DEF InError
  <1> HIDE DEF last
  <1>5. \A h \in Children(i) : h < k => InErrorReadable(h)
    BY <1>2, <1>4
  <1>6. SameBut(n, msg)
    BY <1>4, SameTwice DEF ErrorStep
  <1>7. n.code = IF last(CodeKey, k) = 0 THEN msg.code ELSE IntOf(last(CodeKey, k))
    BY <1>1, <1>3, <1>4 DEF ErrorStep
  <1>8. n.message = IF last(MessageKey, k) = 0 THEN msg.message ELSE Content(last(MessageKey, k))
    BY <1>1, <1>3, <1>4 DEF ErrorStep
  <1> QED
    BY <1>5, <1>6, <1>7, <1>8 DEF InError, last

ErrorReadable(i) == \A j \in Children(i) : InErrorReadable(j)

LEMMA ErrorIsRead ==
    ASSUME NEW l, WrittenOut(buffer, ledger, l), NumbersAreTrue, NEW i \in 1 .. l, IsObject(ledger, i),
           ledger[i].parent = 0, NEW msg \in Messages,
           NEW r, r = ErrorMembers(buffer, ledger[i].from + 1, msg)
    PROVE  \/ r.at = Fail /\ ~ErrorReadable(i)
           \/ /\ r.at = Behind(buffer)[ledger[i].to] /\ ErrorReadable(i)
              /\ \E m \in Messages : InError(i, l + 1, m, msg) /\ r.msg = TakeError(m)
  <1> DEFINE place(k) == Place(buffer, ledger, i, k)
             end == EndOf(buffer, ledger, i)
             from == ledger[i].from
             to == ledger[i].to
             reading(k, s) ==
               /\ k \in 1 .. l + 1 /\ (k \in 1 .. l => ledger[k].parent = i)
               /\ s.at = place(k) /\ InError(i, k, s.msg, msg)
             failed(s) == s.at = Fail /\ ~ErrorReadable(i)
             Read == {s \in Progress : failed(s) \/ \E k : reading(k, s)}
             closed(s) == After(buffer, SkipWs(buffer, s.at) + 1, s.msg, TakeError(s.msg))
             done(s) == /\ s.at = Behind(buffer)[to] /\ ErrorReadable(i)
                        /\ \E m \in Messages : InError(i, l + 1, m, msg) /\ s.msg = TakeError(m)
             Result == {s \in Progress : failed(s) \/ done(s)}
             start == [at |-> from + 1, msg |-> msg]
  <1>1. IsText(buffer) /\ Parents(ledger, l) /\ DOMAIN ledger = 1 .. l /\ l \in Nat
    BY DEF WrittenOut, Parents
  <1>2. IsObject(ledger, 0) /\ i \in 0 .. l /\ i # 0
    BY <1>1 DEF IsObject
  <1>3. from \in Nat /\ to \in Nat /\ to >= 2 /\ Inner(ledger, i) = from + 1
    <2>1. from \in 6 .. Len(buffer) /\ to \in Nat /\ from < to
      BY <1>2, ChildIsMember
    <2>2. Inner(ledger, i) = from + 1
      BY <1>2 DEF Inner
    <2> HIDE DEF from, to
    <2>3. from \in Nat /\ to \in Nat /\ to >= 2
      BY ONLY <2>1
    <2> QED
      BY <2>2, <2>3
  <1>4. end \in Nat \ {0} /\ SkipWs(buffer, end) = end /\ At(buffer, end, "}") /\ end + 1 = to
    <2>1. i # 0 => ledger[i].to \in Nat /\ ledger[i].to >= 2
      BY <1>3
    <2>2. i # 0
      BY <1>2
    <2> HIDE DEF from, to
    <2>3. LET p == EndOf(buffer, ledger, i)
          IN /\ p \in Nat \ {0} /\ SkipWs(buffer, p) = p /\ BraceAt(buffer, p)
             /\ i # 0 => p + 1 = ledger[i].to
      BY ONLY WrittenOut(buffer, ledger, l), <1>2, IsObject(ledger, i), <2>1, EndPlace
    <2> QED
      BY <2>2, <2>3 DEF end, to, BraceAt
  <1>5. l + 1 \notin 1 .. l /\ place(l + 1) = end /\ l + 1 \in 1 .. l + 1
    BY <1>1 DEF Place
  <1>6. \A j : j \in Children(i) <=> j \in 1 .. l /\ ledger[j].parent = i
    BY <1>1 DEF Children
  <1>7. start \in Read
    <2>1. PICK k : ComesNext(ledger, l, i, i, k) /\ place(k) = from + 1
      BY <1>2, <1>3, FirstPlace
    <2>2. InError(i, k, msg, msg)
      BY <1>1, <2>1, InErrorFirst
    <2>3. start \in Progress
      BY <1>3 DEF Progress
    <2> QED
      BY <2>1, <2>2, <2>3 DEF ComesNext
  <1>8. ASSUME NEW s \in Progress, NEW k, reading(k, s), k \notin 1 .. l
        PROVE  /\ s.at # Fail /\ At(buffer, SkipWs(buffer, s.at), "}")
               /\ closed(s) \in Result
    <2>1. k = l + 1
      BY <1>1, <1>8
    <2>2. s.at = end /\ SkipWs(buffer, s.at) = end /\ SkipWs(buffer, s.at) + 1 = to
      BY <1>4, <1>5, <1>8, <2>1
    <2>9. closed(s) = After(buffer, to, s.msg, TakeError(s.msg))
      BY <2>2
    <2>10. to # Fail
      BY <1>3 DEF Fail
    <2>3. closed(s).at = Behind(buffer)[to] /\ closed(s).msg = TakeError(s.msg)
      BY <2>9, <2>10, AfterRead
    <2>4. ErrorReadable(i)
      <3>1. \A j \in Children(i) : j < l + 1
        BY <1>1, <1>6
      <3> QED
        BY <1>8, <2>1, <3>1 DEF InError, ErrorReadable
    <2>5. done(closed(s))
      <3>1. s.msg \in Messages /\ InError(i, l + 1, s.msg, msg)
        BY <1>8, <2>1 DEF Progress
      <3> HIDE DEF closed
      <3> QED
        BY <2>3, <2>4, <3>1
    <2>6. s.at # Fail /\ At(buffer, SkipWs(buffer, s.at), "}")
      BY <1>4, <2>2 DEF Fail
    <2>7. s.msg \in Messages
      BY DEF Progress
    <2>8. closed(s) \in Progress
      <3>1. to \in Nat /\ to <= Len(buffer) + 1
        BY <1>2, ChildIsMember
      <3> QED
        BY <1>1, <2>7, <2>9, <3>1, AfterBounds, TakeErrorType
    <2> HIDE DEF closed
    <2> QED
      BY <2>5, <2>6, <2>8
  <1>9. ASSUME NEW s \in Progress, NEW k \in 1 .. l, reading(k, s)
        PROVE  /\ s.at # Fail /\ ~At(buffer, SkipWs(buffer, s.at), "}")
               /\ KeyEnd(buffer, SkipWs(buffer, s.at)) # Fail
               /\ NextErrorMember(buffer, s) \in Read
    <2> DEFINE p == s.at
               next == NextErrorMember(buffer, s)
    <2>1. ledger[k].parent = i /\ p = ledger[k].from - 4 /\ k \in DOMAIN ledger
      BY <1>1, <1>9 DEF Place
    <2>2. /\ ValueAt(buffer, ledger[k]) /\ HeadAt(buffer, ledger[k])
          /\ ledger[k].key \notin {Quote, Backslash}
      BY <2>1, ChildIsMember
    <2>3. /\ p \in Nat \ {0} /\ SkipWs(buffer, p) = p /\ ~At(buffer, p, "}")
          /\ KeyName(buffer, p) = ledger[k].key /\ KeyEnd(buffer, p) = ledger[k].from
          /\ KeyEnd(buffer, p) # Fail
      BY <1>1, <2>1, <2>2, MemberAt
    <2>4. next = ReadErrorMember(buffer, ledger[k].from, ledger[k].key, s.msg)
      BY <2>3 DEF NextErrorMember
    <2>5. PICK n : ComesNext(ledger, l, i, k, n) /\ Behind(buffer)[ledger[k].to] = place(n)
      BY <1>2, <2>1, NextPlace
    <2>6. Ended(buffer, ledger[k].to)
      BY <1>2, <2>1, NextPlace
    <2>7. s.msg \in Messages
      BY DEF Progress
    <2>8. /\ next.at = IF InErrorReadable(k) THEN place(n) ELSE Fail
          /\ InErrorReadable(k) => ErrorStep(k, next.msg, s.msg)
      BY <1>1, <2>1, <2>2, <2>4, <2>5, <2>6, <2>7, ErrorMemberIsRead
    <2>9. next \in Progress
      BY <1>1, <2>3, NextErrorMemberBounds DEF Advances
    <2>10. CASE ~InErrorReadable(k)
      <3>1. k \in Children(i)
        BY <1>6, <2>1
      <3>2. failed(next)
        BY <2>8, <2>10, <3>1 DEF ErrorReadable
      <3> QED
        BY <2>3, <2>9, <3>2 DEF Fail
    <2>11. CASE InErrorReadable(k)
      <3>1. InError(i, n, next.msg, msg)
        BY <1>1, <1>9, <2>1, <2>5, <2>8, <2>11, InErrorNext
      <3>2. reading(n, next)
        BY <2>5, <2>8, <2>11, <3>1 DEF ComesNext
      <3> QED
        BY <2>3, <2>9, <3>2 DEF Fail
    <2> QED
      BY <2>10, <2>11
  <1>10. \A s : failed(s) => s.at = Fail /\ \A u \in Progress : u.at = Fail => u \in Result
    OBVIOUS
  <1>11. start \in Progress /\ start.at = from + 1 /\ start.msg = msg
    BY <1>7
  <1>12. \A s \in Progress : s \in Read => failed(s) \/ \E k : reading(k, s)
    OBVIOUS
  <1>13. \A s \in Result : failed(s) \/ done(s)
    OBVIOUS
  <1> HIDE DEF reading, failed, Read, done, Result, start, closed
  <1>14. \A s \in Progress : s \in Read =>
           IF s.at # Fail /\ At(buffer, SkipWs(buffer, s.at), "}")
           THEN closed(s) \in Result
           ELSE IF s.at # Fail /\ KeyEnd(buffer, SkipWs(buffer, s.at)) # Fail
           THEN NextErrorMember(buffer, s) \in Read
           ELSE \A u \in Progress : u.at = Fail => u \in Result
    <2> TAKE s \in Progress
    <2> HAVE s \in Read
    <2>1. CASE failed(s)
      BY <1>10, <2>1
    <2>2. ASSUME NEW k, reading(k, s), k \in 1 .. l
          PROVE  /\ s.at # Fail /\ ~At(buffer, SkipWs(buffer, s.at), "}")
                 /\ KeyEnd(buffer, SkipWs(buffer, s.at)) # Fail
                 /\ NextErrorMember(buffer, s) \in Read
      BY <1>9, <2>2
    <2>3. ASSUME NEW k, reading(k, s), k \notin 1 .. l
          PROVE  /\ s.at # Fail /\ At(buffer, SkipWs(buffer, s.at), "}")
                 /\ closed(s) \in Result
      BY <1>8, <2>3
    <2>4. CASE ~failed(s)
      <3>1. PICK k : reading(k, s)
        BY <1>12, <2>4
      <3>2. CASE k \in 1 .. l
        BY <2>2, <3>1, <3>2
      <3>3. CASE k \notin 1 .. l
        BY <2>3, <3>1, <3>3
      <3> QED
        BY <3>2, <3>3
    <2> QED
      BY <2>1, <2>4
  <1>15. ErrorMembers(buffer, start.at, start.msg) \in Result
    BY <1>1, <1>7, <1>11, <1>14, ErrorMembersInduction DEF closed
  <1>16. r \in Result
    BY <1>11, <1>15
  <1> QED
    BY <1>13, <1>16 DEF failed, done

-----------------------------------------------------------------------------
(* A member of the message.                                                *)

MethodKey == "method"
IdKey == "id"
ParamsKey == "params"
ResultKey == "result"
ErrorKey == "error"

TakeMethod(msg, span) == [msg EXCEPT !.method = span, !.request = TRUE]
TakeId(msg, id) == [msg EXCEPT !.id = <<id>>]
TakeParams(msg, from, to) == [msg EXCEPT !.params = <<from, to>>]
TakeResult(msg, from, to) == [msg EXCEPT !.result = <<from, to>>, !.response = TRUE]
Answered(msg) == [msg EXCEPT !.response = TRUE]
FailedAt(msg) == [at |-> Fail, msg |-> msg]
Opens(t, p) == At(t, p, "{")

LEMMA TopKeysDiffer ==
    /\ MethodKey \notin {IdKey, ParamsKey, ResultKey, ErrorKey}
    /\ IdKey \notin {ParamsKey, ResultKey, ErrorKey}
    /\ ParamsKey \notin {ResultKey, ErrorKey} /\ ResultKey # ErrorKey
  BY DEF MethodKey, IdKey, ParamsKey, ResultKey, ErrorKey

(* What the members of the error object i make of the code and the message *)
(* that were there before.                                                 *)
LastIn(i, key) == Latest(Named(ledger, i, key, Len(ledger) + 1))

(* One member j of the message.                                            *)
TopStep(j, m, msg) ==
    LET key == ledger[j].key
    IN /\ m.method = IF key = MethodKey THEN Content(j) ELSE msg.method
       /\ m.id = IF key = IdKey THEN <<IntOf(j)>> ELSE msg.id
       /\ m.params = IF key = ParamsKey THEN Span(j) ELSE msg.params
       /\ m.result = IF key = ResultKey THEN Span(j) ELSE msg.result
       /\ m.code = IF key = ErrorKey /\ LastIn(j, CodeKey) # 0 THEN IntOf(LastIn(j, CodeKey)) ELSE msg.code
       /\ m.message = IF key = ErrorKey /\ LastIn(j, MessageKey) # 0
                      THEN Content(LastIn(j, MessageKey)) ELSE msg.message
       /\ m.request = IF key = MethodKey THEN TRUE ELSE msg.request
       /\ m.error = IF key = ErrorKey THEN TRUE ELSE msg.error
       /\ m.response = IF key \in {ErrorKey, ResultKey} THEN TRUE ELSE msg.response

LEMMA TopFieldsChange ==
    ASSUME NEW j, NEW msg \in Messages, NEW key, key = ledger[j].key
    PROVE  /\ key = MethodKey => TopStep(j, TakeMethod(msg, Content(j)), msg)
           /\ key = IdKey => TopStep(j, TakeId(msg, IntOf(j)), msg)
           /\ key = ParamsKey => TopStep(j, TakeParams(msg, ledger[j].from, ledger[j].to), msg)
           /\ key = ResultKey => TopStep(j, TakeResult(msg, ledger[j].from, ledger[j].to), msg)
           /\ key \notin {MethodKey, IdKey, ParamsKey, ResultKey, ErrorKey} => TopStep(j, msg, msg)
  <1>1. CASE key = MethodKey
    BY <1>1, TopKeysDiffer DEF TopStep, Messages, Content, Span, TakeMethod, TakeId, TakeParams, TakeResult
  <1>2. CASE key = IdKey
    BY <1>2, TopKeysDiffer DEF TopStep, Messages, Content, Span, TakeMethod, TakeId, TakeParams, TakeResult
  <1>3. CASE key = ParamsKey
    BY <1>3, TopKeysDiffer DEF TopStep, Messages, Content, Span, TakeMethod, TakeId, TakeParams, TakeResult
  <1>4. CASE key = ResultKey
    BY <1>4, TopKeysDiffer DEF TopStep, Messages, Content, Span, TakeMethod, TakeId, TakeParams, TakeResult
  <1>5. CASE key \notin {MethodKey, IdKey, ParamsKey, ResultKey, ErrorKey}
    BY <1>5 DEF TopStep
  <1> QED
    BY <1>1, <1>2, <1>3, <1>4, <1>5, TopKeysDiffer

LEMMA ErrorChanges ==
    ASSUME NEW j, ledger[j].key = ErrorKey, NEW msg,
           NEW m \in Messages, InError(j, Len(ledger) + 1, m, msg)
    PROVE  TopStep(j, TakeError(m), msg)
  <1> DEFINE new == TakeError(m)
  <1>1. /\ new.method = m.method /\ new.id = m.id /\ new.params = m.params /\ new.result = m.result
        /\ new.code = m.code /\ new.message = m.message /\ new.request = m.request
        /\ new.error = TRUE /\ new.response = TRUE
    BY DEF Messages, TakeError
  <1> HIDE DEF new
  <1>2. SameBut(m, msg)
    BY DEF InError
  <1>3. m.code = IF LastIn(j, CodeKey) = 0 THEN msg.code ELSE IntOf(LastIn(j, CodeKey))
    BY DEF InError, LastIn
  <1>4. m.message = IF LastIn(j, MessageKey) = 0 THEN msg.message ELSE Content(LastIn(j, MessageKey))
    BY DEF InError, LastIn
  <1>5. TopStep(j, new, msg)
    BY <1>1, <1>2, <1>3, <1>4, TopKeysDiffer DEF TopStep, SameBut
  <1> QED
    BY <1>5 DEF new

LEMMA ReadableCases ==
    ASSUME NEW i, NEW key, key = ledger[i].key
    PROVE  /\ key = MethodKey => (Readable(i) <=> StringReadable(i))
           /\ key = IdKey => (Readable(i) <=> IntReadable(i))
           /\ key = ErrorKey => (Readable(i) <=> ledger[i].op = "object" /\ ErrorReadable(i))
           /\ key \notin {MethodKey, IdKey, ErrorKey} => (Readable(i) <=> AnyValueReadable(i))
  BY DEF Readable, MethodKey, IdKey, ErrorKey, ErrorReadable

LEMMA ReadMemberCases ==
    ASSUME NEW t, NEW p, NEW name, NEW msg, NEW r, r = ReadMember(t, p, name, msg)
    PROVE  /\ name = MethodKey =>
                r = After(t, ParseString(t, p).end, msg, TakeMethod(msg, ParseString(t, p).span))
           /\ name = IdKey => r = After(t, ParseInt(t, p).end, msg, TakeId(msg, ParseInt(t, p).num))
           /\ name = ParamsKey =>
                r = After(t, SkipValue(t, p), msg, TakeParams(msg, SkipWs(t, p), SkipValue(t, p)))
           /\ name = ResultKey =>
                r = After(t, SkipValue(t, p), Answered(msg), TakeResult(msg, SkipWs(t, p), SkipValue(t, p)))
           /\ name = ErrorKey =>
                r = IF ~Opens(t, SkipWs(t, p)) THEN FailedAt(msg)
                    ELSE ErrorMembers(t, SkipWs(t, p) + 1, msg)
           /\ name \notin {MethodKey, IdKey, ParamsKey, ResultKey, ErrorKey} =>
                r = After(t, SkipValue(t, p), msg, msg)
  BY DEF ReadMember, Opens, FailedAt, TakeMethod, TakeId, TakeParams, TakeResult, Answered, MethodKey, IdKey, ParamsKey, ResultKey, ErrorKey

(* A member of the message that is no error object.                        *)
LEMMA PlainMemberIsRead ==
    ASSUME IsText(buffer), NumbersAreTrue, NEW j \in DOMAIN ledger, ValueAt(buffer, ledger[j]),
           Ended(buffer, ledger[j].to), NEW msg \in Messages, ledger[j].key # ErrorKey,
           NEW r, r = ReadMember(buffer, ledger[j].from, ledger[j].key, msg)
    PROVE  /\ r.at = IF Readable(j) THEN Behind(buffer)[ledger[j].to] ELSE Fail
           /\ Readable(j) => TopStep(j, r.msg, msg)
  <1> DEFINE from == ledger[j].from
             to == ledger[j].to
             key == ledger[j].key
             behind == Behind(buffer)
             string == ParseString(buffer, from)
             int == ParseInt(buffer, from)
             any == SkipValue(buffer, from)
             quoted == At(buffer, from, Quote)
             is(end, m) == r.at = behind[end] /\ (end # Fail => r.msg = m)
             good == /\ r.at = IF Readable(j) THEN behind[to] ELSE Fail
                     /\ Readable(j) => TopStep(j, r.msg, msg)
  <1>1. behind[Fail] = Fail
    BY BehindFail
  <1>2. \A p, old, m : /\ After(buffer, p, old, m).at = behind[p]
                       /\ p # Fail => After(buffer, p, old, m).msg = m
    BY AfterRead
  <1>23. to # Fail
    BY DEF ValueAt, Stretch, Fail
  <1>3. SkipWs(buffer, from) = from /\ any = IF Taken(buffer, ledger[j]) THEN to ELSE Fail
    BY ValueIsSkipped
  <1>4. AnyValueReadable(j) <=> Taken(buffer, ledger[j])
    BY ReadableIsTaken
  <1>5. /\ IntReadable(j) => int = [end |-> to, num |-> IntOf(j)]
        /\ ~IntReadable(j) => behind[int.end] = Fail
    BY IntIsReadable
  <1>6. /\ quoted => string = [end |-> to, span |-> <<from + 1, to - 1>>]
        /\ ~quoted => string = [end |-> Fail, span |-> NoSpan]
    BY StringIsParsed
  <1>7. Content(j) = <<from + 1, to - 1>> /\ Span(j) = <<from, to>> /\ (StringReadable(j) <=> quoted)
    BY DEF Content, Span, StringReadable
  <1>8. /\ quoted => string.end = to /\ string.span = Content(j)
        /\ ~quoted => string.end = Fail
    BY <1>6, <1>7
  <1>9. IntReadable(j) => int.end = to /\ int.num = IntOf(j)
    BY <1>5
  <1>10. /\ key = MethodKey => is(string.end, TakeMethod(msg, string.span))
         /\ key = IdKey => is(int.end, TakeId(msg, int.num))
         /\ key = ParamsKey => is(any, TakeParams(msg, from, any))
         /\ key = ResultKey => is(any, TakeResult(msg, from, any))
         /\ key \notin {MethodKey, IdKey, ParamsKey, ResultKey, ErrorKey} => is(any, msg)
    <2>1. \A e, old, m : r = After(buffer, e, old, m) => is(e, m)
      BY <1>2
    <2>2. /\ key = MethodKey => r = After(buffer, string.end, msg, TakeMethod(msg, string.span))
          /\ key = IdKey => r = After(buffer, int.end, msg, TakeId(msg, int.num))
          /\ key = ParamsKey => r = After(buffer, any, msg, TakeParams(msg, from, any))
          /\ key = ResultKey => r = After(buffer, any, Answered(msg), TakeResult(msg, from, any))
          /\ key \notin {MethodKey, IdKey, ParamsKey, ResultKey, ErrorKey} => r = After(buffer, any, msg, msg)
      BY <1>3, ReadMemberCases
    <2> HIDE DEF is, key, from, string, int, any
    <2> QED
      BY <2>1, <2>2
  <1>11. /\ key = MethodKey => (Readable(j) <=> StringReadable(j))
         /\ key = IdKey => (Readable(j) <=> IntReadable(j))
         /\ key \notin {MethodKey, IdKey, ErrorKey} => (Readable(j) <=> AnyValueReadable(j))
    BY ReadableCases
  <1>12. /\ key = MethodKey => TopStep(j, TakeMethod(msg, Content(j)), msg)
         /\ key = IdKey => TopStep(j, TakeId(msg, IntOf(j)), msg)
         /\ key = ParamsKey => TopStep(j, TakeParams(msg, from, to), msg)
         /\ key = ResultKey => TopStep(j, TakeResult(msg, from, to), msg)
         /\ key \notin {MethodKey, IdKey, ParamsKey, ResultKey, ErrorKey} => TopStep(j, msg, msg)
    BY TopFieldsChange
  <1>13. key # ErrorKey
    OBVIOUS
  <1>14. Readable(j) /\ key \notin {MethodKey, IdKey} => any = to
    BY <1>3, <1>4, <1>11, <1>13
  <1>15. ~Readable(j) /\ key \notin {MethodKey, IdKey} => any = Fail
    BY <1>3, <1>4, <1>11, <1>13
  <1>22. key = ledger[j].key
    OBVIOUS
  <1> HIDE DEF behind, string, int, any, quoted, key
  <1>16. ASSUME key = MethodKey PROVE good
    BY <1>1, <1>7, <1>8, <1>10, <1>11, <1>12, <1>16, <1>23
  <1>17. ASSUME key = IdKey PROVE good
    BY <1>1, <1>5, <1>9, <1>10, <1>11, <1>12, <1>17, <1>23
  <1>18. ASSUME key = ParamsKey PROVE good
    <2>1. key \notin {MethodKey, IdKey}
      BY <1>18, TopKeysDiffer
    <2> QED
      BY <1>1, <1>7, <1>10, <1>12, <1>14, <1>15, <1>18, <2>1, <1>23
  <1>19. ASSUME key = ResultKey PROVE good
    <2>1. key \notin {MethodKey, IdKey}
      BY <1>19, TopKeysDiffer
    <2> QED
      BY <1>1, <1>7, <1>10, <1>12, <1>14, <1>15, <1>19, <2>1, <1>23
  <1>20. ASSUME key \notin {MethodKey, IdKey, ParamsKey, ResultKey, ErrorKey} PROVE good
    BY <1>1, <1>7, <1>10, <1>12, <1>14, <1>15, <1>20, <1>23
  <1>21. good
    BY <1>13, <1>16, <1>17, <1>18, <1>19, <1>20
  <1> QED
    BY <1>21 DEF behind

(* An error of which the ledger knows the members.                         *)
LEMMA ErrorMemberOfMessageIsRead ==
    ASSUME WrittenOut(buffer, ledger, Len(ledger)), NumbersAreTrue, NEW j \in 1 .. Len(ledger),
           ledger[j].parent = 0, NEW msg \in Messages, ledger[j].key = ErrorKey, ledger[j].op # "raw",
           NEW r, r = ReadMember(buffer, ledger[j].from, ledger[j].key, msg)
    PROVE  \/ r.at = Fail /\ ~Readable(j)
           \/ r.at = Behind(buffer)[ledger[j].to] /\ Readable(j) /\ TopStep(j, r.msg, msg)
  <1> DEFINE l == Len(ledger)
             from == ledger[j].from
             none == FailedAt(msg)
  <1>1. IsObject(ledger, 0) /\ IsText(buffer) /\ DOMAIN ledger = 1 .. l
    BY DEF IsObject, WrittenOut, Parents
  <1>2. ValueAt(buffer, ledger[j]) /\ HeadAt(buffer, ledger[j]) /\ from \in 6 .. Len(buffer)
    BY <1>1, ChildIsMember
  <1>3. Ended(buffer, ledger[j].to)
    <2>1. 0 \in 0 .. l
      BY DEF WrittenOut, Parents
    <2> QED
      BY <1>1, <2>1, NextPlace
  <1>4. SkipWs(buffer, from) = from
    BY <1>1, <1>2, <1>3, ValueIsSkipped
  <1>5. r = IF ~Opens(buffer, from) THEN none ELSE ErrorMembers(buffer, from + 1, msg)
    <2>1. r = IF ~Opens(buffer, SkipWs(buffer, from)) THEN none
              ELSE ErrorMembers(buffer, SkipWs(buffer, from) + 1, msg)
      BY ReadMemberCases
    <2> HIDE DEF none, from
    <2> QED
      BY <1>4, <2>1
  <1>10. none.at = Fail
    BY DEF FailedAt
  <1> HIDE DEF none
  <1>6. Opens(buffer, from) <=> ledger[j].op = "object"
    <2>1. from \in DOMAIN buffer
      BY <1>1, <1>2 DEF IsText
    <2>2. BeginsLike(buffer[from], ledger[j].op)
      BY <1>2 DEF HeadAt
    <2> QED
      BY <2>1, <2>2 DEF BeginsLike, Opens, At
  <1>7. Readable(j) <=> ledger[j].op = "object" /\ ErrorReadable(j)
    BY ReadableCases
  <1>8. CASE ledger[j].op # "object"
    <2>1. r.at = Fail
      BY <1>5, <1>6, <1>8, <1>10
    <2> QED
      BY <1>7, <1>8, <2>1
  <1>9. CASE ledger[j].op = "object"
    <2>1. r = ErrorMembers(buffer, from + 1, msg)
      BY <1>5, <1>6, <1>9
    <2>3. IsObject(ledger, j)
      BY <1>9 DEF IsObject
    <2>4. \/ r.at = Fail /\ ~ErrorReadable(j)
          \/ /\ r.at = Behind(buffer)[ledger[j].to] /\ ErrorReadable(j)
             /\ \E m \in Messages : InError(j, l + 1, m, msg) /\ r.msg = TakeError(m)
      BY <2>1, <2>3, ErrorIsRead
    <2>5. ASSUME NEW m \in Messages, InError(j, l + 1, m, msg), r.msg = TakeError(m)
          PROVE  TopStep(j, r.msg, msg)
      BY <2>5, ErrorChanges
    <2> QED
      BY <1>7, <1>9, <2>4, <2>5
  <1> QED
    BY <1>8, <1>9

-----------------------------------------------------------------------------
(* An error given raw, of which the members are not known: the reader      *)
(* does not get out of it but by its closing brace.                        *)

(* More than w stands open, w among it.                                    *)
Deep(s, w) == s # Broken /\ Len(s.open) > Len(w) /\ \A k \in 1 .. Len(w) : s.open[k] = w[k]

LEMMA DeepStep ==
    ASSUME NEW w \in Stacks, NEW s \in Standings, Deep(s, w), NEW c,
           Opened(s, c) # Broken, Opened(s, c) # Plain(w)
    PROVE  Deep(Opened(s, c), w)
  <1> DEFINE o == s.open
             n == Len(w)
  <1>1. PICK x \in Stacks : s \in {Plain(x), InString(x), InEscape(x)}
    BY DEF Standings, Deep
  <1>2. o = x
    BY <1>1, StandingsDiffer
  <1>3. n \in Nat /\ Len(x) \in Nat /\ Len(x) > n /\ \A k \in 1 .. n : x[k] = w[k]
    BY <1>2 DEF Deep, Stacks
  <1>4. \A y : Deep(Plain(y), w) <=> Len(y) > n /\ \A k \in 1 .. n : y[k] = w[k]
    BY StandingsDiffer DEF Deep
  <1> HIDE DEF o, n
  <1>5. Opened(s, c).open = x => Deep(Opened(s, c), w)
    BY <1>3 DEF Deep, n
  <1>6. CASE s = InString(x) \/ s = InEscape(x)
    <2>1. Opened(s, c) \in {Plain(x), InString(x), InEscape(x)}
      BY <1>6, OpenedBy
    <2> QED
      BY <1>5, <2>1, StandingsDiffer
  <1>7. CASE s = Plain(x)
    <2>1. CASE c = Quote \/ c \notin Structure
      BY <1>5, <1>7, <2>1, OpenedBy, StandingsDiffer
    <2>2. CASE c \in Openers
      <3>1. Opened(s, c) = Plain(Append(x, c))
        BY <1>7, <2>2, OpenedBy
      <3>2. Len(Append(x, c)) > n /\ \A k \in 1 .. n : Append(x, c)[k] = w[k]
        BY <1>3 DEF Stacks
      <3> QED
        BY <1>4, <3>1, <3>2
    <2>3. CASE c \in Closers
      <3>1. Opened(s, c) = Plain(Front(x)) /\ x # <<>>
        BY <1>7, <2>3, OpenedBy
      <3>2. /\ Front(x) \in Seq(Openers) /\ Len(Front(x)) = Len(x) - 1
            /\ \A i \in 1 .. Len(x) - 1 : Front(x)[i] = x[i]
        BY <3>1, FrontIs DEF Stacks
      <3> DEFINE f == Front(x)
      <3>3. f # w
        BY <3>1
      <3> HIDE DEF f
      <3>4. \A k \in 1 .. n : f[k] = w[k]
        BY <1>3, <3>2 DEF f
      <3>5. Len(f) # n
        BY <3>2, <3>3, <3>4 DEF f, n, Stacks
      <3>6. Len(f) > n
        BY <1>3, <3>2, <3>5 DEF f
      <3> QED
        BY <1>4, <3>1, <3>4, <3>6 DEF f
    <2> QED
      BY <2>1, <2>2, <2>3 DEF Structure
  <1> QED
    BY <1>1, <1>6, <1>7

(* A bracket that is opened at q is closed before one around it is.        *)
LEMMA BracketReturns ==
    ASSUME NEW t, IsText(t), NEW at, Nests(t, at), NEW w \in Stacks, NEW q \in Nat \ {0}, at[q] = Plain(w),
           NEW c \in Openers, At(t, q, c),
           NEW to \in Nat, q < to, to <= Len(t) + 1, NEW o \in Stacks, at[to] = Plain(o), Len(o) < Len(w)
    PROVE  \E e : Stretch(t, q, e) /\ e < to /\ Encloses(at, w, q, e)
  <1> DEFINE S == {s \in q + 1 .. to : at[s] = Plain(w)}
             deep(r) == r \in q + 1 .. to /\ (\A s \in q + 1 .. r : at[s] # Plain(w)) => Deep(at[r], w)
             P == {r \in Nat : deep(r)}
  <1>0. Len(t) \in Nat /\ q <= Len(t) /\ t[q] = c /\ Len(w) \in Nat /\ Len(o) \in Nat
    BY DEF At, IsText, Stacks
  <1>1. at[q + 1] = Plain(Append(w, c)) /\ \A r \in 1 .. Len(t) + 1 : at[r] # Broken
    BY <1>0, NestsStep, OpenedBy DEF Nests
  <1>2. Deep(at[q + 1], w) /\ at[q + 1] # Plain(w)
    <2> DEFINE a == Append(w, c)
    <2>1. Len(a) > Len(w) /\ \A k \in 1 .. Len(w) : a[k] = w[k]
      BY DEF Stacks
    <2> HIDE DEF a
    <2>2. a # w
      BY <1>0, <2>1
    <2> QED
      BY <1>1, <2>1, <2>2, StandingsDiffer, ZenonT(60) DEF Deep, a
  <1>3. deep(0)
    OBVIOUS
  <1>4. ASSUME NEW r \in Nat, deep(r) PROVE deep(r + 1)
    <2> SUFFICES ASSUME r + 1 \in q + 1 .. to, \A s \in q + 1 .. r + 1 : at[s] # Plain(w)
                 PROVE  Deep(at[r + 1], w)
      OBVIOUS
    <2>1. CASE r = q
      BY <1>2, <2>1
    <2>2. CASE r # q
      <3>1. r \in q + 1 .. to /\ r \in Nat \ {0} /\ r <= Len(t) /\ r + 1 \in q + 1 .. r + 1
            /\ \A s \in q + 1 .. r : s \in q + 1 .. r + 1
        BY <1>0, <2>2
      <3>2. Deep(at[r], w)
        BY <1>4, <3>1
      <3>3. at[r] \in Standings /\ at[r + 1] = Opened(at[r], t[r]) /\ at[r + 1] # Broken
        BY <3>1, NestsStep, RunsStep DEF Nests
      <3>4. at[r + 1] # Plain(w)
        BY <3>1
      <3> QED
        BY <3>2, <3>3, <3>4, DeepStep
    <2> QED
      BY <2>1, <2>2
  <1>5. deep(to)
    <2>1. 0 \in P /\ \A n \in Nat : n \in P => n + 1 \in P
      <3> HIDE DEF deep
      <3> QED
        BY <1>3, <1>4
    <2> HIDE DEF P
    <2>2. Nat \subseteq P
      BY ONLY <2>1, Induction
    <2> QED
      BY <2>2 DEF P
  <1>6. S # {}
    <2>1. ~Deep(at[to], w)
      <3>1. at[to].open = o
        BY StandingsDiffer
      <3> QED
        BY <1>0, <3>1 DEF Deep
    <2>2. to \in q + 1 .. to
      BY <1>0
    <2> QED
      BY <1>5, <2>1, <2>2
  <1>7. PICK e \in S : \A s \in S : e <= s
    <2>1. S \subseteq Nat
      OBVIOUS
    <2> HIDE DEF S
    <2> QED
      BY <1>6, <2>1, Least
  <1>8. e \in q + 1 .. to /\ at[e] = Plain(w)
    OBVIOUS
  <1>9. e # to
    <2>1. o # w
      BY <1>0
    <2> QED
      BY <1>8, <2>1, StandingsDiffer
  <1>10. e \in Nat /\ q < e /\ e < to /\ e <= Len(t) + 1
    BY <1>0, <1>8, <1>9
  <1>11. \A r \in q + 1 .. e - 1 : at[r] # Plain(w) /\ at[r] # Broken
    <2> TAKE r \in q + 1 .. e - 1
    <2>1. r \in q + 1 .. to /\ ~(e <= r) /\ r \in 1 .. Len(t) + 1
      BY <1>0, <1>10
    <2> QED
      BY <1>1, <1>7, <2>1
  <1> QED
    BY <1>8, <1>10, <1>11 DEF Encloses, Stretch

(* Places of a text that no scan of the reader leads out of.               *)
Scanned(t, G) ==
    /\ G \subseteq Nat \ {0}
    /\ \A p \in G : \A S : S \cap Structure = {} => SkipAll(t, p, S) \in G /\ (In(t, p, S) => p + 1 \in G)
    /\ \A p \in G : /\ SkipString(t, p) \in G \cup {Fail}
                    /\ SkipContainer(t, p, "{", "}") \in G \cup {Fail}
                    /\ SkipContainer(t, p, "[", "]") \in G \cup {Fail}
                    /\ p \in DOMAIN t => NumberEnd(t, p) \in G \cup {Fail}

LEMMA ScannedBytes ==
    ASSUME NEW t, NEW G, Scanned(t, G), NEW p \in G
    PROVE  /\ SkipWs(t, p) \in G /\ SkipAll(t, p, DigitSet) \in G
           /\ At(t, p, "-") \/ At(t, p, ":") \/ At(t, p, ",") \/ In(t, p, {"true", "false", "null"}) => p + 1 \in G
  <1>1. /\ Spaces \cap Structure = {} /\ DigitSet \cap Structure = {} /\ {"-", ":", ","} \cap Structure = {}
        /\ {"true", "false", "null"} \cap Structure = {}
    <2>1. DigitSet \cap Structure = {}
      BY NumberBytesArePlain DEF NumberBytes
    <2> QED
      BY <2>1 DEF Spaces, Structure, Quote, Openers, Closers
  <1>2. At(t, p, "-") \/ At(t, p, ":") \/ At(t, p, ",") => In(t, p, {"-", ":", ","})
    BY DEF At, In
  <1> QED
    BY <1>1, <1>2 DEF Scanned, SkipWs

LEMMA ValueScanned ==
    ASSUME NEW t, NEW G, Scanned(t, G), NEW p \in G
    PROVE  SkipValue(t, p) \in G \cup {Fail}
  <1> DEFINE q == SkipWs(t, p)
  <1>1. q \in G
    BY ScannedBytes
  <1>2. SkipValue(t, p) = IF At(t, q, Quote) THEN SkipString(t, q)
                          ELSE IF At(t, q, "{") THEN SkipContainer(t, q, "{", "}")
                          ELSE IF At(t, q, "[") THEN SkipContainer(t, q, "[", "]")
                          ELSE IF In(t, q, {"true", "false", "null"}) THEN q + 1
                          ELSE IF In(t, q, DigitSet \cup {"-"}) THEN NumberEnd(t, q)
                          ELSE Fail
    BY DEF SkipValue
  <1> HIDE DEF q
  <1>3. In(t, q, {"true", "false", "null"}) => q + 1 \in G
    BY <1>1, ScannedBytes
  <1>4. In(t, q, DigitSet \cup {"-"}) => q \in DOMAIN t
    BY DEF In
  <1> QED
    BY <1>1, <1>2, <1>3, <1>4 DEF Scanned

LEMMA StringScanned ==
    ASSUME NEW t, NEW G, Scanned(t, G), NEW p \in G
    PROVE  ParseString(t, p).end \in G \cup {Fail}
  <1>1. ParseString(t, p).end = SkipString(t, SkipWs(t, p))
    BY DEF ParseString
  <1>2. SkipWs(t, p) \in G
    BY ScannedBytes
  <1>3. \A q \in G : SkipString(t, q) \in G \cup {Fail}
    BY DEF Scanned
  <1> QED
    BY ONLY <1>1, <1>2, <1>3

LEMMA IntScanned ==
    ASSUME NEW t, NEW G, Scanned(t, G), NEW p \in G
    PROVE  ParseInt(t, p).end \in G \cup {Fail}
  <1> DEFINE
        q == SkipWs(t, p)
        first == IF At(t, q, "-") THEN q + 1 ELSE q
        end == SkipAll(t, first, DigitSet)
        value == Decimal(t, first, end)
  <1>1. q \in G
    BY ScannedBytes
  <1>2. ParseInt(t, p) = IF ~In(t, first, DigitSet) \/ value > IntMax THEN [end |-> Fail, num |-> 0]
                         ELSE [end |-> end, num |-> IF At(t, q, "-") THEN -value ELSE value]
    BY DEF ParseInt
  <1> HIDE DEF value
  <1>3. ParseInt(t, p).end \in {Fail, end}
    BY <1>2
  <1> HIDE DEF q
  <1>4. first \in G
    BY <1>1, ScannedBytes
  <1> HIDE DEF first
  <1>5. end \in G
    BY <1>4, ScannedBytes
  <1> QED
    BY <1>3, <1>5

LEMMA KeyScanned ==
    ASSUME NEW t, NEW G, Scanned(t, G), NEW p \in G
    PROVE  KeyEnd(t, p) \in G \cup {Fail}
  <1> DEFINE e == SkipString(t, p)
             colon == SkipWs(t, e)
  <1>1. e \in G \cup {Fail}
    BY DEF Scanned
  <1>2. KeyEnd(t, p) = IF e = Fail \/ ~At(t, colon, ":") THEN Fail ELSE colon + 1
    BY DEF KeyEnd
  <1> HIDE DEF e
  <1>3. e # Fail => colon \in G
    BY <1>1, ScannedBytes
  <1> HIDE DEF colon
  <1>4. e # Fail /\ At(t, colon, ":") => colon + 1 \in G
    BY <1>3, ScannedBytes
  <1> QED
    BY <1>2, <1>4

LEMMA BehindScanned ==
    ASSUME NEW t, NEW G, Scanned(t, G), NEW p \in G \cup {Fail}, NEW old, NEW msg
    PROVE  After(t, p, old, msg).at \in G \cup {Fail}
  <1> DEFINE next == SkipWs(t, p)
             e == Behind(t)[p]
  <1>1. p \in Nat
    <2>1. G \subseteq Nat
      BY DEF Scanned
    <2> QED
      BY <2>1 DEF Fail
  <1>2. e = IF p = Fail \/ ~In(t, next, {",", "}"}) THEN Fail
            ELSE IF t[next] = "," THEN next + 1 ELSE next
    BY <1>1 DEF Behind
  <1>3. After(t, p, old, msg).at = e
    BY DEF After
  <1>4. p # Fail => next \in G
    BY ScannedBytes
  <1> HIDE DEF e, next
  <1>5. p # Fail /\ In(t, next, {",", "}"}) /\ t[next] = "," => next + 1 \in G
    <2>1. In(t, next, {",", "}"}) /\ t[next] = "," => At(t, next, ",")
      BY DEF In, At
    <2> QED
      BY <1>4, <2>1, ScannedBytes
  <1> QED
    BY <1>2, <1>3, <1>4, <1>5

LEMMA ErrorMemberScanned ==
    ASSUME NEW t, NEW G, Scanned(t, G), NEW p \in G, NEW name, NEW msg
    PROVE  ReadErrorMember(t, p, name, msg).at \in G \cup {Fail}
  BY IntScanned, StringScanned, ValueScanned, BehindScanned DEF ReadErrorMember

(* Where the reader can stand between two members of an enclosed object.   *)
Between(at, w, from, to) == {p \in Nat : from < p /\ p < to /\ at[p] = Plain(w)}

Enclosure(t, at, o, w, from, to) ==
    /\ IsText(t) /\ Nests(t, at) /\ Stretch(t, from, to) /\ Encloses(at, o, from, to)
    /\ o \in Stacks /\ w \in Stacks /\ Len(w) = Len(o) + 1 /\ Len(o) \in Nat

LEMMA PlainBetween ==
    ASSUME NEW t, NEW at, NEW o, NEW w, NEW from, NEW to, Enclosure(t, at, o, w, from, to),
           NEW p \in Between(at, w, from, to), NEW e \in Nat, p <= e, e <= Len(t) + 1,
           \A r \in p .. e - 1 : t[r] \notin Structure
    PROVE  e \in Between(at, w, from, to)
  <1>1. /\ IsText(t) /\ Runs(t, at) /\ from \in Nat /\ to \in Nat /\ at[to] = Plain(o) /\ o # w
        /\ p \in Nat \ {0} /\ from < p /\ p < to /\ at[p] = Plain(w)
    BY DEF Enclosure, Nests, Stretch, Encloses, Between
  <1>2. \A r \in p .. e : at[r] = Plain(w)
    BY <1>1, PlainBytes
  <1>3. to \notin p .. e
    BY <1>1, <1>2, StandingsDiffer
  <1>4. e \in p .. e /\ e < to /\ from < e
    BY <1>1, <1>3
  <1> QED
    BY <1>2, <1>4 DEF Between

LEMMA StringBetween ==
    ASSUME NEW t, NEW at, NEW o, NEW w, NEW from, NEW to, Enclosure(t, at, o, w, from, to),
           NEW p \in Between(at, w, from, to), SkipString(t, p) # Fail
    PROVE  SkipString(t, p) \in Between(at, w, from, to)
  <1> DEFINE e == SkipString(t, p)
  <1>1. /\ IsText(t) /\ Runs(t, at) /\ from \in Nat /\ to \in Nat /\ at[to] = Plain(o) /\ o # w /\ w \in Stacks
        /\ p \in Nat \ {0} /\ from < p /\ p < to /\ at[p] = Plain(w) /\ to <= Len(t) + 1 /\ Len(t) \in Nat
    BY DEF Enclosure, Nests, Stretch, Encloses, Between, IsText
  <1>2. e \in Nat /\ p < e /\ at[e] = Plain(w) /\ At(t, p, Quote) /\ e = StringEnd(t, p + 1)
    BY <1>1, SkipStringBounds, SkipStringRuns DEF EndsBehind, SkipString
  <1>3. at[p + 1] = InString(w) /\ p + 1 <= to /\ p + 1 \in Nat \ {0}
    <2>1. p <= Len(t) /\ t[p] = Quote
      BY <1>1, <1>2 DEF At
    <2> QED
      BY <1>1, <2>1, RunsStep, OpenedBy
  <1>4. e <= to
    BY <1>1, <1>2, <1>3, StringCloses
  <1>5. e # to
    BY <1>1, <1>2, StandingsDiffer
  <1> HIDE DEF e
  <1>6. e < to /\ from < e
    BY ONLY <1>1, <1>2, <1>4, <1>5
  <1> QED
    BY <1>2, <1>6 DEF Between, e

LEMMA ContainerBetween ==
    ASSUME NEW t, NEW at, NEW o, NEW w, NEW from, NEW to, Enclosure(t, at, o, w, from, to),
           NEW p \in Between(at, w, from, to), NEW open \in Openers, NEW close \in Closers, Opener(close) = open,
           SkipContainer(t, p, open, close) # Fail
    PROVE  SkipContainer(t, p, open, close) \in Between(at, w, from, to)
  <1>1. /\ IsText(t) /\ Nests(t, at) /\ from \in Nat /\ to \in Nat /\ at[to] = Plain(o) /\ w \in Stacks
        /\ p \in Nat \ {0} /\ from < p /\ p < to /\ at[p] = Plain(w) /\ to <= Len(t) + 1
        /\ o \in Stacks /\ Len(o) < Len(w)
    BY DEF Enclosure, Stretch, Encloses, Between
  <1>2. At(t, p, open)
    BY DEF SkipContainer
  <1>3. PICK e : Stretch(t, p, e) /\ e < to /\ Encloses(at, w, p, e)
    BY <1>1, <1>2, BracketReturns
  <1>4. SkipContainer(t, p, open, close) = e
    BY <1>1, <1>2, <1>3, EnclosedContainerEnds DEF Nests
  <1>5. e \in Nat /\ from < e /\ at[e] = Plain(w)
    BY <1>1, <1>3 DEF Stretch, Encloses
  <1> QED
    BY <1>3, <1>4, <1>5 DEF Between

LEMMA BetweenIsScanned ==
    ASSUME NEW t, NEW at, NEW o, NEW w, NEW from, NEW to, Enclosure(t, at, o, w, from, to)
    PROVE  Scanned(t, Between(at, w, from, to))
  <1> DEFINE G == Between(at, w, from, to)
  <1>1. IsText(t) /\ Len(t) \in Nat /\ DOMAIN t = 1 .. Len(t) /\ from \in Nat /\ to <= Len(t) + 1 /\ to \in Nat
    BY DEF Enclosure, Stretch, IsText
  <1>2. \A p \in G : p \in Nat \ {0} /\ p <= Len(t) /\ p <= Len(t) + 1
    BY <1>1 DEF Between
  <1>3. G \subseteq Nat \ {0}
    BY <1>2
  <1>4. ASSUME NEW p \in G, NEW e \in Nat, p <= e, e <= Len(t) + 1, \A r \in p .. e - 1 : t[r] \notin Structure
        PROVE  e \in G
    BY <1>4, PlainBetween
  <1>5. /\ \A p \in G : SkipString(t, p) \in G \cup {Fail}
        /\ \A p \in G, open \in Openers, close \in Closers :
             Opener(close) = open => SkipContainer(t, p, open, close) \in G \cup {Fail}
    BY StringBetween, ContainerBetween
  <1> HIDE DEF G
  <1>6. ASSUME NEW p \in G, NEW S, S \cap Structure = {}
        PROVE  SkipAll(t, p, S) \in G /\ (In(t, p, S) => p + 1 \in G)
    <2> DEFINE e == SkipAll(t, p, S)
    <2>1. p \in Nat /\ p <= Len(t) + 1 /\ p <= Len(t)
      BY <1>2
    <2>2. e \in Nat /\ e <= Len(t) + 1 /\ p <= e /\ \A r \in p .. e - 1 : t[r] \in S
      BY <1>1, <2>1, SkipAllBounds
    <2> HIDE DEF e
    <2>3. \A r \in p .. e - 1 : t[r] \notin Structure
      BY <1>6, <2>2
    <2>4. e \in G
      BY <1>4, <2>2, <2>3
    <2>5. ASSUME In(t, p, S) PROVE p + 1 \in G
      <3>1. t[p] \notin Structure
        BY <1>6, <2>5 DEF In
      <3>2. p + 1 \in Nat /\ p <= p + 1 /\ p + 1 <= Len(t) + 1 /\ \A r \in p .. (p + 1) - 1 : r = p
        BY <1>1, <2>1
      <3> QED
        BY <1>4, <3>1, <3>2
    <2> QED
      BY <2>4, <2>5 DEF e
  <1>7. ASSUME NEW p \in G PROVE NumberEnd(t, p) \in G \cup {Fail}
    <2> DEFINE e == NumberEnd(t, p)
    <2>1. p \in DOMAIN t
      BY <1>1, <1>2
    <2>2. EndsBehind(t, p, e) /\ (e # Fail => NumberTo(t, p, e))
      BY <1>1, <2>1, NumberEndBounds
    <2> HIDE DEF e
    <2>3. CASE e # Fail
      <3>1. e \in Nat /\ p <= e /\ e <= Len(t) + 1 /\ \A r \in p .. e - 1 : t[r] \notin Structure
        BY <2>2, <2>3, NumberBytesArePlain DEF NumberTo
      <3> QED
        BY <1>4, <3>1 DEF e
    <2> QED
      BY <2>3 DEF e
  <1>8. /\ "{" \in Openers /\ "}" \in Closers /\ Opener("}") = "{"
        /\ "[" \in Openers /\ "]" \in Closers /\ Opener("]") = "["
    BY DEF Openers, Closers, Opener
  <1>9. \A p \in G : /\ SkipString(t, p) \in G \cup {Fail}
                     /\ SkipContainer(t, p, "{", "}") \in G \cup {Fail}
                     /\ SkipContainer(t, p, "[", "]") \in G \cup {Fail}
                     /\ p \in DOMAIN t => NumberEnd(t, p) \in G \cup {Fail}
    BY <1>5, <1>7, <1>8
  <1>10. Scanned(t, G)
    BY <1>3, <1>6, <1>9 DEF Scanned
  <1> QED
    BY <1>10 DEF G

InBraces(o) == Append(o, "{")

(* Whatever members an object has, they are read to its own closing brace. *)
LEMMA EnclosedErrorEnds ==
    ASSUME NEW t, NEW at, NEW o, NEW from, NEW to, Enclosure(t, at, o, InBraces(o), from, to),
           Opens(t, from), NEW msg \in Messages
    PROVE  ErrorMembers(t, from + 1, msg).at \in {Fail, Behind(t)[to]}
  <1> DEFINE w == InBraces(o)
             G == Between(at, w, from, to)
             start == [at |-> from + 1, msg |-> msg]
             Read == {s \in Progress : s.at \in G \cup {Fail}}
             closed(s) == After(t, SkipWs(t, s.at) + 1, s.msg, TakeError(s.msg))
             Result == {s \in Progress : s.at \in {Fail, Behind(t)[to]}}
  <1>1. Scanned(t, G)
    BY BetweenIsScanned
  <1>2. /\ IsText(t) /\ Nests(t, at) /\ at[from] = Plain(o) /\ at[to] = Plain(o)
        /\ \A r \in from + 1 .. to - 1 : at[r] # Plain(o)
        /\ o \in Stacks /\ w \in Stacks
    BY DEF Enclosure, Stretch, Encloses
  <1>13. Len(t) \in Nat /\ from \in Nat \ {0} /\ to \in Nat /\ from < to /\ to <= Len(t) + 1 /\ from + 1 \in Nat
    BY DEF Enclosure, Stretch, IsText
  <1>14. Len(w) = Len(o) + 1 /\ Len(o) \in Nat
    BY DEF Enclosure
  <1>15. o # w
    BY ONLY <1>14
  <1> HIDE DEF w
  <1>16. StandsAt(t, at, w, from + 1)
    <2>1. StandsAt(t, at, o, from)
      BY <1>2, <1>13 DEF StandsAt
    <2>2. "{" \in Openers /\ At(t, from, "{") /\ w = Append(o, "{")
      BY DEF Openers, Opens, w, InBraces
    <2> QED
      BY <1>2, <2>1, <2>2, BracketNests
  <1>4. start \in Read
    <2>3. from + 1 # to
      BY <1>2, <1>15, <1>16, StandingsDiffer DEF StandsAt
    <2>4. from + 1 \in Nat /\ from < from + 1 /\ from + 1 < to
      BY ONLY <1>13, <2>3
    <2>5. from + 1 \in G
      BY <1>16, <2>4 DEF Between, StandsAt
    <2>6. start \in Progress
      BY <2>4 DEF Progress
    <2> QED
      BY <2>5, <2>6
  <1>5. ASSUME NEW s \in Progress, s \in Read, s.at # Fail, At(t, SkipWs(t, s.at), "}")
        PROVE  closed(s) \in Result
    <2> DEFINE q == SkipWs(t, s.at)
    <2>1. q \in G
      BY <1>1, <1>5, ScannedBytes
    <2>2. q \in Nat /\ from < q /\ q < to /\ at[q] = Plain(w)
      BY <2>1 DEF Between
    <2>3. At(t, q, "}")
      BY <1>5
    <2>9. s.msg \in Messages
      BY <1>5 DEF Progress
    <2> HIDE DEF q
    <2>10. q \in Nat \ {0}
      BY ONLY <2>2, <1>13
    <2>4. StandsAt(t, at, o, q + 1)
      <3>4. q <= Len(t) + 1
        BY ONLY <2>2, <1>13
      <3>1. StandsAt(t, at, w, q)
        BY <1>2, <2>2, <2>10, <3>4 DEF StandsAt
      <3>5. "}" \in Closers
        BY DEF Closers
      <3>6. "{" \in Openers /\ o \in Seq(Openers) /\ w = Append(o, "{")
        BY <1>2 DEF Stacks, Openers, w, InBraces
      <3>2. Front(w) = o
        BY ONLY <3>6, FrontOfAppend
      <3>3. StandsAt(t, at, Front(w), q + 1)
        BY <1>2, <2>3, <3>1, <3>5, BracketNests
      <3> QED
        BY <3>2, <3>3
    <2>5. q + 1 \notin from + 1 .. to - 1
      BY <1>2, <2>4 DEF StandsAt
    <2>6. q + 1 = to
      BY ONLY <1>13, <2>2, <2>5
    <2>11. closed(s) = After(t, to, s.msg, TakeError(s.msg))
      BY <2>6 DEF q
    <2>7. closed(s) \in Progress
      BY <1>2, <1>13, <2>9, <2>11, AfterBounds, TakeErrorType
    <2>8. closed(s).at = Behind(t)[to]
      BY <2>11, AfterRead
    <2> HIDE DEF closed
    <2> QED
      BY <2>7, <2>8
  <1>6. ASSUME NEW s \in Progress, s \in Read, s.at # Fail, KeyEnd(t, SkipWs(t, s.at)) # Fail
        PROVE  NextErrorMember(t, s) \in Read
    <2> DEFINE q == SkipWs(t, s.at)
    <2>1. q \in G
      BY <1>1, <1>6, ScannedBytes
    <2>2. KeyEnd(t, q) \in G
      BY <1>1, <1>6, <2>1, KeyScanned
    <2>3. NextErrorMember(t, s).at \in G \cup {Fail}
      BY <1>1, <2>2, ErrorMemberScanned DEF NextErrorMember
    <2>4. NextErrorMember(t, s) \in Progress
      BY <1>2, <1>6, NextErrorMemberBounds DEF Advances
    <2> QED
      BY <2>3, <2>4
  <1>7. \A u \in Progress : u.at = Fail => u \in Result
    OBVIOUS
  <1>8. start \in Progress /\ start.at = from + 1 /\ start.msg = msg
    BY <1>4
  <1>9. \A s \in Progress : s \in Result => s.at \in {Fail, Behind(t)[to]}
    OBVIOUS
  <1>12. Result \subseteq Progress
    OBVIOUS
  <1> HIDE DEF Read, Result, start, G, closed
  <1>10. \A s \in Progress : s \in Read =>
           IF s.at # Fail /\ At(t, SkipWs(t, s.at), "}") THEN closed(s) \in Result
           ELSE IF s.at # Fail /\ KeyEnd(t, SkipWs(t, s.at)) # Fail THEN NextErrorMember(t, s) \in Read
           ELSE \A u \in Progress : u.at = Fail => u \in Result
    BY <1>5, <1>6, <1>7
  <1>11. ErrorMembers(t, start.at, start.msg) \in Result
    BY <1>2, <1>4, <1>8, <1>10, ErrorMembersInduction DEF closed
  <1> QED
    BY <1>8, <1>9, <1>11, <1>12

LEMMA TextNests ==
    ASSUME LedgerIsTrue, NestingIsTrue
    PROVE  Nests(buffer, OpenAt(buffer))
  <1> DEFINE w == Opening
  <1>1. Sequence(buffer) /\ Leads(buffer, <<>>, w, 2)
    BY DEF LedgerIsTrue, NestingIsTrue, Opening
  <1>2. IsText(buffer)
    BY <1>1, SequenceIsText
  <1> HIDE DEF w
  <1>3. OpenAt(buffer)[Len(buffer) + 1] = Plain(w)
    BY <1>1, OpenAtEnd
  <1>4. OpenAt(buffer)[Len(buffer) + 1] # Broken
    BY <1>3, StandingsDiffer
  <1> QED
    BY <1>2, <1>4, OpenAtRuns, NothingBroken

LEMMA InBracesIs ==
    ASSUME NEW o \in Stacks
    PROVE  InBraces(o) \in Stacks /\ Len(InBraces(o)) = Len(o) + 1 /\ Len(o) \in Nat
  <1> DEFINE c == "{"
  <1>1. c \in Openers /\ InBraces(o) = Append(o, c) /\ o \in Seq(Openers)
    BY DEF Openers, InBraces, Stacks
  <1> HIDE DEF c
  <1>2. Append(o, c) \in Seq(Openers) /\ Len(Append(o, c)) = Len(o) + 1 /\ Len(o) \in Nat
    BY ONLY <1>1
  <1> QED
    BY <1>1, <1>2 DEF Stacks

(* An error that was given raw ends where it was written to end, if it is  *)
(* read at all, and leaves the params alone.                               *)
LEMMA RawErrorMemberIsRead ==
    ASSUME WrittenOut(buffer, ledger, Len(ledger)), Nests(buffer, OpenAt(buffer)), NEW j \in 1 .. Len(ledger),
           ledger[j].parent = 0, NEW msg \in Messages, ledger[j].key = ErrorKey,
           NEW r, r = ReadMember(buffer, ledger[j].from, ledger[j].key, msg)
    PROVE  r.at \in {Fail, Behind(buffer)[ledger[j].to]} /\ r.msg.params = msg.params
  <1> DEFINE l == Len(ledger)
             from == ledger[j].from
             to == ledger[j].to
             at == OpenAt(buffer)
             none == FailedAt(msg)
  <1>1. IsObject(ledger, 0) /\ IsText(buffer) /\ DOMAIN ledger = 1 .. l
    BY DEF IsObject, WrittenOut, Parents
  <1>2. ValueAt(buffer, ledger[j]) /\ from \in 6 .. Len(buffer)
    BY <1>1, ChildIsMember
  <1>3. Ended(buffer, to)
    <2>1. 0 \in 0 .. l
      BY DEF WrittenOut, Parents
    <2> QED
      BY <1>1, <2>1, NextPlace
  <1>4. SkipWs(buffer, from) = from
    BY <1>1, <1>2, <1>3, ValueIsSkipped
  <1>5. r = IF ~Opens(buffer, from) THEN none ELSE ErrorMembers(buffer, from + 1, msg)
    <2>1. r = IF ~Opens(buffer, SkipWs(buffer, from)) THEN none
              ELSE ErrorMembers(buffer, SkipWs(buffer, from) + 1, msg)
      BY ReadMemberCases
    <2> HIDE DEF none, from
    <2> QED
      BY <1>4, <2>1
  <1>6. none.at = Fail /\ none.msg = msg
    BY DEF FailedAt
  <1> HIDE DEF none
  <1>8. CASE ~Opens(buffer, from)
    BY <1>5, <1>6, <1>8
  <1>9. CASE Opens(buffer, from)
    <2>1. r = ErrorMembers(buffer, from + 1, msg)
      BY <1>5, <1>9
    <2>2. r.msg.params = msg.params
      <3>1. from + 1 \in Nat
        BY <1>2
      <3> QED
        BY <1>1, <2>1, <3>1, ErrorMembersBounds
    <2>3. Stretch(buffer, from, to)
      BY <1>2 DEF ValueAt
    <2>4. ~SpelledOut(buffer, ledger[j])
      <3>1. buffer[from] \in Structure
        BY <1>9 DEF Opens, At, Structure, Openers
      <3>2. from \in from .. to - 1
        BY <2>3 DEF Stretch
      <3> QED
        BY <1>1, <3>1, <3>2, SpelledOutIsPlain
    <2>5. PICK o \in Stacks : Encloses(at, o, from, to)
      BY <1>2, <2>4 DEF ValueAt, Enclosed
    <2>6. InBraces(o) \in Stacks /\ Len(InBraces(o)) = Len(o) + 1 /\ Len(o) \in Nat
      BY <2>5, InBracesIs
    <2>7. Enclosure(buffer, at, o, InBraces(o), from, to)
      BY <1>1, <2>3, <2>5, <2>6 DEF Enclosure
    <2>8. ErrorMembers(buffer, from + 1, msg).at \in {Fail, Behind(buffer)[to]}
      BY <1>9, <2>7, EnclosedErrorEnds
    <2> QED
      BY <2>1, <2>2, <2>8
  <1> QED
    BY <1>8, <1>9

-----------------------------------------------------------------------------
(* The message, member by member.                                          *)

(* What the members of the message before k, or before its end, say.       *)
LastTo(key, k) == Latest(Named(ledger, 0, key, k))
InErrorsTo(key, k) == UNION {Named(ledger, i, key, Len(ledger) + 1) : i \in Named(ledger, 0, ErrorKey, k)}
LastInErrorsTo(key, k) == Latest(InErrorsTo(key, k))

SpanOf(i) == IF i = 0 THEN NoSpan ELSE Span(i)
ContentOf(i) == IF i = 0 THEN NoSpan ELSE Content(i)

ParamsTo(k, m) == m.params = SpanOf(LastTo(ParamsKey, k))
FieldsTo(k, m) ==
    /\ ParamsTo(k, m)
    /\ m.method = ContentOf(LastTo(MethodKey, k))
    /\ m.id = (IF LastTo(IdKey, k) = 0 THEN <<>> ELSE <<IntOf(LastTo(IdKey, k))>>)
    /\ m.result = SpanOf(LastTo(ResultKey, k))
    /\ m.code = (IF LastInErrorsTo(CodeKey, k) = 0 THEN 0 ELSE IntOf(LastInErrorsTo(CodeKey, k)))
    /\ m.message = ContentOf(LastInErrorsTo(MessageKey, k))
    /\ m.request <=> LastTo(MethodKey, k) # 0
    /\ m.error <=> LastTo(ErrorKey, k) # 0
    /\ m.response <=> LastTo(ErrorKey, k) # 0 \/ LastTo(ResultKey, k) # 0

LEMMA NothingLatest == Latest({}) = 0
  <1>1. {} \subseteq 1 .. 0 /\ 0 \in Nat
    OBVIOUS
  <1> QED
    BY <1>1, LatestIs

LEMMA FieldsFirst ==
    ASSUME NEW l, Parents(ledger, l), NEW k, ComesNext(ledger, l, 0, 0, k)
    PROVE  FieldsTo(k, NewMessage)
  <1>1. \A key : Named(ledger, 0, key, k) = {}
    BY NamedOnes
  <1>2. \A key : LastTo(key, k) = 0
    BY <1>1, NothingLatest DEF LastTo
  <1>3. \A key : LastInErrorsTo(key, k) = 0
    <2>1. \A key : InErrorsTo(key, k) = {}
      BY <1>1 DEF InErrorsTo
    <2> QED
      BY <2>1, NothingLatest DEF LastInErrorsTo
  <1> QED
    BY <1>2, <1>3 DEF FieldsTo, ParamsTo, NewMessage, SpanOf, ContentOf

LEMMA ErrorsNext ==
    ASSUME NEW l, l = Len(ledger), Parents(ledger, l), Tree(<<>>, ledger), NEW key,
           NEW j \in 1 .. l, ledger[j].parent = 0, NEW k, ComesNext(ledger, l, 0, j, k)
    PROVE  LastInErrorsTo(key, k) =
             IF ledger[j].key = ErrorKey /\ LastIn(j, key) # 0 THEN LastIn(j, key) ELSE LastInErrorsTo(key, j)
  <1> DEFINE U == InErrorsTo(key, j)
             V == InErrorsTo(key, k)
             W == Named(ledger, j, key, Len(ledger) + 1)
             n == LastIn(j, key)
  <1>1. l \in Nat /\ DOMAIN ledger = 1 .. l /\ \A x \in 1 .. l : ledger[x].parent \in Nat /\ ledger[x].parent < x
    BY DEF Parents
  <1>2. CASE ledger[j].key # ErrorKey
    <2>1. Named(ledger, 0, ErrorKey, k) = Named(ledger, 0, ErrorKey, j)
      BY <1>2, NamedOnes
    <2> QED
      BY <1>2, <2>1 DEF LastInErrorsTo, InErrorsTo
  <1>3. CASE ledger[j].key = ErrorKey
    <2>1. Named(ledger, 0, ErrorKey, k) = Named(ledger, 0, ErrorKey, j) \cup {j}
      <3> DEFINE error == ErrorKey
      <3>1. ledger[j].key = error
        BY <1>3
      <3> HIDE DEF error, U, V, W, n
      <3> DEFINE before == Named(ledger, 0, error, j)
                 behind == Named(ledger, 0, error, k)
      <3>2. /\ j = 0 => behind = {}
            /\ j \in 1 .. l /\ ledger[j].parent = 0 =>
                 /\ ledger[j].key = error => behind = before \cup {j}
                 /\ ledger[j].key # error => behind = before
        BY ONLY Parents(ledger, l), ComesNext(ledger, l, 0, j, k), NamedOnes
      <3> HIDE DEF before, behind
      <3>3. behind = before \cup {j}
        BY ONLY <3>1, <3>2, j \in 1 .. l, ledger[j].parent = 0
      <3> QED
        BY <3>3 DEF error, before, behind
    <2>2. V = U \cup W
      BY <2>1 DEF InErrorsTo
    <2>3. U \subseteq 1 .. l /\ W \subseteq 1 .. l
      BY <1>1 DEF InErrorsTo, Named
    <2>4. ASSUME NEW x \in U, NEW y \in W PROVE x <= y
      <3>1. PICK i \in Named(ledger, 0, ErrorKey, j) : x \in Named(ledger, i, key, Len(ledger) + 1)
        BY <2>4 DEF InErrorsTo
      <3>2. i \in 1 .. l /\ i < j /\ x \in 1 .. l /\ ledger[x].parent = i
        BY <1>1, <3>1 DEF Named
      <3>3. y \in 1 .. l /\ ledger[y].parent = j
        BY <1>1, <2>4 DEF Named
      <3>4. j < y
        BY <1>1, <3>3
      <3>5. ledger[x].parent < j /\ j < x => ledger[j].parent >= ledger[x].parent
        BY <1>1, <3>2 DEF Tree
      <3>6. ~(j < x)
        BY <1>1, <3>2, <3>5
      <3> HIDE DEF U, W
      <3> QED
        BY ONLY <3>2, <3>3, <3>4, <3>6, l \in Nat, j \in 1 .. l
    <2>5. n = Latest(W) /\ LastInErrorsTo(key, k) = Latest(V) /\ LastInErrorsTo(key, j) = Latest(U)
      BY DEF LastIn, LastInErrorsTo
    <2> HIDE DEF U, V, W, n
    <2>6. CASE W = {}
      <3>1. n = 0 /\ V = U
        BY <2>2, <2>5, <2>6, NothingLatest
      <3> QED
        BY <2>5, <3>1 DEF n
    <2>7. CASE W # {}
      <3>1. n \in W /\ \A y \in W : y <= n
        BY <1>1, <2>3, <2>5, <2>7, LatestIs
      <3>2. n \in V /\ V \subseteq 1 .. l /\ \A x \in V : x <= n
        BY <2>2, <2>3, <2>4, <3>1
      <3>3. Latest(V) = n
        BY <1>1, <3>2, LatestIs
      <3>4. n # 0
        BY <1>1, <3>2
      <3> QED
        BY <1>3, <2>5, <3>3, <3>4 DEF n
    <2> QED
      BY <2>6, <2>7
  <1> QED
    BY <1>2, <1>3

LEMMA FieldsNext ==
    ASSUME NEW l, l = Len(ledger), Parents(ledger, l), Tree(<<>>, ledger),
           NEW j \in 1 .. l, ledger[j].parent = 0, NEW k, ComesNext(ledger, l, 0, j, k),
           NEW m, FieldsTo(j, m), NEW n, TopStep(j, n, m)
    PROVE  FieldsTo(k, n)
  <1> DEFINE name == ledger[j].key
  <1>1. j # 0 /\ SpanOf(j) = Span(j) /\ ContentOf(j) = Content(j)
    <2>1. l \in Nat
      BY DEF Parents
    <2>2. j # 0
      BY <2>1
    <2> QED
      BY <2>2 DEF SpanOf, ContentOf
  <1>2. \A key : LastTo(key, k) = IF name = key THEN j ELSE LastTo(key, j)
    BY ONLY Parents(ledger, l), ComesNext(ledger, l, 0, j, k), j \in 1 .. l, ledger[j].parent = 0, LatestNext
       DEF LastTo
  <1>3. \A key : LastInErrorsTo(key, k) =
                   IF name = ErrorKey /\ LastIn(j, key) # 0 THEN LastIn(j, key) ELSE LastInErrorsTo(key, j)
    BY ErrorsNext
  <1>4. ParamsTo(k, n)
    BY <1>1, <1>2 DEF ParamsTo, FieldsTo, TopStep
  <1>5. n.method = ContentOf(LastTo(MethodKey, k))
    BY <1>1, <1>2 DEF FieldsTo, TopStep
  <1>6. n.id = IF LastTo(IdKey, k) = 0 THEN <<>> ELSE <<IntOf(LastTo(IdKey, k))>>
    BY <1>1, <1>2 DEF FieldsTo, TopStep
  <1>7. n.result = SpanOf(LastTo(ResultKey, k))
    BY <1>1, <1>2 DEF FieldsTo, TopStep
  <1>8. n.code = IF LastInErrorsTo(CodeKey, k) = 0 THEN 0 ELSE IntOf(LastInErrorsTo(CodeKey, k))
    BY <1>3 DEF FieldsTo, TopStep
  <1>9. n.message = ContentOf(LastInErrorsTo(MessageKey, k))
    BY <1>3 DEF FieldsTo, TopStep, ContentOf
  <1>10. /\ n.request <=> LastTo(MethodKey, k) # 0
         /\ n.error <=> LastTo(ErrorKey, k) # 0
    BY <1>1, <1>2 DEF FieldsTo, TopStep
  <1>11. n.response <=> LastTo(ErrorKey, k) # 0 \/ LastTo(ResultKey, k) # 0
    BY <1>1, <1>2 DEF FieldsTo, TopStep
  <1> QED
    BY <1>4, <1>5, <1>6, <1>7, <1>8, <1>9, <1>10, <1>11 DEF FieldsTo

(* The params also of a message with an error of which nothing is known.   *)
LEMMA ParamsNext ==
    ASSUME NEW l, Parents(ledger, l), NEW j \in 1 .. l, ledger[j].parent = 0,
           NEW k, ComesNext(ledger, l, 0, j, k), NEW m, ParamsTo(j, m),
           NEW n, n.params = IF ledger[j].key = ParamsKey THEN Span(j) ELSE m.params
    PROVE  ParamsTo(k, n)
  <1>1. SpanOf(j) = Span(j)
    BY DEF SpanOf, Parents
  <1>2. \A key : LastTo(key, k) = IF ledger[j].key = key THEN j ELSE LastTo(key, j)
    BY LatestNext DEF LastTo
  <1> QED
    BY <1>1, <1>2 DEF ParamsTo

Validated(msg) == [msg EXCEPT !.valid = TRUE]

LEMMA FieldsValidated ==
    ASSUME NEW msg \in Messages, NEW k
    PROVE  /\ Validated(msg) \in Messages /\ Validated(msg).valid
           /\ ParamsTo(k, msg) => ParamsTo(k, Validated(msg))
           /\ FieldsTo(k, msg) => FieldsTo(k, Validated(msg))
  <1> DEFINE v == Validated(msg)
  <1>1. /\ v \in Messages /\ v.valid /\ v.params = msg.params /\ v.method = msg.method /\ v.id = msg.id
        /\ v.result = msg.result /\ v.code = msg.code /\ v.message = msg.message
        /\ v.request = msg.request /\ v.error = msg.error /\ v.response = msg.response
    BY DEF Messages, Validated
  <1> HIDE DEF v
  <1>2. ParamsTo(k, msg) => ParamsTo(k, v)
    BY <1>1 DEF ParamsTo
  <1>3. FieldsTo(k, msg) => FieldsTo(k, v)
    BY <1>1, <1>2 DEF FieldsTo
  <1> QED
    BY <1>1, <1>2, <1>3 DEF v

IsKnown(j) == ledger[j].key = ErrorKey => ledger[j].op # "raw"
ParamsStep(j, m, msg) == m.params = IF ledger[j].key = ParamsKey THEN Span(j) ELSE msg.params

LEMMA TopMemberIsRead ==
    ASSUME WrittenOut(buffer, ledger, Len(ledger)), NumbersAreTrue, Nests(buffer, OpenAt(buffer)),
           NEW j \in 1 .. Len(ledger), ledger[j].parent = 0, NEW msg \in Messages,
           NEW r, r = ReadMember(buffer, ledger[j].from, ledger[j].key, msg)
    PROVE  \/ r.at = Fail /\ (IsKnown(j) => ~Readable(j))
           \/ /\ r.at = Behind(buffer)[ledger[j].to] /\ ParamsStep(j, r.msg, msg)
              /\ IsKnown(j) => Readable(j) /\ TopStep(j, r.msg, msg)
  <1> DEFINE l == Len(ledger)
             key == ledger[j].key
  <1>1. IsObject(ledger, 0) /\ IsText(buffer) /\ DOMAIN ledger = 1 .. l /\ 0 \in 0 .. l
    BY DEF IsObject, WrittenOut, Parents
  <1>2. ValueAt(buffer, ledger[j]) /\ j \in DOMAIN ledger
    BY <1>1, ChildIsMember
  <1>3. Ended(buffer, ledger[j].to)
    BY <1>1, NextPlace
  <1>4. TopStep(j, r.msg, msg) => ParamsStep(j, r.msg, msg)
    BY DEF TopStep, ParamsStep
  <1>5. CASE key # ErrorKey
    <2>1. /\ r.at = IF Readable(j) THEN Behind(buffer)[ledger[j].to] ELSE Fail
          /\ Readable(j) => TopStep(j, r.msg, msg)
      BY <1>1, <1>2, <1>3, <1>5, PlainMemberIsRead
    <2> QED
      BY <1>4, <2>1
  <1>6. CASE key = ErrorKey /\ ledger[j].op # "raw"
    <2>1. \/ r.at = Fail /\ ~Readable(j)
          \/ r.at = Behind(buffer)[ledger[j].to] /\ Readable(j) /\ TopStep(j, r.msg, msg)
      BY <1>6, ErrorMemberOfMessageIsRead
    <2> QED
      BY <1>4, <2>1
  <1>7. CASE key = ErrorKey /\ ledger[j].op = "raw"
    <2>1. r.at \in {Fail, Behind(buffer)[ledger[j].to]} /\ r.msg.params = msg.params
      BY <1>7, RawErrorMemberIsRead
    <2>2. ~IsKnown(j)
      BY <1>7 DEF IsKnown
    <2>3. ParamsStep(j, r.msg, msg)
      BY <1>7, <2>1, TopKeysDiffer DEF ParamsStep
    <2> QED
      BY <2>1, <2>2, <2>3
  <1> QED
    BY <1>5, <1>6, <1>7

AllReadable == \A i \in TopMembers : Readable(i)

(* A whole text is read member by member, as it was written.               *)
LEMMA MembersAreRead ==
    ASSUME WrittenOut(buffer, ledger, Len(ledger)), NumbersAreTrue, Nests(buffer, OpenAt(buffer)),
           NEW r, r = Members(buffer, 2)
    PROVE  /\ r \in Messages
           /\ r.valid => ParamsTo(Len(ledger) + 1, r)
           /\ ErrorIsKnown => /\ r.valid <=> AllReadable
                              /\ r.valid => FieldsTo(Len(ledger) + 1, r)
  <1> DEFINE l == Len(ledger)
             place(k) == Place(buffer, ledger, 0, k)
             end == EndOf(buffer, ledger, 0)
             known(k, s) == /\ \A i \in TopMembers : i < k => Readable(i)
                            /\ FieldsTo(k, s.msg)
             reading(k, s) ==
               /\ k \in 1 .. l + 1 /\ (k \in 1 .. l => ledger[k].parent = 0)
               /\ s.at = place(k) /\ ParamsTo(k, s.msg) /\ (ErrorIsKnown => known(k, s))
             failed(s) == s.at = Fail /\ (ErrorIsKnown => ~AllReadable)
             Read == {s \in Progress : failed(s) \/ \E k : reading(k, s)}
             done(m) == /\ m.valid => ParamsTo(l + 1, m)
                        /\ ErrorIsKnown => (m.valid <=> AllReadable) /\ (m.valid => FieldsTo(l + 1, m))
             Result == {m \in Messages : done(m)}
             start == [at |-> 2, msg |-> NewMessage]
  <1>1. /\ IsText(buffer) /\ Parents(ledger, l) /\ DOMAIN ledger = 1 .. l /\ l \in Nat /\ Tree(<<>>, ledger)
        /\ IsObject(ledger, 0) /\ 0 \in 0 .. l
    BY DEF WrittenOut, Parents, IsObject
  <1>2. end \in Nat \ {0} /\ SkipWs(buffer, end) = end /\ At(buffer, end, "}")
    BY <1>1, EndPlace DEF BraceAt
  <1>3. l + 1 \notin 1 .. l /\ place(l + 1) = end /\ l + 1 \in 1 .. l + 1
    BY <1>1 DEF Place
  <1>4. \A i : i \in TopMembers <=> i \in 1 .. l /\ ledger[i].parent = 0
    BY <1>1 DEF TopMembers, Children
  <1>5. start \in Read
    <2>1. PICK k : ComesNext(ledger, l, 0, 0, k) /\ place(k) = Inner(ledger, 0)
      BY <1>1, FirstPlace
    <2>2. FieldsTo(k, NewMessage) /\ ParamsTo(k, NewMessage)
      BY <1>1, <2>1, FieldsFirst DEF FieldsTo
    <2>3. start \in Progress
      BY NoMessageYet DEF Progress
    <2>4. \A i \in TopMembers : ~(i < k)
      BY <1>1, <1>4, <2>1 DEF ComesNext
    <2>5. start.at = place(k) /\ start.msg = NewMessage
      BY <2>1 DEF Inner
    <2>6. known(k, start)
      BY <2>2, <2>4, <2>5
    <2>7. reading(k, start)
      BY <2>1, <2>2, <2>5, <2>6 DEF ComesNext
    <2> QED
      BY <2>3, <2>7
  <1>6. ASSUME NEW s \in Progress, NEW k, reading(k, s), k \notin 1 .. l
        PROVE  /\ s.at # Fail /\ At(buffer, SkipWs(buffer, s.at), "}")
               /\ [s.msg EXCEPT !.valid = TRUE] \in Result
    <2>1. k = l + 1
      BY <1>1, <1>6
    <2>2. s.at = end
      BY <1>3, <1>6, <2>1
    <2>3. s.msg \in Messages
      BY DEF Progress
    <2>4. /\ Validated(s.msg) \in Messages /\ Validated(s.msg).valid
          /\ ParamsTo(k, s.msg) => ParamsTo(k, Validated(s.msg))
          /\ FieldsTo(k, s.msg) => FieldsTo(k, Validated(s.msg))
      BY <2>3, FieldsValidated
    <2>5. ErrorIsKnown => AllReadable
      BY <1>1, <1>4, <1>6, <2>1 DEF AllReadable
    <2>6. done(Validated(s.msg))
      BY <1>6, <2>1, <2>4, <2>5
    <2>7. s.at # Fail /\ At(buffer, SkipWs(buffer, s.at), "}")
      BY <1>2, <2>2 DEF Fail
    <2> QED
      BY <2>4, <2>6, <2>7 DEF Validated
  <1>7. ASSUME NEW s \in Progress, NEW k \in 1 .. l, reading(k, s)
        PROVE  /\ s.at # Fail /\ ~At(buffer, SkipWs(buffer, s.at), "}")
               /\ KeyEnd(buffer, SkipWs(buffer, s.at)) # Fail
               /\ NextMember(buffer, s) \in Read
    <2> DEFINE p == s.at
               next == NextMember(buffer, s)
    <2>1. ledger[k].parent = 0 /\ p = ledger[k].from - 4 /\ k \in DOMAIN ledger
      BY <1>1, <1>7 DEF Place
    <2>2. HeadAt(buffer, ledger[k]) /\ ledger[k].key \notin {Quote, Backslash}
      BY <1>1, <2>1, ChildIsMember
    <2>3. /\ p \in Nat \ {0} /\ SkipWs(buffer, p) = p /\ ~At(buffer, p, "}")
          /\ KeyName(buffer, p) = ledger[k].key /\ KeyEnd(buffer, p) = ledger[k].from
          /\ KeyEnd(buffer, p) # Fail
      BY <1>1, <2>1, <2>2, MemberAt
    <2>4. next = ReadMember(buffer, ledger[k].from, ledger[k].key, s.msg)
      BY <2>3 DEF NextMember
    <2>5. PICK n : ComesNext(ledger, l, 0, k, n) /\ Behind(buffer)[ledger[k].to] = place(n)
      BY <1>1, <2>1, NextPlace
    <2>6. s.msg \in Messages
      BY DEF Progress
    <2>7. \/ next.at = Fail /\ (IsKnown(k) => ~Readable(k))
          \/ /\ next.at = place(n) /\ ParamsStep(k, next.msg, s.msg)
             /\ IsKnown(k) => Readable(k) /\ TopStep(k, next.msg, s.msg)
      BY <2>1, <2>4, <2>5, <2>6, TopMemberIsRead
    <2>8. next \in Progress
      BY <1>1, <2>3, NextMemberBounds DEF Advances
    <2>9. k \in TopMembers /\ (ErrorIsKnown => IsKnown(k))
      BY <1>4, <2>1 DEF ErrorIsKnown, IsKnown, ErrorKey
    <2>10. CASE next.at = Fail /\ (IsKnown(k) => ~Readable(k))
      <3>1. failed(next)
        BY <2>9, <2>10 DEF AllReadable
      <3> QED
        BY <2>3, <2>8, <3>1 DEF Fail
    <2>11. ASSUME next.at = place(n), ParamsStep(k, next.msg, s.msg),
                  IsKnown(k) => Readable(k) /\ TopStep(k, next.msg, s.msg)
           PROVE  reading(n, next)
      <3>1. ParamsTo(n, next.msg)
        BY <1>1, <1>7, <2>1, <2>5, <2>11, ParamsNext DEF ParamsStep
      <3>2. ASSUME ErrorIsKnown PROVE known(n, next)
        <4>1. FieldsTo(n, next.msg)
          BY <1>1, <1>7, <2>1, <2>5, <2>9, <2>11, <3>2, FieldsNext
        <4>2. ASSUME NEW i \in TopMembers, i < n PROVE Readable(i)
          <5>1. i \in 1 .. l /\ ~(k < i)
            BY <1>4, <2>5, <4>2 DEF ComesNext
          <5>2. i < k \/ i = k
            BY <1>1, <5>1
          <5> QED
            BY <1>7, <2>9, <2>11, <3>2, <5>2
        <4> QED
          BY <4>1, <4>2
      <3> QED
        BY <2>5, <2>11, <3>1, <3>2 DEF ComesNext
    <2>12. p # Fail
      BY <2>3 DEF Fail
    <2>13. next \in Read
      BY <2>7, <2>8, <2>10, <2>11
    <2> QED
      BY <2>3, <2>12, <2>13
  <1>8. ASSUME NEW s \in Progress, failed(s)
        PROVE  s.at = Fail /\ [s.msg EXCEPT !.valid = FALSE] \in Result
    <2> DEFINE m == [s.msg EXCEPT !.valid = FALSE]
    <2>1. s.msg \in Messages
      BY DEF Progress
    <2>2. m \in Messages /\ ~m.valid
      BY <2>1 DEF Messages
    <2> HIDE DEF m
    <2>3. m \in Result
      BY <1>8, <2>2
    <2> QED
      BY <1>8, <2>3 DEF m
  <1>9. \A s \in Progress : s \in Read => failed(s) \/ \E k : reading(k, s)
    OBVIOUS
  <1>10. \A m \in Result : m \in Messages /\ done(m)
    OBVIOUS
  <1> HIDE DEF reading, failed, Read, done, Result, start
  <1>11. [at |-> 2, msg |-> NewMessage] \in Read
    BY <1>5 DEF start
  <1>12. \A s \in Progress : s \in Read =>
           IF s.at # Fail /\ At(buffer, SkipWs(buffer, s.at), "}") THEN [s.msg EXCEPT !.valid = TRUE] \in Result
           ELSE IF s.at # Fail /\ KeyEnd(buffer, SkipWs(buffer, s.at)) # Fail THEN NextMember(buffer, s) \in Read
           ELSE [s.msg EXCEPT !.valid = FALSE] \in Result
    <2> TAKE s \in Progress
    <2> HAVE s \in Read
    <2>1. CASE failed(s)
      BY <1>8, <2>1
    <2>2. ASSUME NEW k, reading(k, s), k \in 1 .. l
          PROVE  /\ s.at # Fail /\ ~At(buffer, SkipWs(buffer, s.at), "}")
                 /\ KeyEnd(buffer, SkipWs(buffer, s.at)) # Fail
                 /\ NextMember(buffer, s) \in Read
      BY <1>7, <2>2
    <2>3. ASSUME NEW k, reading(k, s), k \notin 1 .. l
          PROVE  /\ s.at # Fail /\ At(buffer, SkipWs(buffer, s.at), "}")
                 /\ [s.msg EXCEPT !.valid = TRUE] \in Result
      BY <1>6, <2>3
    <2>4. CASE ~failed(s)
      <3>1. PICK k : reading(k, s)
        BY <1>9, <2>4
      <3>2. CASE k \in 1 .. l
        BY <2>2, <3>1, <3>2
      <3>3. CASE k \notin 1 .. l
        BY <2>3, <3>1, <3>3
      <3> QED
        BY <3>2, <3>3
    <2> QED
      BY <2>1, <2>4
  <1>13. Members(buffer, 2) \in Result
    BY <1>1, <1>11, <1>12, MembersInduction
  <1> QED
    BY <1>10, <1>13 DEF done

-----------------------------------------------------------------------------
(* What the message says is what the ledger does; and the searches.        *)

LEMMA LastOnes ==
    ASSUME NEW l, l = Len(ledger), Parents(ledger, l), NEW key
    PROVE  LastMember(key) = LastTo(key, l + 1) /\ LastOfError(key) = LastInErrorsTo(key, l + 1)
  <1>1. l \in Nat /\ DOMAIN ledger = 1 .. l
    BY DEF Parents
  <1>2. \A c, name : Named(ledger, c, name, l + 1) = {i \in Children(c) : ledger[i].key = name}
    BY <1>1 DEF Named, Children
  <1>3. LastMember(key) = LastTo(key, l + 1)
    BY <1>2 DEF LastMember, LastTo, Latest, TopMembers
  <1>4. {k \in TopMembers : ledger[k].key = "error"} = Named(ledger, 0, ErrorKey, l + 1)
    BY <1>2 DEF TopMembers, ErrorKey
  <1>5. InErrorsTo(key, l + 1) =
          UNION {{j \in Children(i) : ledger[j].key = key} :
                 i \in {k \in TopMembers : ledger[k].key = "error"}}
    BY <1>2, <1>4 DEF InErrorsTo
  <1>6. LastOfError(key) = LastInErrorsTo(key, l + 1)
    BY <1>5 DEF LastOfError, LastInErrorsTo, Latest
  <1> QED
    BY <1>3, <1>6

LEMMA FieldsAreAsWritten ==
    ASSUME NEW l, l = Len(ledger), Parents(ledger, l), NEW m, FieldsTo(l + 1, m)
    PROVE  AsWritten(m)
  <1>1. \A key : LastTo(key, l + 1) = LastMember(key) /\ LastInErrorsTo(key, l + 1) = LastOfError(key)
    BY LastOnes
  <1>2. /\ m.params = SpanOf(LastMember("params"))
        /\ m.method = ContentOf(LastMember("method"))
        /\ m.id = (IF LastMember("id") = 0 THEN <<>> ELSE <<IntOf(LastMember("id"))>>)
        /\ m.result = SpanOf(LastMember("result"))
        /\ m.code = (IF LastOfError("code") = 0 THEN 0 ELSE IntOf(LastOfError("code")))
        /\ m.message = ContentOf(LastOfError("message"))
        /\ m.request <=> LastMember("method") # 0
        /\ m.error <=> LastMember("error") # 0
        /\ m.response <=> LastMember("error") # 0 \/ LastMember("result") # 0
    BY <1>1 DEF FieldsTo, ParamsTo, MethodKey, IdKey, ParamsKey, ResultKey, ErrorKey, CodeKey, MessageKey
  <1> QED
    BY <1>2 DEF AsWritten, SpanOf, ContentOf

(* What comes of a whole text that is not too long.                        *)
LEMMA WholeIsRead ==
    ASSUME LedgerIsTrue, NestingIsTrue, LayoutIsTrue, NumbersAreTrue, Whole
    PROVE  /\ WrittenOut(buffer, ledger, Len(ledger)) /\ Nests(buffer, OpenAt(buffer))
           /\ Message \in Messages
           /\ Len(buffer) > MaxBytes => Message.code = ParseErrorCode
           /\ Message.valid => Len(buffer) <= MaxBytes /\ ParamsTo(Len(ledger) + 1, Message)
           /\ ErrorIsKnown =>
                /\ Message.valid <=> Len(buffer) <= MaxBytes /\ AllReadable
                /\ Message.valid => FieldsTo(Len(ledger) + 1, Message)
  <1>1. WrittenOut(buffer, ledger, Len(ledger)) /\ At(buffer, 1, "{")
    BY WholeIsWritten
  <1>2. Nests(buffer, OpenAt(buffer))
    BY TextNests
  <1>3. IsText(buffer)
    BY <1>1 DEF WrittenOut
  <1>4. SkipWs(buffer, 1) = 1
    <2>1. 1 \in DOMAIN buffer /\ buffer[1] \notin Spaces
      BY <1>1 DEF At, Spaces
    <2> QED
      BY <1>3, <2>1, NoSpace
  <1> DEFINE long == [NewMessage EXCEPT !.code = ParseErrorCode]
  <1>9. long \in Messages /\ ~long.valid /\ long.code = ParseErrorCode
    BY TooLong
  <1>5. Message = IF Len(buffer) > MaxBytes THEN long ELSE Members(buffer, 2)
    <2>1. Message = IF Len(buffer) > MaxBytes THEN long
                    ELSE IF ~At(buffer, 1, "{") THEN NewMessage ELSE Members(buffer, 1 + 1)
      BY <1>4 DEF Message, Parse
    <2>2. 1 + 1 = 2
      OBVIOUS
    <2> QED
      BY <1>1, <2>1, <2>2
  <1>6. Len(buffer) \in Nat /\ MaxBytes \in Nat
    BY <1>3, ReaderLimits DEF IsText
  <1>7. CASE Len(buffer) > MaxBytes
    <2>1. Message = long /\ ~(Len(buffer) <= MaxBytes)
      BY <1>5, <1>6, <1>7
    <2> HIDE DEF long
    <2> QED
      BY <1>1, <1>2, <1>9, <2>1
  <1>8. CASE ~(Len(buffer) > MaxBytes)
    <2>1. Message = Members(buffer, 2) /\ Len(buffer) <= MaxBytes
      BY <1>5, <1>6, <1>8
    <2>2. /\ Message \in Messages
          /\ Message.valid => ParamsTo(Len(ledger) + 1, Message)
          /\ ErrorIsKnown => /\ Message.valid <=> AllReadable
                             /\ Message.valid => FieldsTo(Len(ledger) + 1, Message)
      BY <1>1, <1>2, <2>1, MembersAreRead
    <2> QED
      BY <1>1, <1>2, <1>8, <2>1, <2>2
  <1> QED
    BY <1>7, <1>8

LEMMA NothingToSkip ==
    ASSUME NEW t, NEW limit \in Nat, NEW p \in Nat, p < limit, t[p] \notin Blanks
    PROVE  SkipBlanks(t, p, limit) = p
  <1> DEFINE S == {limit} \cup {q \in p .. limit - 1 : t[q] \notin Blanks}
  <1>1. S \subseteq Nat /\ p \in S /\ \A x \in S : p <= x
    OBVIOUS
  <1>2. SkipBlanks(t, p, limit) = Min(S)
    BY DEF SkipBlanks
  <1> HIDE DEF S
  <1>3. S # {}
    BY <1>1
  <1>4. Min(S) \in S /\ \A x \in S : Min(S) <= x
    BY <1>1, <1>3, MinIsLeast
  <1>5. Min(S) \in Nat /\ p <= Min(S) /\ Min(S) <= p
    BY <1>1, <1>4
  <1>6. Min(S) = p
    BY ONLY <1>5, p \in Nat
  <1> QED
    BY <1>2, <1>6

LEMMA ValueIsNotBlank ==
    ASSUME NEW t, IsText(t), NEW p \in Nat, p \in DOMAIN t, SkipWs(t, p) = p
    PROVE  t[p] \notin Blanks
  <1>1. p <= Len(t)
    BY DEF IsText
  <1>2. t[p] \in Spaces => p < SkipAll(t, p, Spaces)
    BY <1>1, SkipAllBounds
  <1>3. ~(p < p)
    OBVIOUS
  <1>4. t[p] \notin Spaces
    BY <1>2, <1>3 DEF SkipWs
  <1> QED
    BY <1>4 DEF Blanks, Spaces

(* Behind the name of a member a search comes upon its value.              *)
LEMMA ValueIsBehindName ==
    ASSUME NEW t, IsText(t), NEW e, HeadAt(t, e), ValueAt(t, e), Ended(t, e.to),
           NEW limit \in Nat, e.to < limit, NEW p, p = e.from - 4
    PROVE  /\ p \in Nat \ {0} /\ KeyAt(t, p, limit, e.key) /\ ValueBehind(t, p, limit) = e.from
           /\ Inside(t, e.from, limit, Quote) <=> At(t, e.from, Quote)
  <1> DEFINE colon == e.from - 1
  <1>1. e.from \in 6 .. Len(t) /\ Len(t) \in Nat /\ e.to \in Nat /\ e.from < e.to
    BY DEF HeadAt, ValueAt, Stretch, IsText
  <1>2. /\ p \in Nat \ {0} /\ p + 2 < limit /\ p + 3 = colon /\ colon \in Nat /\ colon < limit
        /\ colon + 1 = e.from /\ e.from < limit /\ p + 1 = e.from - 3 /\ p + 2 = e.from - 2
        /\ e.from \in 1 .. Len(t) /\ e.from \in Nat
    BY ONLY <1>1, limit \in Nat, e.to < limit, p = e.from - 4, SMTT(30)
  <1>3. t[p] = Quote /\ t[p + 1] = e.key /\ t[p + 2] = Quote
    BY <1>2 DEF HeadAt
  <1>4. t[colon] = ":"
    BY DEF HeadAt
  <1>5. ":" \notin Blanks
    BY DEF Blanks
  <1> HIDE DEF colon
  <1>6. KeyAt(t, p, limit, e.key)
    BY <1>2, <1>3 DEF KeyAt
  <1>7. SkipBlanks(t, p + 3, limit) = colon
    <2>1. t[colon] \notin Blanks
      BY <1>4, <1>5
    <2>2. SkipBlanks(t, colon, limit) = colon
      BY <1>2, <2>1, NothingToSkip
    <2> QED
      BY <1>2, <2>2
  <1>8. e.from \in DOMAIN t
    BY <1>2 DEF IsText
  <1>9. SkipWs(t, e.from) = e.from
    BY ValueIsSkipped
  <1>10. SkipBlanks(t, e.from, limit) = e.from
    BY <1>2, <1>8, <1>9, ValueIsNotBlank, NothingToSkip
  <1>11. Inside(t, colon, limit, ":")
    BY <1>2, <1>4 DEF Inside
  <1>12. SkipBlanks(t, colon + 1, limit) = e.from
    BY <1>2, <1>10
  <1>13. ValueBehind(t, p, limit) = e.from
    BY <1>7, <1>11, <1>12 DEF ValueBehind
  <1> QED
    BY <1>2, <1>6, <1>8, <1>13 DEF Inside, At

(* A search finds the value of the member at whose name it begins.         *)
LEMMA MemberIsFound ==
    ASSUME NEW t, IsText(t), NEW e, HeadAt(t, e), ValueAt(t, e), Ended(t, e.to),
           NEW from \in Nat, NEW to \in Nat, from + 4 <= e.from, e.to < to, to <= Len(t) + 1,
           t[to - 1] # Backslash, NEW places, places = KeyPlaces(t, <<from, to>>, e.key),
           Min(places) + 4 = e.from
    PROVE  /\ places # {}
           /\ ExtractValueSpan(t, <<from, to>>, e.key) = <<e.from, e.to>>
           /\ At(t, e.from, Quote) => ExtractString(t, <<from, to>>, e.key) = <<e.from + 1, e.to - 1>>
           /\ ~At(t, e.from, Quote) /\ Cardinality(places) = 1 =>
                ExtractString(t, <<from, to>>, e.key) = NoSpan
  <1> DEFINE span == <<from, to>>
             p == e.from - 4
             key == e.key
             value(q) == ValueBehind(t, q, to)
             hits == {q \in places : Inside(t, value(q), to, Quote)}
  <1>1. e.from \in 6 .. Len(t) /\ Len(t) \in Nat /\ e.to \in Nat /\ e.from < e.to
    BY DEF HeadAt, ValueAt, Stretch, IsText
  <1>2. p \in Nat /\ from <= p /\ p + 4 = e.from /\ p < to /\ e.from < to
    BY ONLY <1>1, from \in Nat, to \in Nat, from + 4 <= e.from, e.to < to
  <1>3. /\ KeyAt(t, p, to, key) /\ value(p) = e.from
        /\ Inside(t, e.from, to, Quote) <=> At(t, e.from, Quote)
    BY ValueIsBehindName
  <1>4. Limit(t, span) = to /\ span[1] = from
    BY DEF Limit
  <1>5. \A q : q \in places <=> q \in from .. to - 1 /\ KeyAt(t, q, to, key)
    BY <1>4 DEF KeyPlaces
  <1>6. p \in places /\ places \subseteq Nat /\ places \subseteq from .. to - 1
    <2>1. p \in from .. to - 1
      BY <1>2
    <2>2. from .. to - 1 \subseteq Nat
      OBVIOUS
    <2> QED
      BY <1>3, <1>5, <2>1, <2>2
  <1>7. Min(places) \in places /\ \A x \in places : Min(places) <= x
    BY <1>6, MinIsLeast
  <1>8. Min(places) = p
    <2>1. Min(places) \in Nat
      BY <1>6, <1>7
    <2> QED
      BY ONLY <2>1, <1>2, Min(places) + 4 = e.from
  <1>9. RawValueEnd(t, e.from, to) = e.to
    BY ValueIsExtracted
  <1>10. ExtractValueSpan(t, span, key) = <<e.from, e.to>>
    <2>1. ~(e.from >= to)
      BY <1>1, <1>2
    <2>2. places # {}
      BY <1>6
    <2> HIDE DEF p
    <2> QED
      BY <1>3, <1>4, <1>8, <1>9, <2>1, <2>2 DEF ExtractValueSpan
  <1>11. ExtractString(t, span, key) =
           IF hits = {} \/ ClosingQuote(t, value(Min(hits)) + 1, to) >= to THEN NoSpan
           ELSE <<value(Min(hits)) + 1, ClosingQuote(t, value(Min(hits)) + 1, to)>>
    BY <1>4 DEF ExtractString
  <1>12. ASSUME At(t, e.from, Quote) PROVE ExtractString(t, span, key) = <<e.from + 1, e.to - 1>>
    <2>1. p \in hits
      BY <1>3, <1>6, <1>12
    <2>2. hits \subseteq Nat /\ hits # {} /\ hits \subseteq places
      BY <1>6, <2>1
    <2> HIDE DEF hits
    <2>3. Min(hits) \in hits /\ \A x \in hits : Min(hits) <= x
      BY <2>2, MinIsLeast
    <2>4. Min(hits) \in Nat /\ Min(hits) <= p /\ p <= Min(hits)
      BY <1>7, <1>8, <2>1, <2>2, <2>3
    <2>5. Min(hits) = p
      BY ONLY <1>2, <2>4
    <2>6. value(Min(hits)) = e.from
      BY <1>3, <2>5
    <2>7. StringEnd(t, e.from + 1) = e.to
      BY <1>12, StringIsParsed
    <2>8. e.from + 1 \in Nat \ {0} /\ e.to <= to /\ e.to # Fail
      BY ONLY <1>1, e.to < to, to \in Nat DEF Fail
    <2>9. ClosingQuote(t, e.from + 1, to) = e.to - 1
      BY <2>7, <2>8, SearchesEndStrings
    <2>10. ~(e.to - 1 >= to)
      BY <1>1
    <2> QED
      BY <1>11, <2>2, <2>6, <2>9, <2>10
  <1>13. ASSUME ~At(t, e.from, Quote), Cardinality(places) = 1
         PROVE  ExtractString(t, span, key) = NoSpan
    <2>1. IsFiniteSet(places)
      <3>1. IsFiniteSet(from .. to - 1)
        BY FS_Interval
      <3> QED
        BY <1>6, <3>1, FS_Subset
    <2>2. PICK x : places = {x}
      BY <1>13, <2>1, FS_Singleton
    <2>3. places = {p}
      BY <1>6, <2>2
    <2>4. hits = {}
      BY <1>3, <1>13, <2>3
    <2> QED
      BY <1>11, <2>4
  <1> QED
    BY <1>6, <1>10, <1>12, <1>13

LEMMA NothingIsFound ==
    ASSUME NEW t, NEW span, NEW key, KeyPlaces(t, span, key) = {}
    PROVE  ExtractValueSpan(t, span, key) = NoSpan /\ ExtractString(t, span, key) = NoSpan
  <1>1. ExtractValueSpan(t, span, key) = NoSpan
    BY DEF ExtractValueSpan
  <1>2. {p \in KeyPlaces(t, span, key) :
           Inside(t, ValueBehind(t, p, Limit(t, span)), Limit(t, span), Quote)} = {}
    OBVIOUS
  <1>3. ExtractString(t, span, key) = NoSpan
    BY <1>2 DEF ExtractString
  <1> QED
    BY <1>1, <1>3

LEMMA SearchedKeysNamed == \A key \in SearchedKeys : key # ""
  BY DEF SearchedKeys

(* The params of a message that is read are those that were written.       *)
LEMMA ParamsAreWritten ==
    ASSUME LedgerIsTrue, NestingIsTrue, LayoutIsTrue, NumbersAreTrue, PartialMessageIsRefused,
           Message.valid, Message.params # NoSpan, NEW n, n = LastMember("params")
    PROVE  /\ Message.params = Span(n) /\ WrittenOut(buffer, ledger, Len(ledger))
           /\ n \in 1 .. Len(ledger) /\ ledger[n].parent = 0
  <1> DEFINE l == Len(ledger)
             S == Named(ledger, 0, ParamsKey, l + 1)
  <1>1. Whole
    BY DEF PartialMessageIsRefused
  <1>2. WrittenOut(buffer, ledger, l) /\ ParamsTo(l + 1, Message)
    BY <1>1, WholeIsRead
  <1>3. Parents(ledger, l) /\ l \in Nat /\ DOMAIN ledger = 1 .. l
    BY <1>2 DEF WrittenOut, Parents
  <1>4. n = LastTo(ParamsKey, l + 1)
    BY <1>3, LastOnes DEF ParamsKey
  <1>5. Message.params = SpanOf(n)
    BY <1>2, <1>4 DEF ParamsTo
  <1>6. n # 0
    BY <1>5 DEF SpanOf
  <1>7. n = Latest(S) /\ S \subseteq 1 .. l /\ \A i \in S : ledger[i].parent = 0
    BY <1>3, <1>4 DEF LastTo, Named
  <1> HIDE DEF S
  <1>8. n \in S
    BY <1>3, <1>6, <1>7, LatestIs
  <1> QED
    BY <1>2, <1>5, <1>6, <1>7, <1>8 DEF SpanOf

----------------------------------------------------------------------------------
(* What was written, whole, is read back as it was written, and refused    *)
(* just for the reasons named: the reader agrees with the writer on every  *)
(* member, and takes the last of several of one name.                      *)
THEOREM MessagesAreReadBack == Spec => []MessageRoundTrip
  <1>1. ASSUME LedgerIsTrue, NestingIsTrue, LayoutIsTrue, NumbersAreTrue PROVE MessageRoundTrip
    <2>1. ASSUME Whole, ErrorIsKnown
          PROVE  /\ Message.valid <=> Len(buffer) <= MaxBytes /\ \A i \in TopMembers : Readable(i)
                 /\ Message.valid => AsWritten(Message)
                 /\ Len(buffer) > MaxBytes => Message.code = ParseErrorCode
      <3>1. /\ WrittenOut(buffer, ledger, Len(ledger))
            /\ Message.valid <=> Len(buffer) <= MaxBytes /\ AllReadable
            /\ Message.valid => FieldsTo(Len(ledger) + 1, Message)
            /\ Len(buffer) > MaxBytes => Message.code = ParseErrorCode
        BY <1>1, <2>1, WholeIsRead
      <3>2. Message.valid => AsWritten(Message)
        BY <3>1, FieldsAreAsWritten DEF WrittenOut
      <3> QED
        BY <3>1, <3>2 DEF AllReadable
    <2> QED
      BY <2>1 DEF MessageRoundTrip
  <1> QED
    BY <1>1, LedgerStaysTrue, NestingStaysTrue, LayoutStaysTrue, NumbersStayTrue, PTL

(* A search finds the value of a member of the params, to its last byte,   *)
(* where it first comes upon the name of that member.                      *)
THEOREM MembersAreAlwaysFound == Spec => []MembersAreFound
  <1>1. ASSUME LedgerIsTrue, NestingIsTrue, LayoutIsTrue, NumbersAreTrue, PartialMessageIsRefused
        PROVE  MembersAreFound
    <2> DEFINE span == Message.params
               places(key) == KeyPlaces(buffer, span, key)
               found(key) == ExtractValueSpan(buffer, span, key)
               string(key) == ExtractString(buffer, span, key)
               n == LastMember("params")
               l == Len(ledger)
               from == ledger[n].from
               to == ledger[n].to
    <2>1. ASSUME Message.valid, span # NoSpan, NEW key \in SearchedKeys, NEW i \in Children(n),
                 ledger[i].key = key, Min(places(key)) + 4 = ledger[i].from
          PROVE  /\ found(key) = Span(i)
                 /\ At(buffer, ledger[i].from, Quote) => string(key) = Content(i)
                 /\ ~At(buffer, ledger[i].from, Quote) /\ Cardinality(places(key)) = 1 => string(key) = NoSpan
      <3>1. span = Span(n) /\ WrittenOut(buffer, ledger, l) /\ n \in 1 .. l /\ ledger[n].parent = 0
        BY <1>1, <2>1, ParamsAreWritten
      <3> HIDE DEF n
      <3>2. /\ IsText(buffer) /\ Parents(ledger, l) /\ Tree(<<>>, ledger) /\ DOMAIN ledger = 1 .. l /\ l \in Nat
            /\ 0 \in 0 .. l /\ n \in 0 .. l /\ n # 0 /\ IsObject(ledger, 0)
        BY <3>1 DEF WrittenOut, Parents, IsObject
      <3>3. i \in 1 .. l /\ ledger[i].parent = n
        BY <2>1, <3>2 DEF Children
      <3>4. IsMember(ledger[i]) /\ IsObject(ledger, n)
        <4>1. Fits(ledger, ledger[i])
          BY <3>2, <3>3 DEF Tree
        <4> QED
          BY <2>1, <3>3, <4>1, SearchedKeysNamed DEF Fits, IsMember
      <3>5. from \in Nat /\ to \in Nat /\ to >= 2 /\ to <= Len(buffer) + 1 /\ Len(buffer) \in Nat
        <4>1. from \in 6 .. Len(buffer) /\ to \in Nat /\ from < to /\ to <= Len(buffer) + 1
          BY <3>1, <3>2, ChildIsMember
        <4>2. Len(buffer) \in Nat
          BY <3>2 DEF IsText
        <4> HIDE DEF from, to
        <4> QED
          BY ONLY <4>1, <4>2
      <3>6. /\ ValueAt(buffer, ledger[i]) /\ HeadAt(buffer, ledger[i])
            /\ ledger[i].from \in Nat
        BY <3>1, <3>3, <3>4, ChildIsMember
      <3>7. Ended(buffer, ledger[i].to)
        BY <3>1, <3>2, <3>3, <3>4, NextPlace
      <3>8. from + 4 < ledger[i].from /\ ledger[i].to < to
        BY <3>1, <3>2, <3>3, <3>4 DEF WrittenOut
      <3>9. from + 4 <= ledger[i].from
        BY <3>5, <3>6, <3>8
      <3>10. buffer[to - 1] # Backslash
        <4>1. BraceAt(buffer, EndOf(buffer, ledger, n))
          BY <3>1, <3>2, <3>4 DEF WrittenOut
        <4>2. EndOf(buffer, ledger, n) = to - 1
          BY <3>2 DEF EndOf
        <4> QED
          BY <4>1, <4>2 DEF BraceAt, At, Backslash
      <3>11. span = <<from, to>>
        BY <3>1 DEF Span
      <3> HIDE DEF from, to, span
      <3>13. places(key) = KeyPlaces(buffer, <<from, to>>, ledger[i].key)
        BY <2>1, <3>11
      <3>14. Min(places(key)) + 4 = ledger[i].from
        BY <2>1
      <3> HIDE DEF places
      <3> DEFINE e == ledger[i]
                 all == places(key)
      <3>15. /\ IsText(buffer) /\ HeadAt(buffer, e) /\ ValueAt(buffer, e) /\ Ended(buffer, e.to)
             /\ from \in Nat /\ to \in Nat /\ from + 4 <= e.from /\ e.to < to /\ to <= Len(buffer) + 1
             /\ buffer[to - 1] # Backslash /\ all = KeyPlaces(buffer, <<from, to>>, e.key)
             /\ Min(all) + 4 = e.from
        BY <3>2, <3>5, <3>6, <3>7, <3>8, <3>9, <3>10, <3>13, <3>14
      <3> HIDE DEF e, all
      <3>12. /\ ExtractValueSpan(buffer, <<from, to>>, e.key) = <<e.from, e.to>>
             /\ At(buffer, e.from, Quote) => ExtractString(buffer, <<from, to>>, e.key) = <<e.from + 1, e.to - 1>>
             /\ ~At(buffer, e.from, Quote) /\ Cardinality(all) = 1 =>
                  ExtractString(buffer, <<from, to>>, e.key) = NoSpan
        BY ONLY <3>15, MemberIsFound
      <3>16. e.key = key
        BY <2>1 DEF e
      <3> QED
        BY <3>11, <3>12, <3>16 DEF Span, Content, e, all
    <2>2. ASSUME NEW key \in SearchedKeys, places(key) = {}
          PROVE  found(key) = NoSpan /\ string(key) = NoSpan
      BY <2>2, NothingIsFound
    <2>3. \A key : (IF key = "auth_token" THEN ExtractAuthToken(buffer, Message)
                    ELSE ExtractString(buffer, span, key)) = string(key)
      BY DEF ExtractAuthToken
    <2> HIDE DEF places, found, string, n
    <2> QED
      BY <2>1, <2>2, <2>3 DEF MembersAreFound, places, found, string, n
  <1> QED
    BY <1>1, LedgerStaysTrue, NestingStaysTrue, LayoutStaysTrue, NumbersStayTrue, PartialMessagesAreRefused, PTL

==================================================================================
