---------------------------- MODULE ReadingProofs ----------------------------
(***************************************************************************)
(* What the witnesses read, for every conversation: proofs about Reading   *)
(* and the operators of Witness.  The loops of the code are folds; each    *)
(* gets a lemma (...Runs) that lists the values it goes through, and what  *)
(* a loop computes is then an induction over those values.                 *)
(***************************************************************************)
EXTENDS Reading, FiniteSetTheorems, SequenceTheorems, TLAPS

-----------------------------------------------------------------------------
(***************************************************************************)
(* Folds.  tlapm takes no induction principle that has an operator for a   *)
(* parameter; this one speaks of a set of numbers, and comes from strict   *)
(* inclusion being well founded on finite sets.                            *)
(***************************************************************************)

LEMMA InductionOnSet ==
    ASSUME NEW S, 0 \in S, \A n \in Nat : n \in S => n + 1 \in S
    PROVE  \A n \in Nat : n \in S
<1> SUFFICES ASSUME NEW k \in Nat, k \notin S PROVE FALSE
  OBVIOUS
<1> DEFINE T == {1 .. n : n \in Nat \ S}
<1>1. T \subseteq FiniteSubsetsOf(Nat) /\ T # {}
  <2>1. ASSUME NEW n \in Nat PROVE 1 .. n \in SUBSET Nat /\ IsFiniteSet(1 .. n)
    BY FS_Interval
  <2> QED
    BY <2>1 DEF FiniteSubsetsOf
<1>2. PICK x \in T : \A y \in T : <<y, x>> \notin StrictSubsetOrdering(Nat)
  BY <1>1, FS_StrictSubsetOrderingWellFounded, WFMin, Zenon
<1>3. PICK n \in Nat \ S : x = 1 .. n
  OBVIOUS
<1>4. n # 0 /\ n - 1 \in Nat /\ (n - 1) + 1 = n
  OBVIOUS
<1>5. n - 1 \notin S
  BY <1>4
<1>6. 1 .. (n - 1) \in T
  BY <1>4, <1>5
<1>7. <<1 .. (n - 1), x>> \in StrictSubsetOrdering(Nat)
  <2>1. n \in 1 .. n /\ n \notin 1 .. (n - 1) /\ 1 .. (n - 1) \subseteq 1 .. n
    BY <1>4
  <2>2. 1 .. (n - 1) \in SUBSET Nat /\ 1 .. n \in SUBSET Nat
    BY <1>4
  <2> QED
    BY <1>3, <2>1, <2>2 DEF StrictSubsetOrdering
<1> QED
  BY <1>2, <1>6, <1>7

\* A set of positions has a greatest one.
LEMMA MaxOfPositions ==
    ASSUME NEW n \in Nat, NEW u \in SUBSET (1 .. n), u # {}
    PROVE  Max(u) \in u /\ \A y \in u : Max(u) >= y
<1> DEFINE HasMax(k) == \A w \in SUBSET (1 .. k) :
                           w # {} => \E m \in w : \A y \in w : m >= y
           S == {k \in Nat : HasMax(k)}
<1>1. HasMax(0)
  <2>1. 1 .. 0 = {}
    OBVIOUS
  <2> QED
    BY <2>1
<1>2. ASSUME NEW k \in Nat, HasMax(k) PROVE HasMax(k + 1)
  <2> SUFFICES ASSUME NEW w \in SUBSET (1 .. (k + 1)), w # {}
               PROVE  \E m \in w : \A y \in w : m >= y
    OBVIOUS
  <2>1. CASE k + 1 \in w
    <3>1. \A y \in w : k + 1 >= y
      OBVIOUS
    <3> QED
      BY <2>1, <3>1
  <2>2. CASE k + 1 \notin w
    <3>1. w \in SUBSET (1 .. k)
      BY <2>2
    <3> QED
      BY <1>2, <3>1
  <2> QED
    BY <2>1, <2>2
<1> HIDE DEF HasMax
<1>3. 0 \in S /\ \A k \in Nat : k \in S => k + 1 \in S
  BY <1>1, <1>2
<1>4. n \in S
  <2> HIDE DEF S
  <2> QED
    BY <1>3, InductionOnSet
<1>5. \E m \in u : \A y \in u : m >= y
  BY <1>4 DEF HasMax
<1> QED
  BY <1>5 DEF Max

LEMMA LastPosition ==
    ASSUME NEW k \in Nat
    PROVE  Max(1 .. (k + 1)) = k + 1 /\ (1 .. (k + 1)) \ {k + 1} = 1 .. k
<1>1. k + 1 \in Nat /\ 1 .. (k + 1) # {} /\ k + 1 \in 1 .. (k + 1)
  OBVIOUS
<1>2. Max(1 .. (k + 1)) \in 1 .. (k + 1) /\ Max(1 .. (k + 1)) >= k + 1
  BY <1>1, MaxOfPositions
<1>3. Max(1 .. (k + 1)) = k + 1
  BY <1>1, <1>2
<1> QED
  BY <1>3

\* What a fold over the positions 1 .. n is defined by, and that it has a solution.
FoldTable(f, n, base, op) ==
    \A u \in SUBSET (1 .. n) :
       f[u] = IF u = {} THEN base ELSE op[<<f[u \ {Max(u)}], Max(u)>>]

LEMMA FoldExists ==
    ASSUME NEW n \in Nat, NEW X, NEW base \in X, NEW op \in [X \X (1 .. n) -> X]
    PROVE  \E f \in [SUBSET (1 .. n) -> X] :
              FoldTable(f, n, base, op)
<1> DEFINE Upto(k) == \E f \in [SUBSET (1 .. k) -> X] : FoldTable(f, k, base, op)
           S == {k \in Nat : k <= n => Upto(k)}
<1>1. Upto(0)
  <2>1. PICK f : f = [u \in SUBSET (1 .. 0) |-> base]
    OBVIOUS
  <2>2. \A u \in SUBSET (1 .. 0) : u = {} /\ f[u] = base
    <3>1. 1 .. 0 = {}
      OBVIOUS
    <3> QED
      BY <2>1, <3>1
  <2>3. f \in [SUBSET (1 .. 0) -> X]
    BY <2>1
  <2> QED
    BY <2>2, <2>3 DEF FoldTable
<1>2. ASSUME NEW k \in Nat, k + 1 <= n, Upto(k) PROVE Upto(k + 1)
  <2>1. PICK f \in [SUBSET (1 .. k) -> X] :
           FoldTable(f, k, base, op)
    BY <1>2
  <2>2. PICK g : g = [u \in SUBSET (1 .. (k + 1)) |->
                        IF k + 1 \in u THEN op[<<f[u \ {k + 1}], k + 1>>] ELSE f[u]]
    OBVIOUS
  <2>3. ASSUME NEW u \in SUBSET (1 .. (k + 1))
        PROVE  /\ g[u] \in X
               /\ g[u] = IF u = {} THEN base ELSE op[<<g[u \ {Max(u)}], Max(u)>>]
    <3>1. CASE k + 1 \in u
      <4>1. Max(u) = k + 1
        <5>0. u # {} /\ k + 1 \in Nat /\ u \in SUBSET (1 .. (k + 1))
          BY <3>1
        <5>1. Max(u) \in u /\ \A y \in u : Max(u) >= y
          BY <5>0, MaxOfPositions
        <5>2. Max(u) \in 1 .. (k + 1)
          BY <5>1
        <5> QED
          BY <3>1, <5>1, <5>2
      <4>2. u \ {k + 1} \in SUBSET (1 .. k) /\ u \ {k + 1} \in SUBSET (1 .. (k + 1))
        OBVIOUS
      <4>3. g[u \ {k + 1}] = f[u \ {k + 1}] /\ f[u \ {k + 1}] \in X
        BY <2>2, <4>2
      <4>4. g[u] = op[<<f[u \ {k + 1}], k + 1>>] /\ u # {}
        BY <2>2, <3>1
      <4>5. <<f[u \ {k + 1}], k + 1>> \in X \X (1 .. n)
        <5>1. k + 1 \in 1 .. n
          BY <1>2
        <5> QED
          BY <4>3, <5>1
      <4>6. g[u] \in X
        BY <4>4, <4>5
      <4> QED
        BY <4>1, <4>3, <4>4, <4>6
    <3>2. CASE k + 1 \notin u
      <4>1. u \in SUBSET (1 .. k) /\ g[u] = f[u]
        BY <2>2, <3>2
      <4>2. CASE u = {}
        BY <2>1, <4>1, <4>2 DEF FoldTable
      <4>3. CASE u # {}
        <5>1. u \ {Max(u)} \in SUBSET (1 .. k) /\ k + 1 \notin u \ {Max(u)}
          BY <4>1, <3>2
        <5>2. g[u \ {Max(u)}] = f[u \ {Max(u)}]
          BY <2>2, <5>1
        <5> QED
          BY <2>1, <4>1, <4>3, <5>2 DEF FoldTable
      <4> QED
        BY <4>2, <4>3
    <3> QED
      BY <3>1, <3>2
  <2>4. g \in [SUBSET (1 .. (k + 1)) -> X]
    BY <2>2, <2>3
  <2> QED
    BY <2>3, <2>4 DEF FoldTable
<1> HIDE DEF Upto
<1>3. 0 \in S /\ \A k \in Nat : k \in S => k + 1 \in S
  BY <1>1, <1>2
<1>4. n \in S
  <2> HIDE DEF S
  <2> QED
    BY <1>3, InductionOnSet
<1>5. Upto(n)
  BY <1>4
<1> QED
  BY <1>5 DEF Upto

-----------------------------------------------------------------------------
(* Flattening one more.                                                    *)

\* What FlattenSeq is defined by, on the first n of the sequences.
FlatTable(f, ss, n) ==
    \A i \in 1 .. n : f[i] = IF i = 1 THEN ss[i] ELSE f[i - 1] \o ss[i]

LEMMA FlatExists ==
    ASSUME NEW S, NEW ss \in Seq(Seq(S))
    PROVE  \E f \in [1 .. Len(ss) -> Seq(S)] : FlatTable(f, ss, Len(ss))
<1>0. Len(ss) \in Nat /\ \A i \in 1 .. Len(ss) : ss[i] \in Seq(S)
  BY LenProperties, ElementOfSeq
<1> DEFINE Upto(k) == \E f \in [1 .. k -> Seq(S)] : FlatTable(f, ss, k)
           N == {k \in Nat : k <= Len(ss) => Upto(k)}
<1>1. Upto(0)
  <2>1. PICK f : f = [i \in 1 .. 0 |-> << >>]
    OBVIOUS
  <2>2. f \in [1 .. 0 -> Seq(S)] /\ \A i \in 1 .. 0 : FALSE
    BY <2>1
  <2> QED
    BY <2>2 DEF FlatTable
<1>2. ASSUME NEW k \in Nat, k + 1 <= Len(ss), Upto(k) PROVE Upto(k + 1)
  <2>1. PICK f \in [1 .. k -> Seq(S)] : FlatTable(f, ss, k)
    BY <1>2
  <2>2. PICK last : last = IF k = 0 THEN ss[1] ELSE f[k] \o ss[k + 1]
    OBVIOUS
  <2>3. last \in Seq(S)
    <3>1. k + 1 \in 1 .. Len(ss)
      BY <1>0, <1>2
    <3>2. ss[k + 1] \in Seq(S) /\ (k # 0 => f[k] \in Seq(S))
      BY <1>0, <3>1
    <3> QED
      BY <2>2, <3>2, ConcatProperties
  <2>4. PICK g : g = [i \in 1 .. (k + 1) |-> IF i = k + 1 THEN last ELSE f[i]]
    OBVIOUS
  <2>5. g \in [1 .. (k + 1) -> Seq(S)]
    <3>1. \A i \in 1 .. (k + 1) : i # k + 1 => i \in 1 .. k
      OBVIOUS
    <3> QED
      BY <2>3, <2>4, <3>1
  <2>6. ASSUME NEW i \in 1 .. (k + 1)
        PROVE  g[i] = IF i = 1 THEN ss[i] ELSE g[i - 1] \o ss[i]
    <3>1. CASE i = k + 1
      <4>1. g[i] = last
        BY <2>4, <3>1
      <4>2. ASSUME k # 0 PROVE g[i - 1] = f[k]
        BY <2>4, <3>1, <4>2
      <4> QED
        BY <2>2, <3>1, <4>1, <4>2
    <3>2. CASE i # k + 1
      <4>1. i \in 1 .. k /\ (i # 1 => i - 1 \in 1 .. k /\ i - 1 # k + 1)
        BY <3>2
      <4>2. g[i] = f[i] /\ (i # 1 => g[i - 1] = f[i - 1])
        BY <2>4, <4>1
      <4> QED
        BY <2>1, <4>1, <4>2 DEF FlatTable
    <3> QED
      BY <3>1, <3>2
  <2> QED
    BY <2>5, <2>6 DEF FlatTable
<1> HIDE DEF Upto
<1>3. 0 \in N /\ \A k \in Nat : k \in N => k + 1 \in N
  BY <1>1, <1>2
<1>4. Len(ss) \in N
  <2> HIDE DEF N
  <2> QED
    BY <1>0, <1>3, InductionOnSet
<1>5. Upto(Len(ss))
  BY <1>0, <1>4
<1> QED
  BY <1>5 DEF Upto

LEMMA FlattenIsLast ==
    ASSUME NEW S, NEW ss \in Seq(Seq(S)), ss # << >>
    PROVE  \E f : FlatTable(f, ss, Len(ss)) /\ FlattenSeq(ss) = f[Len(ss)]
<1>0. Len(ss) # 0 /\ Len(ss) \in Nat
  BY EmptySeq, LenProperties
<1> DEFINE D == CHOOSE f : f = [i \in 1 .. Len(ss) |->
                                  IF i = 1 THEN ss[i] ELSE f[i - 1] \o ss[i]]
<1>1. FlattenSeq(ss) = D[Len(ss)]
  BY <1>0 DEF FlattenSeq
<1>2. D = [i \in 1 .. Len(ss) |-> IF i = 1 THEN ss[i] ELSE D[i - 1] \o ss[i]]
  <2>1. PICK f \in [1 .. Len(ss) -> Seq(S)] : FlatTable(f, ss, Len(ss))
    BY FlatExists
  <2>2. f = [i \in 1 .. Len(ss) |-> IF i = 1 THEN ss[i] ELSE f[i - 1] \o ss[i]]
    BY <2>1 DEF FlatTable
  <2> QED
    BY <2>2
<1> HIDE DEF D
<1>3. FlatTable(D, ss, Len(ss))
  BY <1>2 DEF FlatTable
<1> QED
  BY <1>1, <1>3

LEMMA FlatUnique ==
    ASSUME NEW S, NEW ss, NEW n \in Nat, \A i \in 1 .. n : ss[i] \in Seq(S),
           NEW f, FlatTable(f, ss, n), NEW g, FlatTable(g, ss, n)
    PROVE  \A i \in 1 .. n : f[i] = g[i] /\ f[i] \in Seq(S)
<1> DEFINE Same(i) == f[i] = g[i] /\ f[i] \in Seq(S)
           N == {k \in Nat : k + 1 <= n => Same(k + 1)}
<1>1. ASSUME 1 <= n PROVE Same(1)
  BY <1>1 DEF FlatTable
<1>2. ASSUME NEW k \in Nat, k + 1 + 1 <= n, Same(k + 1) PROVE Same(k + 1 + 1)
  <2>1. k + 2 \in 1 .. n /\ k + 1 + 1 = k + 2 /\ k + 2 - 1 = k + 1 /\ k + 2 # 1
    BY <1>2
  <2>2. f[k + 2] = f[k + 1] \o ss[k + 2] /\ g[k + 2] = g[k + 1] \o ss[k + 2]
    <3>1. PICK i : i = k + 2
      OBVIOUS
    <3>2. i \in 1 .. n /\ i # 1 /\ i - 1 = k + 1
      BY <2>1, <3>1
    <3>3. f[i] = f[i - 1] \o ss[i] /\ g[i] = g[i - 1] \o ss[i]
      BY <3>2 DEF FlatTable
    <3> QED
      BY <3>1, <3>2, <3>3
  <2>3. f[k + 1] \o ss[k + 2] \in Seq(S)
    BY <1>2, <2>1, ConcatProperties
  <2> QED
    BY <1>2, <2>1, <2>2, <2>3
<1> HIDE DEF Same
<1>3. 0 \in N /\ \A k \in Nat : k \in N => k + 1 \in N
  BY <1>1, <1>2
<1>4. \A k \in Nat : k \in N
  <2> HIDE DEF N
  <2> QED
    BY <1>3, InductionOnSet
<1>5. ASSUME NEW i \in 1 .. n PROVE Same(i)
  <2>1. i - 1 \in Nat /\ (i - 1) + 1 = i /\ i <= n
    OBVIOUS
  <2>2. i - 1 \in N
    BY <1>4, <2>1
  <2> QED
    BY <2>1, <2>2
<1> QED
  BY <1>5 DEF Same

LEMMA FlattenEmpty == FlattenSeq(<< >>) = << >>
BY DEF FlattenSeq

LEMMA FlattenSnoc ==
    ASSUME NEW S, NEW ss \in Seq(Seq(S)), NEW s \in Seq(S)
    PROVE  /\ FlattenSeq(ss) \in Seq(S)
           /\ FlattenSeq(Append(ss, s)) = FlattenSeq(ss) \o s
<1>0. Len(ss) \in Nat /\ \A i \in 1 .. Len(ss) : ss[i] \in Seq(S)
  BY LenProperties, ElementOfSeq
<1>1. PICK r : r = Append(ss, s)
  OBVIOUS
<1>2. /\ r \in Seq(Seq(S)) /\ r # << >> /\ Len(r) = Len(ss) + 1
      /\ \A i \in 1 .. Len(ss) : r[i] = ss[i]
      /\ r[Len(ss) + 1] = s
  BY <1>1, AppendProperties
<1>3. PICK g : FlatTable(g, r, Len(r)) /\ FlattenSeq(r) = g[Len(r)]
  BY <1>2, FlattenIsLast
<1>4. CASE ss = << >>
  <2>1. Len(ss) = 0 /\ FlattenSeq(ss) = << >>
    BY <1>4, EmptySeq, FlattenEmpty
  <2>2. g[1] = s
    BY <1>2, <1>3, <2>1 DEF FlatTable
  <2> QED
    <3>1. FlattenSeq(r) = s
      BY <1>2, <1>3, <2>1, <2>2
    <3>2. << >> \o s = s /\ << >> \in Seq(S)
      BY ConcatEmptySeq
    <3> QED
      BY <1>1, <2>1, <3>1, <3>2
<1>5. CASE ss # << >>
  <2>1. PICK f : FlatTable(f, ss, Len(ss)) /\ FlattenSeq(ss) = f[Len(ss)]
    BY <1>5, FlattenIsLast
  <2>2. FlatTable(g, ss, Len(ss))
    BY <1>0, <1>2, <1>3 DEF FlatTable
  <2>3. \A i \in 1 .. Len(ss) : f[i] = g[i] /\ f[i] \in Seq(S)
    BY <1>0, <2>1, <2>2, FlatUnique
  <2>4. Len(ss) \in 1 .. Len(ss) /\ Len(r) \in 1 .. Len(r) /\ Len(r) # 1 /\ Len(r) - 1 = Len(ss)
    BY <1>0, <1>2, <1>5, EmptySeq
  <2>5. g[Len(r)] = g[Len(ss)] \o s
    BY <1>2, <1>3, <2>4 DEF FlatTable
  <2> QED
    BY <1>1, <1>3, <2>1, <2>3, <2>4, <2>5
<1> QED
  BY <1>4, <1>5

\* D is a fold of op over 1 .. n, as long as its values stay in X.
FoldsTo(D, n, base, op, X) ==
    /\ D[{}] = base
    /\ \A w \in SUBSET (1 .. n) :
          w # {} /\ D[w \ {Max(w)}] \in X => D[w] = op[<<D[w \ {Max(w)}], Max(w)>>]

\* Its values, from the first to the last.
RunOf(g, n, base, op, X) ==
    /\ g[0] = base /\ \A k \in 0 .. n : g[k] \in X
    /\ \A k \in 0 .. (n - 1) : g[k + 1] = op[<<g[k], k + 1>>]

HasRun(D, n, base, op, X) == \E g : RunOf(g, n, base, op, X) /\ D[1 .. n] = g[n]

LEMMA FoldRuns ==
    ASSUME NEW n \in Nat, NEW X, NEW base \in X, NEW op \in [X \X (1 .. n) -> X],
           NEW D, FoldsTo(D, n, base, op, X)
    PROVE  HasRun(D, n, base, op, X)
<1> DEFINE Typed(k) == D[1 .. k] \in X
           S == {k \in Nat : k <= n => Typed(k)}
<1>1. D[1 .. 0] = base
  <2>1. 1 .. 0 = {}
    OBVIOUS
  <2> QED
    BY <2>1 DEF FoldsTo
<1>2. ASSUME NEW k \in Nat, k + 1 <= n, D[1 .. k] \in X
      PROVE  D[1 .. (k + 1)] = op[<<D[1 .. k], k + 1>>] /\ D[1 .. (k + 1)] \in X
  <2>1. 1 .. (k + 1) \in SUBSET (1 .. n) /\ k + 1 \in 1 .. (k + 1) /\ k + 1 \in 1 .. n
    BY <1>2
  <2>2. PICK w : w = 1 .. (k + 1)
    OBVIOUS
  <2>3. w \in SUBSET (1 .. n) /\ w # {} /\ Max(w) = k + 1 /\ w \ {k + 1} = 1 .. k
    BY <2>1, <2>2, LastPosition
  <2>4. D[w] = op[<<D[1 .. k], k + 1>>]
    BY <1>2, <2>3 DEF FoldsTo
  <2>5. <<D[1 .. k], k + 1>> \in X \X (1 .. n)
    BY <1>2, <2>1
  <2> QED
    BY <2>2, <2>4, <2>5
<1>3. Typed(0) /\ \A k \in Nat : k + 1 <= n /\ Typed(k) => Typed(k + 1)
  BY <1>1, <1>2
<1> HIDE DEF Typed
<1>a. 0 \in S /\ \A k \in Nat : k \in S => k + 1 \in S
  BY <1>3
<1>4. \A k \in Nat : k \in S
  <2> HIDE DEF S
  <2> QED
    BY <1>a, InductionOnSet
<1> USE DEF Typed
<1>5. PICK g : g = [k \in 0 .. n |-> D[1 .. k]]
  OBVIOUS
<1>6. \A k \in 0 .. n : g[k] = D[1 .. k] /\ g[k] \in X
  BY <1>4, <1>5
<1>7. ASSUME NEW k \in 0 .. (n - 1) PROVE g[k + 1] = op[<<g[k], k + 1>>]
  <2>1. k \in Nat /\ k + 1 <= n /\ k \in 0 .. n /\ k + 1 \in 0 .. n
    OBVIOUS
  <2>2. D[1 .. k] \in X /\ g[k] = D[1 .. k] /\ g[k + 1] = D[1 .. (k + 1)]
    BY <1>6, <2>1
  <2> QED
    BY <1>2, <2>1, <2>2
<1>8. 0 \in 0 .. n /\ n \in 0 .. n
  OBVIOUS
<1> QED
  BY <1>1, <1>6, <1>7, <1>8 DEF RunOf, HasRun

\* The step of each loop of the offline witness.
Scanned(u, out, i) ==
    IF Plausible(u.numbers[i]) THEN Append(out, u.numbers[i].minor) ELSE out

Met(t, names, i) ==
    IF t[i].speaker = NoSpeaker \/ Contains(names, t[i].speaker)
    THEN names ELSE Append(names, t[i].speaker)

\* The prices of an utterance, number by number.
LEMMA ScanRuns ==
    ASSUME NEW u \in Phrases
    PROVE  \E g : /\ g[0] = << >> /\ \A k \in 0 .. Len(u.numbers) : g[k] \in Seq(Int)
                  /\ \A k \in 0 .. (Len(u.numbers) - 1) :
                        g[k + 1] = Scanned(u, g[k], k + 1)
                  /\ ScanAmounts(u) = g[Len(u.numbers)]
<1>n. PICK n \in Nat : n = Len(u.numbers) /\ DOMAIN u.numbers = 1 .. n
  BY LenProperties DEF Phrases
<1> DEFINE D == CHOOSE f : f = [w \in SUBSET (1 .. n) |->
                                  IF w = {} THEN << >>
                                  ELSE Scanned(u, f[w \ {Max(w)}], Max(w))]
<1>1. ScanAmounts(u) = D[1 .. n]
  BY <1>n DEF ScanAmounts, FoldLeft, MapThenFoldSet, Scanned
<1> HIDE DEF D
<1>x. PICK X : X = Seq(Int)
  OBVIOUS
<1>2. << >> \in X /\ \A r \in X, i \in 1 .. n : Scanned(u, r, i) \in X
  <2>1. \A i \in 1 .. n : u.numbers[i].minor \in Int
    <3>1. PICK Z : Z = [minor : Int, digits : Nat, dollar : BOOLEAN]
      OBVIOUS
    <3>2. u.numbers \in Seq(Z)
      BY <3>1 DEF Phrases
    <3>3. \A i \in 1 .. n : u.numbers[i] \in Z
      BY <1>n, <3>2, ElementOfSeq
    <3> QED
      BY <3>1, <3>3
  <2>2. << >> \in X
    BY <1>x, EmptySeq
  <2>3. \A r \in X, i \in 1 .. n : Append(r, u.numbers[i].minor) \in X
    BY <1>x, <2>1, AppendProperties
  <2> QED
    BY <2>2, <2>3 DEF Scanned
<1>3. PICK op : op = [a \in X \X (1 .. n) |-> Scanned(u, a[1], a[2])]
  OBVIOUS
<1>4. /\ op \in [X \X (1 .. n) -> X]
      /\ \A r \in X, i \in 1 .. n : op[<<r, i>>] = Scanned(u, r, i)
  BY <1>2, <1>3
<1>5. PICK f \in [SUBSET (1 .. n) -> X] : FoldTable(f, n, << >>, op)
  BY <1>2, <1>4, FoldExists, Zenon
<1>6. ASSUME NEW w \in SUBSET (1 .. n)
      PROVE  f[w] = IF w = {} THEN << >>
                    ELSE Scanned(u, f[w \ {Max(w)}], Max(w))
  <2>1. CASE w = {}
    BY <1>5, <2>1 DEF FoldTable
  <2>2. CASE w # {}
    <3>1. PICK m : m = Max(w)
      OBVIOUS
    <3>2. m \in 1 .. n /\ w \ {m} \in SUBSET (1 .. n)
      BY <2>2, <3>1, MaxOfPositions
    <3>3. PICK r \in X : r = f[w \ {m}]
      BY <1>5, <3>2
    <3>4. f[w] = op[<<r, m>>]
      BY <1>5, <2>2, <3>1, <3>3 DEF FoldTable
    <3> QED
      BY <1>4, <2>2, <3>1, <3>2, <3>3, <3>4
  <2> QED
    BY <2>1, <2>2
<1>7. D = [w \in SUBSET (1 .. n) |->
             IF w = {} THEN << >>
             ELSE Scanned(u, D[w \ {Max(w)}], Max(w))]
  <2>1. f = [w \in SUBSET (1 .. n) |->
               IF w = {} THEN << >>
               ELSE Scanned(u, f[w \ {Max(w)}], Max(w))]
    BY <1>5, <1>6
  <2> QED
    BY <2>1 DEF D
<1>8. FoldsTo(D, n, << >>, op, X)
  <2>1. D[{}] = << >>
    BY <1>7
  <2>2. ASSUME NEW w \in SUBSET (1 .. n), w # {}, D[w \ {Max(w)}] \in X
        PROVE  D[w] = op[<<D[w \ {Max(w)}], Max(w)>>]
    <3>1. PICK m : m = Max(w)
      OBVIOUS
    <3>2. m \in 1 .. n
      BY <2>2, <3>1, MaxOfPositions
    <3>3. PICK r \in X : r = D[w \ {m}]
      BY <2>2, <3>1
    <3>4. D[w] = Scanned(u, r, m)
      BY <1>7, <2>2, <3>1, <3>3
    <3> QED
      BY <1>4, <3>1, <3>2, <3>3, <3>4
  <2> QED
    BY <2>1, <2>2 DEF FoldsTo
<1>9. PICK g : RunOf(g, n, << >>, op, X) /\ D[1 .. n] = g[n]
  <2>1. << >> \in X /\ op \in [X \X (1 .. n) -> X]
    BY <1>2, <1>4
  <2>2. PICK E : E = D
    OBVIOUS
  <2>3. FoldsTo(E, n, << >>, op, X)
    BY <1>8, <2>2
  <2>4. HasRun(E, n, << >>, op, X)
    BY <1>n, <2>1, <2>3, FoldRuns, Zenon
  <2> QED
    BY <2>2, <2>4 DEF HasRun
<1>10. ASSUME NEW k \in 0 .. (n - 1) PROVE g[k + 1] = Scanned(u, g[k], k + 1)
  <2>1. k \in 0 .. n /\ k + 1 \in 1 .. n
    OBVIOUS
  <2> QED
    BY <1>4, <1>9, <2>1 DEF RunOf
<1> QED
  BY <1>n, <1>x, <1>1, <1>9, <1>10 DEF RunOf

\* The speakers of a transcript, phrase by phrase.
LEMMA SpeakersRun ==
    ASSUME NEW t \in Seq(Phrases)
    PROVE  \E g : /\ g[0] = << >> /\ \A k \in 0 .. Len(t) : g[k] \in Seq(STRING)
                  /\ \A k \in 0 .. (Len(t) - 1) :
                        g[k + 1] = Met(t, g[k], k + 1)
                  /\ Speakers(t) = g[Len(t)]
<1>n. PICK n \in Nat : n = Len(t) /\ DOMAIN t = 1 .. n
  BY LenProperties
<1> DEFINE D == CHOOSE f : f = [w \in SUBSET (1 .. n) |->
                                  IF w = {} THEN << >>
                                  ELSE Met(t, f[w \ {Max(w)}], Max(w))]
<1>1. Speakers(t) = D[1 .. n]
  BY <1>n DEF Speakers, FoldLeft, MapThenFoldSet, Met
<1> HIDE DEF D
<1>x. PICK X : X = Seq(STRING)
  OBVIOUS
<1>2. << >> \in X /\ \A r \in X, i \in 1 .. n : Met(t, r, i) \in X
  <2>1. \A i \in 1 .. n : t[i].speaker \in STRING
    <3>1. \A i \in 1 .. n : t[i] \in Phrases
      BY <1>n, ElementOfSeq
    <3> QED
      BY <3>1 DEF Phrases
  <2>2. << >> \in X
    BY <1>x, EmptySeq
  <2>3. \A r \in X, i \in 1 .. n : Append(r, t[i].speaker) \in X
    BY <1>x, <2>1, AppendProperties
  <2> QED
    BY <2>2, <2>3 DEF Met
<1>3. PICK op : op = [a \in X \X (1 .. n) |-> Met(t, a[1], a[2])]
  OBVIOUS
<1>4. /\ op \in [X \X (1 .. n) -> X]
      /\ \A r \in X, i \in 1 .. n : op[<<r, i>>] = Met(t, r, i)
  BY <1>2, <1>3
<1>5. PICK f \in [SUBSET (1 .. n) -> X] : FoldTable(f, n, << >>, op)
  BY <1>2, <1>4, FoldExists, Zenon
<1>6. ASSUME NEW w \in SUBSET (1 .. n)
      PROVE  f[w] = IF w = {} THEN << >>
                    ELSE Met(t, f[w \ {Max(w)}], Max(w))
  <2>1. CASE w = {}
    BY <1>5, <2>1 DEF FoldTable
  <2>2. CASE w # {}
    <3>1. PICK m : m = Max(w)
      OBVIOUS
    <3>2. m \in 1 .. n /\ w \ {m} \in SUBSET (1 .. n)
      BY <2>2, <3>1, MaxOfPositions
    <3>3. PICK r \in X : r = f[w \ {m}]
      BY <1>5, <3>2
    <3>4. f[w] = op[<<r, m>>]
      BY <1>5, <2>2, <3>1, <3>3 DEF FoldTable
    <3> QED
      BY <1>4, <2>2, <3>1, <3>2, <3>3, <3>4
  <2> QED
    BY <2>1, <2>2
<1>7. D = [w \in SUBSET (1 .. n) |->
             IF w = {} THEN << >>
             ELSE Met(t, D[w \ {Max(w)}], Max(w))]
  <2>1. f = [w \in SUBSET (1 .. n) |->
               IF w = {} THEN << >>
               ELSE Met(t, f[w \ {Max(w)}], Max(w))]
    BY <1>5, <1>6
  <2> QED
    BY <2>1 DEF D
<1>8. FoldsTo(D, n, << >>, op, X)
  <2>1. D[{}] = << >>
    BY <1>7
  <2>2. ASSUME NEW w \in SUBSET (1 .. n), w # {}, D[w \ {Max(w)}] \in X
        PROVE  D[w] = op[<<D[w \ {Max(w)}], Max(w)>>]
    <3>1. PICK m : m = Max(w)
      OBVIOUS
    <3>2. m \in 1 .. n
      BY <2>2, <3>1, MaxOfPositions
    <3>3. PICK r \in X : r = D[w \ {m}]
      BY <2>2, <3>1
    <3>4. D[w] = Met(t, r, m)
      BY <1>7, <2>2, <3>1, <3>3
    <3> QED
      BY <1>4, <3>1, <3>2, <3>3, <3>4
  <2> QED
    BY <2>1, <2>2 DEF FoldsTo
<1>9. PICK g : RunOf(g, n, << >>, op, X) /\ D[1 .. n] = g[n]
  <2>1. << >> \in X /\ op \in [X \X (1 .. n) -> X]
    BY <1>2, <1>4
  <2>2. PICK E : E = D
    OBVIOUS
  <2>3. FoldsTo(E, n, << >>, op, X)
    BY <1>8, <2>2
  <2>4. HasRun(E, n, << >>, op, X)
    BY <1>n, <2>1, <2>3, FoldRuns, Zenon
  <2> QED
    BY <2>2, <2>4 DEF HasRun
<1>10. ASSUME NEW k \in 0 .. (n - 1) PROVE g[k + 1] = Met(t, g[k], k + 1)
  <2>1. k \in 0 .. n /\ k + 1 \in 1 .. n
    OBVIOUS
  <2> QED
    BY <1>4, <1>9, <2>1 DEF RunOf
<1> QED
  BY <1>n, <1>x, <1>1, <1>9, <1>10 DEF RunOf

\* The rungs of a turn, price by price.
LEMMA PricedRuns ==
    ASSUME NEW S, NEW l \in Seq(S), NEW by, NEW amounts, NEW size \in Nat, Len(amounts) = size,
           DOMAIN amounts = 1 .. size,
           \A r \in Seq(S), i \in 1 .. size : Rung(r, by, amounts[i]) \in S
    PROVE  \E g : /\ g[0] = l /\ \A k \in 0 .. Len(amounts) : g[k] \in Seq(S)
                  /\ \A k \in 0 .. (Len(amounts) - 1) :
                        g[k + 1] = Append(g[k], Rung(g[k], by, amounts[k + 1]))
                  /\ Priced(l, by, amounts) = g[Len(amounts)]
<1>n. PICK n \in Nat : n = Len(amounts) /\ DOMAIN amounts = 1 .. n
  OBVIOUS
<1> DEFINE D == CHOOSE f : f = [w \in SUBSET (1 .. n) |->
                                  IF w = {} THEN l
                                  ELSE Append(f[w \ {Max(w)}], Rung(f[w \ {Max(w)}], by, amounts[Max(w)]))]
<1>1. Priced(l, by, amounts) = D[1 .. n]
  BY <1>n DEF Priced, FoldLeft, MapThenFoldSet
<1> HIDE DEF D
<1>x. PICK X : X = Seq(S)
  OBVIOUS
<1>2. l \in X /\ \A r \in X, i \in 1 .. n : Append(r, Rung(r, by, amounts[i])) \in X
  <2>1. ASSUME NEW r \in X, NEW i \in 1 .. n PROVE Append(r, Rung(r, by, amounts[i])) \in X
    <3>1. Rung(r, by, amounts[i]) \in S
      BY <1>n, <1>x
    <3> QED
      BY <1>x, <3>1, AppendProperties
  <2> QED
    BY <1>x, <2>1
<1>3. PICK op : op = [a \in X \X (1 .. n) |-> Append(a[1], Rung(a[1], by, amounts[a[2]]))]
  OBVIOUS
<1>4. /\ op \in [X \X (1 .. n) -> X]
      /\ \A r \in X, i \in 1 .. n : op[<<r, i>>] = Append(r, Rung(r, by, amounts[i]))
  BY <1>2, <1>3
<1>5. PICK f \in [SUBSET (1 .. n) -> X] : FoldTable(f, n, l, op)
  BY <1>2, <1>4, FoldExists, Zenon
<1>6. ASSUME NEW w \in SUBSET (1 .. n)
      PROVE  f[w] = IF w = {} THEN l
                    ELSE Append(f[w \ {Max(w)}], Rung(f[w \ {Max(w)}], by, amounts[Max(w)]))
  <2>1. CASE w = {}
    BY <1>5, <2>1 DEF FoldTable
  <2>2. CASE w # {}
    <3>1. PICK m : m = Max(w)
      OBVIOUS
    <3>2. m \in 1 .. n /\ w \ {m} \in SUBSET (1 .. n)
      BY <2>2, <3>1, MaxOfPositions
    <3>3. PICK r \in X : r = f[w \ {m}]
      BY <1>5, <3>2
    <3>4. f[w] = op[<<r, m>>]
      BY <1>5, <2>2, <3>1, <3>3 DEF FoldTable
    <3> QED
      BY <1>4, <2>2, <3>1, <3>2, <3>3, <3>4
  <2> QED
    BY <2>1, <2>2
<1>7. D = [w \in SUBSET (1 .. n) |->
             IF w = {} THEN l
             ELSE Append(D[w \ {Max(w)}], Rung(D[w \ {Max(w)}], by, amounts[Max(w)]))]
  <2>1. f = [w \in SUBSET (1 .. n) |->
               IF w = {} THEN l
               ELSE Append(f[w \ {Max(w)}], Rung(f[w \ {Max(w)}], by, amounts[Max(w)]))]
    BY <1>5, <1>6
  <2> QED
    BY <2>1 DEF D
<1>8. FoldsTo(D, n, l, op, X)
  <2>1. D[{}] = l
    BY <1>7
  <2>2. ASSUME NEW w \in SUBSET (1 .. n), w # {}, D[w \ {Max(w)}] \in X
        PROVE  D[w] = op[<<D[w \ {Max(w)}], Max(w)>>]
    <3>1. PICK m : m = Max(w)
      OBVIOUS
    <3>2. m \in 1 .. n
      BY <2>2, <3>1, MaxOfPositions
    <3>3. PICK r \in X : r = D[w \ {m}]
      BY <2>2, <3>1
    <3>4. D[w] = Append(r, Rung(r, by, amounts[m]))
      BY <1>7, <2>2, <3>1, <3>3
    <3> QED
      BY <1>4, <3>1, <3>2, <3>3, <3>4
  <2> QED
    BY <2>1, <2>2 DEF FoldsTo
<1>9. PICK g : RunOf(g, n, l, op, X) /\ D[1 .. n] = g[n]
  <2>1. l \in X /\ op \in [X \X (1 .. n) -> X]
    BY <1>2, <1>4
  <2>2. PICK E : E = D
    OBVIOUS
  <2>3. FoldsTo(E, n, l, op, X)
    BY <1>8, <2>2
  <2>4. HasRun(E, n, l, op, X)
    BY <1>n, <2>1, <2>3, FoldRuns, Zenon
  <2> QED
    BY <2>2, <2>4 DEF HasRun
<1>10. ASSUME NEW k \in 0 .. (n - 1) PROVE g[k + 1] = Append(g[k], Rung(g[k], by, amounts[k + 1]))
  <2>1. k \in 0 .. n /\ k + 1 \in 1 .. n
    OBVIOUS
  <2> QED
    BY <1>4, <1>9, <2>1 DEF RunOf
<1> QED
  BY <1>n, <1>x, <1>1, <1>9, <1>10 DEF RunOf

-----------------------------------------------------------------------------
(* The prices said.                                                        *)

LEMMA FlattenStep ==
    ASSUME NEW S, NEW k \in Nat, NEW q \in [1 .. k -> Seq(S)],
           NEW p \in [1 .. (k + 1) -> Seq(S)], \A i \in 1 .. k : p[i] = q[i]
    PROVE  FlattenSeq(q) \in Seq(S) /\ FlattenSeq(p) = FlattenSeq(q) \o p[k + 1]
<1>s. PICK s \in Seq(S) : s = p[k + 1]
  OBVIOUS
<1>1. q \in Seq(Seq(S)) /\ Len(q) = k
  OBVIOUS
<1>2. PICK r : r = Append(q, s)
  OBVIOUS
<1>3. /\ r \in Seq(Seq(S)) /\ Len(r) = k + 1
      /\ \A i \in 1 .. k : r[i] = q[i]
      /\ r[k + 1] = s
  BY <1>1, <1>2, AppendProperties
<1>4. r = p
  <2>1. r \in [1 .. (k + 1) -> Seq(S)]
    BY <1>3, LenProperties
  <2>2. \A i \in 1 .. (k + 1) : r[i] = p[i]
    BY <1>3, <1>s
  <2> QED
    BY <2>1, <2>2
<1>5. FlattenSeq(q) \in Seq(S) /\ FlattenSeq(Append(q, s)) = FlattenSeq(q) \o s
  BY <1>1, FlattenSnoc
<1> QED
  BY <1>s, <1>2, <1>4, <1>5

Prices == Nat \ {0}

Piece(u, i) == IF Plausible(u.numbers[i]) THEN <<u.numbers[i].minor>> ELSE << >>

LEMMA PieceTyped ==
    ASSUME NEW u \in Phrases, NEW i \in 1 .. Len(u.numbers)
    PROVE  /\ Piece(u, i) \in Seq(Prices)
           /\ \A out \in Seq(Prices) : Scanned(u, out, i) = out \o Piece(u, i)
<1>1. PICK Z : Z = [minor : Int, digits : Nat, dollar : BOOLEAN]
  OBVIOUS
<1>2. u.numbers \in Seq(Z)
  BY <1>1 DEF Phrases
<1>3. u.numbers[i] \in Z
  BY <1>2, ElementOfSeq
<1>4. PICK n \in Z : n = u.numbers[i]
  BY <1>3
<1>5. n.minor \in Int
  BY <1>1, <1>4
<1>7. Plausible(n) => n.minor > 0
  BY Zenon DEF Plausible
<1>8. CASE Plausible(n)
  <2>1. Piece(u, i) = <<n.minor>>
    BY <1>4, <1>8, Zenon DEF Piece
  <2>2. n.minor \in Prices
    BY <1>5, <1>7, <1>8 DEF Prices
  <2>3. ASSUME NEW out \in Seq(Prices) PROVE Append(out, n.minor) = out \o <<n.minor>>
    BY <2>2, AppendIsConcat
  <2>4. \A out : Scanned(u, out, i) = Append(out, n.minor)
    BY <1>4, <1>8 DEF Scanned
  <2>5. \A out \in Seq(Prices) : Scanned(u, out, i) = out \o Piece(u, i)
    BY <2>1, <2>3, <2>4, Zenon
  <2>6. <<n.minor>> \in Seq(Prices)
    BY <2>2
  <2> QED
    BY <2>1, <2>5, <2>6
<1>9. CASE ~Plausible(n)
  <2>1. Piece(u, i) = << >>
    BY <1>4, <1>9, Zenon DEF Piece
  <2>2. \A out : Scanned(u, out, i) = out
    BY <1>4, <1>9 DEF Scanned
  <2> QED
    BY <2>1, <2>2, ConcatEmptySeq, EmptySeq
<1> QED
  BY <1>8, <1>9

\* The scanner's loop computes what Heard defines, number by number.
LEMMA ScanIsHeard ==
    ASSUME NEW u \in Phrases
    PROVE  ScanAmounts(u) = Heard(u) /\ Heard(u) \in Seq(Prices)
<1>n. PICK n \in Nat : n = Len(u.numbers) /\ DOMAIN u.numbers = 1 .. n
  BY LenProperties DEF Phrases
<1>1. PICK g : /\ g[0] = << >>
               /\ \A k \in 0 .. (n - 1) : g[k + 1] = Scanned(u, g[k], k + 1)
               /\ ScanAmounts(u) = g[n]
  BY <1>n, ScanRuns
<1> DEFINE P(k) == [i \in 1 .. k |-> Piece(u, i)]
           Good(k) == FlattenSeq(P(k)) = g[k] /\ g[k] \in Seq(Prices)
           S == {k \in Nat : k <= n => Good(k)}
<1>2. Good(0)
  <2>1. P(0) = << >>
    OBVIOUS
  <2> QED
    BY <1>1, <2>1, FlattenEmpty, EmptySeq
<1>3. ASSUME NEW k \in Nat, k + 1 <= n, Good(k) PROVE Good(k + 1)
  <2>1. k + 1 \in 1 .. Len(u.numbers) /\ k \in 0 .. (n - 1)
    BY <1>n, <1>3
  <2>2. PICK s \in Seq(Prices) : s = Piece(u, k + 1)
    BY <2>1, PieceTyped
  <2>3. P(k) \in [1 .. k -> Seq(Prices)]
    <3>1. \A i \in 1 .. k : i \in 1 .. Len(u.numbers)
      BY <1>n, <1>3
    <3>2. \A i \in 1 .. k : Piece(u, i) \in Seq(Prices)
      BY <3>1, PieceTyped
    <3> QED
      BY <3>2
  <2>4. /\ P(k + 1) \in [1 .. (k + 1) -> Seq(Prices)] /\ P(k + 1)[k + 1] = s
        /\ \A i \in 1 .. k : P(k + 1)[i] = P(k)[i]
    <3>1. \A i \in 1 .. (k + 1) : i \in 1 .. Len(u.numbers)
      BY <1>n, <1>3
    <3>2. \A i \in 1 .. (k + 1) : Piece(u, i) \in Seq(Prices)
      BY <3>1, PieceTyped
    <3> QED
      BY <2>2, <3>2
  <2> HIDE DEF P
  <2>5. FlattenSeq(P(k + 1)) = FlattenSeq(P(k)) \o s
    BY <2>3, <2>4, FlattenStep
  <2>6. g[k + 1] = g[k] \o s
    BY <1>1, <1>3, <2>1, <2>2, PieceTyped
  <2> QED
    BY <1>3, <2>5, <2>6, ConcatProperties
<1>p. P(n) = [i \in DOMAIN u.numbers |-> Piece(u, i)]
  BY <1>n
<1> HIDE DEF P, Good
<1>4. 0 \in S /\ \A k \in Nat : k \in S => k + 1 \in S
  BY <1>2, <1>3
<1>5. n \in S
  <2> HIDE DEF S
  <2> QED
    BY <1>4, InductionOnSet
<1>6. Heard(u) = FlattenSeq(P(n))
  BY <1>p DEF Heard, Piece
<1> QED
  BY <1>1, <1>5, <1>6 DEF Good

\* PricesUpTo of any transcript.
PricesHeard(t, k) == FlattenSeq([i \in 1 .. k |-> Heard(t[i])])

LEMMA PricesHeardGrow ==
    ASSUME NEW t \in Seq(Phrases), NEW k \in Nat, k + 1 <= Len(t)
    PROVE  /\ PricesHeard(t, k) \in Seq(Prices)
           /\ PricesHeard(t, k + 1) = PricesHeard(t, k) \o Heard(t[k + 1])
           /\ Heard(t[k + 1]) \in Seq(Prices)
<1>1. \A i \in 1 .. (k + 1) : i \in 1 .. Len(t)
  BY LenProperties
<1>2. \A i \in 1 .. (k + 1) : t[i] \in Phrases
  BY <1>1, ElementOfSeq
<1>3. \A i \in 1 .. (k + 1) : Heard(t[i]) \in Seq(Prices)
  BY <1>2, ScanIsHeard
<1>4. PICK q, p : q = [i \in 1 .. k |-> Heard(t[i])] /\ p = [i \in 1 .. (k + 1) |-> Heard(t[i])]
  OBVIOUS
<1>5. /\ q \in [1 .. k -> Seq(Prices)] /\ p \in [1 .. (k + 1) -> Seq(Prices)]
      /\ \A i \in 1 .. k : p[i] = q[i]
      /\ p[k + 1] = Heard(t[k + 1])
  BY <1>3, <1>4
<1>6. FlattenSeq(q) \in Seq(Prices) /\ FlattenSeq(p) = FlattenSeq(q) \o p[k + 1]
  BY <1>5, FlattenStep
<1>7. PricesHeard(t, k) = FlattenSeq(q) /\ PricesHeard(t, k + 1) = FlattenSeq(p)
  BY <1>4 DEF PricesHeard
<1>8. k + 1 \in 1 .. (k + 1)
  OBVIOUS
<1> QED
  BY <1>3, <1>5, <1>6, <1>7, <1>8

-----------------------------------------------------------------------------
(* What the offline witness puts on its ladder.                            *)

Amounts == [currency : {DefaultCurrency}, minor : Prices]
Rungs   == [by : {"buyer", "seller"}, kind : RungKinds, amount : Amounts \cup {NoMoney}]

Figure(o) == IF o.amount = NoMoney THEN << >> ELSE <<o.amount.minor>>

LEMMA PricedAmounts ==
    /\ Amounts \subseteq Money /\ NoMoney \notin Amounts /\ NoMoney \notin Money
    /\ Rungs \subseteq Offers
<1>1. Amounts \subseteq Money /\ NoMoney \notin Amounts /\ NoMoney \notin Money
  BY CurrencyAssumption DEF Amounts, Money, NoMoney, Prices
<1> QED
  BY <1>1 DEF Rungs, Offers

LEMMA FigureTyped ==
    ASSUME NEW o \in Rungs
    PROVE  Figure(o) \in Seq(Prices)
<1>1. CASE o.amount = NoMoney
  BY <1>1, EmptySeq DEF Figure
<1>2. CASE o.amount # NoMoney
  <2>1. o.amount \in Amounts
    BY <1>2 DEF Rungs
  <2>2. o.amount.minor \in Prices
    BY <2>1 DEF Amounts
  <2>3. <<o.amount.minor>> \in Seq(Prices)
    BY <2>2
  <2> QED
    BY <1>2, <2>3 DEF Figure
<1> QED
  BY <1>1, <1>2

\* Prices on a ladder in order; closing words carry none.
PricesOn(ladder) ==
    FlattenSeq([i \in DOMAIN ladder |->
                   IF ladder[i].amount = NoMoney THEN << >> ELSE <<ladder[i].amount.minor>>])

LEMMA PricesOnAppend ==
    ASSUME NEW l \in Seq(Rungs), NEW o \in Rungs
    PROVE  /\ PricesOn(l) \in Seq(Prices)
           /\ PricesOn(Append(l, o)) = PricesOn(l) \o Figure(o)
<1>1. PICK k \in Nat : k = Len(l) /\ DOMAIN l = 1 .. k
  BY LenProperties
<1>2. PICK r : r = Append(l, o)
  OBVIOUS
<1>3. /\ r \in Seq(Rungs) /\ DOMAIN r = 1 .. (k + 1) /\ r[k + 1] = o
      /\ \A i \in 1 .. k : r[i] = l[i]
  BY <1>1, <1>2, AppendProperties, LenProperties
<1>4. PICK q, p : q = [i \in 1 .. k |-> Figure(l[i])] /\ p = [i \in 1 .. (k + 1) |-> Figure(r[i])]
  OBVIOUS
<1>5. /\ q \in [1 .. k -> Seq(Prices)] /\ p \in [1 .. (k + 1) -> Seq(Prices)]
      /\ \A i \in 1 .. k : p[i] = q[i]
      /\ p[k + 1] = Figure(o)
  <2>1. \A i \in 1 .. k : l[i] \in Rungs
    BY <1>1, ElementOfSeq
  <2>2. \A i \in 1 .. k : Figure(l[i]) \in Seq(Prices)
    BY <2>1, FigureTyped
  <2>3. \A i \in 1 .. (k + 1) : Figure(r[i]) \in Seq(Prices)
    <3>1. \A i \in 1 .. (k + 1) : i = k + 1 \/ i \in 1 .. k
      OBVIOUS
    <3> QED
      BY <1>3, <2>2, <3>1, FigureTyped
  <2>4. q \in [1 .. k -> Seq(Prices)] /\ p \in [1 .. (k + 1) -> Seq(Prices)]
    BY <1>4, <2>2, <2>3
  <2>5. k + 1 \in 1 .. (k + 1) /\ 1 .. k \subseteq 1 .. (k + 1)
    OBVIOUS
  <2> QED
    BY <1>3, <1>4, <2>4, <2>5
<1>6. FlattenSeq(q) \in Seq(Prices) /\ FlattenSeq(p) = FlattenSeq(q) \o p[k + 1]
  BY <1>5, FlattenStep
<1>7. PricesOn(l) = FlattenSeq(q)
  BY <1>1, <1>4 DEF PricesOn, Figure
<1>8. PricesOn(r) = FlattenSeq(p)
  BY <1>3, <1>4 DEF PricesOn, Figure
<1> QED
  BY <1>2, <1>5, <1>6, <1>7, <1>8

LEMMA PricesOnEmpty == PricesOn(<< >>) = << >>
<1>1. [i \in DOMAIN << >> |-> IF << >>[i].amount = NoMoney THEN << >>
                              ELSE <<(<< >>[i]).amount.minor>>] = << >>
  OBVIOUS
<1> QED
  BY <1>1, FlattenEmpty DEF PricesOn

LEMMA RungTyped ==
    ASSUME NEW l, NEW by \in {"buyer", "seller"}, NEW m \in Prices
    PROVE  /\ Rung(l, by, m) \in Rungs
           /\ Rung(l, by, m).amount # NoMoney /\ Rung(l, by, m).amount.minor = m
           /\ Figure(Rung(l, by, m)) = <<m>>
<1>1. Rung(l, by, m).by = by /\ Rung(l, by, m).amount = [currency |-> DefaultCurrency, minor |-> m]
  BY DEF Rung
<1>2. Rung(l, by, m).amount \in Amounts /\ Rung(l, by, m).amount.minor = m
  BY <1>1 DEF Amounts
<1>3. Rung(l, by, m).amount # NoMoney
  BY <1>2, PricedAmounts
<1>4. Rung(l, by, m) \in Rungs
  <2>1. Rung(l, by, m).kind \in RungKinds
    BY DEF Rung, RungKinds
  <2>2. PICK kind, amount : Rung(l, by, m) = [by |-> by, kind |-> kind, amount |-> amount]
    BY DEF Rung
  <2> QED
    BY <1>2, <2>1, <2>2 DEF Rungs
<1> QED
  BY <1>2, <1>3, <1>4 DEF Figure

\* A ladder and the prices it holds, the last on top if the last rung has one.
Holds(l, prices) ==
    /\ l \in Seq(Rungs) /\ prices \in Seq(Prices)
    /\ PricesOn(l) = prices
    /\ l # << >> /\ l[Len(l)].amount # NoMoney =>
          prices # << >> /\ l[Len(l)].amount.minor = prices[Len(prices)]

LEMMA HoldsMore ==
    ASSUME NEW l, NEW prices, Holds(l, prices), NEW by \in {"buyer", "seller"}, NEW m \in Prices
    PROVE  Holds(Append(l, Rung(l, by, m)), Append(prices, m))
<1>1. PICK o \in Rungs : o = Rung(l, by, m)
  BY RungTyped
<1>2. o.amount # NoMoney /\ o.amount.minor = m /\ Figure(o) = <<m>>
  BY <1>1, RungTyped
<1>3. PricesOn(Append(l, o)) = Append(prices, m)
  <2>1. l \in Seq(Rungs) /\ PricesOn(l) = prices /\ prices \in Seq(Prices)
    BY DEF Holds
  <2>2. PricesOn(Append(l, o)) = prices \o <<m>>
    BY <1>2, <2>1, PricesOnAppend
  <2> QED
    BY <2>1, <2>2, AppendIsConcat
<1>4. PICK r : r = Append(l, o)
  OBVIOUS
<1>5. r \in Seq(Rungs) /\ r[Len(r)] = o
  BY <1>4, AppendProperties DEF Holds
<1>6. PICK s : s = Append(prices, m)
  OBVIOUS
<1>7. s \in Seq(Prices) /\ s # << >> /\ s[Len(s)] = m
  BY <1>6, AppendProperties DEF Holds
<1> QED
  BY <1>1, <1>2, <1>3, <1>4, <1>5, <1>6, <1>7 DEF Holds

LEMMA PricedHolds ==
    ASSUME NEW l, NEW prices, Holds(l, prices), NEW by \in {"buyer", "seller"},
           NEW amounts \in Seq(Prices)
    PROVE  Holds(Priced(l, by, amounts), prices \o amounts)
<1>n. PICK n \in Nat : n = Len(amounts) /\ DOMAIN amounts = 1 .. n
  BY LenProperties
<1>0. \A i \in 1 .. n : amounts[i] \in Prices
  BY <1>n, ElementOfSeq
<1>1. PICK g : /\ g[0] = l
               /\ \A k \in 0 .. (n - 1) : g[k + 1] = Append(g[k], Rung(g[k], by, amounts[k + 1]))
               /\ Priced(l, by, amounts) = g[n]
  <2>1. \A r \in Seq(Rungs), i \in 1 .. n : Rung(r, by, amounts[i]) \in Rungs
    BY <1>0, RungTyped
  <2>2. l \in Seq(Rungs)
    BY DEF Holds
  <2>3. PICK R : R = Rungs
    OBVIOUS
  <2> QED
    BY <1>n, <2>1, <2>2, <2>3, PricedRuns
<1> DEFINE Good(k) == Holds(g[k], prices \o SubSeq(amounts, 1, k))
           S == {k \in Nat : k <= n => Good(k)}
<1>2. Good(0)
  <2>1. SubSeq(amounts, 1, 0) = << >>
    BY SubSeqEmpty
  <2>2. prices \in Seq(Prices)
    BY DEF Holds
  <2>3. prices \o << >> = prices
    BY <2>2, ConcatEmptySeq
  <2> QED
    BY <1>1, <2>1, <2>3
<1>3. ASSUME NEW k \in Nat, k + 1 <= n, Good(k) PROVE Good(k + 1)
  <2>1. PICK m \in Prices : m = amounts[k + 1]
    BY <1>0, <1>3
  <2>2. PICK s : s = SubSeq(amounts, 1, k)
    OBVIOUS
  <2>3. s \in Seq(Prices) /\ SubSeq(amounts, 1, k + 1) = Append(s, m)
    <3>1. 1 \in 1 .. Len(amounts) /\ k + 1 \in 1 .. Len(amounts) /\ (k + 1) - 1 = k
      BY <1>n, <1>3
    <3>2. SubSeq(amounts, 1, k + 1) = SubSeq(amounts, 1, k) \o <<amounts[k + 1]>>
      <4>1. PICK j : j = k + 1
        OBVIOUS
      <4>2. 1 \in 1 .. Len(amounts) /\ j \in 1 .. Len(amounts) /\ j - 1 = k
        BY <3>1, <4>1
      <4>3. SubSeq(amounts, 1, j) = SubSeq(amounts, 1, j - 1) \o <<amounts[j]>>
        BY <4>2, SubSeqRecursiveSecond
      <4> QED
        BY <4>1, <4>2, <4>3
    <3>3. s \in Seq(Prices)
      <4>1. \A i \in 1 .. k : amounts[i] \in Prices
        BY <1>0, <1>3
      <4> QED
        BY <2>2, <4>1, SubSeqProperties
    <3> QED
      BY <2>1, <2>2, <3>2, <3>3, AppendIsConcat
  <2>4. prices \o Append(s, m) = Append(prices \o s, m)
    <3>1. prices \in Seq(Prices) /\ <<m>> \in Seq(Prices)
      BY <2>1 DEF Holds
    <3>2. prices \o (s \o <<m>>) = (prices \o s) \o <<m>>
      BY <2>3, <3>1, ConcatAssociative
    <3>3. prices \o s \in Seq(Prices)
      BY <2>3, <3>1, ConcatProperties
    <3> QED
      BY <2>1, <2>3, <3>2, <3>3, AppendIsConcat
  <2>5. k \in 0 .. (n - 1)
    BY <1>3
  <2>6. PICK r, p : r = g[k] /\ p = prices \o s
    OBVIOUS
  <2>7. Holds(Append(r, Rung(r, by, m)), Append(p, m))
    <3>1. Holds(r, p)
      BY <1>3, <2>2, <2>6
    <3> QED
      BY <3>1, HoldsMore
  <2>8. g[k + 1] = Append(r, Rung(r, by, m))
    BY <1>1, <2>1, <2>5, <2>6
  <2> QED
    BY <2>2, <2>3, <2>4, <2>6, <2>7, <2>8
<1> HIDE DEF Good
<1>4. 0 \in S /\ \A k \in Nat : k \in S => k + 1 \in S
  BY <1>2, <1>3
<1>5. n \in S
  <2> HIDE DEF S
  <2> QED
    BY <1>4, InductionOnSet
<1>6. SubSeq(amounts, 1, n) = amounts
  BY <1>n, SubSeqFull
<1>7. Good(n)
  BY <1>5
<1> QED
  BY <1>1, <1>6, <1>7 DEF Good

-----------------------------------------------------------------------------
(* The offline witness's reading.                                          *)

Drafts   == [ladder : Seq(Rungs), agreed : Amounts \cup {NoMoney}]
Readings == {r \in Drafts : Holds(r.ladder, PricesOn(r.ladder))}

LEMMA NothingRead == Nothing \in Readings /\ PricesOn(Nothing.ladder) = << >>
<1>1. Nothing.ladder = << >> /\ Nothing \in Drafts
  BY EmptySeq DEF Nothing, Drafts
<1> QED
  BY <1>1, PricesOnEmpty, EmptySeq DEF Readings, Holds

LEMMA TurnTaken ==
    ASSUME NEW t, NEW i \in Nat
    PROVE  TurnOf(t, i) \in {"buyer", "seller"}
<1>1. CASE t[i].speaker # NoSpeaker /\ t[i].speaker = Speakers(t)[1]
  BY <1>1, Zenon DEF TurnOf
<1>2. CASE t[i].speaker # NoSpeaker /\ t[i].speaker # Speakers(t)[1]
  BY <1>2, Zenon DEF TurnOf
<1>3. CASE t[i].speaker = NoSpeaker
  <2>1. TurnOf(t, i) = IF i % 2 = 1 THEN "buyer" ELSE "seller"
    BY <1>3, Zenon DEF TurnOf
  <2> QED
    BY <2>1
<1> QED
  BY <1>1, <1>2, <1>3

\* Closing words top the ladder without adding a price.
LEMMA AcceptHolds ==
    ASSUME NEW l, NEW prices, Holds(l, prices), NEW by \in {"buyer", "seller"},
           NEW o, o = [by |-> by, kind |-> "accept", amount |-> NoMoney]
    PROVE  Holds(Append(l, o), prices)
<1>1. o \in Rungs /\ Figure(o) = << >> /\ o.amount = NoMoney
  BY DEF Rungs, RungKinds, Figure
<1>2. l \in Seq(Rungs) /\ prices \in Seq(Prices) /\ PricesOn(l) = prices
  BY DEF Holds
<1>3. PricesOn(Append(l, o)) = prices
  <2>1. PricesOn(Append(l, o)) = prices \o << >>
    BY <1>1, <1>2, PricesOnAppend
  <2> QED
    BY <1>2, <2>1, ConcatEmptySeq
<1>4. PICK r : r = Append(l, o)
  OBVIOUS
<1>5. r \in Seq(Rungs) /\ r[Len(r)] = o
  BY <1>1, <1>2, <1>4, AppendProperties
<1> QED
  BY <1>1, <1>2, <1>3, <1>4, <1>5 DEF Holds

\* What one turn does to the ladder, and to the price agreed.
LEMMA TurnHolds ==
    ASSUME NEW t \in Seq(Phrases), NEW i \in 1 .. Len(t),
           NEW read \in Drafts, NEW prices, Holds(read.ladder, prices),
           NEW after, after = Turn(t, read, i)
    PROVE  /\ after \in Drafts /\ Holds(after.ladder, prices \o Heard(t[i]))
           /\ ~t[i].closes => after.agreed = read.agreed
           /\ t[i].closes /\ after.agreed # NoMoney =>
                 /\ prices \o Heard(t[i]) # << >>
                 /\ after.agreed.minor = (prices \o Heard(t[i]))[Len(prices \o Heard(t[i]))]
<1>1. t[i] \in Phrases /\ i \in Nat
  BY ElementOfSeq, LenProperties
<1>2. PICK by \in {"buyer", "seller"} : by = TurnOf(t, i)
  BY <1>1, TurnTaken
<1>3. ScanAmounts(t[i]) = Heard(t[i]) /\ Heard(t[i]) \in Seq(Prices)
  BY <1>1, ScanIsHeard
<1>4. PICK l : l = Priced(read.ladder, by, ScanAmounts(t[i]))
  OBVIOUS
<1>5. PICK all : all = prices \o Heard(t[i])
  OBVIOUS
<1>6. Holds(l, all)
  <2>1. PICK l0, amounts : l0 = read.ladder /\ amounts = Heard(t[i])
    OBVIOUS
  <2>2. Holds(Priced(l0, by, amounts), prices \o amounts)
    BY <1>3, <2>1, PricedHolds
  <2> QED
    BY <1>3, <1>4, <1>5, <2>1, <2>2
<1>7. l \in Seq(Rungs)
  BY <1>6 DEF Holds
<1>8. CASE ~t[i].closes
  <2>1. after = [read EXCEPT !.ladder = l]
    BY <1>2, <1>4, <1>8 DEF Turn
  <2>2. after.ladder = l /\ after.agreed = read.agreed /\ after \in Drafts
    BY <1>7, <2>1 DEF Drafts
  <2> QED
    BY <1>5, <1>6, <1>8, <2>2
<1>9. CASE t[i].closes
  <2>1. PICK o, a : /\ o = [by |-> by, kind |-> "accept", amount |-> NoMoney]
                    /\ a = IF l = << >> THEN NoMoney ELSE l[Len(l)].amount
    OBVIOUS
  <2>2. after = [ladder |-> Append(l, o), agreed |-> a]
    BY <1>2, <1>4, <1>9, <2>1 DEF Turn
  <2>3. a \in Amounts \cup {NoMoney}
    <3>1. CASE l = << >>
      BY <2>1, <3>1
    <3>2. CASE l # << >>
      <4>1. Len(l) \in 1 .. Len(l)
        BY <1>7, <3>2, EmptySeq
      <4>2. l[Len(l)] \in Rungs
        BY <1>7, <4>1, ElementOfSeq
      <4> QED
        BY <2>1, <3>2, <4>2 DEF Rungs
    <3> QED
      BY <3>1, <3>2
  <2>4. Holds(Append(l, o), all)
    BY <1>6, <2>1, AcceptHolds
  <2>5. a # NoMoney => all # << >> /\ a.minor = all[Len(all)]
    BY <1>6, <2>1 DEF Holds
  <2>6. after \in Drafts
    <3>1. Append(l, o) \in Seq(Rungs)
      BY <2>4 DEF Holds
    <3> QED
      BY <2>2, <2>3, <3>1 DEF Drafts
  <2>7. after.ladder = Append(l, o) /\ after.agreed = a
    BY <2>2
  <2> QED
    BY <1>5, <1>9, <2>4, <2>5, <2>6, <2>7
<1> QED
  BY <1>8, <1>9

LEMMA TurnReads ==
    ASSUME NEW t \in Seq(Phrases), NEW r \in Readings, NEW i \in 1 .. Len(t)
    PROVE  Turn(t, r, i) \in Readings
<1>1. PICK prices, after : prices = PricesOn(r.ladder) /\ after = Turn(t, r, i)
  OBVIOUS
<1>2. r \in Drafts /\ Holds(r.ladder, prices)
  BY <1>1 DEF Readings
<1>3. after \in Drafts /\ Holds(after.ladder, prices \o Heard(t[i]))
  BY <1>1, <1>2, TurnHolds
<1> QED
  BY <1>1, <1>3 DEF Readings, Holds

Position(t, i) == [j \in DOMAIN t |-> j][i]

\* The reading of a transcript, phrase by phrase.
LEMMA ExtractRuns ==
    ASSUME NEW t \in Seq(Phrases)
    PROVE  \E g : /\ g[0] = Nothing /\ \A k \in 0 .. Len(t) : g[k] \in Readings
                  /\ \A k \in 0 .. (Len(t) - 1) :
                        g[k + 1] = Turn(t, g[k], Position(t, k + 1))
                  /\ FoldLeftDomain(LAMBDA r, i : Turn(t, r, i), Nothing, t) = g[Len(t)]
<1>n. PICK n \in Nat : n = Len(t) /\ DOMAIN t = 1 .. n
  BY LenProperties
<1> DEFINE D == CHOOSE f : f = [w \in SUBSET (1 .. n) |->
                                  IF w = {} THEN Nothing
                                  ELSE Turn(t, f[w \ {Max(w)}], Position(t, Max(w)))]
<1>1. FoldLeftDomain(LAMBDA r, i : Turn(t, r, i), Nothing, t) = D[1 .. n]
  BY <1>n DEF FoldLeftDomain, FoldLeft, MapThenFoldSet, Position
<1> HIDE DEF D
<1>x. PICK X : X = Readings
  OBVIOUS
<1>2. Nothing \in X /\ \A r \in X, i \in 1 .. n : Turn(t, r, Position(t, i)) \in X
  <2>1. \A i \in 1 .. n : Position(t, i) = i
    BY <1>n DEF Position
  <2>2. \A r \in X, i \in 1 .. n : Turn(t, r, i) \in X
    BY <1>n, <1>x, TurnReads
  <2> QED
    BY <1>x, <2>1, <2>2, NothingRead
<1>3. PICK op : op = [a \in X \X (1 .. n) |-> Turn(t, a[1], Position(t, a[2]))]
  OBVIOUS
<1>4. /\ op \in [X \X (1 .. n) -> X]
      /\ \A r \in X, i \in 1 .. n : op[<<r, i>>] = Turn(t, r, Position(t, i))
  BY <1>2, <1>3
<1>5. PICK f \in [SUBSET (1 .. n) -> X] : FoldTable(f, n, Nothing, op)
  BY <1>2, <1>4, FoldExists, Zenon
<1>6. ASSUME NEW w \in SUBSET (1 .. n)
      PROVE  f[w] = IF w = {} THEN Nothing
                    ELSE Turn(t, f[w \ {Max(w)}], Position(t, Max(w)))
  <2>1. CASE w = {}
    BY <1>5, <2>1 DEF FoldTable
  <2>2. CASE w # {}
    <3>1. PICK m : m = Max(w)
      OBVIOUS
    <3>2. m \in 1 .. n /\ w \ {m} \in SUBSET (1 .. n)
      BY <2>2, <3>1, MaxOfPositions
    <3>3. PICK r \in X : r = f[w \ {m}]
      BY <1>5, <3>2
    <3>4. f[w] = op[<<r, m>>]
      BY <1>5, <2>2, <3>1, <3>3 DEF FoldTable
    <3> QED
      BY <1>4, <2>2, <3>1, <3>2, <3>3, <3>4
  <2> QED
    BY <2>1, <2>2
<1>7. D = [w \in SUBSET (1 .. n) |->
             IF w = {} THEN Nothing
             ELSE Turn(t, D[w \ {Max(w)}], Position(t, Max(w)))]
  <2>1. f = [w \in SUBSET (1 .. n) |->
               IF w = {} THEN Nothing
               ELSE Turn(t, f[w \ {Max(w)}], Position(t, Max(w)))]
    BY <1>5, <1>6
  <2> QED
    BY <2>1 DEF D
<1>8. FoldsTo(D, n, Nothing, op, X)
  <2>1. D[{}] = Nothing
    BY <1>7
  <2>2. ASSUME NEW w \in SUBSET (1 .. n), w # {}, D[w \ {Max(w)}] \in X
        PROVE  D[w] = op[<<D[w \ {Max(w)}], Max(w)>>]
    <3>1. PICK m : m = Max(w)
      OBVIOUS
    <3>2. m \in 1 .. n
      BY <2>2, <3>1, MaxOfPositions
    <3>3. PICK r \in X : r = D[w \ {m}]
      BY <2>2, <3>1
    <3>4. D[w] = Turn(t, r, Position(t, m))
      BY <1>7, <2>2, <3>1, <3>3
    <3> QED
      BY <1>4, <3>1, <3>2, <3>3, <3>4
  <2> QED
    BY <2>1, <2>2 DEF FoldsTo
<1>9. PICK g : RunOf(g, n, Nothing, op, X) /\ D[1 .. n] = g[n]
  <2>1. Nothing \in X /\ op \in [X \X (1 .. n) -> X]
    BY <1>2, <1>4
  <2>2. PICK E : E = D
    OBVIOUS
  <2>3. FoldsTo(E, n, Nothing, op, X)
    BY <1>8, <2>2
  <2>4. HasRun(E, n, Nothing, op, X)
    BY <1>n, <2>1, <2>3, FoldRuns, Zenon
  <2> QED
    BY <2>2, <2>4 DEF HasRun
<1>10. ASSUME NEW k \in 0 .. (n - 1) PROVE g[k + 1] = Turn(t, g[k], Position(t, k + 1))
  <2>1. k \in 0 .. n /\ k + 1 \in 1 .. n
    OBVIOUS
  <2> QED
    BY <1>4, <1>9, <2>1 DEF RunOf
<1> QED
  BY <1>n, <1>x, <1>1, <1>9, <1>10 DEF RunOf

\* The phrase that closed, among the first k, and the price then on the table.
ClosedAt(t, k, agreed) ==
    \E c \in 1 .. k :
       /\ t[c].closes /\ \A d \in (c + 1) .. k : ~t[d].closes
       /\ PricesHeard(t, c) # << >>
       /\ agreed.minor = PricesHeard(t, c)[Len(PricesHeard(t, c))]

LEMMA ExtractHolds ==
    ASSUME NEW t \in Seq(Phrases)
    PROVE  \E read \in Drafts :
              /\ OfflineExtract(t) = ReadingOf(t, read)
              /\ PricesOn(read.ladder) = PricesHeard(t, Len(t))
              /\ read.agreed # NoMoney => ClosedAt(t, Len(t), read.agreed)
<1>n. PICK n \in Nat : n = Len(t) /\ DOMAIN t = 1 .. n
  BY LenProperties
<1>1. PICK read : read = FoldLeftDomain(LAMBDA r, i : Turn(t, r, i), Nothing, t)
  OBVIOUS
<1>2. PICK g : /\ g[0] = Nothing /\ \A k \in 0 .. n : g[k] \in Readings
               /\ \A k \in 0 .. (n - 1) : g[k + 1] = Turn(t, g[k], Position(t, k + 1))
               /\ read = g[n]
  BY <1>n, <1>1, ExtractRuns
<1> DEFINE Good(k) == /\ g[k] \in Drafts /\ Holds(g[k].ladder, PricesHeard(t, k))
                      /\ g[k].agreed # NoMoney => ClosedAt(t, k, g[k].agreed)
           S == {k \in Nat : k <= n => Good(k)}
<1>3. Good(0)
  <2>1. PricesHeard(t, 0) = << >>
    <3>1. [i \in 1 .. 0 |-> Heard(t[i])] = << >>
      OBVIOUS
    <3> QED
      BY <3>1, FlattenEmpty DEF PricesHeard
  <2>2. Nothing \in Drafts /\ Holds(Nothing.ladder, << >>) /\ Nothing.agreed = NoMoney
    BY NothingRead DEF Readings, Nothing
  <2> QED
    BY <1>2, <2>1, <2>2
<1>4. ASSUME NEW k \in Nat, k + 1 <= n, Good(k) PROVE Good(k + 1)
  <2>1. k + 1 \in 1 .. Len(t) /\ k \in 0 .. (n - 1) /\ Position(t, k + 1) = k + 1
    BY <1>n, <1>4 DEF Position
  <2>2. PICK r, prices, after : r = g[k] /\ prices = PricesHeard(t, k) /\ after = g[k + 1]
    OBVIOUS
  <2>3. PICK i \in 1 .. Len(t) : i = k + 1
    BY <2>1
  <2>4. r \in Drafts /\ Holds(r.ladder, prices) /\ after = Turn(t, r, i)
    BY <1>2, <1>4, <2>1, <2>2, <2>3
  <2>5. PricesHeard(t, i) = prices \o Heard(t[i])
    BY <1>n, <1>4, <2>2, <2>3, PricesHeardGrow
  <2>6. after \in Drafts /\ Holds(after.ladder, prices \o Heard(t[i]))
    BY <2>4, TurnHolds
  <2>7. CASE t[i].closes
    <3>1. after.agreed # NoMoney =>
             /\ prices \o Heard(t[i]) # << >>
             /\ after.agreed.minor = (prices \o Heard(t[i]))[Len(prices \o Heard(t[i]))]
      BY <2>4, <2>7, TurnHolds
    <3>2. i \in 1 .. i /\ (i + 1) .. i = {}
      OBVIOUS
    <3>3. after.agreed # NoMoney => ClosedAt(t, i, after.agreed)
      BY <2>5, <2>7, <3>1, <3>2, Zenon DEF ClosedAt
    <3> QED
      BY <2>2, <2>3, <2>5, <2>6, <3>3
  <2>8. CASE ~t[i].closes
    <3>1. after.agreed = r.agreed
      <4>1. PICK l : after = [r EXCEPT !.ladder = l]
        BY <2>4, <2>8 DEF Turn
      <4> QED
        BY <2>4, <4>1 DEF Drafts
    <3>2. ASSUME r.agreed # NoMoney PROVE ClosedAt(t, i, r.agreed)
      <4>1. PICK c \in 1 .. k :
               /\ t[c].closes /\ \A d \in (c + 1) .. k : ~t[d].closes
               /\ PricesHeard(t, c) # << >>
               /\ r.agreed.minor = PricesHeard(t, c)[Len(PricesHeard(t, c))]
        BY <1>4, <2>2, <3>2 DEF ClosedAt
      <4>2. c \in 1 .. i /\ \A d \in (c + 1) .. i : d = i \/ d \in (c + 1) .. k
        BY <2>3
      <4>3. \A d \in (c + 1) .. i : ~t[d].closes
        BY <2>8, <4>1, <4>2
      <4> QED
        BY <4>1, <4>2, <4>3, Zenon DEF ClosedAt
    <3> QED
      BY <2>2, <2>3, <2>5, <2>6, <3>1, <3>2
  <2> QED
    BY <2>7, <2>8
<1> HIDE DEF Good
<1>5. 0 \in S /\ \A k \in Nat : k \in S => k + 1 \in S
  BY <1>3, <1>4
<1>6. n \in S
  <2> HIDE DEF S
  <2> QED
    BY <1>5, InductionOnSet
<1>7. Good(n)
  BY <1>6
<1>8. OfflineExtract(t) = ReadingOf(t, read)
  BY <1>1 DEF OfflineExtract
<1> QED
  BY <1>n, <1>2, <1>7, <1>8 DEF Good, Holds

-----------------------------------------------------------------------------
(* Voices and names.                                                       *)

Distinct(s) == \A i, j \in 1 .. Len(s) : s[i] = s[j] => i = j

LEMMA SpeakersDiffer ==
    ASSUME NEW t \in Seq(Phrases)
    PROVE  Speakers(t) \in Seq(STRING) /\ Distinct(Speakers(t))
<1>n. PICK n \in Nat : n = Len(t)
  BY LenProperties
<1>1. PICK g : /\ g[0] = << >> /\ \A k \in 0 .. n : g[k] \in Seq(STRING)
               /\ \A k \in 0 .. (n - 1) : g[k + 1] = Met(t, g[k], k + 1)
               /\ Speakers(t) = g[n]
  BY <1>n, SpeakersRun
<1> DEFINE Good(k) == Distinct(g[k])
           S == {k \in Nat : k <= n => Good(k)}
<1>2. Good(0)
  BY <1>1 DEF Distinct
<1>3. ASSUME NEW k \in Nat, k + 1 <= n, Good(k) PROVE Good(k + 1)
  <2>0. k \in 0 .. (n - 1) /\ k \in 0 .. n
    BY <1>3
  <2>1. PICK r, after, who : r \in Seq(STRING) /\ r = g[k] /\ after = g[k + 1] /\ who = t[k + 1].speaker
    BY <1>1, <2>0
  <2>2. after = IF who = NoSpeaker \/ Contains(r, who) THEN r ELSE Append(r, who)
    BY <1>1, <2>0, <2>1 DEF Met
  <2>3. CASE after = r
    BY <1>3, <2>1, <2>3
  <2>4. CASE after # r
    <3>1. after = Append(r, who) /\ \A i \in 1 .. Len(r) : r[i] # who
      BY <2>2, <2>4 DEF Contains
    <3>2. who \in STRING
      <4>1. k + 1 \in 1 .. Len(t)
        BY <1>n, <1>3
      <4>2. t[k + 1] \in Phrases
        BY <4>1, ElementOfSeq
      <4> QED
        BY <2>1, <4>2 DEF Phrases
    <3>3. /\ Len(after) = Len(r) + 1 /\ \A i \in 1 .. Len(r) : after[i] = r[i]
          /\ after[Len(r) + 1] = who
      BY <2>1, <3>1, <3>2, AppendProperties
    <3>4. Len(r) \in Nat /\ \A i \in 1 .. (Len(r) + 1) : i = Len(r) + 1 \/ i \in 1 .. Len(r)
      BY <2>1, LenProperties
    <3>5. Distinct(r)
      BY <1>3, <2>1
    <3>6. Distinct(after)
      BY <3>1, <3>3, <3>4, <3>5 DEF Distinct
    <3> QED
      BY <2>1, <3>6
  <2> QED
    BY <2>3, <2>4
<1> HIDE DEF Good
<1>4. 0 \in S /\ \A k \in Nat : k \in S => k + 1 \in S
  BY <1>2, <1>3
<1>5. n \in S
  <2> HIDE DEF S
  <2> QED
    BY <1>4, InductionOnSet
<1>6. Good(n)
  BY <1>5
<1> QED
  BY <1>1, <1>6 DEF Good

\* A set of positions has a least one.
LEMMA MinOfPositions ==
    ASSUME NEW n \in Nat, NEW u \in SUBSET (1 .. n), u # {}
    PROVE  Min(u) \in u
<1> DEFINE HasMin(k) == \A w \in SUBSET (1 .. k) :
                           w # {} => \E m \in w : \A y \in w : m <= y
           S == {k \in Nat : HasMin(k)}
<1>1. HasMin(0)
  <2>1. 1 .. 0 = {}
    OBVIOUS
  <2> QED
    BY <2>1
<1>2. ASSUME NEW k \in Nat, HasMin(k) PROVE HasMin(k + 1)
  <2> SUFFICES ASSUME NEW w \in SUBSET (1 .. (k + 1)), w # {}
               PROVE  \E m \in w : \A y \in w : m <= y
    OBVIOUS
  <2>1. CASE w \cap (1 .. k) = {}
    <3>1. \A y \in w : y = k + 1
      BY <2>1
    <3>2. PICK m \in w : TRUE
      OBVIOUS
    <3>3. m = k + 1 /\ \A y \in w : m <= y
      BY <3>1
    <3> QED
      BY <3>3
  <2>2. CASE w \cap (1 .. k) # {}
    <3>1. PICK m \in w \cap (1 .. k) : \A y \in w \cap (1 .. k) : m <= y
      BY <1>2, <2>2
    <3>2. \A y \in w : y \in w \cap (1 .. k) \/ y = k + 1
      OBVIOUS
    <3>3. m <= k + 1
      BY <3>1
    <3> QED
      BY <3>1, <3>2, <3>3
  <2> QED
    BY <2>1, <2>2
<1> HIDE DEF HasMin
<1>3. 0 \in S /\ \A k \in Nat : k \in S => k + 1 \in S
  BY <1>1, <1>2
<1>4. n \in S
  <2> HIDE DEF S
  <2> QED
    BY <1>3, InductionOnSet
<1>5. \E m \in u : \A y \in u : m <= y
  BY <1>4 DEF HasMin
<1> QED
  BY <1>5 DEF Min

Bindings        == [label : STRING, name : STRING]
Identifications == [bindings : Seq(Bindings), unbound : Seq(STRING)]

\* A label is bound to a name that its own phrases give, or it is not bound.
BoundIn(t, b, label, more) ==
    \E p \in DOMAIN t, c \in Bindings :
       /\ c.label = label /\ c.name = t[p].introduces /\ t[p].speaker = label
       /\ more = Append(b, c)

LEMMA BindIsOwn ==
    ASSUME NEW t \in Seq(Phrases), NEW id \in Identifications, NEW label \in STRING,
           NEW after, after = Bind(t, id, label)
    PROVE  /\ after \in Identifications
           /\ after.bindings = id.bindings \/ BoundIn(t, id.bindings, label, after.bindings)
<1>0. PICK b0 \in Seq(Bindings), u0 \in Seq(STRING) : id = [bindings |-> b0, unbound |-> u0]
  BY DEF Identifications
<1>1. PICK own : own = Introductions(t, label)
  OBVIOUS
<1>2. CASE own = {}
  <2>1. after = [id EXCEPT !.unbound = Append(@, label)]
    BY <1>1, <1>2 DEF Bind
  <2>2. after = [bindings |-> b0, unbound |-> Append(u0, label)]
    BY <1>0, <2>1
  <2>3. Append(u0, label) \in Seq(STRING)
    BY AppendProperties
  <2>4. after.bindings = id.bindings
    BY <1>0, <2>2
  <2>5. after \in Identifications
    BY <2>2, <2>3 DEF Identifications
  <2> QED
    BY <2>4, <2>5
<1>3. CASE own # {}
  <2>1. PICK n \in Nat : DOMAIN t = 1 .. n
    BY LenProperties
  <2>2. own \in SUBSET (1 .. n)
    BY <1>1, <2>1 DEF Introductions
  <2>3. PICK p \in own : p = Min(own)
    BY <1>3, <2>2, MinOfPositions
  <2>4. p \in DOMAIN t /\ t[p].speaker = label
    BY <1>1 DEF Introductions
  <2>5. t[p] \in Phrases
    BY <2>4, LenProperties, ElementOfSeq
  <2>6. PICK b \in Bindings : b = [label |-> label, name |-> t[p].introduces]
    BY <2>5 DEF Phrases, Bindings
  <2>7. after = [id EXCEPT !.bindings = Append(@, b)]
    <3>1. after = Named(id, label, t[p].introduces)
      BY <1>1, <1>3, <2>3 DEF Bind
    <3> QED
      BY <2>6, <3>1 DEF Named
  <2>8. after \in Identifications /\ after.bindings = Append(id.bindings, b)
    <3>1. after = [bindings |-> Append(b0, b), unbound |-> u0]
      BY <1>0, <2>7
    <3>2. Append(b0, b) \in Seq(Bindings)
      BY AppendProperties
    <3>3. id.bindings = b0 /\ after.bindings = Append(b0, b)
      BY <1>0, <3>1
    <3> QED
      BY <3>1, <3>2, <3>3 DEF Identifications
  <2> QED
    <3>1. b.label = label /\ b.name = t[p].introduces
      BY <2>6
    <3> QED
      BY <2>4, <2>8, <3>1 DEF BoundIn
<1> QED
  BY <1>2, <1>3

LEMMA BindTyped ==
    ASSUME NEW t \in Seq(Phrases), NEW id \in Identifications, NEW label \in STRING
    PROVE  Bind(t, id, label) \in Identifications
BY BindIsOwn

\* The identification of the voices, one after the other.
LEMMA IdentifyRuns ==
    ASSUME NEW t \in Seq(Phrases)
    PROVE  \E g : /\ g[0] = NoVoices /\ \A k \in 0 .. Len(Speakers(t)) : g[k] \in Identifications
                  /\ \A k \in 0 .. (Len(Speakers(t)) - 1) :
                        g[k + 1] = Bind(t, g[k], Speakers(t)[k + 1])
                  /\ OfflineIdentify(t) = g[Len(Speakers(t))]
<1>n. PICK n \in Nat : n = Len(Speakers(t)) /\ DOMAIN Speakers(t) = 1 .. n
  BY SpeakersDiffer, LenProperties
<1> DEFINE D == CHOOSE f : f = [w \in SUBSET (1 .. n) |->
                                  IF w = {} THEN NoVoices
                                  ELSE Bind(t, f[w \ {Max(w)}], Speakers(t)[Max(w)])]
<1>1. OfflineIdentify(t) = D[1 .. n]
  BY <1>n DEF OfflineIdentify, FoldLeft, MapThenFoldSet
<1> HIDE DEF D
<1>x. PICK X : X = Identifications
  OBVIOUS
<1>2. NoVoices \in X /\ \A r \in X, i \in 1 .. n : Bind(t, r, Speakers(t)[i]) \in X
  <2>1. \A i \in 1 .. n : Speakers(t)[i] \in STRING
    BY <1>n, SpeakersDiffer, ElementOfSeq
  <2>2. \A r \in X, i \in 1 .. n : Bind(t, r, Speakers(t)[i]) \in X
    BY <1>x, <2>1, BindTyped
  <2>3. NoVoices \in X
    BY <1>x, EmptySeq DEF Identifications, NoVoices
  <2> QED
    BY <2>2, <2>3
<1>3. PICK op : op = [a \in X \X (1 .. n) |-> Bind(t, a[1], Speakers(t)[a[2]])]
  OBVIOUS
<1>4. /\ op \in [X \X (1 .. n) -> X]
      /\ \A r \in X, i \in 1 .. n : op[<<r, i>>] = Bind(t, r, Speakers(t)[i])
  BY <1>2, <1>3
<1>5. PICK f \in [SUBSET (1 .. n) -> X] : FoldTable(f, n, NoVoices, op)
  BY <1>2, <1>4, FoldExists, Zenon
<1>6. ASSUME NEW w \in SUBSET (1 .. n)
      PROVE  f[w] = IF w = {} THEN NoVoices
                    ELSE Bind(t, f[w \ {Max(w)}], Speakers(t)[Max(w)])
  <2>1. CASE w = {}
    BY <1>5, <2>1 DEF FoldTable
  <2>2. CASE w # {}
    <3>1. PICK m : m = Max(w)
      OBVIOUS
    <3>2. m \in 1 .. n /\ w \ {m} \in SUBSET (1 .. n)
      BY <2>2, <3>1, MaxOfPositions
    <3>3. PICK r \in X : r = f[w \ {m}]
      BY <1>5, <3>2
    <3>4. f[w] = op[<<r, m>>]
      BY <1>5, <2>2, <3>1, <3>3 DEF FoldTable
    <3> QED
      BY <1>4, <2>2, <3>1, <3>2, <3>3, <3>4
  <2> QED
    BY <2>1, <2>2
<1>7. D = [w \in SUBSET (1 .. n) |->
             IF w = {} THEN NoVoices
             ELSE Bind(t, D[w \ {Max(w)}], Speakers(t)[Max(w)])]
  <2>1. f = [w \in SUBSET (1 .. n) |->
               IF w = {} THEN NoVoices
               ELSE Bind(t, f[w \ {Max(w)}], Speakers(t)[Max(w)])]
    BY <1>5, <1>6
  <2> QED
    BY <2>1 DEF D
<1>8. FoldsTo(D, n, NoVoices, op, X)
  <2>1. D[{}] = NoVoices
    BY <1>7
  <2>2. ASSUME NEW w \in SUBSET (1 .. n), w # {}, D[w \ {Max(w)}] \in X
        PROVE  D[w] = op[<<D[w \ {Max(w)}], Max(w)>>]
    <3>1. PICK m : m = Max(w)
      OBVIOUS
    <3>2. m \in 1 .. n
      BY <2>2, <3>1, MaxOfPositions
    <3>3. PICK r \in X : r = D[w \ {m}]
      BY <2>2, <3>1
    <3>4. D[w] = Bind(t, r, Speakers(t)[m])
      BY <1>7, <2>2, <3>1, <3>3
    <3> QED
      BY <1>4, <3>1, <3>2, <3>3, <3>4
  <2> QED
    BY <2>1, <2>2 DEF FoldsTo
<1>9. PICK g : RunOf(g, n, NoVoices, op, X) /\ D[1 .. n] = g[n]
  <2>1. NoVoices \in X /\ op \in [X \X (1 .. n) -> X]
    BY <1>2, <1>4
  <2>2. PICK E : E = D
    OBVIOUS
  <2>3. FoldsTo(E, n, NoVoices, op, X)
    BY <1>8, <2>2
  <2>4. HasRun(E, n, NoVoices, op, X)
    BY <1>n, <2>1, <2>3, FoldRuns, Zenon
  <2> QED
    BY <2>2, <2>4 DEF HasRun
<1>10. ASSUME NEW k \in 0 .. (n - 1) PROVE g[k + 1] = Bind(t, g[k], Speakers(t)[k + 1])
  <2>1. k \in 0 .. n /\ k + 1 \in 1 .. n
    OBVIOUS
  <2> QED
    BY <1>4, <1>9, <2>1 DEF RunOf
<1> QED
  BY <1>n, <1>x, <1>1, <1>9, <1>10 DEF RunOf

\* Bound labels are among the first k speakers, each bound once, by its own words.
OwnWords(t, b) ==
    \A i \in 1 .. Len(b) :
       \E p \in DOMAIN t : t[p].speaker = b[i].label /\ t[p].introduces = b[i].name

BoundOnce(b) == \A i, j \in 1 .. Len(b) : b[i].label = b[j].label => i = j

Among(b, names, k) == \A i \in 1 .. Len(b) : \E j \in 1 .. k : b[i].label = names[j]

LEMMA BindMore ==
    ASSUME NEW t, NEW b \in Seq(Bindings), NEW names, Distinct(names),
           NEW k \in Nat, k + 1 <= Len(names), Len(names) \in Nat,
           OwnWords(t, b), BoundOnce(b), Among(b, names, k),
           NEW c \in Bindings, c.label = names[k + 1],
           \E p \in DOMAIN t : t[p].speaker = c.label /\ t[p].introduces = c.name,
           NEW after, after = Append(b, c)
    PROVE  /\ OwnWords(t, after) /\ BoundOnce(after)
           /\ Among(after, names, k + 1)
<1>1. /\ Len(after) = Len(b) + 1 /\ \A i \in 1 .. Len(b) : after[i] = b[i]
      /\ after[Len(b) + 1] = c
  BY AppendProperties
<1>2. Len(b) \in Nat /\ \A i \in 1 .. (Len(b) + 1) : i = Len(b) + 1 \/ i \in 1 .. Len(b)
  BY LenProperties
<1>3. OwnWords(t, after)
  BY <1>1, <1>2 DEF OwnWords
<1>4. \A i \in 1 .. Len(b) : b[i].label # c.label
  <2> SUFFICES ASSUME NEW i \in 1 .. Len(b), b[i].label = names[k + 1] PROVE FALSE
    OBVIOUS
  <2>1. PICK j \in 1 .. k : b[i].label = names[j]
    BY DEF Among
  <2>2. j \in 1 .. Len(names) /\ k + 1 \in 1 .. Len(names) /\ j # k + 1
    OBVIOUS
  <2>3. names[j] = names[k + 1]
    BY <2>1
  <2> QED
    BY <2>2, <2>3 DEF Distinct
<1>5. BoundOnce(after)
  BY <1>1, <1>2, <1>4 DEF BoundOnce
<1>6. Among(after, names, k + 1)
  <2>1. k + 1 \in 1 .. (k + 1) /\ 1 .. k \subseteq 1 .. (k + 1)
    OBVIOUS
  <2> QED
    BY <1>1, <1>2, <2>1 DEF Among
<1> QED
  BY <1>3, <1>5, <1>6

LEMMA IdentifyHolds ==
    ASSUME NEW t \in Seq(Phrases)
    PROVE  /\ OfflineIdentify(t) \in Identifications
           /\ OwnWords(t, OfflineIdentify(t).bindings)
           /\ BoundOnce(OfflineIdentify(t).bindings)
<1>1. PICK names \in Seq(STRING) : names = Speakers(t) /\ Distinct(names)
  BY SpeakersDiffer
<1>n. PICK n \in Nat : n = Len(names)
  BY LenProperties
<1>2. PICK g : /\ g[0] = NoVoices /\ \A k \in 0 .. n : g[k] \in Identifications
               /\ \A k \in 0 .. (n - 1) : g[k + 1] = Bind(t, g[k], names[k + 1])
               /\ OfflineIdentify(t) = g[n]
  BY <1>1, <1>n, IdentifyRuns
<1> DEFINE Good(k) == /\ OwnWords(t, g[k].bindings) /\ BoundOnce(g[k].bindings)
                      /\ Among(g[k].bindings, names, k)
           S == {k \in Nat : k <= n => Good(k)}
<1>3. Good(0)
  BY <1>2 DEF NoVoices, OwnWords, BoundOnce, Among
<1>4. ASSUME NEW k \in Nat, k + 1 <= n, Good(k) PROVE Good(k + 1)
  <2>1. k \in 0 .. (n - 1) /\ k \in 0 .. n /\ k + 1 \in 1 .. Len(names)
    BY <1>n, <1>4
  <2>a. names[k + 1] \in STRING
    BY <2>1, ElementOfSeq
  <2>b. PICK label \in STRING : label = names[k + 1]
    BY <2>a
  <2>c. PICK id \in Identifications : id = g[k]
    BY <1>2, <2>1
  <2>d. PICK after : after = g[k + 1]
    OBVIOUS
  <2>2. id = g[k] /\ after = g[k + 1] /\ label = names[k + 1]
    BY <2>b, <2>c, <2>d
  <2>3. after = Bind(t, id, label)
    BY <1>2, <2>1, <2>2
  <2>4. CASE after.bindings = id.bindings
    <3>1. Among(id.bindings, names, k + 1)
      <4>1. 1 .. k \subseteq 1 .. (k + 1)
        OBVIOUS
      <4> QED
        BY <1>4, <2>2, <4>1 DEF Among
    <3> QED
      BY <1>4, <2>2, <2>4, <3>1
  <2>5. ASSUME NEW p \in DOMAIN t, NEW c \in Bindings,
               c.label = label, c.name = t[p].introduces, t[p].speaker = label,
               after.bindings = Append(id.bindings, c)
        PROVE  Good(k + 1)
    <3>1. PICK b, more : b \in Seq(Bindings) /\ b = id.bindings /\ more = after.bindings
      BY DEF Identifications
    <3>2. OwnWords(t, b) /\ BoundOnce(b) /\ Among(b, names, k)
      BY <1>4, <2>2, <3>1
    <3>3. c.label = names[k + 1] /\ k + 1 <= Len(names) /\ Len(names) \in Nat
      BY <1>n, <1>4, <2>2, <2>5
    <3>4. \E q \in DOMAIN t : t[q].speaker = c.label /\ t[q].introduces = c.name
      BY <2>5
    <3>5. OwnWords(t, more) /\ BoundOnce(more) /\ Among(more, names, k + 1)
      BY <1>1, <2>5, <3>1, <3>2, <3>3, <3>4, BindMore
    <3> QED
      BY <2>2, <3>1, <3>5
  <2> QED
    <3>1. after.bindings = id.bindings \/ BoundIn(t, id.bindings, label, after.bindings)
      BY <2>3, BindIsOwn
    <3> HIDE DEF Good
    <3> QED
      BY <2>4, <2>5, <3>1 DEF BoundIn
<1> HIDE DEF Good
<1>5. 0 \in S /\ \A k \in Nat : k \in S => k + 1 \in S
  BY <1>3, <1>4
<1>6. n \in S
  <2> HIDE DEF S
  <2> QED
    BY <1>5, InductionOnSet
<1>7. Good(n) /\ n \in 0 .. n
  BY <1>6
<1> QED
  BY <1>2, <1>7 DEF Good

-----------------------------------------------------------------------------
(* Terms from either reading.                                              *)

MadeIn(currency) == {m \in Money : m.minor > 0 /\ m.currency = currency}

RungsIn(currency) ==
    [by : {"buyer", "seller"}, kind : RungKinds, amount : MadeIn(currency) \cup {NoMoney}]

\* A reading whose money is all in one currency.
ReadIn(x, currency) ==
    /\ x.item \in Texts /\ x.buyer \in Texts /\ x.seller \in Texts
    /\ x.price \in MadeIn(currency) \cup {NoMoney}
    /\ x.ladder \in Seq(RungsIn(currency))

LEMMA ProposedIsWellFormed ==
    ASSUME NEW currency, NEW x, ReadIn(x, currency), NEW t \in Proposed(x)
    PROVE  t \in CandidateTerms /\ WellFormed(t)
<1>1. IsProposable(x) /\ Validate(t) /\ t = ToCandidateTerms(x)
  BY DEF Proposed
<1>2. /\ t = [item |-> x.item, price |-> x.price, buyer |-> x.buyer, seller |-> x.seller,
              ladder |-> x.ladder]
      /\ x.price # NoMoney
  BY <1>1 DEF ToCandidateTerms, IsProposable
<1>3. /\ t.item = x.item /\ t.price = x.price /\ t.buyer = x.buyer /\ t.seller = x.seller
      /\ t.ladder = x.ladder
  BY <1>2
<1>4. x.price \in Money /\ x.price.minor > 0 /\ x.price.currency = currency
  BY <1>2 DEF ReadIn, MadeIn
<1>5. x.price.currency \in Codes
  BY <1>4 DEF Money
<1>6. \A i \in DOMAIN x.ladder : x.ladder[i] \in RungsIn(currency)
  BY LenProperties, ElementOfSeq DEF ReadIn
<1>7. ASSUME NEW i \in DOMAIN t.ladder
      PROVE  /\ t.ladder[i].by \in {"buyer", "seller"}
             /\ t.ladder[i].amount # NoMoney =>
                   /\ t.ladder[i].amount.minor > 0
                   /\ t.ladder[i].amount.currency = t.price.currency
  <2>1. PICK o \in RungsIn(currency) : o = t.ladder[i]
    BY <1>3, <1>6
  <2>2. o.by \in {"buyer", "seller"} /\ o.amount \in MadeIn(currency) \cup {NoMoney}
    BY DEF RungsIn
  <2>3. o.amount # NoMoney => o.amount.minor > 0 /\ o.amount.currency = currency
    BY <2>2 DEF MadeIn
  <2> QED
    BY <1>3, <1>4, <2>1, <2>2, <2>3
<1>8. WellFormed(t)
  <2>1. t.item # Blank /\ t.buyer # Blank /\ t.seller # Blank /\ ~SameName(t.buyer, t.seller)
    BY <1>1 DEF Validate
  <2>2. t.price.minor > 0 /\ t.price.currency \in Codes
    BY <1>3, <1>4, <1>5
  <2> QED
    BY <1>7, <2>1, <2>2 DEF WellFormed
<1>9. x.ladder \in Seq(Offers)
  <2>1. RungsIn(currency) \subseteq Offers
    BY DEF RungsIn, Offers, MadeIn
  <2> QED
    BY <2>1, SeqMonotonic DEF ReadIn
<1>10. t \in CandidateTerms
  BY <1>2, <1>4, <1>9 DEF CandidateTerms, ReadIn
<1> QED
  BY <1>8, <1>10

LEMMA OfflineReads ==
    ASSUME NEW t \in Seq(Phrases)
    PROVE  ReadIn(OfflineExtract(t), DefaultCurrency)
<1>1. PICK read \in Drafts : OfflineExtract(t) = ReadingOf(t, read)
  BY ExtractHolds
<1>2. PICK x : x = OfflineExtract(t)
  OBVIOUS
<1>3. PICK names \in Seq(STRING) : names = Speakers(t)
  BY SpeakersDiffer
<1>4. /\ x.item = "item" /\ x.price = read.agreed /\ x.ladder = read.ladder
      /\ x.buyer = IF names = << >> THEN "Buyer" ELSE names[1]
      /\ x.seller = IF Len(names) < 2 THEN "Seller" ELSE names[2]
  BY <1>1, <1>2, <1>3 DEF ReadingOf
<1>5. x.buyer \in Texts
  <2>1. CASE names = << >>
    BY <1>4, <2>1 DEF Texts
  <2>2. CASE names # << >>
    <3>1. 1 \in 1 .. Len(names)
      BY <2>2, EmptySeq
    <3>2. names[1] \in STRING
      BY <3>1, ElementOfSeq
    <3> QED
      BY <1>4, <2>2, <3>2 DEF Texts
  <2> QED
    BY <2>1, <2>2
<1>6. x.seller \in Texts
  <2>1. CASE Len(names) < 2
    BY <1>4, <2>1 DEF Texts
  <2>2. CASE ~(Len(names) < 2)
    <3>1. 2 \in 1 .. Len(names)
      BY <2>2, LenProperties
    <3>2. names[2] \in STRING
      BY <3>1, ElementOfSeq
    <3> QED
      BY <1>4, <2>2, <3>2 DEF Texts
  <2> QED
    BY <2>1, <2>2
<1>7. Amounts \subseteq MadeIn(DefaultCurrency)
  BY PricedAmounts DEF Amounts, Prices, MadeIn
<1>8. x.price \in MadeIn(DefaultCurrency) \cup {NoMoney}
  BY <1>4, <1>7 DEF Drafts
<1>9. x.ladder \in Seq(RungsIn(DefaultCurrency))
  <2>1. Rungs \subseteq RungsIn(DefaultCurrency)
    BY <1>7 DEF Rungs, RungsIn
  <2>2. x.ladder \in Seq(Rungs)
    BY <1>4 DEF Drafts
  <2> QED
    BY <2>1, <2>2, SeqMonotonic
<1>10. x.item \in Texts
  BY <1>4 DEF Texts
<1> QED
  BY <1>2, <1>5, <1>6, <1>8, <1>9, <1>10 DEF ReadIn

LEMMA MoneyMade ==
    ASSUME NEW c, NEW n \in Int, NEW m \in IF n > 0 THEN MoneyNew(c, n) ELSE {NoMoney}
    PROVE  m \in MadeIn(c) \cup {NoMoney}
<1>1. CASE n > 0
  <2>1. c \in Codes /\ m = [currency |-> c, minor |-> n]
    BY <1>1 DEF MoneyNew
  <2>2. m \in Money /\ m.minor > 0 /\ m.currency = c
    BY <1>1, <2>1 DEF Money
  <2> QED
    BY <2>2 DEF MadeIn
<1>2. CASE ~(n > 0)
  BY <1>2
<1> QED
  BY <1>1, <1>2

LEMMA ModelReads ==
    ASSUME NEW raw \in Bodies, NEW x \in IntoDomain(raw, DefaultCurrency)
    PROVE  \E currency : ReadIn(x, currency)
<1> DEFINE c         == IF raw.currency.bytes = 3 THEN raw.currency.capitals
                        ELSE DefaultCurrency
           Amount(n) == IF n > 0 THEN MoneyNew(c, n) ELSE {NoMoney}
           The(n)    == CHOOSE m \in Amount(n) : TRUE
           Known(o)  == o.by \in {"buyer", "seller"} /\ o.kind \in RungKinds
<1>1. /\ Amount(raw.price) # {}
      /\ \A i \in DOMAIN raw.ladder :
            Known(raw.ladder[i]) /\ Amount(raw.ladder[i].amount) # {}
      /\ x = [item |-> raw.item, price |-> The(raw.price), closed |-> raw.closed,
              buyer |-> raw.buyer, seller |-> raw.seller,
              ladder |-> [i \in DOMAIN raw.ladder |->
                             [raw.ladder[i] EXCEPT !.amount = The(@)]]]
  BY DEF IntoDomain
<1>2. PICK cur : cur = c
  OBVIOUS
<1>3. ASSUME NEW n \in Int, Amount(n) # {} PROVE The(n) \in MadeIn(cur) \cup {NoMoney}
  <2>1. The(n) \in Amount(n)
    BY <1>3
  <2> QED
    BY <1>2, <2>1, MoneyMade
<1> HIDE DEF c, Amount, The
<1>4. raw.price \in Int /\ raw.item \in STRING /\ raw.buyer \in STRING /\ raw.seller \in STRING
  BY DEF Bodies
<1>5. x.price \in MadeIn(cur) \cup {NoMoney}
  BY <1>1, <1>3, <1>4
<1>6. PICK Z : Z = [by : STRING, kind : STRING, amount : Int]
  OBVIOUS
<1>7. raw.ladder \in Seq(Z)
  BY <1>6 DEF Bodies
<1>8. PICK n \in Nat : n = Len(raw.ladder) /\ DOMAIN raw.ladder = 1 .. n
  BY <1>7, LenProperties
<1>9. PICK l : l = [i \in DOMAIN raw.ladder |-> [raw.ladder[i] EXCEPT !.amount = The(@)]]
  OBVIOUS
<1>10. ASSUME NEW i \in 1 .. n PROVE l[i] \in RungsIn(cur)
  <2>1. PICK o \in Z : o = raw.ladder[i]
    BY <1>7, <1>8, ElementOfSeq
  <2>2. o.amount \in Int /\ Known(o) /\ Amount(o.amount) # {}
    BY <1>1, <1>6, <1>8, <2>1
  <2>3. PICK a : a = The(o.amount) /\ a \in MadeIn(cur) \cup {NoMoney}
    BY <1>3, <2>2
  <2>4. l[i] = [o EXCEPT !.amount = a]
    BY <1>8, <1>9, <2>1, <2>3
  <2>5. PICK by, kind : o = [by |-> by, kind |-> kind, amount |-> o.amount]
    BY <1>6
  <2>6. l[i] = [by |-> by, kind |-> kind, amount |-> a]
    BY <2>4, <2>5
  <2>7. by \in {"buyer", "seller"} /\ kind \in RungKinds
    <3>1. o.by = by /\ o.kind = kind
      BY <2>5
    <3> QED
      BY <2>2, <3>1
  <2> QED
    BY <2>3, <2>6, <2>7 DEF RungsIn
<1>11. l \in Seq(RungsIn(cur))
  <2>1. PICK R : R = RungsIn(cur)
    OBVIOUS
  <2>2. l = [i \in 1 .. n |-> l[i]] /\ \A i \in 1 .. n : l[i] \in R
    BY <1>8, <1>9, <1>10, <2>1
  <2>3. l \in [1 .. n -> R]
    BY <2>2
  <2> QED
    BY <2>1, <2>3
<1>12. x.item = raw.item /\ x.buyer = raw.buyer /\ x.seller = raw.seller /\ x.ladder = l
  BY <1>1, <1>9
<1> QED
  BY <1>4, <1>5, <1>11, <1>12 DEF ReadIn, Texts

-----------------------------------------------------------------------------
(* The session.                                                            *)

OfflineStands == reader = "offline" => terms \in Proposed(OfflineExtract(transcript))

\* What holds after every request.  The properties are read off what is proposed
\* and when: nothing is said after the proposal, so the terms stay those of the
\* whole transcript, and the voices stay bound by words that are still there.
ReadingInv ==
    /\ transcript \in Seq(Phrases)
    /\ terms = NoTerms => reader = "none"
    /\ terms # NoTerms => WellFormed(terms)
    /\ OfflineStands
    /\ voices \in Identifications
    /\ OwnWords(transcript, voices.bindings) /\ BoundOnce(voices.bindings)

LEMMA ReadingInit == Init => ReadingInv
<1> SUFFICES ASSUME Init PROVE ReadingInv
  OBVIOUS
<1>1. voices \in Identifications /\ voices.bindings = << >>
  BY EmptySeq DEF Init, NoVoices, Identifications
<1>2. OwnWords(transcript, voices.bindings) /\ BoundOnce(voices.bindings)
  BY <1>1 DEF OwnWords, BoundOnce
<1>3. transcript \in Seq(Phrases)
  BY EmptySeq DEF Init
<1>4. terms = NoTerms /\ reader = "none"
  BY DEF Init
<1> QED
  BY <1>1, <1>2, <1>3, <1>4 DEF ReadingInv, OfflineStands

LEMMA ModelTermsAreWellFormed ==
    ASSUME NEW a \in Answers, NEW x \in ModelExtract(a), NEW t \in Proposed(x)
    PROVE  t # NoTerms /\ WellFormed(t)
<1>1. a.body \in Bodies
  BY InputsAssumption DEF Replies
<1>2. Call(a) \subseteq Bodies
  BY <1>1 DEF Call
<1>3. PICK raw \in Bodies : x \in IntoDomain(raw, DefaultCurrency)
  BY <1>2 DEF ModelExtract
<1>4. PICK currency : ReadIn(x, currency)
  BY <1>3, ModelReads
<1>5. t \in CandidateTerms /\ WellFormed(t)
  BY <1>4, ProposedIsWellFormed
<1> QED
  BY <1>5, InputsAssumption

LEMMA OfflineTermsAreWellFormed ==
    ASSUME NEW s \in Seq(Phrases), NEW t \in Proposed(OfflineExtract(s))
    PROVE  t # NoTerms /\ WellFormed(t)
<1>1. t \in CandidateTerms /\ WellFormed(t)
  BY OfflineReads, ProposedIsWellFormed
<1> QED
  BY <1>1, InputsAssumption

LEMMA ReadingNext == ReadingInv /\ [Next]_vars => ReadingInv'
<1> SUFFICES ASSUME ReadingInv, [Next]_vars PROVE ReadingInv'
  OBVIOUS
<1>1. CASE UNCHANGED vars
  BY <1>1 DEF vars, ReadingInv, OfflineStands
<1>2. ASSUME NEW u \in Utterances, Say(u) PROVE ReadingInv'
  <2>1. u \in Phrases
    BY InputsAssumption
  <2>2. /\ terms = NoTerms /\ UNCHANGED <<voices, terms, reader>>
        /\ transcript' = Append(transcript, u)
    BY <1>2 DEF Say
  <2>3. /\ transcript' \in Seq(Phrases)
        /\ \A p \in DOMAIN transcript : p \in DOMAIN transcript' /\ transcript'[p] = transcript[p]
    <3>1. transcript \in Seq(Phrases)
      BY DEF ReadingInv
    <3>2. PICK r : r = Append(transcript, u)
      OBVIOUS
    <3>3. /\ r \in Seq(Phrases) /\ Len(r) = Len(transcript) + 1
          /\ \A p \in 1 .. Len(transcript) : r[p] = transcript[p]
      BY <2>1, <3>1, <3>2, AppendProperties
    <3>4. /\ DOMAIN transcript = 1 .. Len(transcript) /\ Len(transcript) \in Nat
          /\ DOMAIN r = 1 .. Len(r)
      BY <3>1, <3>3, LenProperties
    <3> QED
      BY <2>2, <3>2, <3>3, <3>4
  <2>4. OwnWords(transcript, voices.bindings)'
    BY <2>2, <2>3 DEF ReadingInv, OwnWords
  <2>5. reader = "none"
    BY <2>2 DEF ReadingInv
  <2> QED
    BY <2>2, <2>3, <2>4, <2>5 DEF ReadingInv, OfflineStands, BoundOnce
<1>3. CASE Identify
  <2>1. UNCHANGED <<transcript, terms, reader>> /\ voices' = OfflineIdentify(transcript)
    BY <1>3 DEF Identify
  <2>2. PICK t \in Seq(Phrases) : t = transcript
    BY DEF ReadingInv
  <2>3. PICK id : id = OfflineIdentify(t)
    OBVIOUS
  <2>4. id \in Identifications /\ OwnWords(t, id.bindings) /\ BoundOnce(id.bindings)
    BY <2>3, IdentifyHolds
  <2>5. transcript' = t /\ voices' = id
    BY <2>1, <2>2, <2>3
  <2> QED
    BY <2>1, <2>4, <2>5 DEF ReadingInv, OfflineStands
<1>4. CASE ProposeOffline
  <2>1. PICK t \in Proposed(OfflineExtract(transcript)) : terms' = t
    BY <1>4 DEF ProposeOffline, Propose
  <2>2. UNCHANGED <<transcript, voices>>
    BY <1>4 DEF ProposeOffline, Propose
  <2>3. t # NoTerms /\ WellFormed(t)
    BY OfflineTermsAreWellFormed DEF ReadingInv
  <2>4. WellFormed(terms') /\ terms' # NoTerms
    BY <2>1, <2>3
  <2>5. OfflineStands'
    BY <2>1, <2>2 DEF OfflineStands
  <2> QED
    BY <2>2, <2>4, <2>5 DEF ReadingInv, OwnWords, BoundOnce
<1>5. ASSUME NEW a \in Answers, Propose(ModelExtract(a), "model") PROVE ReadingInv'
  <2>1. PICK x \in ModelExtract(a) : \E t \in Proposed(x) : terms' = t
    BY <1>5 DEF Propose
  <2>2. PICK t \in Proposed(x) : terms' = t
    BY <2>1
  <2>3. UNCHANGED <<transcript, voices>> /\ reader' = "model"
    BY <1>5 DEF Propose
  <2>4. t # NoTerms /\ WellFormed(t)
    BY ModelTermsAreWellFormed
  <2>5. WellFormed(terms') /\ terms' # NoTerms
    BY <2>2, <2>4
  <2> QED
    BY <2>3, <2>5 DEF ReadingInv, OfflineStands, OwnWords, BoundOnce
<1> QED
  BY <1>1, <1>2, <1>3, <1>4, <1>5 DEF Next, ProposeModel

\* The invariant holds of every reachable state.
THEOREM ReadingInductive == Spec => []ReadingInv
BY ReadingInit, ReadingNext, PTL DEF Spec

\* ProposedTermsAreWellFormed: terms in front of the parties name an item, two different
\* people and a positive price, and their ladder is in the price's currency, whatever
\* the API answers and whatever is said (IntoDomain, is_proposable and validate).
THEOREM TermsAreWellFormed == Spec => []ProposedTermsAreWellFormed
<1>1. ReadingInv => ProposedTermsAreWellFormed
  BY DEF ReadingInv, ProposedTermsAreWellFormed
<1> QED
  BY <1>1, ReadingInductive, PTL

\* VoicesNameThemselves: a name is bound to a voice by that voice's own phrases, and no
\* voice twice, in a conversation of any length and any number of voices.
THEOREM NamesAreOwnWords == Spec => []VoicesNameThemselves
<1>1. ReadingInv => VoicesNameThemselves
  <2> SUFFICES ASSUME ReadingInv PROVE VoicesNameThemselves
    OBVIOUS
  <2>1. voices.bindings \in Seq(Bindings)
    BY DEF ReadingInv, Identifications
  <2>2. DOMAIN voices.bindings = 1 .. Len(voices.bindings)
    BY <2>1, LenProperties
  <2>3. ASSUME NEW i \in DOMAIN voices.bindings
        PROVE  \E u \in ToSet(transcript) :
                  /\ u.speaker = voices.bindings[i].label
                  /\ u.introduces = voices.bindings[i].name
    <3>1. PICK p \in DOMAIN transcript : /\ transcript[p].speaker = voices.bindings[i].label
                                         /\ transcript[p].introduces = voices.bindings[i].name
      BY <2>2 DEF ReadingInv, OwnWords
    <3>2. transcript[p] \in ToSet(transcript)
      BY DEF ToSet
    <3> QED
      BY <3>1, <3>2
  <2>4. ASSUME IsComplete(voices) PROVE voices.bindings[1].label # voices.bindings[2].label
    <3>1. 1 \in 1 .. Len(voices.bindings) /\ 2 \in 1 .. Len(voices.bindings)
      BY <2>4 DEF IsComplete
    <3>2. 1 # 2
      OBVIOUS
    <3> QED
      BY <3>1, <3>2 DEF ReadingInv, BoundOnce
  <2> QED
    BY <2>3, <2>4 DEF VoicesNameThemselves
<1> QED
  BY <1>1, ReadingInductive, PTL

\* What an offline proposal says of the transcript it was read from.
LEMMA OfflineProposal ==
    ASSUME NEW t \in Seq(Phrases), NEW p \in Proposed(OfflineExtract(t))
    PROVE  /\ PricesOn(p.ladder) = PricesHeard(t, Len(t))
           /\ ClosedAt(t, Len(t), p.price)
<1>1. PICK read \in Drafts :
         /\ OfflineExtract(t) = ReadingOf(t, read)
         /\ PricesOn(read.ladder) = PricesHeard(t, Len(t))
         /\ read.agreed # NoMoney => ClosedAt(t, Len(t), read.agreed)
  BY ExtractHolds
<1>2. PICK x : x = OfflineExtract(t)
  OBVIOUS
<1>3. x.price = read.agreed /\ x.ladder = read.ladder
  BY <1>1, <1>2 DEF ReadingOf
<1>4. IsProposable(x) /\ p = ToCandidateTerms(x)
  BY <1>2 DEF Proposed
<1>5. x.price # NoMoney /\ p.price = x.price /\ p.ladder = x.ladder
  BY <1>4 DEF IsProposable, ToCandidateTerms
<1> QED
  BY <1>1, <1>3, <1>5

\* AgreedIsLastOnTable: the price an offline reading proposes is the last one said up to
\* the last closing words, however many numbers are said after them.
THEOREM AgreedPriceIsLast == Spec => []AgreedIsLastOnTable
<1>1. ReadingInv => AgreedIsLastOnTable
  <2> SUFFICES ASSUME ReadingInv, reader = "offline" PROVE AgreedIsLastOnTable
    BY DEF AgreedIsLastOnTable
  <2>1. transcript \in Seq(Phrases) /\ terms \in Proposed(OfflineExtract(transcript))
    BY DEF ReadingInv, OfflineStands
  <2>2. ClosedAt(transcript, Len(transcript), terms.price)
    BY <2>1, OfflineProposal
  <2>3. DOMAIN transcript = 1 .. Len(transcript)
    BY <2>1, LenProperties
  <2>4. \A c : PricesHeard(transcript, c) = PricesUpTo(c)
    BY DEF PricesHeard, PricesUpTo
  <2> QED
    BY <2>2, <2>3, <2>4, Zenon DEF ClosedAt, AgreedIsLastOnTable
<1> QED
  BY <1>1, ReadingInductive, PTL
=============================================================================
