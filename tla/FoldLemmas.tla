---------------------------- MODULE FoldLemmas ----------------------------
(***************************************************************************)
(* Induction and recursion over numbers and over the positions of a        *)
(* sequence.  A statement about numbers is a set of them here, and the     *)
(* step of a recursion a function: that way the provers can use both.      *)
(***************************************************************************)
EXTENDS SequencesExt, WellFoundedInduction, FiniteSetTheorems, TLAPS

Less == {p \in Nat \X Nat : p[1] < p[2]}

\* The least element of a set of numbers.
LEMMA LeastOf ==
  ASSUME NEW S \in SUBSET Nat, S # {}
  PROVE  \E m \in S : \A x \in S : m <= x
<1>1. IsWellFoundedOn(Less, Nat)
  BY NatLessThanWellFounded DEF OpToRel, Less
<1>2. PICK m \in S : \A x \in S : <<x, m>> \notin Less
  BY <1>1, WFMin
<1>3. ASSUME NEW x \in S, x < m PROVE <<x, m>> \in Less
  <2>1. <<x, m>> \in Nat \X Nat /\ <<x, m>>[1] < <<x, m>>[2]
    BY <1>3
  <2>. QED
    BY <2>1 DEF Less
<1>4. ASSUME NEW x \in S PROVE m <= x
  <2>1. x \in Nat /\ m \in Nat
    OBVIOUS
  <2>2. ~ (x < m)
    BY <1>2, <1>3
  <2>. QED
    BY <2>1, <2>2
<1>. QED
  BY <1>4

\* Induction: a set that has 0, and with a number the next one, has them all.
LEMMA NatInduct ==
  ASSUME NEW S, 0 \in S, \A n \in Nat : n \in S => n + 1 \in S
  PROVE  Nat \subseteq S
<1>1. SUFFICES ASSUME Nat \ S # {} PROVE FALSE
  OBVIOUS
<1>2. PICK m \in Nat \ S : \A x \in Nat \ S : m <= x
  BY <1>1, LeastOf
<1>3. m # 0 /\ m - 1 \in Nat
  OBVIOUS
<1>4. m - 1 \in S
  BY <1>2, <1>3
<1>. QED
  BY <1>3, <1>4

\* A bounded set of integers that is not empty has a largest one.
LEMMA MaxOf ==
  ASSUME NEW a \in Int, NEW b \in Int, NEW S, S \subseteq a..b, S # {}
  PROVE  /\ Max(S) \in S
         /\ \A x \in S : x <= Max(S)
<1> DEFINE T == {b - x : x \in S}
<1>1. \A x \in S : x \in Int /\ x <= b
  OBVIOUS
<1>2. T \subseteq Nat
  BY <1>1
<1>3. T # {}
  OBVIOUS
<1>4. PICK m \in T : \A x \in T : m <= x
  BY <1>2, <1>3, LeastOf, Zenon
<1>5. PICK c \in S : m = b - c
  OBVIOUS
<1>6. \A x \in S : b - x \in T
  OBVIOUS
<1>7. \A x \in S : c >= x
  BY <1>1, <1>4, <1>5, <1>6
<1>8. \E y \in S : \A x \in S : y >= x
  BY <1>7
<1>9. /\ Max(S) \in S
      /\ \A x \in S : Max(S) >= x
  BY <1>8, Zenon DEF Max
<1>. QED
  BY <1>1, <1>9

\* A set of positions has a last one.
LEMMA MaxFrom1 ==
  ASSUME NEW n \in Nat, NEW S, S \subseteq 1..n, S # {}
  PROVE  /\ Max(S) \in S /\ Max(S) \in 1..n /\ Max(S) \in Nat
         /\ \A x \in S : x <= Max(S)
         /\ S \ {Max(S)} \in SUBSET (1..n)
<1>1. 1 \in Int /\ n \in Int
  OBVIOUS
<1>2. Max(S) \in S /\ \A x \in S : x <= Max(S)
  BY <1>1, MaxOf, Zenon
<1>3. Max(S) \in 1..n
  BY <1>2
<1>4. Max(S) \in Nat
  BY <1>3
<1>5. S \ {Max(S)} \in SUBSET (1..n)
  OBVIOUS
<1>. QED
  BY <1>2, <1>3, <1>4, <1>5

\* The largest one is the one no other exceeds.
LEMMA MaxIs ==
  ASSUME NEW n \in Nat, NEW S, S \subseteq 1..n, NEW m \in S, \A x \in S : x <= m
  PROVE  Max(S) = m
<1>1. Max(S) \in S /\ Max(S) \in Nat /\ \A x \in S : x <= Max(S)
  BY MaxFrom1
<1>2. m \in Nat
  OBVIOUS
<1>. QED
  BY <1>1, <1>2

\* The last position, and those before it.
LEMMA LastOf ==
  ASSUME NEW k \in Nat
  PROVE  /\ 1..(k + 1) # {} /\ Max(1..(k + 1)) = k + 1
         /\ (1..(k + 1)) \ {k + 1} = 1..k
<1> DEFINE S == 1..(k + 1)
<1>1. S \subseteq 1..(k + 1) /\ S # {} /\ k + 1 \in S
  OBVIOUS
<1>2. \A x \in S : x <= k + 1
  OBVIOUS
<1>3. (1..(k + 1)) \ {k + 1} = 1..k
  OBVIOUS
<1>. HIDE DEF S
<1>4. Max(S) \in S /\ \A x \in S : x <= Max(S)
  <2>1. k + 1 \in Nat
    OBVIOUS
  <2>. QED
    BY <1>1, <2>1, MaxFrom1, Zenon
<1>5. Max(S) = k + 1
  <2>1. Max(S) \in Int
    BY <1>4 DEF S
  <2>. QED
    BY <1>1, <1>2, <1>4, <2>1
<1>. QED
  BY <1>1, <1>3, <1>5 DEF S

\* The positions up to one of n.
LEMMA PrefixOf ==
  ASSUME NEW n \in Nat, NEW k \in 1..n
  PROVE  /\ k - 1 \in 0..n /\ 1..k \in SUBSET (1..n) /\ 1..k # {}
         /\ Max(1..k) = k /\ (1..k) \ {Max(1..k)} = 1..(k - 1)
<1>1. k - 1 \in Nat /\ (k - 1) + 1 = k
  OBVIOUS
<1>2. 1..k # {} /\ Max(1..k) = k /\ (1..k) \ {k} = 1..(k - 1)
  BY <1>1, LastOf
<1>. QED
  BY <1>2

\* What a fold over the positions 1..n makes of each set of them.
Folds(f, n, base, step) ==
  \A s \in SUBSET (1..n) :
     f[s] = IF s = {} THEN base ELSE step[<<f[s \ {Max(s)}], Max(s)>>]

\* There is a function that does.
LEMMA FoldExists ==
  ASSUME NEW V, NEW base \in V, NEW n \in Nat, NEW step \in [V \X Nat -> V]
  PROVE  \E f \in [SUBSET (1..n) -> V] : Folds(f, n, base, step)
<1> DEFINE P == {k \in Nat : \E f \in [SUBSET (1..k) -> V] : Folds(f, k, base, step)}
<1>1. 0 \in P
  <2>1. 1..0 = {}
    OBVIOUS
  <2>2. Folds([s \in SUBSET (1..0) |-> base], 0, base, step)
    BY <2>1 DEF Folds
  <2>. QED
    BY <2>2
<1>2. ASSUME NEW k \in Nat, k \in P PROVE k + 1 \in P
  <2>1. PICK f \in [SUBSET (1..k) -> V] : Folds(f, k, base, step)
    BY <1>2
  <2> DEFINE g == [s \in SUBSET (1..(k + 1)) |->
                     IF k + 1 \in s THEN step[<<f[s \ {k + 1}], k + 1>>] ELSE f[s]]
  <2>2. ASSUME NEW s \in SUBSET (1..(k + 1))
        PROVE /\ k + 1 \in s => Max(s) = k + 1 /\ s \ {k + 1} \in SUBSET (1..k)
              /\ k + 1 \notin s => s \in SUBSET (1..k)
    <3>1. \A x \in s : x \in Int /\ 1 <= x /\ x <= k + 1
      OBVIOUS
    <3>2. k + 1 \in s => Max(s) \in s /\ \A x \in s : x <= Max(s)
      <4>1. k + 1 \in Nat /\ s \subseteq 1..(k + 1)
        OBVIOUS
      <4>. HIDE DEF g, P
      <4>. QED
        BY <4>1, MaxFrom1, Zenon
    <3>3. ASSUME k + 1 \in s PROVE Max(s) = k + 1
      <4>1. Max(s) \in s /\ k + 1 <= Max(s)
        BY <3>2, <3>3
      <4>2. Max(s) \in Int /\ Max(s) <= k + 1
        BY <3>1, <4>1
      <4>. QED
        BY <4>1, <4>2
    <3>4. \A x \in s : x # k + 1 => x \in 1..k
      BY <3>1
    <3>. QED
      BY <3>3, <3>4
  <2>3. g \in [SUBSET (1..(k + 1)) -> V]
    BY <2>2
  <2>4. ASSUME NEW s \in SUBSET (1..(k + 1))
        PROVE  g[s] = IF s = {} THEN base ELSE step[<<g[s \ {Max(s)}], Max(s)>>]
    <3>1. CASE k + 1 \in s
      BY <2>2, <3>1
    <3>2. CASE k + 1 \notin s
      <4>1. s \in SUBSET (1..k) /\ s \ {Max(s)} \in SUBSET (1..(k + 1)) /\ k + 1 \notin s \ {Max(s)}
        BY <2>2, <3>2
      <4>2. g[s] = f[s] /\ g[s \ {Max(s)}] = f[s \ {Max(s)}]
        BY <4>1, <3>2
      <4>. QED
        BY <4>1, <4>2, <2>1 DEF Folds
    <3>. QED
      BY <3>1, <3>2
  <2>. HIDE DEF g
  <2>5. Folds(g, k + 1, base, step)
    BY <2>4, Zenon DEF Folds
  <2>. QED
    BY <2>3, <2>5
<1>. HIDE DEF P
<1>3. Nat \subseteq P
  BY <1>1, <1>2, NatInduct
<1>. QED
  BY <1>3 DEF P
\* A function of the positions that starts with one value and goes on by step.
Chains(h, n, first, step) ==
  \A k \in 1..n : h[k] = IF k = 1 THEN first ELSE step[<<h[k - 1], k>>]

\* Such a function exists, by which a fold can be followed position by position.
LEMMA ChainExists ==
  ASSUME NEW V, NEW first \in V, NEW n \in Nat, NEW step \in [V \X Nat -> V]
  PROVE  \E h \in [1..n -> V] : Chains(h, n, first, step)
<1> DEFINE st == [x \in V \X Nat |-> IF x[2] = 1 THEN first ELSE step[x]]
<1>1. st \in [V \X Nat -> V]
  OBVIOUS
<1>2. PICK f \in [SUBSET (1..n) -> V] : Folds(f, n, first, st)
  <2>. HIDE DEF st
  <2>. QED
    BY <1>1, FoldExists
<1> DEFINE h == [k \in 1..n |-> f[1..k]]
<1>3. ASSUME NEW k \in 1..n
      PROVE  /\ h[k] \in V
             /\ h[k] = IF k = 1 THEN first ELSE step[<<h[k - 1], k>>]
  <2>1. /\ 1..k \in SUBSET (1..n) /\ 1..k # {}
        /\ Max(1..k) = k /\ (1..k) \ {Max(1..k)} = 1..(k - 1)
    BY PrefixOf
  <2>2. 1..(k - 1) \in SUBSET (1..n) /\ k \in Nat
    OBVIOUS
  <2>3. f[1..(k - 1)] \in V /\ f[1..k] \in V
    BY <2>1, <2>2
  <2>4. f[1..k] = st[<<f[1..(k - 1)], k>>]
    BY <1>2, <2>1 DEF Folds
  <2>5. f[1..k] = IF k = 1 THEN first ELSE step[<<f[1..(k - 1)], k>>]
    BY <2>2, <2>3, <2>4
  <2>6. k # 1 => h[k - 1] = f[1..(k - 1)]
    OBVIOUS
  <2>. QED
    BY <2>3, <2>5, <2>6
<1>. HIDE DEF st
<1>4. h \in [1..n -> V]
  BY <1>3
<1>. HIDE DEF h
<1>. QED
  BY <1>3, <1>4 DEF Chains

\* Concatenating sequences, one after the other.
LEMMA FlattenFolds ==
  ASSUME NEW V, NEW seqs \in Seq(Seq(V))
  PROVE  /\ Len(seqs) = 0 => FlattenSeq(seqs) = <<>>
         /\ Len(seqs) # 0 =>
              \E g : /\ g[1] = seqs[1]
                     /\ \A k \in 2..Len(seqs) : g[k] = g[k - 1] \o seqs[k]
                     /\ FlattenSeq(seqs) = g[Len(seqs)]
<1> DEFINE n == Len(seqs)
           step == [x \in Seq(V) \X Nat |->
                      IF x[2] \in 1..n THEN x[1] \o seqs[x[2]] ELSE x[1]]
           next(f) == [i \in 1..n |-> IF i = 1 THEN seqs[i] ELSE f[i - 1] \o seqs[i]]
           f == CHOOSE f : f = next(f)
<1>1. n \in Nat /\ \A i \in 1..n : seqs[i] \in Seq(V)
  OBVIOUS
<1>2. ASSUME n = 0 PROVE FlattenSeq(seqs) = <<>>
  BY <1>2 DEF FlattenSeq
<1>3. ASSUME n # 0
      PROVE  \E g : /\ g[1] = seqs[1]
                    /\ \A k \in 2..n : g[k] = g[k - 1] \o seqs[k]
                    /\ FlattenSeq(seqs) = g[n]
  <2>1. FlattenSeq(seqs) = f[n]
    BY <1>3 DEF FlattenSeq
  <2>. HIDE DEF n
  <2>2. step \in [Seq(V) \X Nat -> Seq(V)] /\ seqs[1] \in Seq(V)
    BY <1>1, <1>3
  <2>3. PICK h \in [1..n -> Seq(V)] : Chains(h, n, seqs[1], step)
    <3>. HIDE DEF step
    <3>. QED
      BY <1>1, <2>2, ChainExists
  <2>4. ASSUME NEW i \in 1..n
        PROVE  h[i] = IF i = 1 THEN seqs[i] ELSE h[i - 1] \o seqs[i]
    <3>1. CASE i = 1
      BY <2>3, <3>1 DEF Chains
    <3>2. CASE i # 1
      <4>1. h[i - 1] \in Seq(V) /\ i \in Nat
        BY <1>1, <3>2
      <4>2. step[<<h[i - 1], i>>] = h[i - 1] \o seqs[i]
        BY <4>1
      <4>. HIDE DEF step
      <4>. QED
        BY <2>3, <3>2, <4>2 DEF Chains
    <3>. QED
      BY <3>1, <3>2
  <2>5. h = next(h)
    BY <2>4
  <2>6. f = next(f)
    <3>. HIDE DEF next
    <3>. QED
      BY <2>5, Zenon
  <2>. HIDE DEF f
  <2>7. \A i \in 1..n : f[i] = IF i = 1 THEN seqs[i] ELSE f[i - 1] \o seqs[i]
    BY <2>6
  <2>8. f[1] = seqs[1] /\ \A k \in 2..n : f[k] = f[k - 1] \o seqs[k]
    <3>1. 1 \in 1..n /\ \A k \in 2..n : k \in 1..n /\ k # 1
      BY <1>1, <1>3
    <3>. HIDE DEF next
    <3>. QED
      BY <2>7, <3>1
  <2>. QED
    BY <2>1, <2>8
<1>. QED
  BY <1>2, <1>3

\* Sequences of elements of V, one after the other, are a sequence of them.
LEMMA FlattenType ==
  ASSUME NEW V, NEW seqs \in Seq(Seq(V))
  PROVE  FlattenSeq(seqs) \in Seq(V)
<1> DEFINE n == Len(seqs)
<1>1. n \in Nat /\ \A k \in 1..n : seqs[k] \in Seq(V)
  OBVIOUS
<1>2. CASE n = 0
  <2>1. FlattenSeq(seqs) = <<>>
    BY <1>2, FlattenFolds
  <2>. QED
    BY <2>1
<1>3. CASE n # 0
  <2>1. PICK g : /\ g[1] = seqs[1]
                 /\ \A k \in 2..n : g[k] = g[k - 1] \o seqs[k]
                 /\ FlattenSeq(seqs) = g[n]
    BY <1>3, FlattenFolds
  <2> DEFINE S == {k \in Nat : k + 1 <= n => g[k + 1] \in Seq(V)}
  <2>. HIDE DEF n
  <2>2. 0 \in S
    BY <1>1, <1>3, <2>1
  <2>3. ASSUME NEW k \in Nat, k \in S PROVE k + 1 \in S
    <3>1. SUFFICES ASSUME k + 2 <= n PROVE g[k + 2] \in Seq(V)
      OBVIOUS
    <3>2. k + 2 \in 2..n /\ (k + 2) - 1 = k + 1 /\ k + 2 \in 1..n /\ k + 1 <= n
      BY <1>1, <3>1
    <3>3. g[k + 2] = g[k + 1] \o seqs[k + 2]
      BY <2>1, <3>2
    <3>4. g[k + 1] \in Seq(V) /\ seqs[k + 2] \in Seq(V)
      BY <1>1, <2>3, <3>2
    <3>. QED
      BY <3>3, <3>4
  <2>4. Nat \subseteq S
    <3>. HIDE DEF S
    <3>. QED
      BY <2>2, <2>3, NatInduct
  <2>5. n - 1 \in Nat /\ (n - 1) + 1 = n
    BY <1>1, <1>3
  <2>6. n - 1 \in S
    BY <2>4, <2>5, Zenon
  <2>. QED
    BY <2>1, <2>5, <2>6
<1>. QED
  BY <1>2, <1>3
=============================================================================
