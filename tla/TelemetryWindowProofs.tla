----------------------- MODULE TelemetryWindowProofs -----------------------
(***************************************************************************)
(* Proofs about TelemetryWindow for any signals, series, scrapes, failures *)
(* and times: what align_and_impute makes of the points it gets, bucket by *)
(* bucket, and what the worker and the engine may rely on.                 *)
(***************************************************************************)
EXTENDS TelemetryWindow, FoldLemmas

-----------------------------------------------------------------------------
(* Times and buckets.                                                      *)

\* A time is its number of whole steps and a rest below a step.
LEMMA DivMod ==
  ASSUME NEW t \in Nat
  PROVE  /\ t \div Step \in Nat /\ (t % Step) \in 0..(Step - 1)
         /\ t = ((t \div Step) * Step) + (t % Step)
  BY TimesAssumption

\* The start of a bucket is divided by the step without a rest.
LEMMA Multiples ==
  ASSUME NEW i \in Int
  PROVE  /\ i * Step \in Int
         /\ (i * Step) \div Step = i /\ (i * Step) % Step = 0
         /\ (i + 1) * Step = (i * Step) + Step
  BY TimesAssumption

\* Buckets are in the order of their numbers.
LEMMA MultiplesGrow ==
  ASSUME NEW i \in Int, NEW j \in Int
  PROVE  /\ i < j <=> i * Step < j * Step
         /\ i * Step <= j * Step <=> i <= j
<1>1. Step \in Int /\ Step > 0
  BY TimesAssumption
<1>2. i < j => i * Step < j * Step
  BY <1>1
<1>3. j < i => j * Step < i * Step
  BY <1>1
<1>. QED
  BY <1>1, <1>2, <1>3, Multiples

\* A later time is not in an earlier bucket.
LEMMA DivGrows ==
  ASSUME NEW s \in Nat, NEW e \in Nat, s <= e
  PROVE  s \div Step <= e \div Step
<1>1. /\ s \div Step \in Nat /\ s = ((s \div Step) * Step) + (s % Step)
      /\ (s % Step) \in 0..(Step - 1)
      /\ e \div Step \in Nat /\ e = ((e \div Step) * Step) + (e % Step)
      /\ (e % Step) \in 0..(Step - 1)
  BY DivMod
<1>2. CASE e \div Step < s \div Step
  <2>1. ((e \div Step) + 1) * Step <= (s \div Step) * Step
    BY <1>1, <1>2, MultiplesGrow
  <2>2. ((e \div Step) + 1) * Step = ((e \div Step) * Step) + Step
    BY <1>1, Multiples
  <2>3. (e \div Step) * Step \in Int /\ (s \div Step) * Step \in Int /\ Step \in Int
    BY <1>1, Multiples, TimesAssumption
  <2>. QED
    BY <1>1, <2>1, <2>2, <2>3
<1>. QED
  BY <1>1, <1>2

\* The number of the first bucket, and how many there are.
First(s) == s \div Step
Buckets(s, e) == (e \div Step) - (s \div Step) + 1

\* The expected timestamps are the consecutive buckets of the window.
LEMMA ExpectedIs ==
  ASSUME NEW s \in Nat, NEW e \in Nat, s <= e
  PROVE  /\ First(s) \in Nat /\ Buckets(s, e) \in Nat /\ Buckets(s, e) >= 1
         /\ Expected(s, e) = [i \in 1..Buckets(s, e) |-> (First(s) + i - 1) * Step]
<1>1. First(s) \in Nat /\ e \div Step \in Nat /\ First(s) <= e \div Step
  BY DivMod, DivGrows DEF First
<1>2. /\ Bucket(s) = First(s) * Step /\ Bucket(s) \in Int
      /\ Bucket(e) = (e \div Step) * Step /\ Bucket(e) \in Int
  BY <1>1, Multiples DEF Bucket, First
<1>3. Bucket(e) - Bucket(s) = ((e \div Step) - First(s)) * Step
  BY <1>1, <1>2, TimesAssumption
<1>4. (Bucket(e) - Bucket(s)) \div Step = (e \div Step) - First(s)
  BY <1>1, <1>3, Multiples
<1>5. (Bucket(e) - Bucket(s)) \div Step + 1 = Buckets(s, e)
  BY <1>4 DEF Buckets, First
<1>6. ASSUME NEW i \in 1..Buckets(s, e)
      PROVE  Bucket(s) + (i - 1) * Step = (First(s) + i - 1) * Step
  <2>1. i \in Int
    BY <1>1 DEF Buckets
  <2>. QED
    BY <1>1, <1>2, <2>1, TimesAssumption
<1>7. Expected(s, e) = [i \in 1..Buckets(s, e) |-> Bucket(s) + (i - 1) * Step]
  BY <1>5 DEF Expected
<1>. QED
  BY <1>1, <1>6, <1>7 DEF Buckets, First

\* The buckets of a window: in their order, one Step after the other, all of
\* them, and no fewer than the Steps in the window and one.
LEMMA ExpectedTimes ==
  ASSUME NEW s \in Nat, NEW e \in Nat, s <= e
  PROVE  LET E == Expected(s, e) IN
         /\ Len(E) = Buckets(s, e) /\ Len(E) \in Nat /\ Len(E) >= 1
         /\ E \in Seq(Nat)
         /\ \A i, j \in 1..Len(E) : i < j <=> E[i] < E[j]
         /\ \A i \in 2..Len(E) : E[i] = E[i - 1] + Step
         /\ E[1] = Bucket(s) /\ E[Len(E)] = Bucket(e)
         /\ {E[i] : i \in 1..Len(E)} = {b \in Bucket(s)..Bucket(e) : b % Step = 0}
         /\ Len(E) >= (e - s) \div Step + 1
<1> DEFINE E == Expected(s, e)
           n == Buckets(s, e)
           q == First(s)
<1>1. q \in Nat /\ n \in Nat /\ n >= 1
  BY ExpectedIs
<1>2. E = [i \in 1..n |-> (q + i - 1) * Step]
  BY ExpectedIs
<1>b. Bucket(s) = q * Step /\ Bucket(e) = (q + n - 1) * Step
  <2>1. s \div Step \in Nat /\ e \div Step \in Nat
    BY DivMod
  <2>2. q + n - 1 = e \div Step
    BY <2>1 DEF First, Buckets
  <2>. QED
    BY <2>2 DEF Bucket, First
<1>d. n >= (e - s) \div Step + 1
  <2>1. /\ s \div Step \in Nat /\ s = ((s \div Step) * Step) + (s % Step)
        /\ (s % Step) \in 0..(Step - 1)
        /\ e \div Step \in Nat /\ e = ((e \div Step) * Step) + (e % Step)
        /\ (e % Step) \in 0..(Step - 1)
    BY DivMod
  <2> DEFINE d == (e - s) \div Step
  <2>2. d \in Nat /\ e - s = (d * Step) + ((e - s) % Step) /\ ((e - s) % Step) \in 0..(Step - 1)
    <3>1. e - s \in Nat
      OBVIOUS
    <3>. QED
      BY <3>1, DivMod
  <2>3. d * Step < ((e \div Step) - (s \div Step) + 1) * Step
    <3>1. /\ (e \div Step) * Step \in Int /\ (s \div Step) * Step \in Int
          /\ d * Step \in Int /\ Step \in Int
      BY <2>1, <2>2, Multiples, TimesAssumption
    <3>2. ((e \div Step) - (s \div Step) + 1) * Step
            = ((e \div Step) * Step) - ((s \div Step) * Step) + Step
      BY <2>1, TimesAssumption
    <3>. HIDE DEF d
    <3>. QED
      BY <2>1, <2>2, <3>1, <3>2
  <2>. HIDE DEF d
  <2>4. d < (e \div Step) - (s \div Step) + 1
    BY <2>1, <2>2, <2>3, MultiplesGrow
  <2>. QED
    BY <2>1, <2>2, <2>4 DEF d, Buckets
<1>. HIDE DEF E, n, q
<1>3. ASSUME NEW i \in 1..n
      PROVE  /\ E[i] = (q + i - 1) * Step /\ q + i - 1 \in Nat /\ E[i] \in Nat
             /\ E[i] % Step = 0
  <2>1. q + i - 1 \in Nat
    BY <1>1
  <2>2. (q + i - 1) * Step \in Nat
    BY <2>1, TimesAssumption
  <2>. QED
    BY <1>2, <2>1, <2>2, Multiples
<1>4. E \in Seq(Nat) /\ Len(E) = n
  <2>1. \A i \in 1..n : (q + i - 1) * Step \in Nat
    BY <1>3
  <2>. QED
    BY <1>1, <1>2, <2>1
<1>5. ASSUME NEW i \in 1..n, NEW j \in 1..n
      PROVE  /\ i < j <=> E[i] < E[j]
             /\ i <= j <=> E[i] <= E[j]
  <2>1. i \in Int /\ j \in Int /\ q + i - 1 \in Int /\ q + j - 1 \in Int
    BY <1>1
  <2>. QED
    BY <1>1, <1>3, <2>1, MultiplesGrow
<1>6. ASSUME NEW i \in 2..n PROVE E[i] = E[i - 1] + Step
  <2>1. i \in 1..n /\ i - 1 \in 1..n /\ q + i - 2 \in Int
    BY <1>1
  <2>2. E[i] = ((q + i - 2) + 1) * Step /\ E[i - 1] = (q + i - 2) * Step
    BY <1>1, <1>3, <2>1
  <2>. QED
    BY <2>1, <2>2, Multiples
<1>7. E[1] = Bucket(s) /\ E[n] = Bucket(e) /\ 1 \in 1..n /\ n \in 1..n
  BY <1>1, <1>3, <1>b
<1>8. ASSUME NEW b \in Bucket(s)..Bucket(e), b % Step = 0
      PROVE  \E i \in 1..n : b = E[i]
  <2>1. b \in Nat
    BY <1>3, <1>7
  <2>2. b \div Step \in Nat /\ b = (b \div Step) * Step
    BY <1>8, <2>1, DivMod, Multiples
  <2>3. q * Step <= b /\ b <= (q + n - 1) * Step
    BY <1>3, <1>7, <1>b
  <2>4. q <= b \div Step /\ b \div Step <= q + n - 1
    BY <1>1, <2>2, <2>3, MultiplesGrow
  <2> DEFINE i == (b \div Step) - q + 1
  <2>5. i \in 1..n /\ q + i - 1 = b \div Step
    BY <1>1, <2>2, <2>4
  <2>. HIDE DEF i
  <2>. QED
    BY <1>3, <2>2, <2>5
<1>9. ASSUME NEW i \in 1..n PROVE E[i] \in Bucket(s)..Bucket(e)
  BY <1>1, <1>3, <1>5, <1>7
<1>10. {E[i] : i \in 1..n} = {b \in Bucket(s)..Bucket(e) : b % Step = 0}
  BY <1>3, <1>8, <1>9
<1>. QED
  BY <1>1, <1>4, <1>5, <1>6, <1>7, <1>10, <1>d DEF E, n


-----------------------------------------------------------------------------
(* actual_data.                                                            *)

Data == UNION {[B -> Nat] : B \in SUBSET Int}

\* A point keeps the data's type.
LEMMA PutType ==
  ASSUME NEW d \in Data, NEW p \in Point
  PROVE  Put(d, p) \in Data
<1>1. PICK B \in SUBSET Int : d \in [B -> Nat]
  BY DEF Data
<1>2. Bucket(p.ts) \in Int
  BY TimesAssumption DEF Bucket, Point
<1>3. Put(d, p) \in [B \cup {Bucket(p.ts)} -> Nat]
  BY <1>1 DEF Put, Point
<1>. QED
  BY <1>2, <1>3 DEF Data

\* actual_data, one point after the other.
LEMMA ActualFolds ==
  ASSUME NEW points \in Seq(Point)
  PROVE  \E g : /\ g[0] = NoData
                /\ \A k \in 1..Len(points) : g[k] = Put(g[k - 1], points[k])
                /\ Actual(points) = g[Len(points)]
<1> DEFINE n == Len(points)
           step == [x \in Data \X Nat |-> IF x[2] \in 1..n THEN Put(x[1], points[x[2]]) ELSE x[1]]
           next(f) == [s \in SUBSET (1..n) |->
                         IF s = {} THEN NoData ELSE Put(f[s \ {Max(s)}], points[Max(s)])]
           f == CHOOSE f : f = next(f)
<1>1. n \in Nat /\ DOMAIN points = 1..n /\ \A i \in 1..n : points[i] \in Point
  OBVIOUS
<1>2. Actual(points) = f[1..n]
  BY <1>1 DEF Actual, FoldLeft, MapThenFoldSet
<1>3. NoData \in Data
  <2>1. NoData \in [{} -> Nat] /\ {} \in SUBSET Int
    BY DEF NoData
  <2>. QED
    BY <2>1 DEF Data
<1>4. step \in [Data \X Nat -> Data]
  BY PutType
<1>. HIDE DEF n
<1>5. \E h : h = next(h)
  <2>1. PICK h \in [SUBSET (1..n) -> Data] : Folds(h, n, NoData, step)
    <3>. HIDE DEF step
    <3>. QED BY <1>1, <1>3, <1>4, FoldExists
  <2>2. ASSUME NEW s \in SUBSET (1..n), s # {}
        PROVE  h[s] = Put(h[s \ {Max(s)}], points[Max(s)])
    <3>2. Max(s) \in 1..n /\ Max(s) \in Nat /\ s \ {Max(s)} \in SUBSET (1..n)
      BY <1>1, <2>2, MaxFrom1
    <3>4. h[s \ {Max(s)}] \in Data
      BY <2>1, <3>2, Zenon
    <3>3. step[<<h[s \ {Max(s)}], Max(s)>>] = Put(h[s \ {Max(s)}], points[Max(s)])
      BY <3>2, <3>4
    <3>. QED
      BY <2>1, <2>2, <3>3 DEF Folds
  <2>3. h[{}] = NoData
    BY <2>1 DEF Folds
  <2>. QED
    BY <2>2, <2>3
<1>6. f = next(f)
  <2>. HIDE DEF next
  <2>. QED
    BY <1>5, Zenon
<1>. HIDE DEF f
<1>7. \A s \in SUBSET (1..n) :
        f[s] = IF s = {} THEN NoData ELSE Put(f[s \ {Max(s)}], points[Max(s)])
  BY <1>6
<1>. HIDE DEF next
<1> DEFINE g == [k \in 0..n |-> f[1..k]]
<1>8. g[0] = NoData
  <2>1. 1..0 = {} /\ 0 \in 0..n
    BY <1>1
  <2>. QED
    BY <1>7, <2>1
<1>9. ASSUME NEW k \in 1..n PROVE g[k] = Put(g[k - 1], points[k])
  <2>1. /\ k - 1 \in 0..n /\ 1..k \in SUBSET (1..n) /\ 1..k # {}
        /\ Max(1..k) = k /\ (1..k) \ {Max(1..k)} = 1..(k - 1)
    BY <1>1, PrefixOf
  <2>2. k \in 0..n
    BY <1>1
  <2>3. f[1..k] = Put(f[1..(k - 1)], points[k])
    BY <1>7, <2>1
  <2>. QED
    BY <2>1, <2>2, <2>3
<1>10. g[n] = f[1..n]
  BY <1>1
<1>. HIDE DEF g
<1>. QED
  BY <1>2, <1>8, <1>9, <1>10 DEF n

\* A bucket has data when it has a point: its last one's value.
LEMMA ActualIs ==
  ASSUME NEW points \in Seq(Point)
  PROVE  /\ Actual(points) \in Data
         /\ \A b : b \in DOMAIN Actual(points) <=> In(points, b) # {}
         /\ \A b \in DOMAIN Actual(points) :
              Actual(points)[b] = points[Max(In(points, b))].value
<1> DEFINE n == Len(points)
           Upto(k, b) == {i \in 1..k : Bucket(points[i].ts) = b}
<1>1. n \in Nat /\ DOMAIN points = 1..n /\ \A i \in 1..n : points[i] \in Point
  OBVIOUS
<1>2. PICK g : /\ g[0] = NoData
               /\ \A k \in 1..n : g[k] = Put(g[k - 1], points[k])
               /\ Actual(points) = g[n]
  BY ActualFolds
<1> DEFINE Q(k) == /\ g[k] \in Data
                   /\ \A b : b \in DOMAIN g[k] <=> Upto(k, b) # {}
                   /\ \A b \in DOMAIN g[k] : g[k][b] = points[Max(Upto(k, b))].value
           S == {k \in Nat : k <= n => Q(k)}
<1>. HIDE DEF n
<1>3. 0 \in S
  <2>1. g[0] \in Data /\ DOMAIN g[0] = {}
    <3>1. NoData \in [{} -> Nat] /\ {} \in SUBSET Int
      BY DEF NoData
    <3>. QED
      BY <1>2, <3>1 DEF Data, NoData
  <2>2. \A b : Upto(0, b) = {}
    OBVIOUS
  <2>. QED
    BY <2>1, <2>2
<1>4. ASSUME NEW k \in Nat, k \in S PROVE k + 1 \in S
  <2>1. SUFFICES ASSUME k + 1 <= n PROVE Q(k + 1)
    BY <1>4
  <2>2. Q(k)
    <3>1. k <= n
      BY <1>1, <2>1
    <3>. QED
      BY <1>4, <3>1
  <2>3. k + 1 \in 1..n /\ (k + 1) - 1 = k
    BY <1>1, <2>1
  <2> DEFINE p == points[k + 1]
  <2>4. g[k + 1] = Put(g[k], p) /\ p \in Point
    BY <1>1, <1>2, <2>3
  <2>5. g[k + 1] \in Data
    BY <2>2, <2>4, PutType
  <2>6. ASSUME NEW b, b = Bucket(p.ts)
        PROVE  Upto(k + 1, b) # {} /\ Max(Upto(k + 1, b)) = k + 1
    <3>1. k + 1 \in Upto(k + 1, b) /\ Upto(k + 1, b) \subseteq 1..(k + 1)
      BY <2>6
    <3>2. \A x \in Upto(k + 1, b) : x <= k + 1
      OBVIOUS
    <3>. HIDE DEF Upto, p
    <3>3. k + 1 \in Nat
      OBVIOUS
    <3>. QED
      BY <3>1, <3>2, <3>3, MaxIs
  <2>7. ASSUME NEW b, b # Bucket(p.ts)
        PROVE  Upto(k + 1, b) = Upto(k, b)
    BY <2>7
  <2>8. DOMAIN g[k + 1] = DOMAIN g[k] \cup {Bucket(p.ts)}
    BY <2>4 DEF Put
  <2>9. \A b \in DOMAIN g[k + 1] : g[k + 1][b] = IF b = Bucket(p.ts) THEN p.value ELSE g[k][b]
    BY <2>4 DEF Put
  <2>10. \A b : b \in DOMAIN g[k + 1] <=> Upto(k + 1, b) # {}
    <3>. HIDE DEF Upto, p
    <3>. QED
      BY <2>2, <2>6, <2>7, <2>8
  <2>11. ASSUME NEW b \in DOMAIN g[k + 1]
         PROVE  g[k + 1][b] = points[Max(Upto(k + 1, b))].value
    <3>1. CASE b = Bucket(p.ts)
      BY <2>6, <2>9, <3>1
    <3>2. CASE b # Bucket(p.ts)
      <4>. HIDE DEF Upto, p
      <4>1. b \in DOMAIN g[k] /\ g[k + 1][b] = g[k][b]
        BY <2>8, <2>9, <3>2
      <4>. QED
        BY <2>2, <2>7, <3>2, <4>1
    <3>. QED
      BY <3>1, <3>2
  <2>. QED
    BY <2>5, <2>10, <2>11
<1>5. Q(n)
  <2>. HIDE DEF Q
  <2>1. Nat \subseteq S
    <3>. HIDE DEF S
    <3>. QED
      BY <1>3, <1>4, NatInduct
  <2>2. n \in S
    BY <1>1, <2>1
  <2>. QED
    BY <1>1, <2>2
<1>6. \A b : Upto(n, b) = In(points, b)
  BY DEF In, n
<1>. QED
  BY <1>2, <1>5, <1>6

-----------------------------------------------------------------------------
(* The loop over the expected buckets.                                     *)

Filled == [aligned : Seq(Point), last : Nat, missing : Nat]

\* A bucket keeps the type of what is filled so far.
LEMMA ImputeType ==
  ASSUME NEW policy, NEW data \in Data, NEW acc \in Filled, NEW b \in Nat
  PROVE  Impute(policy, data, acc, b) \in Filled
<1>1. \A v \in Nat : Append(acc.aligned, [ts |-> b, value |-> v]) \in Seq(Point)
  BY DEF Filled, Point
<1>2. acc.last \in Nat /\ acc.missing \in Nat /\ acc.missing + 1 \in Nat
  BY DEF Filled
<1>3. CASE b \in DOMAIN data
  <2>1. data[b] \in Nat
    BY <1>3 DEF Data
  <2>. QED
    BY <1>1, <1>2, <1>3, <2>1 DEF Impute, Filled
<1>4. CASE b \notin DOMAIN data
  <2>1. (IF policy = "forward_fill" THEN acc.last ELSE 0) \in Nat
    BY <1>2
  <2>. QED
    BY <1>1, <1>2, <1>4, <2>1 DEF Impute, Filled
<1>. QED
  BY <1>3, <1>4

\* g[k] is what align_and_impute has filled after k buckets.
Fills(g, policy, points, s, e) ==
  LET E == Expected(s, e) IN
  /\ g[0] = NoneYet
  /\ \A k \in 1..Len(E) : g[k] = Impute(policy, Actual(points), g[k - 1], E[k])
  /\ AlignAndImpute(policy, points, s, e) = g[Len(E)]

\* align_and_impute goes from one bucket to the next.
LEMMA AlignFolds ==
  ASSUME NEW policy, NEW points \in Seq(Point), NEW s \in Nat, NEW e \in Nat, s <= e
  PROVE  \E g : Fills(g, policy, points, s, e)
<1> DEFINE E == Expected(s, e)
           n == Len(E)
           data == Actual(points)
           one(acc, b) == Impute(policy, data, acc, b)
           step == [x \in Filled \X Nat |-> IF x[2] \in 1..n THEN one(x[1], E[x[2]]) ELSE x[1]]
           next(f) == [S \in SUBSET (1..n) |->
                         IF S = {} THEN NoneYet ELSE one(f[S \ {Max(S)}], E[Max(S)])]
           f == CHOOSE f : f = next(f)
<1>1. /\ n \in Nat /\ DOMAIN E = 1..n /\ \A i \in 1..n : E[i] \in Nat
      /\ data \in Data
  <2>1. E \in Seq(Nat)
    BY ExpectedTimes
  <2>. HIDE DEF E
  <2>2. n \in Nat /\ DOMAIN E = 1..n /\ \A i \in 1..n : E[i] \in Nat
    BY <2>1
  <2>. QED
    BY <2>2, ActualIs
<1>. HIDE DEF data
<1>2. AlignAndImpute(policy, points, s, e) = f[1..n]
  <2>1. AlignAndImpute(policy, points, s, e)
          = FoldLeft(LAMBDA acc, b : Impute(policy, data, acc, b), NoneYet, E)
    BY DEF AlignAndImpute, data
  <2>. HIDE DEF E
  <2>. QED
    BY <1>1, <2>1 DEF FoldLeft, MapThenFoldSet
<1>. HIDE DEF E
<1>3. NoneYet \in Filled
  BY DEF NoneYet, Filled
<1>4. step \in [Filled \X Nat -> Filled]
  BY <1>1, ImputeType
<1>. HIDE DEF n, one
<1>5. \E h : h = next(h)
  <2>1. PICK h \in [SUBSET (1..n) -> Filled] : Folds(h, n, NoneYet, step)
    <3>. HIDE DEF step
    <3>. QED
      BY <1>1, <1>3, <1>4, FoldExists
  <2>2. ASSUME NEW S \in SUBSET (1..n), S # {}
        PROVE  h[S] = one(h[S \ {Max(S)}], E[Max(S)])
    <3>1. Max(S) \in 1..n /\ Max(S) \in Nat /\ S \ {Max(S)} \in SUBSET (1..n)
      BY <1>1, <2>2, MaxFrom1
    <3>2. h[S \ {Max(S)}] \in Filled
      BY <2>1, <3>1, Zenon
    <3>3. step[<<h[S \ {Max(S)}], Max(S)>>] = one(h[S \ {Max(S)}], E[Max(S)])
      BY <3>1, <3>2
    <3>. QED
      BY <2>1, <2>2, <3>3 DEF Folds
  <2>3. h[{}] = NoneYet
    BY <2>1 DEF Folds
  <2>. QED
    BY <2>2, <2>3
<1>6. f = next(f)
  <2>. HIDE DEF next
  <2>. QED
    BY <1>5, Zenon
<1>. HIDE DEF f
<1>7. \A S \in SUBSET (1..n) :
        f[S] = IF S = {} THEN NoneYet ELSE one(f[S \ {Max(S)}], E[Max(S)])
  BY <1>6
<1>. HIDE DEF next
<1> DEFINE g == [k \in 0..n |-> f[1..k]]
<1>8. g[0] = NoneYet
  <2>1. 1..0 = {} /\ 0 \in 0..n
    BY <1>1
  <2>. QED
    BY <1>7, <2>1
<1>9. ASSUME NEW k \in 1..n PROVE g[k] = one(g[k - 1], E[k])
  <2>1. /\ k - 1 \in 0..n /\ 1..k \in SUBSET (1..n) /\ 1..k # {}
        /\ Max(1..k) = k /\ (1..k) \ {Max(1..k)} = 1..(k - 1)
    BY <1>1, PrefixOf
  <2>2. k \in 0..n
    BY <1>1
  <2>3. f[1..k] = one(f[1..(k - 1)], E[k])
    BY <1>7, <2>1
  <2>. QED
    BY <2>1, <2>2, <2>3
<1>10. g[n] = f[1..n]
  BY <1>1
<1>. HIDE DEF g
<1>. QED
  BY <1>2, <1>8, <1>9, <1>10 DEF n, E, one, data, Fills

\* Buckets of the first k that have a point.
Having(points, E, k) == {i \in 1..k : In(points, E[i]) # {}}

\* Their times.
Sources(points, E, k) == {E[i] : i \in Having(points, E, k)}

\* What a bucket may be filled from: the buckets up to it that have a point.
LEMMA KnownIs ==
  ASSUME NEW points, NEW s \in Nat, NEW e \in Nat, s <= e,
         NEW k \in 1..Len(Expected(s, e))
  PROVE  Known(points, s, Expected(s, e)[k])
           = Sources(points, Expected(s, e), k)
<1> DEFINE E == Expected(s, e)
           n == Len(E)
<1>1. /\ n \in Nat /\ n >= 1 /\ E[1] = Bucket(s) /\ E[n] = Bucket(e)
      /\ \A i \in 1..n : E[i] \in Nat
      /\ \A i, j \in 1..n : i < j <=> E[i] < E[j]
      /\ {E[i] : i \in 1..n} = {b \in Bucket(s)..Bucket(e) : b % Step = 0}
  <2>1. E \in Seq(Nat)
    BY ExpectedTimes
  <2>2. \A i \in 1..n : E[i] \in Nat
    <3>. HIDE DEF E
    <3>. QED
      BY <2>1
  <2>. QED
    BY <2>2, ExpectedTimes
<1>. HIDE DEF E
<1>2. k \in 1..n /\ n \in 1..n
  BY <1>1 DEF E
<1>. HIDE DEF n
<1>3. \A i \in 1..n : i <= k <=> E[i] <= E[k]
  BY <1>1, <1>2
<1>4. E[k] <= Bucket(e)
  BY <1>1, <1>2
<1>5. Bucket(s) \in Int /\ Bucket(e) \in Int
  BY <1>1, <1>2
<1>6. ASSUME NEW c \in Known(points, s, E[k])
      PROVE  c \in {E[i] : i \in Having(points, E, k)}
  <2>1. c \in Bucket(s)..E[k] /\ c % Step = 0 /\ In(points, c) # {}
    BY DEF Known
  <2>2. c \in Bucket(s)..Bucket(e) /\ c <= E[k]
    BY <1>1, <1>2, <1>4, <1>5, <2>1
  <2>3. PICK i \in 1..n : c = E[i]
    BY <1>1, <2>1, <2>2
  <2>4. i \in 1..k
    BY <1>2, <1>3, <2>2, <2>3
  <2>. QED
    BY <2>1, <2>3, <2>4 DEF Having
<1>7. ASSUME NEW i \in Having(points, E, k)
      PROVE  E[i] \in Known(points, s, E[k])
  <2>1. i \in 1..k /\ In(points, E[i]) # {}
    BY DEF Having
  <2>2. i \in 1..n /\ i <= k
    BY <1>1, <1>2, <2>1
  <2>3. E[i] \in Bucket(s)..Bucket(e) /\ E[i] % Step = 0
    BY <1>1, <2>2
  <2>4. E[i] \in Bucket(s)..E[k]
    BY <1>1, <1>2, <1>3, <1>5, <2>2, <2>3
  <2>. QED
    BY <2>1, <2>3, <2>4 DEF Known
<1>. QED
  BY <1>6, <1>7 DEF E, Sources

\* With one bucket more that has a point there is one more; without, the same.
Grows(points, E, k) ==
  LET H == Having(points, E, k)
      J == Having(points, E, k + 1) IN
  /\ Cardinality(H) \in Nat
  /\ In(points, E[k + 1]) # {} =>
       /\ Sources(points, E, k + 1) = Sources(points, E, k) \cup {E[k + 1]}
       /\ Cardinality(J) = Cardinality(H) + 1
  /\ In(points, E[k + 1]) = {} =>
       J = H /\ Sources(points, E, k + 1) = Sources(points, E, k)

\* One more bucket of the window: with or without a point of its own.
LEMMA HavingGrows ==
  ASSUME NEW points, NEW E, NEW k \in Nat
  PROVE  Grows(points, E, k)
<1> DEFINE H == Having(points, E, k)
<1>1. IsFiniteSet(H) /\ Cardinality(H) \in Nat
  <2>1. IsFiniteSet(1..k)
    BY FS_Interval
  <2>2. H \subseteq 1..k
    BY DEF Having
  <2>. QED
    BY <2>1, <2>2, FS_Subset, FS_CardinalityType
<1>2. k + 1 \notin H
  BY DEF Having
<1>3. In(points, E[k + 1]) # {} => Having(points, E, k + 1) = H \cup {k + 1}
  BY DEF Having
<1>4. In(points, E[k + 1]) = {} => Having(points, E, k + 1) = H
  BY DEF Having
<1>6. In(points, E[k + 1]) # {} =>
        Sources(points, E, k + 1) = Sources(points, E, k) \cup {E[k + 1]}
  <2>. HIDE DEF H
  <2>. QED
    BY <1>3 DEF Sources, H
<1>. HIDE DEF H
<1>5. Cardinality(H \cup {k + 1}) = Cardinality(H) + 1
  BY <1>1, <1>2, FS_AddElement
<1>. QED
  BY <1>1, <1>3, <1>4, <1>5, <1>6 DEF H, Grows, Sources

\* Whatever the points are, align_and_impute returns every bucket of the
\* window, from that of its start to that of its end, each with the value its
\* definition gives it, and counts the buckets that have no point.
THEOREM AlignIs ==
  ASSUME NEW policy, NEW points \in Seq(Point), NEW s \in Nat, NEW e \in Nat, s <= e
  PROVE  LET E == Expected(s, e)
             r == AlignAndImpute(policy, points, s, e) IN
         /\ r \in Filled
         /\ Len(r.aligned) = Len(E)
         /\ \A i \in 1..Len(E) :
              /\ r.aligned[i].ts = E[i]
              /\ r.aligned[i].value = Value(policy, points, s, E[i])
         /\ r.missing + Cardinality(Having(points, E, Len(E))) = Len(E)
<1> DEFINE E == Expected(s, e)
           n == Len(E)
           H(k) == Having(points, E, k)
           K(k) == Sources(points, E, k)
           data == Actual(points)
<1>1. /\ n \in Nat /\ n >= 1
      /\ \A i \in 1..n : E[i] \in Nat
      /\ \A i, j \in 1..n : i < j <=> E[i] < E[j]
  <2>1. E \in Seq(Nat)
    BY ExpectedTimes
  <2>2. \A i \in 1..n : E[i] \in Nat
    <3>. HIDE DEF E
    <3>. QED
      BY <2>1
  <2>. QED
    BY <2>2, ExpectedTimes
<1>p. PICK g : Fills(g, policy, points, s, e)
  BY AlignFolds
<1>2. /\ g[0] = NoneYet
      /\ \A k \in 1..n : g[k] = Impute(policy, data, g[k - 1], E[k])
      /\ AlignAndImpute(policy, points, s, e) = g[n]
  BY <1>p DEF Fills
<1>3. /\ data \in Data
      /\ \A b : b \in DOMAIN data <=> In(points, b) # {}
      /\ \A b \in DOMAIN data : data[b] = points[Max(In(points, b))].value
  BY ActualIs
<1>4. ASSUME NEW k \in 1..n PROVE Known(points, s, E[k]) = K(k)
  BY KnownIs
<1>h. ASSUME NEW k \in Nat
      PROVE  /\ Cardinality(H(k)) \in Nat
             /\ In(points, E[k + 1]) # {} =>
                  K(k + 1) = K(k) \cup {E[k + 1]} /\ Cardinality(H(k + 1)) = Cardinality(H(k)) + 1
             /\ In(points, E[k + 1]) = {} => H(k + 1) = H(k) /\ K(k + 1) = K(k)
  <2>1. Grows(points, E, k)
    BY HavingGrows
  <2>. QED
    BY <2>1 DEF Grows
<1> DEFINE At(b) == points[Max(In(points, b))].value
           Aligned(k) == /\ g[k] \in Filled /\ Len(g[k].aligned) = k
                         /\ \A i \in 1..k :
                              /\ g[k].aligned[i].ts = E[i]
                              /\ g[k].aligned[i].value = Value(policy, points, s, E[i])
           Carried(k) == g[k].last = IF K(k) = {} THEN 0 ELSE At(Max(K(k)))
           Missing(k) == g[k].missing + Cardinality(H(k)) = k
           Q(k) == Aligned(k) /\ Carried(k) /\ Missing(k)
           S == {k \in Nat : k <= n => Q(k)}
<1>. HIDE DEF E, n, data
<1>5. 0 \in S
  <2>1. H(0) = {}
    BY DEF Having
  <2>2. K(0) = {} /\ Cardinality(H(0)) = 0
    BY <2>1, FS_EmptySet DEF Sources
  <2>3. g[0] \in Filled /\ Len(g[0].aligned) = 0 /\ g[0].last = 0 /\ g[0].missing = 0
    BY <1>2 DEF NoneYet, Filled
  <2>. HIDE DEF H, K
  <2>. QED
    BY <2>2, <2>3
<1>6. ASSUME NEW k \in Nat, k \in S PROVE k + 1 \in S
  <2>. HIDE DEF Q
  <2>1. SUFFICES ASSUME k + 1 <= n PROVE Q(k + 1)
    OBVIOUS
  <2>2. Q(k)
    <3>1. k <= n
      BY <1>1, <2>1
    <3>. QED
      BY <1>6, <3>1
  <2>. USE DEF Q
  <2>3. k + 1 \in 1..n /\ (k + 1) - 1 = k
    BY <1>1, <2>1
  <2> DEFINE b == E[k + 1]
             acc == g[k]
  <2>4. b \in Nat /\ g[k + 1] = Impute(policy, data, acc, b)
    BY <1>1, <1>2, <2>3
  <2>5. acc \in Filled /\ Len(acc.aligned) = k /\ acc.aligned \in Seq(Point)
    BY <2>2 DEF Filled
  <2>6. g[k + 1] \in Filled
    BY <1>3, <2>4, <2>5, ImputeType
  <2>7. Known(points, s, b) = K(k + 1)
    BY <1>4, <2>3
  <2>8. \A c \in K(k) : c \in Nat /\ c < b
    <3>1. \A i \in H(k) : i \in 1..n /\ i < k + 1
      BY <1>1, <2>1 DEF Having
    <3>. QED
      BY <1>1, <2>3, <3>1 DEF Sources
  <2>9. Cardinality(H(k)) \in Nat
    BY <1>h
  <2> DEFINE v == Value(policy, points, s, b)
  <2>10. SUFFICES /\ g[k + 1].aligned = Append(acc.aligned, [ts |-> b, value |-> v])
                  /\ Carried(k + 1) /\ Missing(k + 1)
    <3>1. ASSUME g[k + 1].aligned = Append(acc.aligned, [ts |-> b, value |-> v])
          PROVE  Aligned(k + 1)
      <4>1. /\ Len(g[k + 1].aligned) = k + 1
            /\ g[k + 1].aligned[k + 1] = [ts |-> b, value |-> v]
            /\ \A i \in 1..k : g[k + 1].aligned[i] = acc.aligned[i]
        BY <2>5, <3>1
      <4>2. \A i \in 1..(k + 1) : i = k + 1 \/ i \in 1..k
        OBVIOUS
      <4>3. \A i \in 1..k : /\ acc.aligned[i].ts = E[i]
                            /\ acc.aligned[i].value = Value(policy, points, s, E[i])
        BY <2>2
      <4>. HIDE DEF acc
      <4>4. ASSUME NEW i \in 1..(k + 1)
            PROVE  /\ g[k + 1].aligned[i].ts = E[i]
                   /\ g[k + 1].aligned[i].value = Value(policy, points, s, E[i])
        <5>1. CASE i = k + 1
          BY <4>1, <5>1
        <5>2. CASE i \in 1..k
          BY <4>1, <4>3, <5>2
        <5>. QED
          BY <4>2, <5>1, <5>2
      <4>. QED
        BY <2>6, <4>1, <4>4
    <3>. HIDE DEF Aligned, Carried, Missing
    <3>. QED
      BY <3>1
  <2>11. CASE b \in DOMAIN data
    <3>1. In(points, b) # {} /\ data[b] = At(b)
      BY <1>3, <2>11
    <3>2. /\ g[k + 1].aligned = Append(acc.aligned, [ts |-> b, value |-> data[b]])
          /\ g[k + 1].last = data[b] /\ g[k + 1].missing = acc.missing
      BY <2>4, <2>11 DEF Impute
    <3>3. Cardinality(H(k + 1)) = Cardinality(H(k)) + 1
      BY <3>1, <1>h
    <3>4. K(k + 1) = K(k) \cup {b}
      BY <3>1, <1>h
    <3>5. K(k + 1) # {} /\ Max(K(k + 1)) = b
      <4>1. b \in K(k + 1) /\ \A c \in K(k + 1) : c \in Nat /\ c <= b
        <5>. HIDE DEF K, b
        <5>. QED
          BY <2>4, <2>8, <3>4
      <4>. HIDE DEF K, b
      <4>2. K(k + 1) \subseteq 0..b /\ b \in Int /\ 0 \in Int
        <5>1. b \in Int /\ 0 \in Int
          BY <2>4
        <5>2. \A c \in K(k + 1) : c \in 0..b
          BY <4>1, <5>1
        <5>. QED
          BY <5>1, <5>2, Zenon
      <4>3. Max(K(k + 1)) \in K(k + 1) /\ \A c \in K(k + 1) : c <= Max(K(k + 1))
        BY <4>1, <4>2, MaxOf, Zenon
      <4>4. Max(K(k + 1)) \in Nat
        BY <4>1, <4>3
      <4>. QED
        BY <4>1, <4>3, <4>4, <2>4
    <3>6. K(k + 1) \cap {b} = {b}
      BY <3>4
    <3>7. {b} # {} /\ Max({b}) = b
      <4>. HIDE DEF b
      <4>1. {b} \subseteq b..b /\ b \in Int
        BY <2>4
      <4>2. Max({b}) \in {b}
        BY <4>1, MaxOf
      <4>. QED
        BY <4>2
    <3>. HIDE DEF K, H, b, acc
    <3>8. v = At(b)
      BY <2>7, <3>5, <3>6, <3>7 DEF Value
    <3>9. Carried(k + 1)
      BY <3>1, <3>2, <3>5
    <3>10. Missing(k + 1)
      <4>1. acc.missing + Cardinality(H(k)) = k /\ acc.missing \in Nat
        BY <2>2, <2>5 DEF acc, Filled
      <4>. QED
        BY <3>2, <3>3, <4>1, <2>9
    <3>. QED
      BY <3>1, <3>2, <3>8, <3>9, <3>10
  <2>12. CASE b \notin DOMAIN data
    <3>1. In(points, b) = {}
      BY <1>3, <2>12
    <3> DEFINE fill == IF policy = "forward_fill" THEN acc.last ELSE 0
    <3>2. /\ g[k + 1].aligned = Append(acc.aligned, [ts |-> b, value |-> fill])
          /\ g[k + 1].last = acc.last /\ g[k + 1].missing = acc.missing + 1
      BY <2>4, <2>12 DEF Impute
    <3>3. H(k + 1) = H(k)
      BY <3>1, <1>h
    <3>4. K(k + 1) = K(k)
      BY <3>1, <1>h
    <3>5. b \notin K(k)
      BY <2>4, <2>8
    <3>6. acc.last = IF K(k) = {} THEN 0 ELSE At(Max(K(k)))
      BY <2>2
    <3>. HIDE DEF K, H, b, acc
    <3>7. v = fill
      <4>1. CASE policy = "forward_fill"
        BY <2>7, <3>4, <3>6, <4>1 DEF Value
      <4>2. CASE policy # "forward_fill"
        BY <2>7, <3>4, <3>5, <4>2 DEF Value
      <4>. QED
        BY <4>1, <4>2
    <3>8. Carried(k + 1)
      BY <3>2, <3>4, <3>6
    <3>9. Missing(k + 1)
      <4>1. acc.missing + Cardinality(H(k)) = k /\ acc.missing \in Nat
        BY <2>2, <2>5 DEF acc, Filled
      <4>. QED
        BY <3>2, <3>3, <4>1, <2>9
    <3>. QED
      BY <3>2, <3>7, <3>8, <3>9
  <2>. QED
    BY <2>11, <2>12
<1>7. Q(n)
  <2>. HIDE DEF Q
  <2>1. Nat \subseteq S
    <3>. HIDE DEF S
    <3>. QED
      BY <1>5, <1>6, NatInduct
  <2>2. n \in S
    BY <1>1, <2>1
  <2>. QED
    BY <1>1, <2>2
<1>. QED
  BY <1>2, <1>7 DEF E, n

-----------------------------------------------------------------------------
(* The payload: the signals' windows, one after the other.                 *)

\* Of two windows of the same signals the longer one has no fewer points.
LEMMA TimesGrows ==
  ASSUME NEW n \in Nat, NEW d \in Nat, NEW m \in Nat, d <= m
  PROVE  n * d <= n * m /\ n * d \in Nat /\ n * m \in Nat
<1> DEFINE q == m - d
<1>1. q \in Nat /\ m = d + q
  OBVIOUS
<1>. HIDE DEF q
<1>2. n * d \in Nat /\ n * q \in Nat
  BY <1>1
<1>3. n * m = (n * d) + (n * q)
  BY <1>1
<1>. QED
  BY <1>2, <1>3

\* When every signal has the same buckets, a Step apart, no point of the
\* payload is more than a Step after the one before it, not even the first of
\* a signal, which goes back to the start.
LEMMA PayloadIs ==
  ASSUME NEW E \in Seq(Nat), Len(E) >= 1,
         \A i \in 2..Len(E) : E[i] = E[i - 1] + Step,
         E[1] <= E[Len(E)],
         NEW seqs \in Seq(Seq(Point)),
         \A k \in 1..Len(seqs) : /\ Len(seqs[k]) = Len(E)
                                 /\ \A i \in 1..Len(E) : seqs[k][i].ts = E[i]
  PROVE  /\ FlattenSeq(seqs) \in Seq(Point)
         /\ Len(FlattenSeq(seqs)) = Len(seqs) * Len(E)
         /\ \A i \in 2..Len(FlattenSeq(seqs)) :
              FlattenSeq(seqs)[i].ts - FlattenSeq(seqs)[i - 1].ts <= Step
<1> DEFINE n == Len(seqs)
           N == Len(E)
<1>1. /\ n \in Nat /\ N \in Nat /\ N >= 1
      /\ \A i \in 1..N : E[i] \in Nat
      /\ \A k \in 1..n : seqs[k] \in Seq(Point)
  OBVIOUS
<1>2. \A k \in 1..n : Len(seqs[k]) = N /\ \A i \in 1..N : seqs[k][i].ts = E[i]
  OBVIOUS
<1>3. Step \in Nat /\ E[1] <= E[N] /\ \A i \in 2..N : E[i] = E[i - 1] + Step
  BY TimesAssumption
<1>4. CASE n = 0
  <2>1. FlattenSeq(seqs) = <<>>
    BY <1>4, FlattenFolds
  <2>2. n * N = 0
    BY <1>1, <1>4
  <2>. QED
    BY <2>1, <2>2
<1>5. CASE n # 0
  <2>1. PICK g : /\ g[1] = seqs[1]
                 /\ \A k \in 2..n : g[k] = g[k - 1] \o seqs[k]
                 /\ FlattenSeq(seqs) = g[n]
    BY <1>5, FlattenFolds
  <2> DEFINE Q(p, k) == /\ p \in Seq(Point) /\ Len(p) = k * N /\ Len(p) >= 1
                        /\ p[Len(p)].ts = E[N]
                        /\ \A i \in 2..Len(p) : p[i].ts - p[i - 1].ts <= Step
             S == {k \in Nat : k + 1 <= n => Q(g[k + 1], k + 1)}
  <2>. HIDE DEF n, N
  <2>2. ASSUME NEW k \in 1..n
        PROVE  /\ seqs[k] \in Seq(Point) /\ Len(seqs[k]) = N
               /\ seqs[k][1].ts = E[1] /\ seqs[k][N].ts = E[N]
               /\ \A i \in 2..N : seqs[k][i].ts - seqs[k][i - 1].ts <= Step
    <3>1. 1 \in 1..N /\ N \in 1..N
      BY <1>1
    <3>2. ASSUME NEW i \in 2..N
          PROVE  seqs[k][i].ts - seqs[k][i - 1].ts <= Step
      <4>1. i \in 1..N /\ i - 1 \in 1..N
        BY <1>1
      <4>2. seqs[k][i].ts = E[i] /\ seqs[k][i - 1].ts = E[i - 1] /\ E[i] = E[i - 1] + Step
        BY <1>2, <1>3, <4>1
      <4>3. E[i - 1] \in Nat
        BY <1>1, <4>1
      <4>. QED
        BY <1>3, <4>2, <4>3
    <3>. QED
      BY <1>1, <1>2, <3>1, <3>2
  <2>3. 0 \in S
    <3>1. 1 \in 1..n /\ 1 * N = N /\ 0 + 1 = 1
      BY <1>1, <1>5
    <3>2. Q(g[1], 1)
      BY <1>1, <2>1, <2>2, <3>1
    <3>. HIDE DEF Q
    <3>. QED
      BY <3>1, <3>2
  <2>4. ASSUME NEW k \in Nat, k \in S PROVE k + 1 \in S
    <3>. HIDE DEF Q
    <3>1. SUFFICES ASSUME k + 2 <= n PROVE Q(g[k + 2], k + 2)
      OBVIOUS
    <3>2. k + 2 \in 2..n /\ (k + 2) - 1 = k + 1 /\ k + 2 \in 1..n /\ k + 1 <= n
      BY <1>1, <3>1
    <3> DEFINE p == g[k + 1]
               t == seqs[k + 2]
    <3>3. g[k + 2] = p \o t
      BY <2>1, <3>2
    <3>4. Q(p, k + 1)
      BY <2>4, <3>2
    <3>5. /\ p \in Seq(Point) /\ Len(p) = (k + 1) * N /\ Len(p) >= 1 /\ p[Len(p)].ts = E[N]
          /\ \A i \in 2..Len(p) : p[i].ts - p[i - 1].ts <= Step
      BY <3>4 DEF Q
    <3>6. /\ t \in Seq(Point) /\ Len(t) = N /\ t[1].ts = E[1] /\ t[N].ts = E[N]
          /\ \A i \in 2..N : t[i].ts - t[i - 1].ts <= Step
      BY <2>2, <3>2
    <3>. HIDE DEF p, t
    <3>7. /\ p \o t \in Seq(Point) /\ Len(p \o t) = Len(p) + N
          /\ \A i \in 1..Len(p) : (p \o t)[i] = p[i]
          /\ \A i \in 1..N : (p \o t)[Len(p) + i] = t[i]
      <4>1. /\ p \o t \in Seq(Point) /\ Len(p \o t) = Len(p) + Len(t)
            /\ \A i \in 1..Len(p) : (p \o t)[i] = p[i]
            /\ \A i \in 1..Len(t) : (p \o t)[Len(p) + i] = t[i]
        <5>1. p \in Seq(Point) /\ t \in Seq(Point)
          BY <3>5, <3>6
        <5>. QED
          BY <5>1
      <4>2. Len(t) = N
        BY <3>6
      <4>. QED
        BY <4>1, <4>2
    <3>8. (k + 2) * N = ((k + 1) * N) + N
      BY <1>1
    <3>9. (p \o t)[Len(p) + N].ts = E[N]
      BY <1>1, <3>6, <3>7
    <3>10. ASSUME NEW i \in 2..(Len(p) + N)
           PROVE  (p \o t)[i].ts - (p \o t)[i - 1].ts <= Step
      <4>1. Len(p) \in Nat
        BY <3>5
      <4>2. CASE i <= Len(p)
        <5>1. i \in 2..Len(p) /\ i \in 1..Len(p) /\ i - 1 \in 1..Len(p)
          BY <4>1, <4>2
        <5>. QED
          BY <3>5, <3>7, <5>1
      <4>3. CASE i = Len(p) + 1
        <5>1. (p \o t)[i] = t[1] /\ (p \o t)[i - 1] = p[Len(p)]
          <6>1. 1 \in 1..N /\ Len(p) \in 1..Len(p) /\ i - 1 = Len(p)
            BY <1>1, <3>5, <4>1, <4>3
          <6>. QED
            BY <3>7, <4>3, <6>1
        <5>2. E[1] \in Nat /\ E[N] \in Nat
          BY <1>1
        <5>3. (p \o t)[i].ts = E[1] /\ (p \o t)[i - 1].ts = E[N]
          BY <3>5, <3>6, <5>1
        <5>. QED
          BY <1>3, <5>2, <5>3
      <4>4. CASE i > Len(p) + 1
        <5> DEFINE j == i - Len(p)
        <5>1. /\ j \in 2..N /\ j \in 1..N /\ j - 1 \in 1..N
              /\ i = Len(p) + j /\ i - 1 = Len(p) + (j - 1)
          BY <1>1, <4>1, <4>4
        <5>. HIDE DEF j
        <5>2. (p \o t)[i] = t[j] /\ (p \o t)[i - 1] = t[j - 1]
          BY <3>7, <5>1
        <5>. QED
          BY <3>6, <5>1, <5>2
      <4>. QED
        <5>1. i \in Int /\ (i <= Len(p) \/ i = Len(p) + 1 \/ i > Len(p) + 1)
          BY <1>1, <4>1
        <5>. QED
          BY <4>2, <4>3, <4>4, <5>1
    <3>11. /\ Len(p \o t) = (k + 2) * N /\ Len(p \o t) = Len(p) + N /\ Len(p \o t) >= 1
      BY <1>1, <3>5, <3>7, <3>8
    <3>12. \A i \in 2..Len(p \o t) : (p \o t)[i].ts - (p \o t)[i - 1].ts <= Step
      BY <3>10, <3>11
    <3>. QED
      BY <3>3, <3>7, <3>9, <3>11, <3>12 DEF Q
  <2>5. Nat \subseteq S
    <3>. HIDE DEF S
    <3>. QED
      BY <2>3, <2>4, NatInduct
  <2>6. n - 1 \in Nat /\ (n - 1) + 1 = n
    BY <1>1, <1>5
  <2>7. n - 1 \in S
    BY <2>5, <2>6, Zenon
  <2>8. Q(g[n], n)
    <3>. HIDE DEF Q
    <3>. QED
      BY <2>6, <2>7
  <2>. QED
    BY <2>1, <2>8 DEF n, N
<1>. QED
  BY <1>4, <1>5

-----------------------------------------------------------------------------
(* What AMP returns.                                                       *)

\* The series of the signals, and values that are numbers.
LEMMA SeriesAre ==
  /\ Len(Order) \in Nat /\ \A i \in 1..Len(Order) : Order[i] \in Signals
  /\ \A s \in Signals :
       /\ Len(Labels[s]) \in Nat
       /\ \A i \in 1..Len(Labels[s]) : <<s, Labels[s][i]>> \in Series
  /\ \A x \in Series : x[1] \in Signals /\ Values[x] \subseteq Nat
<1>1. Len(Order) \in Nat /\ \A i \in 1..Len(Order) : Order[i] \in Signals
  BY SignalsAssumption
<1>2. ASSUME NEW s \in Signals
      PROVE  /\ Len(Labels[s]) \in Nat
             /\ \A i \in 1..Len(Labels[s]) : <<s, Labels[s][i]>> \in Series
  <2>1. Len(Labels[s]) \in Nat
    BY SignalsAssumption
  <2>. QED
    BY <2>1 DEF Series
<1>3. ASSUME NEW x \in Series PROVE x[1] \in Signals /\ Values[x] \subseteq Nat
  <2>1. PICK s \in Signals : \E j \in 1..Len(Labels[s]) : x = <<s, Labels[s][j]>>
    BY DEF Series
  <2>2. PICK j \in 1..Len(Labels[s]) : x = <<s, Labels[s][j]>>
    BY <2>1
  <2>3. PICK i \in 1..Len(Order) : s = Order[i]
    BY DEF Signals
  <2>4. Values[<<Order[i], Labels[Order[i]][j]>>] \subseteq Nat
    BY <2>2, <2>3, TimesAssumption
  <2>. QED
    BY <2>2, <2>3, <2>4
<1>. QED
  BY <1>1, <1>2, <1>3

\* A range query of one series answers with points.
LEMMA PointsType ==
  ASSUME amp \in [Series -> Seq(Point)], NEW x \in Series,
         NEW s \in Nat, NEW e \in Nat, s <= e
  PROVE  Points(x, s, e) \in Seq(Point)
<1>1. ASSUME NEW t \in Nat PROVE PointAt(x, t) \in Seq(Point)
  <2>1. CASE Evaluated(x, t) = {}
    BY <2>1 DEF PointAt
  <2>2. CASE Evaluated(x, t) # {}
    <3>1. amp[x] \in Seq(Point) /\ Len(amp[x]) \in Nat
      OBVIOUS
    <3>2. Evaluated(x, t) \subseteq 1..Len(amp[x])
      BY DEF Evaluated
    <3>3. Max(Evaluated(x, t)) \in 1..Len(amp[x])
      BY <2>2, <3>1, <3>2, MaxFrom1
    <3>4. amp[x][Max(Evaluated(x, t))] \in Point
      BY <3>1, <3>3
    <3>5. [ts |-> t, value |-> amp[x][Max(Evaluated(x, t))].value] \in Point
      BY <3>4 DEF Point
    <3>6. PointAt(x, t) = <<[ts |-> t, value |-> amp[x][Max(Evaluated(x, t))].value]>>
      BY <2>2 DEF PointAt
    <3>. QED
      BY <3>5, <3>6
  <2>. QED
    BY <2>1, <2>2
<1> DEFINE n == (e - s) \div Step + 1
           seqs == [i \in 1..n |-> PointAt(x, s + (i - 1) * Step)]
<1>2. n \in Nat
  <2>1. e - s \in Nat
    OBVIOUS
  <2>2. (e - s) \div Step \in Nat
    BY <2>1, DivMod
  <2>. QED
    BY <2>2
<1>3. ASSUME NEW i \in 1..n PROVE s + (i - 1) * Step \in Nat
  <2>1. i - 1 \in Nat /\ Step \in Nat
    BY <1>2, TimesAssumption
  <2>2. (i - 1) * Step \in Nat
    BY <2>1
  <2>. QED
    BY <2>2
<1>. HIDE DEF n
<1>4. seqs \in Seq(Seq(Point))
  BY <1>1, <1>2, <1>3
<1>5. Points(x, s, e) = FlattenSeq(seqs)
  BY DEF Points, n
<1>. HIDE DEF seqs
<1>. QED
  BY <1>4, <1>5, FlattenType

\* A range query of a signal answers with points, of however many series.
LEMMA QueryRangeType ==
  ASSUME amp \in [Series -> Seq(Point)], NEW s \in Signals,
         NEW start \in Nat, NEW end \in Nat, start <= end
  PROVE  QueryRange(s, start, end) \in Seq(Point)
<1> DEFINE n == Len(Labels[s])
           seqs == [i \in 1..n |-> Points(<<s, Labels[s][i]>>, start, end)]
<1>1. n \in Nat
  BY SeriesAre
<1>2. ASSUME NEW i \in 1..n PROVE Points(<<s, Labels[s][i]>>, start, end) \in Seq(Point)
  <2>1. <<s, Labels[s][i]>> \in Series
    BY SeriesAre
  <2>. QED
    BY <2>1, PointsType
<1>3. QueryRange(s, start, end) = FlattenSeq(seqs)
  BY DEF QueryRange
<1>. HIDE DEF n
<1>4. seqs \in Seq(Seq(Point))
  BY <1>1, <1>2
<1>. HIDE DEF seqs
<1>. QED
  BY <1>3, <1>4, FlattenType

-----------------------------------------------------------------------------
(* The inductive invariant.                                                *)

\* AMP has no sample of a scrape that is still to come.
Stamped == \A x \in Series : \A i \in 1..Len(amp[x]) : amp[x][i].ts < now

\* A window is what align_and_impute makes of points that AMP returned.
Imputed(w) ==
  /\ w.start \in Nat /\ w.end \in Nat /\ w.end = w.start + Duration /\ w.end <= now
  /\ \A s \in Signals :
       /\ w.points[s] \in Seq(Point)
       /\ w.aligned[s] = AlignAndImpute(FillPolicy(s), w.points[s], w.start, w.end).aligned
       /\ w.missing[s] = AlignAndImpute(FillPolicy(s), w.points[s], w.start, w.end).missing

Inv ==
  /\ TypeOK
  /\ Stamped
  /\ \A w \in window : Imputed(w)

\* At the start no signal has been scraped and no window read.
LEMMA InitInv == Init => Inv
<1>. SUFFICES ASSUME Init PROVE Inv
  OBVIOUS
<1>1. now \in Duration..MaxTime /\ -1 \in -1..MaxTime
  BY TimesAssumption DEF Init
<1>2. \A x \in Series : gauge[x] \subseteq Values[x] /\ Cardinality(gauge[x]) <= 1
  BY FS_EmptySet DEF Init
<1>3. TypeOK
  BY <1>1, <1>2 DEF Init, TypeOK
<1>. QED
  BY <1>3 DEF Init, Inv, Stamped

\* A sample sets a gauge and touches nothing that was scraped.
LEMMA ObserveInv ==
  ASSUME Inv, NEW x \in Series, NEW v \in Values[x], Observe(x, v)
  PROVE  Inv'
<1>1. UNCHANGED <<now, amp, window>> /\ gauge' = [gauge EXCEPT ![x] = {v}]
  BY DEF Observe
<1>2. TypeOK'
  <2>1. DOMAIN gauge' = Series
    BY <1>1 DEF Inv, TypeOK
  <2>2. \A y \in Series : gauge'[y] \subseteq Values[y] /\ Cardinality(gauge'[y]) <= 1
    <3>1. Cardinality({v}) = 1
      BY FS_Singleton
    <3>2. \A y \in Series : gauge'[y] = IF y = x THEN {v} ELSE gauge[y]
      BY <1>1 DEF Inv, TypeOK
    <3>3. ASSUME NEW y \in Series
          PROVE  gauge'[y] \subseteq Values[y] /\ Cardinality(gauge'[y]) <= 1
      <4>1. CASE y = x
        BY <3>1, <3>2, <4>1
      <4>2. CASE y # x
        BY <3>2, <4>2 DEF Inv, TypeOK
      <4>. QED
        BY <4>1, <4>2
    <3>. QED
      BY <3>3
  <2>3. measured' \in [Signals -> -1..MaxTime]
    <3>1. now \in -1..MaxTime /\ x[1] \in Signals
      BY TimesAssumption, SeriesAre DEF Inv, TypeOK
    <3>. QED
      BY <3>1 DEF Observe, Inv, TypeOK
  <2>. QED
    BY <1>1, <2>1, <2>2, <2>3 DEF Inv, TypeOK
<1>. QED
  BY <1>1, <1>2 DEF Inv, Stamped, Imputed

\* A restarted API has forgotten its gauges; AMP keeps what it has.
LEMMA RestartApiInv ==
  ASSUME Inv, RestartApi
  PROVE  Inv'
<1>1. UNCHANGED <<now, amp, measured, window>> /\ gauge' = [x \in Series |-> {}]
  BY DEF RestartApi
<1>2. \A x \in Series : gauge'[x] \subseteq Values[x] /\ Cardinality(gauge'[x]) <= 1
  BY <1>1, FS_EmptySet
<1>3. TypeOK'
  BY <1>1, <1>2 DEF Inv, TypeOK
<1>. QED
  BY <1>1, <1>3 DEF Inv, Stamped, Imputed

\* A scrape adds at most one sample to a series, later than those it has.
LEMMA ScrapedIs ==
  ASSUME Inv, NEW x \in Series
  PROVE  /\ Scraped(x) \in Seq(Point)
         /\ \A i \in 1..Len(Scraped(x)) : Scraped(x)[i].ts < now + 1
         /\ \A i \in 2..Len(Scraped(x)) : Scraped(x)[i - 1].ts < Scraped(x)[i].ts
<1>1. now \in Nat
  BY TimesAssumption DEF Inv, TypeOK
<1>2. /\ amp[x] \in Seq(Point) /\ Len(amp[x]) \in Nat
      /\ \A i \in 1..Len(amp[x]) : amp[x][i] \in Point /\ amp[x][i].ts < now
      /\ \A i \in 2..Len(amp[x]) : amp[x][i - 1].ts < amp[x][i].ts
  <2>1. amp[x] \in Seq(Point)
    BY DEF Inv, TypeOK
  <2>. QED
    BY <2>1 DEF Inv, TypeOK, Stamped
<1>3. CASE gauge[x] = {}
  <2>1. \A i \in 1..Len(amp[x]) : amp[x][i].ts < now + 1
    BY <1>1, <1>2 DEF Point
  <2>. QED
    BY <1>2, <1>3, <2>1 DEF Scraped
<1>4. CASE gauge[x] # {}
  <2> DEFINE p == [ts |-> now, value |-> CHOOSE v \in gauge[x] : TRUE]
  <2>1. p \in Point /\ p.ts = now
    <3>1. (CHOOSE v \in gauge[x] : TRUE) \in gauge[x]
      BY <1>4
    <3>2. gauge[x] \subseteq Nat
      BY SeriesAre DEF Inv, TypeOK
    <3>. QED
      BY <1>1, <3>1, <3>2 DEF Point
  <2>2. Scraped(x) = Append(amp[x], p)
    BY <1>4 DEF Scraped
  <2>. HIDE DEF p
  <2> DEFINE n == Len(amp[x])
  <2>3. /\ Scraped(x) \in Seq(Point) /\ Len(Scraped(x)) = n + 1
        /\ \A i \in 1..n : Scraped(x)[i] = amp[x][i]
        /\ Scraped(x)[n + 1] = p
    BY <1>2, <2>1, <2>2
  <2>4. ASSUME NEW i \in 1..(n + 1) PROVE Scraped(x)[i].ts < now + 1
    <3>1. CASE i = n + 1
      BY <1>1, <2>1, <2>3, <3>1
    <3>2. CASE i \in 1..n
      <4>1. amp[x][i].ts \in Nat /\ amp[x][i].ts < now
        BY <1>2, <3>2 DEF Point
      <4>. QED
        BY <1>1, <2>3, <3>2, <4>1
    <3>. QED
      BY <1>2, <3>1, <3>2
  <2>5. ASSUME NEW i \in 2..(n + 1) PROVE Scraped(x)[i - 1].ts < Scraped(x)[i].ts
    <3>1. i - 1 \in 1..n
      BY <1>2
    <3>2. CASE i = n + 1
      <4>1. Scraped(x)[i - 1] = amp[x][i - 1] /\ Scraped(x)[i] = p
        BY <1>2, <2>3, <3>1, <3>2
      <4>. QED
        BY <1>2, <2>1, <3>1, <4>1
    <3>3. CASE i \in 2..n
      <4>1. i \in 1..n
        BY <1>2, <3>3
      <4>. QED
        BY <1>2, <2>3, <3>1, <3>3, <4>1
    <3>4. i = n + 1 \/ i \in 2..n
      BY <1>2
    <3>. QED
      BY <3>2, <3>3, <3>4
  <2>. QED
    BY <2>3, <2>4, <2>5
<1>. QED
  BY <1>3, <1>4

\* A scrape stamps the values of the gauges with the present time.
LEMMA ScrapeInv ==
  ASSUME Inv, Scrape
  PROVE  Inv'
<1>1. /\ window = {} /\ now < MaxTime /\ now' = now + 1
      /\ UNCHANGED <<gauge, measured, window>>
      /\ amp' = amp \/ amp' = [x \in Series |-> Scraped(x)]
  BY DEF Scrape
<1>2. now \in Nat /\ now' \in Duration..MaxTime
  BY <1>1, TimesAssumption DEF Inv, TypeOK
<1>3. ASSUME NEW x \in Series
      PROVE  /\ amp'[x] \in Seq(Point)
             /\ \A i \in 1..Len(amp'[x]) : amp'[x][i].ts < now'
             /\ \A i \in 2..Len(amp'[x]) : amp'[x][i - 1].ts < amp'[x][i].ts
  <2>1. CASE amp' = amp
    <3>1. /\ amp[x] \in Seq(Point)
          /\ \A i \in 1..Len(amp[x]) : amp[x][i].ts < now
          /\ \A i \in 2..Len(amp[x]) : amp[x][i - 1].ts < amp[x][i].ts
      BY DEF Inv, TypeOK, Stamped
    <3>2. \A i \in 1..Len(amp[x]) : amp[x][i].ts \in Nat
      <4>1. \A i \in 1..Len(amp[x]) : amp[x][i] \in Point
        BY <3>1
      <4>. QED
        BY <4>1 DEF Point
    <3>. QED
      BY <1>1, <1>2, <2>1, <3>1, <3>2
  <2>2. CASE amp' = [y \in Series |-> Scraped(y)]
    <3>1. amp'[x] = Scraped(x)
      BY <2>2
    <3>. QED
      BY <1>1, <3>1, ScrapedIs
  <2>. QED
    BY <1>1, <2>1, <2>2
<1>4. amp' \in [Series -> Seq(Point)]
  <2>1. CASE amp' = amp
    BY <2>1 DEF Inv, TypeOK
  <2>2. CASE amp' = [x \in Series |-> Scraped(x)]
    BY <2>2, ScrapedIs
  <2>. QED
    BY <1>1, <2>1, <2>2
<1>5. TypeOK'
  BY <1>1, <1>2, <1>3, <1>4 DEF Inv, TypeOK
<1>. QED
  BY <1>1, <1>3, <1>5 DEF Inv, Stamped

\* The windows a worker reads are imputed as defined.
LEMMA QueryInv ==
  ASSUME Inv, Query
  PROVE  Inv'
<1>1. UNCHANGED <<now, gauge, amp, measured>>
  BY DEF Query
<1>2. PICK failed \in SUBSET Signals : window' = {Read(failed)}
  BY DEF Query
<1> DEFINE w == Read(failed)
           start == now - Duration
<1>3. start \in Nat /\ now \in Nat /\ start <= now /\ now = start + Duration
  BY TimesAssumption DEF Inv, TypeOK
<1>4. /\ w.start = start /\ w.end = now
      /\ \A s \in Signals :
           /\ w.points[s] = IF s \in failed THEN <<>> ELSE QueryRange(s, start, now)
           /\ w.aligned[s] = AlignAndImpute(FillPolicy(s), w.points[s], start, now).aligned
           /\ w.missing[s] = AlignAndImpute(FillPolicy(s), w.points[s], start, now).missing
  BY DEF Read
<1>. HIDE DEF w, start
<1>5. \A s \in Signals : w.points[s] \in Seq(Point)
  <2>1. amp \in [Series -> Seq(Point)]
    BY DEF Inv, TypeOK
  <2>2. \A s \in Signals : QueryRange(s, start, now) \in Seq(Point)
    BY <1>3, <2>1, QueryRangeType
  <2>3. <<>> \in Seq(Point)
    OBVIOUS
  <2>. QED
    BY <1>4, <2>2, <2>3
<1>6. window' = {w} /\ w.end <= now
  BY <1>2, <1>3, <1>4 DEF w
<1>7. ASSUME NEW u \in window' PROVE Imputed(u)'
  <2>1. u = w
    BY <1>6
  <2>. QED
    BY <1>1, <1>3, <1>4, <1>5, <2>1 DEF Imputed
<1>8. TypeOK'
  BY <1>1, <1>6 DEF Inv, TypeOK
<1>. QED
  BY <1>1, <1>7, <1>8 DEF Inv, Stamped

\* Every step keeps the invariant.
LEMMA Inductive ==
  ASSUME Inv, [Next]_vars
  PROVE  Inv'
<1>1. CASE RestartApi
  BY <1>1, RestartApiInv
<1>2. CASE Scrape
  BY <1>2, ScrapeInv
<1>3. CASE Query
  BY <1>3, QueryInv
<1>4. CASE Finish
  BY <1>4 DEF Finish, Inv, TypeOK, Stamped
<1>5. CASE \E x \in Series : \E v \in Values[x] : Observe(x, v)
  BY <1>5, ObserveInv
<1>6. CASE UNCHANGED vars
  BY <1>6 DEF vars, Inv, TypeOK, Stamped, Imputed
<1>. QED
  BY <1>1, <1>2, <1>3, <1>4, <1>5, <1>6 DEF Next

\* Whatever is scraped, lost, restarted or queried, a window is always what
\* align_and_impute makes of points AMP returned, and AMP's samples are in the
\* order of their times.
THEOREM Invariance == Spec => []Inv
<1>. QED
  BY InitInv, Inductive, PTL DEF Spec

\* The gauges, AMP's samples, the clock and the window keep their types, and
\* each series' samples stay in the order of their times.
THEOREM TypeCorrect == Spec => []TypeOK
<1>1. Inv => TypeOK
  BY DEF Inv
<1>. QED
  BY <1>1, Invariance, PTL

-----------------------------------------------------------------------------
(* What the worker and the engine may rely on.                             *)

\* The window of one signal, bucket by bucket.
LEMMA SignalIs ==
  ASSUME Inv, NEW w \in window, NEW s \in Signals
  PROVE  LET E == Expected(w.start, w.end)
             r == w.aligned[s] IN
         /\ r \in Seq(Point) /\ Len(r) = Len(E) /\ Len(E) \in Nat
         /\ \A i \in 1..Len(E) :
              /\ r[i].ts = E[i]
              /\ r[i].value = Value(FillPolicy(s), w.points[s], w.start, E[i])
         /\ w.missing[s] \in Nat
         /\ Cardinality(Having(w.points[s], E, Len(E))) \in Nat
         /\ w.missing[s] + Cardinality(Having(w.points[s], E, Len(E))) = Len(E)
<1> DEFINE E == Expected(w.start, w.end)
           r == AlignAndImpute(FillPolicy(s), w.points[s], w.start, w.end)
<1>1. /\ w.start \in Nat /\ w.end \in Nat /\ w.start <= w.end
      /\ w.points[s] \in Seq(Point)
      /\ w.aligned[s] = r.aligned /\ w.missing[s] = r.missing
  BY TimesAssumption DEF Inv, Imputed
<1>2. /\ r \in Filled /\ Len(r.aligned) = Len(E)
      /\ \A i \in 1..Len(E) :
           /\ r.aligned[i].ts = E[i]
           /\ r.aligned[i].value = Value(FillPolicy(s), w.points[s], w.start, E[i])
      /\ r.missing + Cardinality(Having(w.points[s], E, Len(E))) = Len(E)
  BY <1>1, AlignIs
<1>3. Len(E) \in Nat
  BY <1>1, ExpectedTimes
<1>. HIDE DEF r, E
<1>4. r.aligned \in Seq(Point) /\ r.missing \in Nat
  BY <1>2 DEF Filled
<1>5. Cardinality(Having(w.points[s], E, Len(E))) \in Nat
  <2>1. Grows(w.points[s], E, Len(E))
    BY <1>3, HavingGrows
  <2>. QED
    BY <2>1 DEF Grows
<1>. QED
  BY <1>1, <1>2, <1>3, <1>4, <1>5 DEF E

\* Every signal of every window has all its buckets, the first and the last
\* included, and each of them has the value its definition gives it.
THEOREM AlignsAsDefined == Spec => []AlignedAsDefined
<1>1. Inv => AlignedAsDefined
  <2>. SUFFICES ASSUME Inv, NEW w \in window, NEW s \in Signals
                PROVE  /\ {w.aligned[s][i].ts : i \in 1..Len(w.aligned[s])} =
                            {b \in Bucket(w.start)..Bucket(w.end) : b % Step = 0}
                       /\ \A i \in 1..Len(w.aligned[s]) :
                            w.aligned[s][i].value =
                              Value(FillPolicy(s), w.points[s], w.start, w.aligned[s][i].ts)
    BY DEF AlignedAsDefined
  <2> DEFINE E == Expected(w.start, w.end)
             r == w.aligned[s]
  <2>1. /\ Len(r) = Len(E)
        /\ \A i \in 1..Len(E) :
             /\ r[i].ts = E[i]
             /\ r[i].value = Value(FillPolicy(s), w.points[s], w.start, E[i])
    BY SignalIs
  <2>2. w.start \in Nat /\ w.end \in Nat /\ w.start <= w.end
    BY TimesAssumption DEF Inv, Imputed
  <2>3. {E[i] : i \in 1..Len(E)} = {b \in Bucket(w.start)..Bucket(w.end) : b % Step = 0}
    BY <2>2, ExpectedTimes
  <2>. HIDE DEF E, r
  <2>4. {r[i].ts : i \in 1..Len(r)} = {E[i] : i \in 1..Len(E)}
    BY <2>1
  <2>5. \A i \in 1..Len(r) : r[i].value = Value(FillPolicy(s), w.points[s], w.start, r[i].ts)
    BY <2>1
  <2>. QED
    BY <2>3, <2>4, <2>5 DEF r
<1>. QED
  BY <1>1, Invariance, PTL

\* The engine's length and continuity checks refuse no window the worker sends.
THEOREM WindowsAreAccepted == Spec => []WindowsAccepted
<1>1. Inv => WindowsAccepted
  <2>. SUFFICES ASSUME Inv, NEW w \in window PROVE Accepted(Payload(w))
    BY DEF WindowsAccepted
  <2> DEFINE E == Expected(w.start, w.end)
             n == Len(Order)
             seqs == [i \in 1..n |-> w.aligned[Order[i]]]
  <2>1. /\ w.start \in Nat /\ w.end \in Nat /\ w.start <= w.end
        /\ w.end - w.start = Duration
    BY TimesAssumption DEF Inv, Imputed
  <2>2. /\ E \in Seq(Nat) /\ Len(E) \in Nat /\ Len(E) >= 1
        /\ \A i, j \in 1..Len(E) : i < j <=> E[i] < E[j]
        /\ \A i \in 2..Len(E) : E[i] = E[i - 1] + Step
        /\ Len(E) >= Duration \div Step + 1
    BY <2>1, ExpectedTimes
  <2>3. ASSUME NEW k \in 1..n
        PROVE  /\ w.aligned[Order[k]] \in Seq(Point)
               /\ Len(w.aligned[Order[k]]) = Len(E)
               /\ \A i \in 1..Len(E) : w.aligned[Order[k]][i].ts = E[i]
    <3>1. Order[k] \in Signals
      BY SeriesAre
    <3>. QED
      BY <3>1, SignalIs
  <2>4. n \in Nat
    BY SeriesAre
  <2>5. Payload(w) = FlattenSeq(seqs)
    BY DEF Payload
  <2>. HIDE DEF E, n
  <2>6. E[1] <= E[Len(E)]
    <3>1. 1 \in 1..Len(E) /\ Len(E) \in 1..Len(E) /\ E[1] \in Nat /\ E[Len(E)] \in Nat
      BY <2>2
    <3>2. CASE Len(E) = 1
      BY <3>1, <3>2
    <3>3. CASE 1 < Len(E)
      BY <2>2, <3>1, <3>3
    <3>. QED
      BY <2>2, <3>2, <3>3
  <2>7. /\ seqs \in Seq(Seq(Point)) /\ Len(seqs) = n
        /\ \A k \in 1..Len(seqs) : /\ Len(seqs[k]) = Len(E)
                                   /\ \A i \in 1..Len(E) : seqs[k][i].ts = E[i]
    BY <2>3, <2>4
  <2>. HIDE DEF seqs
  <2>8. /\ Len(FlattenSeq(seqs)) = n * Len(E)
        /\ \A i \in 2..Len(FlattenSeq(seqs)) :
             FlattenSeq(seqs)[i].ts - FlattenSeq(seqs)[i - 1].ts <= Step
    BY <2>2, <2>6, <2>7, PayloadIs
  <2>9. MinPoints <= n * Len(E)
    <3> DEFINE d == Duration \div Step + 1
    <3>1. d \in Nat
      <4>1. Duration \div Step \in Nat
        BY TimesAssumption, DivMod
      <4>. QED
        BY <4>1
    <3>2. MinPoints <= n * d /\ MinPoints \in Nat
      BY LengthAssumption, TimesAssumption DEF n
    <3>3. d <= Len(E)
      BY <2>2
    <3>. HIDE DEF d
    <3>4. n * d <= n * Len(E) /\ n * d \in Nat /\ n * Len(E) \in Nat
      <4>1. Len(E) \in Nat
        BY <2>2
      <4>. QED
        BY <2>4, <3>1, <3>3, <4>1, TimesGrows
    <3>. QED
      BY <3>2, <3>4
  <2>. QED
    BY <2>5, <2>8, <2>9 DEF Accepted
<1>. QED
  BY <1>1, Invariance, PTL

\* When the engine is asked, more than half the buckets of every signal have a
\* point that AMP returned.
THEOREM AsksOnEvidence == Spec => []AskedOnEvidence
<1>1. Inv => AskedOnEvidence
  <2>. SUFFICES ASSUME Inv, NEW w \in window, Decision(w) = "ai", NEW s \in Signals
                PROVE  2 * Cardinality({i \in 1..Len(w.aligned[s]) :
                                          In(w.points[s], w.aligned[s][i].ts) # {}}) > Total(w)
    BY DEF AskedOnEvidence
  <2> DEFINE E == Expected(w.start, w.end)
             r == w.aligned[s]
             H == Having(w.points[s], E, Len(E))
  <2>1. /\ Len(r) = Len(E) /\ Len(E) \in Nat
        /\ \A i \in 1..Len(E) : r[i].ts = E[i]
        /\ w.missing[s] \in Nat /\ Cardinality(H) \in Nat
        /\ w.missing[s] + Cardinality(H) = Len(E)
    BY SignalIs
  <2>2. ~ (2 * w.missing[s] >= Len(E))
    BY DEF Decision, TooLarge, Total
  <2>3. Total(w) = Len(E)
    BY DEF Total
  <2>. HIDE DEF E, r
  <2>4. {i \in 1..Len(r) : In(w.points[s], r[i].ts) # {}} = H
    BY <2>1 DEF Having
  <2>. HIDE DEF H
  <2>5. 2 * Cardinality(H) > Len(E)
    BY <2>1, <2>2
  <2>. QED
    BY <2>3, <2>4, <2>5 DEF r
<1>. QED
  BY <1>1, Invariance, PTL
=============================================================================
