--------------------------- MODULE WindowAlignment ---------------------------
(***************************************************************************)
(* align_and_impute: the points of one AMP query put into buckets of Step, *)
(* the buckets without one imputed by the signal's fill policy.            *)
(***************************************************************************)
EXTENDS Integers, FiniteSets, SequencesExt

CONSTANT Step   \* step_seconds, which is also the step of the query

Bucket(t) == (t \div Step) * Step

\* expected_timestamps, the bucket of the end included.
Expected(start, end) ==
  [i \in 1..((Bucket(end) - Bucket(start)) \div Step + 1) |->
     Bucket(start) + (i - 1) * Step]

NoData == [b \in {} |-> 0]

\* Mutant: of the points of a bucket the first one stays.
PutFirst(data, p) ==
  [b \in DOMAIN data \cup {Bucket(p.ts)} |->
     IF b \in DOMAIN data THEN data[b] ELSE p.value]

\* A point replaces the one its bucket has.
Put(data, p) ==
  [b \in DOMAIN data \cup {Bucket(p.ts)} |->
     IF b = Bucket(p.ts) THEN p.value ELSE data[b]]

\* actual_data: of the points of a bucket the last one stays, that of the
\* series listed last when there are several.
Actual(points) == FoldLeft(LAMBDA data, p : Put(data, p), NoData, points)

\* Mutant: the value carried forward is the zero just filled in.
ImputeForgets(policy, data, acc, b) ==
  IF b \in DOMAIN data
  THEN [aligned |-> Append(acc.aligned, [ts |-> b, value |-> data[b]]),
        last    |-> data[b],
        missing |-> acc.missing]
  ELSE [aligned |-> Append(acc.aligned, [ts |-> b,
                      value |-> IF policy = "forward_fill" THEN acc.last ELSE 0]),
        last    |-> 0,
        missing |-> acc.missing + 1]

\* Mutant: a bucket without a point is left out.
ImputeSkips(policy, data, acc, b) ==
  IF b \in DOMAIN data
  THEN [aligned |-> Append(acc.aligned, [ts |-> b, value |-> data[b]]),
        last    |-> IF policy = "forward_fill" THEN data[b] ELSE 0,
        missing |-> acc.missing]
  ELSE [acc EXCEPT !.missing = @ + 1]

\* One bucket of the loop; last is 0 while last_known_value is None, since
\* both fill with 0.0.
Impute(policy, data, acc, b) ==
  LET fill == IF policy = "forward_fill" THEN acc.last ELSE 0 IN
  IF b \in DOMAIN data
  THEN [aligned |-> Append(acc.aligned, [ts |-> b, value |-> data[b]]),
        last    |-> data[b],
        missing |-> acc.missing]
  ELSE [aligned |-> Append(acc.aligned, [ts |-> b, value |-> fill]),
        last    |-> acc.last,
        missing |-> acc.missing + 1]

NoneYet == [aligned |-> <<>>, last |-> 0, missing |-> 0]

AlignAndImpute(policy, points, start, end) ==
  LET data == Actual(points) IN
  FoldLeft(LAMBDA acc, b : Impute(policy, data, acc, b), NoneYet, Expected(start, end))

-----------------------------------------------------------------------------
(* What the window should hold, bucket by bucket.                          *)

\* The points of bucket b, as their indices.
In(points, b) == {i \in 1..Len(points) : Bucket(points[i].ts) = b}

\* Buckets of the window up to b that have a point.
Known(points, start, b) ==
  {c \in Bucket(start)..b : c % Step = 0 /\ In(points, c) # {}}

\* The last point of the bucket; or the one of the closest bucket before it in
\* the window, under forward_fill; or 0.
Value(policy, points, start, b) ==
  LET from == IF policy = "forward_fill" THEN Known(points, start, b)
                                         ELSE Known(points, start, b) \cap {b}
  IN IF from = {} THEN 0 ELSE points[Max(In(points, Max(from)))].value
=============================================================================
