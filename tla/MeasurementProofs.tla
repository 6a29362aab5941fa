--------------------------- MODULE MeasurementProofs ---------------------------
(***************************************************************************)
(* Proofs about what is measured of the network and what is read off it.   *)
(*                                                                         *)
(* RadioHistory, for every set of runs, links and signals, every bucket,   *)
(* retention and heartbeat: retention leaves no hole in the counters and   *)
(* invents no reset, and the history and the events of the links follow    *)
(* the rows.                                                               *)
(*                                                                         *)
(* MeshViews, for every network, every table and every limit on the hops:  *)
(* the views agree on the next hop, an answer of the walk is the one of a  *)
(* table there was, the bands of the health score are earned and           *)
(* explained, the articulation points of a partition are its cut vertices, *)
(* and a fragile mesh is told.                                             *)
(***************************************************************************)
EXTENDS RadioHistory, MeshViews, CollectionLemmas, TLAPS

(* the counters *)

BucketOfEach(T) == {BucketOf(t) : t \in T}

\* Every bucket of a sample within ArchiveFor has a row.
Covered == \A t \in recorded : BucketOf(t) >= now - ArchiveFor
                                 => BucketOf(t) \in BucketOfEach(DOMAIN samples)

CountersInv == /\ now \in Nat /\ DOMAIN samples \subseteq Nat /\ recorded \subseteq Nat
               /\ Covered

LEMMA Multiples ==
  ASSUME NEW q \in Nat
  PROVE  (Bucket * q) % Bucket = 0
<1>1. Bucket \in Nat /\ Bucket > 0
  BY CounterAssumption
<1> DEFINE n == Bucket * q
           d == n \div Bucket
           e == n % Bucket
<1>2. n \in Nat
  BY <1>1
<1>3. d \in Nat /\ e \in 0 .. Bucket - 1 /\ n = Bucket * d + e
  BY <1>1, <1>2
<1>4. e = Bucket * (q - d)
  BY <1>1, <1>3
<1> HIDE DEF d, e
<1>5. q - d <= 0
  <2>1. q - d >= 1 => Bucket * (q - d) >= Bucket
    BY <1>1, <1>3
  <2> QED BY <1>1, <1>3, <1>4, <2>1
<1>6. q - d >= 0
  <2>1. q - d <= -1 => Bucket * (q - d) < 0
    BY <1>1, <1>3
  <2> QED BY <1>1, <1>3, <1>4, <2>1
<1>7. q - d = 0
  BY <1>3, <1>5, <1>6
<1>8. e = 0
  BY <1>1, <1>4, <1>7
<1> QED BY <1>8 DEF e

\* A bucket starts at a multiple of its length, in itself and not after its
\* times.
LEMMA Buckets ==
  ASSUME NEW t \in Nat
  PROVE  BucketOf(t) \in Nat /\ BucketOf(t) <= t /\ BucketOf(BucketOf(t)) = BucketOf(t)
<1> DEFINE q == t \div Bucket
<1>1. Bucket \in Nat /\ Bucket > 0
  BY CounterAssumption
<1>2. q \in Nat /\ t % Bucket \in 0 .. Bucket - 1 /\ t = Bucket * q + (t % Bucket)
  BY <1>1
<1>3. BucketOf(t) = Bucket * q
  BY <1>1, <1>2 DEF BucketOf
<1>4. (Bucket * q) % Bucket = 0
  BY <1>2, Multiples
<1>5. Bucket * q \in Nat
  BY <1>1, <1>2
<1> HIDE DEF q
<1> QED BY <1>1, <1>2, <1>3, <1>4, <1>5 DEF BucketOf

\* Retention keeps a row of each bucket that starts within ArchiveFor.
LEMMA PrunedKeepsBuckets ==
  ASSUME DOMAIN samples \subseteq Nat, now \in Nat
  PROVE  /\ DOMAIN Pruned \subseteq Nat
         /\ \A b \in BucketOfEach(DOMAIN samples) :
              b >= now - ArchiveFor => b \in BucketOfEach(DOMAIN Pruned)
<1> DEFINE loose == {t \in Kept : BucketOf(t) \notin Packed}
<1>1. DOMAIN Pruned = loose \cup Packed
  BY DEF Pruned
<1>2. Kept \subseteq DOMAIN samples /\ Archived \subseteq Kept
  BY DEF Kept, Archived
<1>3. Packed \subseteq BucketOfEach(Archived)
  BY DEF Packed, BucketOfEach
<1>4. \A b \in Packed : b \in Nat /\ BucketOf(b) = b
  BY <1>2, <1>3, Buckets DEF BucketOfEach
<1>5. ASSUME NEW t \in DOMAIN samples, BucketOf(t) >= now - ArchiveFor
      PROVE  \E u \in loose \cup Packed : BucketOf(u) = BucketOf(t)
  <2>1. CASE BucketOf(t) \in Packed
    BY <1>4, <2>1
  <2>2. CASE BucketOf(t) \notin Packed
    <3>1. t \in Kept
      BY <1>5, Buckets, CounterAssumption DEF Kept
    <3> QED BY <2>2, <3>1
  <2> QED BY <2>1, <2>2
<1> QED BY <1>1, <1>2, <1>4, <1>5 DEF BucketOfEach

LEMMA CountersStep ==
  ASSUME CountersInv, [Next]_vars
  PROVE  CountersInv'
<1>1. CASE UNCHANGED <<samples, recorded, now>>
  BY <1>1 DEF CountersInv, Covered, BucketOfEach
<1>2. CASE Tick
  <2>1. now' = now + 1 /\ UNCHANGED <<samples, recorded>>
    BY <1>2 DEF Tick, counterVars
  <2>2. \A t \in recorded : BucketOf(t) \in Nat
    BY Buckets DEF CountersInv
  <2>3. ArchiveFor \in Nat
    BY CounterAssumption
  <2> QED BY <2>1, <2>2, <2>3 DEF CountersInv, Covered, BucketOfEach
<1>3. ASSUME NEW r \in Run, Record(r), now' = now
      PROVE  CountersInv'
  <2>1. CASE UNCHANGED <<samples, recorded>>
    BY <1>3, <2>1, <1>1
  <2>2. CASE DOMAIN samples' = DOMAIN samples \cup {now} /\ recorded' = recorded \cup {now}
    BY <1>3, <2>2 DEF CountersInv, Covered, BucketOfEach
  <2> QED BY <1>3, <2>1, <2>2 DEF Record
<1>4. ASSUME NEW r \in Run, Prune(r), now' = now
      PROVE  CountersInv'
  <2>1. recorded' = recorded /\ samples' \in {samples, Pruned}
    BY <1>4 DEF Prune
  <2> QED BY <1>1, <1>4, <2>1, PrunedKeepsBuckets DEF CountersInv, Covered
<1> QED BY <1>1, <1>2, <1>3, <1>4
        DEF Next, Counters, CounterNext, Links, Restart, Fetch, FetchCached, vars, counterVars

\* Retention leaves no hole: for ArchiveFor every bucket with a sample keeps a
\* row, for every bucket length, however many runs record and prune, whichever
\* prunes fail, and also when a bucket straddles the end of the full resolution
\* (storage/sqlite_store.py, prune_counter_samples).
THEOREM NoHoles == Spec => []BucketsRemain
<1>1. Init => CountersInv
  BY StartAssumption DEF Init, CounterInit, CountersInv, Covered
<1>2. CountersInv /\ [Next]_vars => CountersInv'
  BY CountersStep
<1>3. CountersInv => BucketsRemain
  BY DEF CountersInv, Covered, BucketsRemain, BucketOfEach
<1> QED BY <1>1, <1>2, <1>3, PTL DEF Spec

-----------------------------------------------------------------------------
(* averages *)

\* A rounded mean lies between two bounds of what it is the mean of.
LEMMA MeanBetween ==
  ASSUME NEW sum \in Nat, NEW n \in Nat \ {0}, NEW lo \in Nat, NEW hi \in Nat,
         lo * n <= sum, sum <= hi * n
  PROVE  RoundedMean(sum, n) \in Nat /\ lo <= RoundedMean(sum, n) /\ RoundedMean(sum, n) <= hi
<1> DEFINE a == 2 * sum + n
           m == 2 * n
           q == a \div m
           r == a % m
<1>1. a \in Nat /\ m \in Nat /\ m > 0
  OBVIOUS
<1> HIDE DEF a, m
<1>2. q \in Nat /\ r \in 0 .. m - 1 /\ a = m * q + r
  BY <1>1
<1>3. RoundedMean(sum, n) = q
  BY DEF RoundedMean, a, m
<1> HIDE DEF q, r
<1>4. a = 2 * sum + n /\ m = 2 * n /\ m * q = 2 * (q * n)
  BY <1>2 DEF a, m
<1>5. lo <= q
  <2>1. q + 1 <= lo => (lo - (q + 1)) * n >= 0
    BY <1>2
  <2>2. (lo - (q + 1)) * n = lo * n - q * n - n
    BY <1>2
  <2>3. q * n \in Nat /\ lo * n \in Nat
    BY <1>2
  <2> QED BY <1>2, <1>4, <2>1, <2>2, <2>3
<1>6. q <= hi
  <2>1. hi + 1 <= q => (q - (hi + 1)) * n >= 0
    BY <1>2
  <2>2. (q - (hi + 1)) * n = q * n - hi * n - n
    BY <1>2
  <2>3. q * n \in Nat /\ hi * n \in Nat
    BY <1>2
  <2> QED BY <1>2, <1>4, <2>1, <2>2, <2>3
<1> QED BY <1>2, <1>3, <1>5, <1>6

\* Every row that has a key has a number for it.
Numbered(rows, T, k) == \A t \in T : k \in DOMAIN rows[t] => rows[t][k] \in Nat

\* An average is a number, also where not every row has the key.
LEMMA MeanType ==
  ASSUME NEW rows, NEW T, IsFiniteSet(T), NEW k, Numbered(rows, T, k), NEW n \in Nat \ {0}
  PROVE  Total(rows, T, k) \in Nat /\ RoundedMean(Total(rows, T, k), n) \in Nat
<1> DEFINE H == Having(rows, T, k)
           f == [t \in H |-> rows[t][k]]
<1>1. IsFiniteSet(H) /\ \A t \in H : f[t] \in Nat
  BY FS_Subset DEF Having, Numbered
<1>2. Total(rows, T, k) = SumFunctionOnSet(f, H)
  BY DEF Total
<1> HIDE DEF H, f
<1>3. PICK sum : sum = Total(rows, T, k)
  OBVIOUS
<1>4. sum \in Nat
  BY <1>1, <1>2, <1>3, SumNatural
<1>5. RoundedMean(sum, n) \in Nat
  <2>1. 0 * n <= sum /\ sum <= sum * n
    <3>1. sum * n - sum = sum * (n - 1) /\ sum * (n - 1) \in Nat /\ sum * n \in Nat
      BY <1>4
    <3> QED BY <1>4, <3>1
  <2> QED BY <1>4, <2>1, MeanBetween
<1> QED BY <1>3, <1>4, <1>5

\* Where every row has the key, the average lies between two bounds of its values.
LEMMA AverageBetween ==
  ASSUME NEW rows, NEW T, IsFiniteSet(T), T # {}, NEW k,
         \A t \in T : k \in DOMAIN rows[t] /\ rows[t][k] \in Nat,
         NEW lo \in Nat, NEW hi \in Nat, \A t \in T : lo <= rows[t][k] /\ rows[t][k] <= hi
  PROVE  /\ lo <= RoundedMean(Total(rows, T, k), Cardinality(T))
         /\ RoundedMean(Total(rows, T, k), Cardinality(T)) <= hi
<1> DEFINE f == [t \in T |-> rows[t][k]]
<1>1. Having(rows, T, k) = T
  BY DEF Having
<1>2. Total(rows, T, k) = SumFunctionOnSet(f, T)
  BY <1>1 DEF Total
<1>3. \A t \in T : f[t] \in Int /\ lo <= f[t] /\ f[t] <= hi
  OBVIOUS
<1> HIDE DEF f
<1>4. Cardinality(T) \in Nat \ {0}
  BY FS_CardinalityType, FS_EmptySet
<1>5. PICK n \in Nat \ {0} : n = Cardinality(T)
  BY <1>4
<1>6. PICK sum \in Int : sum = Total(rows, T, k)
  BY <1>2, <1>3, SumType
<1>7. lo * n <= sum /\ sum <= hi * n
  <2>1. lo \in Int /\ hi \in Int
    OBVIOUS
  <2>2. /\ lo * Cardinality(T) <= SumFunctionOnSet(f, T)
        /\ SumFunctionOnSet(f, T) <= hi * Cardinality(T)
    BY <1>3, <2>1, SumBounds
  <2> QED BY <1>2, <1>5, <1>6, <2>2
<1>8. sum \in Nat
  <2>1. lo * n \in Nat
    OBVIOUS
  <2> QED BY <1>7, <2>1
<1> QED BY <1>5, <1>6, <1>7, <1>8, MeanBetween
-----------------------------------------------------------------------------
(* counters that rise *)

\* Every row tells the counter, and it never falls from row to row.
Rising(rows, k) ==
  /\ \A t \in DOMAIN rows : k \in DOMAIN rows[t] /\ rows[t][k] \in Nat
  /\ \A t, u \in DOMAIN rows : t <= u => rows[t][k] <= rows[u][k]

\* Each row of `merged` stands for rows of `rows`: its counter lies between
\* theirs, and those of an earlier row are not later than those of a later one.
Merges(merged, rows, cover, k) ==
  /\ \A b \in DOMAIN merged :
       /\ cover[b] \subseteq DOMAIN rows /\ cover[b] # {}
       /\ k \in DOMAIN merged[b] /\ merged[b][k] \in Nat
       /\ \A lo \in Nat : (\A t \in cover[b] : lo <= rows[t][k]) => lo <= merged[b][k]
       /\ \A hi \in Nat : (\A t \in cover[b] : rows[t][k] <= hi) => merged[b][k] <= hi
  /\ \A b, c \in DOMAIN merged : b < c => \A t \in cover[b], u \in cover[c] : t <= u

LEMMA MergedRises ==
  ASSUME NEW rows, DOMAIN rows \subseteq Nat, NEW merged, DOMAIN merged \subseteq Nat,
         NEW cover, NEW k, Rising(rows, k), Merges(merged, rows, cover, k)
  PROVE  /\ Rising(merged, k)
         /\ \A hi \in Nat : (\A t \in DOMAIN rows : rows[t][k] <= hi)
                              => \A b \in DOMAIN merged : merged[b][k] <= hi
<1>1. \A b \in DOMAIN merged :
        /\ cover[b] \subseteq DOMAIN rows /\ cover[b] # {}
        /\ k \in DOMAIN merged[b] /\ merged[b][k] \in Nat
  BY DEF Merges
<1>2. ASSUME NEW b \in DOMAIN merged, NEW c \in DOMAIN merged, b <= c
      PROVE  merged[b][k] <= merged[c][k]
  <2>1. CASE b = c
    BY <1>1, <2>1
  <2>2. CASE b # c
    <3>1. b < c
      BY <1>2, <2>2
    <3>2. \A t \in cover[b], u \in cover[c] : rows[t][k] <= rows[u][k] /\ rows[u][k] \in Nat
      BY <1>1, <3>1 DEF Merges, Rising
    <3>3. \A u \in cover[c] : merged[b][k] <= rows[u][k]
      BY <3>2, <1>1 DEF Merges
    <3> QED BY <1>1, <3>3 DEF Merges
  <2> QED BY <2>1, <2>2
<1>3. ASSUME NEW hi \in Nat, \A t \in DOMAIN rows : rows[t][k] <= hi, NEW b \in DOMAIN merged
      PROVE  merged[b][k] <= hi
  BY <1>1, <1>3 DEF Merges
<1> QED BY <1>1, <1>2, <1>3 DEF Rising

\* A later time has a later bucket, or the same.
LEMMA LaterBucket ==
  ASSUME NEW t \in Nat, NEW u \in Nat, t <= u
  PROVE  BucketOf(t) <= BucketOf(u)
<1>1. Bucket \in Nat /\ Bucket > 0
  BY CounterAssumption
<1> DEFINE q == t \div Bucket
           p == u \div Bucket
<1>2. q \in Nat /\ t % Bucket \in 0 .. Bucket - 1 /\ t = Bucket * q + (t % Bucket)
  BY <1>1
<1>3. p \in Nat /\ u % Bucket \in 0 .. Bucket - 1 /\ u = Bucket * p + (u % Bucket)
  BY <1>1
<1>4. BucketOf(t) = Bucket * q /\ BucketOf(u) = Bucket * p
  BY <1>1, <1>2, <1>3 DEF BucketOf
<1> HIDE DEF q, p
<1>5. Bucket * q \in Nat /\ Bucket * p \in Nat /\ Bucket * (p + 1) = Bucket * p + Bucket
  BY <1>1, <1>2, <1>3
<1>6. q <= p
  <2>1. q >= p + 1 => Bucket * (q - (p + 1)) >= 0
    BY <1>1, <1>2, <1>3
  <2>2. Bucket * (q - (p + 1)) = Bucket * q - Bucket * p - Bucket
    BY <1>1, <1>2, <1>3
  <2>3. ~(q >= p + 1)
    BY <1>1, <1>2, <1>3, <1>5, <2>1, <2>2
  <2> QED BY <1>2, <1>3, <2>3
<1>7. Bucket * (p - q) >= 0 /\ Bucket * (p - q) = Bucket * p - Bucket * q
  BY <1>1, <1>2, <1>3, <1>6
<1> QED BY <1>4, <1>5, <1>7

\* A series in buckets rises when its rows do.
LEMMA BucketedRises ==
  ASSUME NEW series, DOMAIN series \subseteq Nat, IsFiniteSet(DOMAIN series),
         NEW k, Rising(series, k)
  PROVE  /\ DOMAIN Bucketed(series) \subseteq Nat /\ IsFiniteSet(DOMAIN Bucketed(series))
         /\ Rising(Bucketed(series), k)
<1> DEFINE T == DOMAIN series
           B == {BucketOf(t) : t \in T}
           In(b) == {t \in T : BucketOf(t) = b}
           cover == [b \in B |-> In(b)]
           merged == Bucketed(series)
           mean(b, j) == RoundedMean(Total(series, In(b), j), Cardinality(Having(series, In(b), j)))
<1>1. merged = [b \in B |-> [j \in KeysOf(series, In(b)) |-> mean(b, j)]]
  BY DEF Bucketed
<1>2. DOMAIN merged = B /\ B \subseteq Nat
  BY <1>1, Buckets
<1>3. IsFiniteSet(B)
  <2>1. CASE T = {}
    BY <2>1, FS_EmptySet
  <2>2. CASE T # {}
    <3>1. Max(T) \in T /\ \A t \in T : t <= Max(T)
      <4>1. T \subseteq Nat /\ IsFiniteSet(T)
        OBVIOUS
      <4> HIDE DEF T
      <4> QED BY <2>2, <4>1, MaxIs
    <3>2. \A b \in B : b <= Max(T)
      <4> HIDE DEF T
      <4>1. ASSUME NEW t \in T
            PROVE  BucketOf(t) <= Max(T)
        <5>1. t \in Nat /\ Max(T) \in Nat /\ BucketOf(t) \in Nat /\ BucketOf(t) <= t
          BY <3>1, Buckets DEF T
        <5> QED BY <3>1, <5>1
      <4> QED BY <4>1
    <3>3. Max(T) \in Nat
      BY <3>1
    <3> HIDE DEF B, T
    <3> QED BY <1>2, <3>2, <3>3, FS_BoundedSetOfNaturals
  <2> QED BY <2>1, <2>2
<1>4. ASSUME NEW b \in B
      PROVE  /\ In(b) \subseteq T /\ In(b) # {} /\ IsFiniteSet(In(b))
             /\ \A t \in In(b) : k \in DOMAIN series[t] /\ series[t][k] \in Nat
  BY FS_Subset DEF Rising
<1>5. ASSUME NEW b \in B
      PROVE  /\ k \in DOMAIN merged[b]
             /\ merged[b][k] = RoundedMean(Total(series, In(b), k), Cardinality(In(b)))
  <2>1. Having(series, In(b), k) = In(b)
    BY <1>4 DEF Having
  <2>2. k \in KeysOf(series, In(b))
    BY <1>4 DEF KeysOf
  <2> HIDE DEF In, B, merged
  <2> QED BY <1>1, <2>1, <2>2
<1>6. ASSUME NEW b \in B
      PROVE  /\ merged[b][k] \in Nat
             /\ \A lo \in Nat : (\A t \in In(b) : lo <= series[t][k]) => lo <= merged[b][k]
             /\ \A hi \in Nat : (\A t \in In(b) : series[t][k] <= hi) => merged[b][k] <= hi
  <2> HIDE DEF In, merged
  <2>1. Cardinality(In(b)) \in Nat \ {0}
    BY <1>4, FS_CardinalityType, FS_EmptySet
  <2>2. merged[b][k] \in Nat
    BY <1>4, <1>5, <2>1, MeanType DEF Numbered
  <2>3. PICK top \in Nat : \A t \in In(b) : series[t][k] <= top
    <3>1. In(b) \subseteq Nat
      BY <1>4
    <3>2. PICK latest \in In(b) : \A t \in In(b) : t <= latest
      BY <1>4, <3>1, MaxIs
    <3> QED BY <1>4, <3>2 DEF Rising
  <2>4. ASSUME NEW lo \in Nat, \A t \in In(b) : lo <= series[t][k]
        PROVE  lo <= merged[b][k]
    BY <1>4, <1>5, <2>3, <2>4, AverageBetween
  <2>5. ASSUME NEW hi \in Nat, \A t \in In(b) : series[t][k] <= hi
        PROVE  merged[b][k] <= hi
    <3>1. \A t \in In(b) : 0 <= series[t][k]
      BY <1>4
    <3> QED BY <1>4, <1>5, <2>5, <3>1, AverageBetween
  <2> QED BY <2>2, <2>4, <2>5
<1>7. ASSUME NEW b \in B, NEW c \in B, b < c, NEW t \in In(b), NEW u \in In(c)
      PROVE  t <= u
  <2>1. u <= t => c <= b
    BY <1>7, LaterBucket
  <2> QED BY <1>2, <1>7, <2>1
<1>8. Merges(merged, series, cover, k)
  <2>1. \A b \in B : cover[b] = In(b)
    OBVIOUS
  <2> HIDE DEF merged, cover, B, In
  <2>2. ASSUME NEW b \in B
        PROVE  /\ cover[b] \subseteq DOMAIN series /\ cover[b] # {}
               /\ k \in DOMAIN merged[b] /\ merged[b][k] \in Nat
               /\ \A lo \in Nat : (\A t \in cover[b] : lo <= series[t][k]) => lo <= merged[b][k]
               /\ \A hi \in Nat : (\A t \in cover[b] : series[t][k] <= hi) => merged[b][k] <= hi
    <3>1. cover[b] = In(b)
      BY <2>1
    <3> QED BY <1>4, <1>5, <1>6, <3>1
  <2>3. \A b, c \in B : b < c => \A t \in cover[b], u \in cover[c] : t <= u
    BY <1>7, <2>1
  <2> QED BY <1>2, <2>2, <2>3 DEF Merges
<1> HIDE DEF merged, cover, B
<1>9. Rising(merged, k)
  BY <1>2, <1>8, MergedRises
<1> QED BY <1>2, <1>3, <1>9 DEF merged
-----------------------------------------------------------------------------
(* the counters: types, and values *)

RowsTyped ==
  /\ now \in Nat /\ DOMAIN samples \subseteq 0 .. now
  /\ \A t \in DOMAIN samples : IsPayload(samples[t]) /\ DOMAIN samples[t] # {}

LEMMA FiniteRows ==
  ASSUME RowsTyped
  PROVE  DOMAIN samples \subseteq Nat /\ IsFiniteSet(DOMAIN samples)
<1>1. DOMAIN samples \subseteq Nat /\ \A t \in DOMAIN samples : t <= now
  BY DEF RowsTyped
<1>2. now \in Nat
  BY DEF RowsTyped
<1> QED BY <1>1, <1>2, FS_BoundedSetOfNaturals

\* What retention leaves: the rows of a bucket it has packed are those the
\* average is taken of.
LEMMA PrunedIs ==
  ASSUME RowsTyped
  PROVE  LET rowsOf(b) == {u \in Archived : BucketOf(u) = b}
         IN  /\ DOMAIN Pruned \subseteq 0 .. now
             /\ \A b \in DOMAIN Pruned \cap Packed :
                  /\ Pruned[b] = Average(samples, rowsOf(b))
                  /\ rowsOf(b) \subseteq DOMAIN samples /\ rowsOf(b) # {} /\ IsFiniteSet(rowsOf(b))
             /\ \A t \in DOMAIN Pruned \ Packed :
                  t \in DOMAIN samples /\ BucketOf(t) \notin Packed /\ Pruned[t] = samples[t]
<1> DEFINE loose == {t \in Kept : BucketOf(t) \notin Packed}
           rowsOf(b) == {u \in Archived : BucketOf(u) = b}
<1>1. Kept \subseteq DOMAIN samples /\ Archived \subseteq DOMAIN samples
  BY DEF Kept, Archived
<1>2. DOMAIN samples \subseteq Nat /\ IsFiniteSet(DOMAIN samples)
  BY FiniteRows
<1>3. Packed \subseteq {BucketOf(t) : t \in Archived}
  BY DEF Packed
<1>4. \A b \in Packed : b \in 0 .. now /\ rowsOf(b) # {}
  <2> SUFFICES ASSUME NEW t \in Archived
               PROVE  BucketOf(t) \in 0 .. now /\ rowsOf(BucketOf(t)) # {}
    BY <1>3
  <2>1. t \in Nat /\ t <= now /\ now \in Nat
    BY <1>1 DEF RowsTyped
  <2>2. BucketOf(t) \in Nat /\ BucketOf(t) <= t
    BY <2>1, Buckets
  <2> QED BY <2>1, <2>2
<1>5. \A b : rowsOf(b) \subseteq DOMAIN samples /\ IsFiniteSet(rowsOf(b))
  BY <1>1, <1>2, FS_Subset
<1>6. Pruned = [t \in loose \cup Packed |->
                  IF t \in Packed THEN Average(samples, rowsOf(t)) ELSE samples[t]]
  BY DEF Pruned
<1>7. DOMAIN Pruned = loose \cup Packed
  BY <1>6
<1>8. loose \cup Packed \subseteq 0 .. now
  BY <1>1, <1>4 DEF RowsTyped
<1> HIDE DEF rowsOf
<1>9. \A b \in Packed : Pruned[b] = Average(samples, rowsOf(b))
  BY <1>6
<1>10. \A t \in loose \ Packed : t \in DOMAIN samples /\ BucketOf(t) \notin Packed /\ Pruned[t] = samples[t]
  BY <1>1, <1>6
<1> QED BY <1>4, <1>5, <1>7, <1>8, <1>9, <1>10 DEF rowsOf

\* Retention leaves rows with numbers in them.
LEMMA PrunedTyped ==
  ASSUME RowsTyped
  PROVE  /\ DOMAIN Pruned \subseteq 0 .. now
         /\ \A t \in DOMAIN Pruned : IsPayload(Pruned[t]) /\ DOMAIN Pruned[t] # {}
<1> DEFINE rowsOf(b) == {u \in Archived : BucketOf(u) = b}
<1>1. ASSUME NEW b \in DOMAIN Pruned, b \in Packed
      PROVE  IsPayload(Pruned[b]) /\ DOMAIN Pruned[b] # {}
  <2>1. PICK T : T = rowsOf(b)
    OBVIOUS
  <2> HIDE DEF rowsOf
  <2>2. /\ Pruned[b] = Average(samples, T)
        /\ T \subseteq DOMAIN samples /\ T # {} /\ IsFiniteSet(T)
    BY <1>1, <2>1, PrunedIs DEF rowsOf
  <2>3. /\ Average(samples, T) = [k \in KeysOf(samples, T) |->
                                    RoundedMean(Total(samples, T, k), Cardinality(T))]
        /\ KeysOf(samples, T) \subseteq Key /\ KeysOf(samples, T) # {}
    BY <2>2 DEF Average, KeysOf, RowsTyped, IsPayload
  <2>4. Cardinality(T) \in Nat \ {0}
    BY <2>2, FS_CardinalityType, FS_EmptySet
  <2>5. \A k : Numbered(samples, T, k)
    BY <2>2 DEF Numbered, RowsTyped, IsPayload
  <2>6. \A k \in KeysOf(samples, T) : RoundedMean(Total(samples, T, k), Cardinality(T)) \in Nat
    BY <2>2, <2>4, <2>5, MeanType
  <2> QED BY <2>2, <2>3, <2>6 DEF IsPayload
<1>2. ASSUME NEW t \in DOMAIN Pruned, t \notin Packed
      PROVE  IsPayload(Pruned[t]) /\ DOMAIN Pruned[t] # {}
  BY <1>2, PrunedIs DEF RowsTyped
<1> QED BY <1>1, <1>2, PrunedIs

\* ... and averages take no counter out of order.
LEMMA PrunedRises ==
  ASSUME RowsTyped, NEW k, Rising(samples, k)
  PROVE  /\ Rising(Pruned, k)
         /\ \A hi \in Nat : (\A t \in DOMAIN samples : samples[t][k] <= hi)
                              => \A b \in DOMAIN Pruned : Pruned[b][k] <= hi
<1> DEFINE rowsOf(b) == {u \in Archived : BucketOf(u) = b}
           cover == [b \in DOMAIN Pruned |-> IF b \in Packed THEN rowsOf(b) ELSE {b}]
<1>1. DOMAIN samples \subseteq Nat /\ DOMAIN Pruned \subseteq Nat
  BY PrunedIs DEF RowsTyped
<1>2. ASSUME NEW b \in DOMAIN Pruned, b \in Packed
      PROVE  /\ cover[b] = rowsOf(b) /\ Pruned[b] = Average(samples, rowsOf(b))
             /\ rowsOf(b) \subseteq DOMAIN samples /\ rowsOf(b) # {} /\ IsFiniteSet(rowsOf(b))
  BY <1>2, PrunedIs
<1>3. ASSUME NEW t \in DOMAIN Pruned, t \notin Packed
      PROVE  /\ cover[t] = {t} /\ t \in DOMAIN samples
             /\ BucketOf(t) \notin Packed /\ Pruned[t] = samples[t]
  BY <1>3, PrunedIs
<1> HIDE DEF cover
<1>4. ASSUME NEW b \in DOMAIN Pruned
      PROVE  /\ cover[b] \subseteq DOMAIN samples /\ cover[b] # {}
             /\ k \in DOMAIN Pruned[b] /\ Pruned[b][k] \in Nat
             /\ \A lo \in Nat : (\A t \in cover[b] : lo <= samples[t][k]) => lo <= Pruned[b][k]
             /\ \A hi \in Nat : (\A t \in cover[b] : samples[t][k] <= hi) => Pruned[b][k] <= hi
  <2>1. CASE b \notin Packed
    <3>1. cover[b] = {b} /\ b \in DOMAIN samples /\ Pruned[b] = samples[b]
      BY <1>3, <2>1
    <3>2. k \in DOMAIN samples[b] /\ samples[b][k] \in Nat
      BY <3>1 DEF Rising
    <3> QED BY <3>1, <3>2
  <2>2. CASE b \in Packed
    <3>1. PICK T : T = rowsOf(b)
      OBVIOUS
    <3>2. /\ cover[b] = T /\ Pruned[b] = Average(samples, T)
          /\ T \subseteq DOMAIN samples /\ T # {} /\ IsFiniteSet(T)
      BY <1>2, <2>2, <3>1
    <3>3. \A t \in T : k \in DOMAIN samples[t] /\ samples[t][k] \in Nat
      BY <3>2 DEF Rising
    <3>4. k \in KeysOf(samples, T)
      BY <3>2, <3>3 DEF KeysOf
    <3>5. /\ k \in DOMAIN Pruned[b]
          /\ Pruned[b][k] = RoundedMean(Total(samples, T, k), Cardinality(T))
      BY <3>2, <3>4 DEF Average
    <3>6. Cardinality(T) \in Nat \ {0}
      BY <3>2, FS_CardinalityType, FS_EmptySet
    <3>7. Pruned[b][k] \in Nat
      BY <3>2, <3>3, <3>5, <3>6, MeanType DEF Numbered
    <3>8. PICK top \in Nat : \A t \in T : samples[t][k] <= top
      <4>1. PICK latest \in T : \A t \in T : t <= latest
        BY <1>1, <3>2, MaxIs
      <4> QED BY <3>2, <3>3, <4>1 DEF Rising
    <3>9. ASSUME NEW lo \in Nat, \A t \in T : lo <= samples[t][k]
          PROVE  lo <= Pruned[b][k]
      BY <3>2, <3>3, <3>5, <3>8, <3>9, AverageBetween
    <3>10. ASSUME NEW hi \in Nat, \A t \in T : samples[t][k] <= hi
           PROVE  Pruned[b][k] <= hi
      <4>1. \A t \in T : 0 <= samples[t][k]
        BY <3>3
      <4> QED BY <3>2, <3>3, <3>5, <3>10, <4>1, AverageBetween
    <3> QED BY <3>2, <3>5, <3>7, <3>9, <3>10
  <2> QED BY <2>1, <2>2
<1>5. ASSUME NEW b \in DOMAIN Pruned, NEW c \in DOMAIN Pruned, b < c,
             NEW t \in cover[b], NEW u \in cover[c]
      PROVE  t <= u
  <2>1. t \in Nat /\ u \in Nat /\ b \in Nat /\ c \in Nat
    BY <1>1, <1>4
  <2>2. /\ BucketOf(t) \in Nat /\ BucketOf(t) <= t /\ BucketOf(BucketOf(t)) = BucketOf(t)
        /\ BucketOf(u) \in Nat /\ BucketOf(u) <= u
    BY <2>1, Buckets
  <2>3. b \in Packed => BucketOf(t) = b
    BY <1>2
  <2>4. c \in Packed => BucketOf(u) = c
    BY <1>2
  <2>5. b \notin Packed => t = b
    BY <1>3
  <2>6. c \notin Packed => u = c /\ BucketOf(c) \notin Packed
    BY <1>3
  <2>7. SUFFICES ASSUME u < t PROVE FALSE
    BY <2>1
  <2>8. BucketOf(u) <= BucketOf(t)
    BY <2>1, <2>7, LaterBucket
  <2>9. CASE b \in Packed /\ c \notin Packed
    <3>1. BucketOf(b) = b /\ BucketOf(b) <= BucketOf(u)
      BY <1>5, <2>1, <2>2, <2>3, <2>6, <2>9, LaterBucket
    <3>2. BucketOf(u) = b
      BY <2>1, <2>2, <2>3, <2>8, <2>9, <3>1
    <3> QED BY <2>6, <2>9, <3>2
  <2> QED BY <1>5, <2>1, <2>2, <2>3, <2>4, <2>5, <2>6, <2>7, <2>8, <2>9
<1>6. Merges(Pruned, samples, cover, k)
  BY <1>4, <1>5 DEF Merges
<1> QED BY <1>1, <1>6, MergedRises

\* Every counter that never fell rises in the table too, up to the sample
\* recorded last.
CountersRise ==
  \A k \in Key \ broken :
    /\ Rising(samples, k)
    /\ \A t \in DOMAIN samples : k \in DOMAIN newest /\ samples[t][k] <= newest[k]

TimeTyped == now \in Nat /\ Start <= now /\ now <= MaxTime

LEMMA CounterTypes == ASSUME TimeTyped, CountersTyped PROVE RowsTyped
BY DEF TimeTyped, CountersTyped, RowsTyped

LEMMA CountersTypedStep ==
  ASSUME TimeTyped, CountersTyped, [Next]_vars
  PROVE  TimeTyped' /\ CountersTyped'
<1>1. IsPayload(<< >>)
  <2>1. DOMAIN << >> = {} /\ << >> = [k \in {} |-> 0]
    OBVIOUS
  <2> QED BY <2>1 DEF IsPayload
<1>2. CASE UNCHANGED <<counterVars, now>>
  BY <1>2 DEF counterVars, TimeTyped, CountersTyped
<1>3. CASE Tick
  <2>1. now' = now + 1 /\ UNCHANGED counterVars /\ now < MaxTime /\ MaxTime \in Nat
    BY <1>3, CounterAssumption DEF Tick
  <2>2. TimeTyped'
    BY <2>1, StartAssumption DEF TimeTyped
  <2>3. 0 .. now \subseteq 0 .. now'
    BY <2>1 DEF TimeTyped
  <2> QED BY <2>1, <2>2, <2>3 DEF counterVars, CountersTyped
<1>4. ASSUME NEW r \in Run, Fetch(r), now' = now
      PROVE  TimeTyped' /\ CountersTyped'
  <2>1. count' \in [Key -> Nat]
    <3>1. CASE count' = [k \in Key |-> 0]
      BY <3>1
    <3>2. CASE \E grown \in [Key -> {0, 1000}] : count' = [k \in Key |-> count[k] + grown[k]]
      BY <3>2 DEF CountersTyped
    <3> QED BY <1>4, <3>1, <3>2 DEF Fetch
  <2>2. PICK K \in SUBSET Optional :
          run' = [run EXCEPT ![r] = [pc |-> "fetched", payload |-> [k \in Key \ K |-> count'[k]]]]
    BY <1>4 DEF Fetch
  <2>3. IsPayload([k \in Key \ K |-> count'[k]])
    BY <2>1 DEF IsPayload
  <2>4. \A q \in Run : /\ run'[q].pc \in {"idle", "fetched", "recorded"}
                       /\ IsPayload(run'[q].payload)
    BY <2>2, <2>3 DEF CountersTyped
  <2> QED BY <1>4, <2>1, <2>4 DEF Fetch, TimeTyped, CountersTyped
<1>5. ASSUME NEW r \in Run, FetchCached(r), now' = now
      PROVE  TimeTyped' /\ CountersTyped'
  <2>1. \A q \in Run : /\ run'[q].pc \in {"idle", "fetched", "recorded"}
                       /\ IsPayload(run'[q].payload)
    BY <1>5 DEF FetchCached, CountersTyped
  <2> QED BY <1>5, <2>1 DEF FetchCached, TimeTyped, CountersTyped
<1>6. ASSUME NEW r \in Run, Record(r), now' = now
      PROVE  TimeTyped' /\ CountersTyped'
  <2>1. PICK p : p = run[r].payload
    OBVIOUS
  <2>2. IsPayload(p)
    BY <2>1 DEF CountersTyped
  <2>3. \A q \in Run : /\ run'[q].pc \in {"idle", "fetched", "recorded"}
                       /\ IsPayload(run'[q].payload)
    BY <1>1, <1>6 DEF Record, NoRun, CountersTyped
  <2>4. rich' = p /\ count' = count
    BY <1>6, <2>1 DEF Record
  <2>5. CASE UNCHANGED <<samples, newest, broken, recorded>>
    BY <1>6, <2>2, <2>3, <2>4, <2>5 DEF TimeTyped, CountersTyped
  <2>6. CASE ~UNCHANGED <<samples, newest, broken, recorded>>
    <3>1. /\ DOMAIN p # {} /\ newest' = p /\ recorded' = recorded \cup {now}
          /\ samples' = [t \in DOMAIN samples \cup {now} |-> IF t = now THEN p ELSE samples[t]]
          /\ broken' = broken \cup {k \in Key : k \in DOMAIN p =>
                                                  k \in DOMAIN newest /\ p[k] < newest[k]}
      BY <1>6, <2>1, <2>6 DEF Record
    <3>2. DOMAIN samples' \subseteq 0 .. now /\ recorded' \subseteq 0 .. now /\ broken' \subseteq Key
      <4>1. DOMAIN samples' = DOMAIN samples \cup {now} /\ now \in 0 .. now
        BY <3>1 DEF TimeTyped
      <4>2. broken' \subseteq Key
        BY <3>1 DEF CountersTyped
      <4> QED BY <3>1, <4>1, <4>2 DEF CountersTyped
    <3>3. \A t \in DOMAIN samples' : IsPayload(samples'[t]) /\ DOMAIN samples'[t] # {}
      BY <2>2, <3>1 DEF CountersTyped
    <3> QED BY <1>6, <2>2, <2>3, <2>4, <3>1, <3>2, <3>3 DEF TimeTyped, CountersTyped
  <2> QED BY <2>5, <2>6
<1>7. ASSUME NEW r \in Run, Prune(r), now' = now
      PROVE  TimeTyped' /\ CountersTyped'
  <2>1. \A q \in Run : /\ run'[q].pc \in {"idle", "fetched", "recorded"}
                       /\ IsPayload(run'[q].payload)
    BY <1>1, <1>7 DEF Prune, NoRun, CountersTyped
  <2>2. /\ DOMAIN samples' \subseteq 0 .. now
        /\ \A t \in DOMAIN samples' : IsPayload(samples'[t]) /\ DOMAIN samples'[t] # {}
    BY <1>7, CounterTypes, PrunedTyped DEF Prune, RowsTyped
  <2> QED BY <1>7, <2>1, <2>2 DEF Prune, TimeTyped, CountersTyped
<1>8. CASE Restart
  <2>1. \A q \in Run : run'[q] = NoRun
    BY <1>8 DEF Restart
  <2> QED BY <1>1, <1>8, <2>1 DEF Restart, NoRun, TimeTyped, CountersTyped
<1> QED BY <1>2, <1>3, <1>4, <1>5, <1>6, <1>7, <1>8 DEF Next, Counters, CounterNext, Links, vars

LEMMA CountersRiseStep ==
  ASSUME TimeTyped, CountersTyped, CountersRise, [Next]_vars
  PROVE  CountersRise'
<1>1. CASE UNCHANGED <<samples, newest, broken>>
  BY <1>1 DEF CountersRise, Rising
<1>2. ASSUME NEW r \in Run, Record(r)
      PROVE  CountersRise'
  <2>1. CASE UNCHANGED <<samples, newest, broken>>
    BY <1>1, <2>1
  <2>2. CASE ~UNCHANGED <<samples, newest, broken>>
    <3>1. PICK p : p = run[r].payload
      OBVIOUS
    <3>2. IsPayload(p)
      BY <3>1 DEF CountersTyped
    <3>3. /\ now \notin DOMAIN samples /\ newest' = p
          /\ samples' = [t \in DOMAIN samples \cup {now} |-> IF t = now THEN p ELSE samples[t]]
          /\ broken' = broken \cup {k \in Key : k \in DOMAIN p =>
                                                  k \in DOMAIN newest /\ p[k] < newest[k]}
      BY <1>2, <2>2, <3>1 DEF Record
    <3>4. \A t \in DOMAIN samples : t \in Nat /\ t < now
      BY <3>3 DEF TimeTyped, CountersTyped
    <3>5. ASSUME NEW k \in Key, k \notin broken'
          PROVE  /\ k \in DOMAIN p /\ p[k] \in Nat
                 /\ \A t \in DOMAIN samples : /\ k \in DOMAIN samples[t] /\ samples[t][k] \in Nat
                                              /\ samples[t][k] <= p[k]
      <4>1. k \notin broken /\ k \in DOMAIN p /\ ~(k \in DOMAIN newest /\ p[k] < newest[k])
        BY <3>3, <3>5
      <4>2. p[k] \in Nat /\ (k \in DOMAIN newest => newest[k] \in Nat)
        BY <3>2, <4>1 DEF IsPayload, CountersTyped
      <4>3. ASSUME NEW t \in DOMAIN samples
            PROVE  k \in DOMAIN samples[t] /\ samples[t][k] \in Nat /\ samples[t][k] <= p[k]
        <5>1. /\ k \in DOMAIN samples[t] /\ samples[t][k] \in Nat
              /\ k \in DOMAIN newest /\ samples[t][k] <= newest[k]
          BY <4>1 DEF CountersRise, Rising
        <5> QED BY <4>1, <4>2, <5>1
      <4> QED BY <4>1, <4>2, <4>3
    <3>6. ASSUME NEW k \in Key, k \notin broken'
          PROVE  /\ Rising(samples', k)
                 /\ \A t \in DOMAIN samples' : k \in DOMAIN p /\ samples'[t][k] <= p[k]
      <4>1. /\ DOMAIN samples' = DOMAIN samples \cup {now} /\ samples'[now] = p
            /\ \A t \in DOMAIN samples : samples'[t] = samples[t]
        BY <3>3
      <4>2. now \in Nat
        BY DEF TimeTyped
      <4>3. \A t \in DOMAIN samples' : /\ k \in DOMAIN samples'[t] /\ samples'[t][k] \in Nat
                                       /\ k \in DOMAIN p /\ samples'[t][k] <= p[k]
        BY <3>5, <3>6, <4>1
      <4>4. ASSUME NEW t \in DOMAIN samples', NEW u \in DOMAIN samples', t <= u
            PROVE  samples'[t][k] <= samples'[u][k]
        <5>1. CASE u = now
          BY <4>1, <4>3, <5>1
        <5>2. CASE u # now
          <6>1. u \in DOMAIN samples /\ t \in DOMAIN samples
            BY <3>4, <4>1, <4>2, <4>4, <5>2
          <6>2. k \notin broken
            BY <3>3, <3>6
          <6> QED BY <4>1, <4>4, <6>1, <6>2 DEF CountersRise, Rising
        <5> QED BY <5>1, <5>2
      <4> QED BY <4>3, <4>4 DEF Rising
    <3> QED BY <3>3, <3>6 DEF CountersRise, Rising
  <2> QED BY <2>1, <2>2
<1>3. ASSUME NEW r \in Run, Prune(r)
      PROVE  CountersRise'
  <2>1. UNCHANGED <<newest, broken>> /\ samples' \in {samples, Pruned}
    BY <1>3 DEF Prune
  <2>2. CASE samples' = Pruned
    <3>1. ASSUME NEW k \in Key \ broken
          PROVE  /\ Rising(Pruned, k)
                 /\ \A t \in DOMAIN Pruned : k \in DOMAIN newest /\ Pruned[t][k] <= newest[k]
      <4>1. Rising(samples, k)
        BY DEF CountersRise
      <4>2. Rising(Pruned, k)
        BY <4>1, CounterTypes, PrunedRises
      <4>3. ASSUME NEW t \in DOMAIN Pruned
            PROVE  k \in DOMAIN newest
        <5>1. DOMAIN samples # {}
          BY CounterTypes, PrunedIs
        <5> QED BY <5>1 DEF CountersRise
      <4>4. ASSUME NEW t \in DOMAIN Pruned
            PROVE  Pruned[t][k] <= newest[k]
        <5>1. newest[k] \in Nat
          BY <4>3 DEF CountersTyped, IsPayload
        <5>2. \A u \in DOMAIN samples : samples[u][k] <= newest[k]
          BY DEF CountersRise
        <5> QED BY <4>1, <5>1, <5>2, CounterTypes, PrunedRises
      <4> QED BY <4>2, <4>3, <4>4
    <3> QED BY <2>1, <2>2, <3>1 DEF CountersRise, Rising
  <2> QED BY <1>1, <2>1, <2>2
<1> QED BY <1>1, <1>2, <1>3
        DEF Next, Counters, CounterNext, Links, Restart, Tick, Fetch, FetchCached, vars, counterVars

CounterValues == TimeTyped /\ CountersTyped /\ CountersRise

LEMMA CounterValuesHold == Spec => []CounterValues
<1>1. Init => CounterValues
  <2> SUFFICES ASSUME Init PROVE CounterValues
    OBVIOUS
  <2>1. DOMAIN << >> = {} /\ << >> = [k \in {} |-> 0]
    OBVIOUS
  <2>2. IsPayload(<< >>)
    BY <2>1 DEF IsPayload
  <2>3. CountersTyped
    BY <2>1, <2>2 DEF Init, CounterInit, NoRun, CountersTyped
  <2>4. CountersRise
    BY <2>1 DEF Init, CounterInit, CountersRise, Rising
  <2> QED BY <2>3, <2>4, StartAssumption DEF Init, TimeTyped, CounterValues
<1>2. CounterValues /\ [Next]_vars => CounterValues'
  BY CountersTypedStep, CountersRiseStep DEF CounterValues
<1> QED BY <1>1, <1>2, PTL DEF Spec

\* A series that rises shows no reset.
LEMMA NoReset ==
  ASSUME NEW series, DOMAIN series \subseteq Nat, IsFiniteSet(DOMAIN series),
         NEW k, Rising(series, k), k \in DOMAIN Deltas(series)
  PROVE  Deltas(series)[k] # "reset"
<1> DEFINE T == DOMAIN series
           first == series[Min(T)]
           latest == series[Max(T)]
<1>1. Cardinality(T) \in Nat /\ ~(Cardinality(T) < 2)
  <2>1. DOMAIN << >> = {}
    OBVIOUS
  <2> QED BY <2>1, FS_CardinalityType DEF Deltas
<1>2. Deltas(series) = [j \in DOMAIN first \cap DOMAIN latest |->
                          IF latest[j] < first[j] THEN "reset" ELSE "grown"]
  BY <1>1 DEF Deltas
<1>3. T # {} /\ T \in SUBSET Nat /\ IsFiniteSet(T)
  BY <1>1, FS_EmptySet
<1>4. Min(T) \in T /\ Max(T) \in T /\ Min(T) <= Max(T)
  <2> HIDE DEF T
  <2> QED BY <1>3, MinIs, MaxIs
<1>5. first[k] \in Nat /\ latest[k] \in Nat /\ first[k] <= latest[k]
  BY <1>4 DEF Rising
<1> HIDE DEF first, latest
<1> QED BY <1>2, <1>5

\* However runs overlap, prunes fail and cached answers are recorded again, and
\* whichever rows of a bucket retention has averaged, no window shows a reset of
\* a counter that never fell from sample to sample, in either resolution
\* (storage/sqlite_store.py, prune_counter_samples; api/counter_series.py).
THEOREM RetentionInventsNoReset == Spec => []NoFalseReset
<1>1. CounterValues => NoFalseReset
  <2> SUFFICES ASSUME CounterValues, NEW since \in DOMAIN samples, NEW until \in DOMAIN samples,
                      NEW raw \in BOOLEAN
               PROVE  LET series == Window(since, until)
                          deltas == Deltas(IF raw THEN series ELSE Bucketed(series))
                      IN \A k \in DOMAIN deltas \ broken : deltas[k] # "reset"
    BY DEF NoFalseReset
  <2>1. PICK series : series = Window(since, until)
    OBVIOUS
  <2>2. PICK shown : shown = IF raw THEN series ELSE Bucketed(series)
    OBVIOUS
  <2>3. /\ DOMAIN series \subseteq DOMAIN samples
        /\ \A t \in DOMAIN series : series[t] = samples[t]
    BY <2>1 DEF Window
  <2>4. DOMAIN series \subseteq Nat /\ IsFiniteSet(DOMAIN series)
    BY <2>3, CounterTypes, FiniteRows, FS_Subset DEF CounterValues
  <2>5. ASSUME NEW k \in Key \ broken
        PROVE  /\ DOMAIN shown \subseteq Nat /\ IsFiniteSet(DOMAIN shown)
               /\ Rising(shown, k)
    <3>1. Rising(series, k)
      BY <2>3 DEF CounterValues, CountersRise, Rising
    <3> QED BY <2>2, <2>4, <3>1, BucketedRises
  <2>6. ASSUME NEW k \in DOMAIN Deltas(shown)
        PROVE  k \in Key
    <3>1. DOMAIN shown # {} /\ k \in DOMAIN shown[Min(DOMAIN shown)]
      BY FS_EmptySet DEF Deltas
    <3>2. DOMAIN shown \subseteq Nat /\ \A t \in DOMAIN shown : DOMAIN shown[t] \subseteq Key
      <4>1. \A t \in DOMAIN series : DOMAIN series[t] \subseteq Key
        BY <2>3 DEF CounterValues, CountersTyped, IsPayload
      <4>2. CASE raw
        BY <2>2, <2>4, <4>1, <4>2
      <4>3. CASE ~raw
        <5>1. shown = Bucketed(series)
          BY <2>2, <4>3
        <5>2. DOMAIN shown \subseteq Nat
          BY <2>4, <5>1, Buckets DEF Bucketed
        <5>3. \A b \in DOMAIN shown : DOMAIN shown[b] \subseteq Key
          BY <4>1, <5>1 DEF Bucketed, KeysOf
        <5> QED BY <5>2, <5>3
      <4> QED BY <4>2, <4>3
    <3>3. Min(DOMAIN shown) \in DOMAIN shown
      BY <3>1, <3>2, MinIs
    <3> QED BY <3>1, <3>2, <3>3
  <2> QED BY <2>1, <2>2, <2>5, <2>6, NoReset
<1> QED BY <1>1, CounterValuesHold, PTL
-----------------------------------------------------------------------------
(* the links: types *)

Airs  == [session : 0 .. MaxFrames, frames : 0 .. MaxFrames]
Table == UNION {[L -> [signal : Signal, air : Airs]] : L \in SUBSET Link}

LinkTypes ==
  /\ LinksTyped /\ now \in Nat
  /\ report \in [LinkRun -> [pc : {"idle", "fetched"}, heard : Table, stale : BOOLEAN]]
  /\ cache \in Table \cup {None}

LEMMA TableType ==
  ASSUME NEW heard \in Table
  PROVE  /\ DOMAIN heard \subseteq Link
         /\ \A l \in DOMAIN heard : heard[l].signal \in Signal /\ heard[l].air \in Airs
BY DEF Table

LEMMA NoReportType ==
  NoReport \in [pc : {"idle", "fetched"}, heard : Table, stale : BOOLEAN]
<1>1. << >> = [l \in {} |-> 0]
  OBVIOUS
<1>2. << >> \in [{} -> [signal : Signal, air : Airs]]
  BY <1>1
<1>3. << >> \in Table
  BY <1>2 DEF Table
<1> QED BY <1>3 DEF NoReport

\* Rows and samples are not mistaken for none.
LEMMA Records ==
  /\ \A s \in Signal, a \in Airs, t \in Nat : [signal |-> s, air |-> a, at |-> t] # None
  /\ \A b \in BOOLEAN, s \in Signal, t \in Nat : [present |-> b, signal |-> s, at |-> t] # None
<1>1. MaxFrames \in Nat
  BY LinkAssumption
<1>2. \A a \in Airs : a \in [session : Nat, frames : Nat]
  BY <1>1 DEF Airs
<1> QED BY <1>2, LinkAssumption

\* What the persistence of a report does to rows and history.
LEMMA PersistTypes ==
  ASSUME LinkTypes, NEW heard \in Table, Persist(heard, now)
  PROVE  /\ links' \in [Link -> [signal : Signal, air : Airs, at : Nat] \cup {None}]
         /\ last' \in [Link -> [present : BOOLEAN, signal : Signal, at : Nat] \cup {None}]
         /\ told' \in [Link -> {"none", "acquired", "lost"}]
         /\ known' = TRUE /\ cache' = heard /\ vanished' \subseteq Link
         /\ \A l \in Link :
              links'[l] = IF l \in DOMAIN heard
                          THEN [signal |-> heard[l].signal, air |-> heard[l].air, at |-> now]
                          ELSE None
<1>1. /\ DOMAIN heard \subseteq Link
      /\ \A l \in DOMAIN heard : heard[l].signal \in Signal /\ heard[l].air \in Airs
  BY TableType
<1>2. links' = [l \in Link |->
                  IF l \in DOMAIN heard
                  THEN [signal |-> heard[l].signal, air |-> heard[l].air, at |-> now] ELSE None]
  BY DEF Persist, Swap
<1>3. links' \in [Link -> [signal : Signal, air : Airs, at : Nat] \cup {None}]
  BY <1>1, <1>2 DEF LinkTypes
<1>4. \A l \in Present : links[l].signal \in Signal /\ l \in Link
  BY DEF LinkTypes, LinksTyped, Present
<1>5. last' \in [Link -> [present : BOOLEAN, signal : Signal, at : Nat] \cup {None}]
  BY <1>1, <1>4 DEF Persist, Swap, Sample, Removed, LinkTypes, LinksTyped
<1>6. told' \in [Link -> {"none", "acquired", "lost"}]
  BY DEF Persist, Told, LinkTypes, LinksTyped
<1> QED BY <1>2, <1>3, <1>5, <1>6 DEF Persist, LinkTypes, LinksTyped

\* Rows that go without a report.
Forget(V) == /\ links' = [l \in Link |-> IF l \in V THEN None ELSE links[l]]
             /\ vanished' = vanished \cup V

LEMMA SweepForgets ==
  ASSUME LinkTypes, Sweep(now)
  PROVE  \E V \in SUBSET Present : Forget(V)
<1> DEFINE stale == {l \in Present : links[l].at < now - Ttl}
<1>1. Forget(stale)
  BY DEF Sweep, Forget
<1> QED BY <1>1

LEMMA PurgeForgets ==
  ASSUME LinkTypes, PurgeReporter \/ RestartLinks
  PROVE  Forget(Present)
<1>1. \A l \in Link \ Present : links[l] = None
  BY DEF Present
<1>2. [l \in Link |-> None] = [l \in Link |-> IF l \in Present THEN None ELSE links[l]]
  BY <1>1
<1> QED BY <1>2 DEF PurgeReporter, RestartLinks, Forget

LEMMA InitTypes == Init => LinkTypes
<1> SUFFICES ASSUME Init PROVE LinkTypes
  OBVIOUS
<1>1. MaxFrames \in Nat
  BY LinkAssumption
<1>2. LinksTyped
  <2>1. [session |-> 0, frames |-> 0] \in Airs
    BY <1>1 DEF Airs
  <2>2. air \in [Link -> Airs]
    BY <2>1 DEF Init, LinkInit
  <2> QED BY <2>2 DEF Init, LinkInit, LinksTyped, Airs
<1>3. now \in Nat
  BY StartAssumption DEF Init
<1>4. report \in [LinkRun -> [pc : {"idle", "fetched"}, heard : Table, stale : BOOLEAN]]
  BY NoReportType DEF Init, LinkInit
<1> QED BY <1>2, <1>3, <1>4 DEF Init, LinkInit, LinkTypes

\* What persists a report.
Persists(heard) == Persist(heard, now) /\ air' = air /\ now' = now

LEMMA StepTypes ==
  ASSUME LinkTypes, [Next]_vars
  PROVE  LinkTypes'
<1>1. CASE UNCHANGED <<linkVars, now>>
  BY <1>1 DEF linkVars, LinkTypes, LinksTyped
<1>2. CASE Tick
  BY <1>2 DEF Tick, linkVars, LinkTypes, LinksTyped
<1>3. ASSUME NEW heard \in Table, Persists(heard),
             report' \in [LinkRun -> [pc : {"idle", "fetched"}, heard : Table, stale : BOOLEAN]]
      PROVE  LinkTypes'
  BY <1>3, PersistTypes DEF Persists, LinkTypes, LinksTyped, Airs
<1>4. ASSUME NEW r \in LinkRun, Arrives(r, now), now' = now
      PROVE  LinkTypes'
  <2>1. report[r].heard \in Table
    BY DEF LinkTypes
  <2>2. report' \in [LinkRun -> [pc : {"idle", "fetched"}, heard : Table, stale : BOOLEAN]]
    BY <1>4, NoReportType DEF Arrives, LinkTypes
  <2> QED BY <1>3, <1>4, <2>1, <2>2 DEF Arrives, Persists
<1>5. CASE PersistsCached(now) /\ now' = now
  BY <1>3, <1>5 DEF PersistsCached, Persists, LinkTypes
<1>6. CASE (Sweep(now) \/ PurgeReporter) /\ now' = now
  <2>1. PICK V \in SUBSET Present : Forget(V)
    BY <1>6, SweepForgets, PurgeForgets
  <2>2. links' \in [Link -> [signal : Signal, air : Airs, at : Nat] \cup {None}]
        /\ vanished' \subseteq Link
    BY <2>1 DEF Forget, Present, LinkTypes, LinksTyped, Airs
  <2> QED BY <1>6, <2>2 DEF Sweep, PurgeReporter, LinkTypes, LinksTyped, Airs
<1>7. ASSUME NEW l \in Link, Sends(l) \/ Attaches(l), now' = now
      PROVE  LinkTypes'
  <2>1. MaxFrames \in Nat
    BY LinkAssumption
  <2>2. air[l] \in Airs
    BY DEF LinkTypes, LinksTyped, Airs
  <2>3. PICK a \in Airs : air' = [air EXCEPT ![l] = a]
    <3>1. Sends(l) => [air[l] EXCEPT !.frames = @ + 1] \in Airs
      BY <2>1, <2>2 DEF Sends, Airs
    <3>2. Attaches(l) => [session |-> air[l].session + 1, frames |-> 0] \in Airs
      BY <2>1, <2>2 DEF Attaches, Airs
    <3> QED BY <1>7, <3>1, <3>2 DEF Sends, Attaches
  <2>4. air' \in [Link -> Airs]
    BY <2>3 DEF LinkTypes, LinksTyped, Airs
  <2> QED BY <1>7, <2>4 DEF Sends, Attaches, LinkTypes, LinksTyped, Airs
<1>8. ASSUME NEW r \in LinkRun, Answers(r) \/ Drop(r), now' = now
      PROVE  LinkTypes'
  <2>1. CASE Drop(r)
    BY <1>8, <2>1, NoReportType DEF Drop, LinkTypes, LinksTyped
  <2>2. CASE Answers(r)
    <3>0. PICK L \in SUBSET Link : \E heard \in [L -> Signal] :
            report' = [report EXCEPT ![r] =
              [pc |-> "fetched", stale |-> FALSE,
               heard |-> [l \in L |-> [signal |-> heard[l], air |-> air[l]]]]]
      BY <2>2 DEF Answers
    <3>1. PICK heard \in [L -> Signal] :
            report' = [report EXCEPT ![r] =
              [pc |-> "fetched", stale |-> FALSE,
               heard |-> [l \in L |-> [signal |-> heard[l], air |-> air[l]]]]]
      BY <3>0
    <3> DEFINE answer == [l \in L |-> [signal |-> heard[l], air |-> air[l]]]
    <3>2. answer \in [L -> [signal : Signal, air : Airs]]
      BY DEF LinkTypes, LinksTyped, Airs
    <3>3. answer \in Table
      BY <3>2 DEF Table
    <3> HIDE DEF answer
    <3>4. report' = [report EXCEPT ![r] = [pc |-> "fetched", stale |-> FALSE, heard |-> answer]]
      BY <3>1 DEF answer
    <3>5. report' \in [LinkRun -> [pc : {"idle", "fetched"}, heard : Table, stale : BOOLEAN]]
      BY <3>3, <3>4 DEF LinkTypes
    <3> QED BY <1>8, <2>2, <3>5 DEF Answers, LinkTypes, LinksTyped
  <2> QED BY <1>8, <2>1, <2>2
<1>9. CASE Restart
  <2>1. Forget(Present)
    BY <1>9, PurgeForgets DEF Restart
  <2>2. links' \in [Link -> [signal : Signal, air : Airs, at : Nat] \cup {None}]
        /\ vanished' \subseteq Link
    BY <2>1 DEF Forget, Present, LinkTypes, LinksTyped, Airs
  <2> QED BY <1>9, <2>2, NoReportType DEF Restart, RestartLinks, LinkTypes, LinksTyped, Airs
<1> QED BY <1>1, <1>2, <1>4, <1>5, <1>6, <1>7, <1>8, <1>9 DEF Next, Counters, Links, LinkNext, vars

-----------------------------------------------------------------------------
(* the links: history and events *)

\* A reporter without a row has told nothing.
EventsInv == EventsFollowRows /\ (~known => \A l \in Link : told[l] = "none")

LEMMA PersistHistory ==
  ASSUME LinkTypes, HistoryFollowsRow, NEW heard \in Table, Persist(heard, now)
  PROVE  HistoryFollowsRow'
<1>1. \A l \in Link :
        links'[l] = IF l \in DOMAIN heard
                    THEN [signal |-> heard[l].signal, air |-> heard[l].air, at |-> now] ELSE None
  BY PersistTypes
<1>2. SUFFICES ASSUME NEW l \in DOMAIN heard
               PROVE  /\ last'[l] # None /\ last'[l].present
                      /\ last'[l].signal.rest = links'[l].signal.rest
                      /\ links'[l].at - last'[l].at < Heartbeat
  <2>1. Present' \subseteq DOMAIN heard
    BY <1>1 DEF Present
  <2> QED BY <2>1 DEF HistoryFollowsRow
<1>3. l \in Link /\ heard[l].signal \in Signal /\ heard[l].air \in Airs
  BY TableType
<1>4. links'[l].signal = heard[l].signal /\ links'[l].at = now /\ now \in Nat
  <2>1. links'[l] = [signal |-> heard[l].signal, air |-> heard[l].air, at |-> now]
    BY <1>1, <1>3
  <2> QED BY <2>1 DEF LinkTypes
<1>5. CASE Sampled(l, heard[l].signal, now)
  <2>1. last'[l] = [present |-> TRUE, signal |-> heard[l].signal, at |-> now]
    BY <1>3, <1>5 DEF Persist, Swap, Sample, Removed
  <2>2. last'[l] # None
    BY <1>3, <1>4, <2>1, Records
  <2>3. Heartbeat \in Nat /\ Heartbeat > 0
    BY LinkAssumption
  <2> QED BY <1>4, <2>1, <2>2, <2>3
<1>6. CASE ~Sampled(l, heard[l].signal, now)
  <2>1. last'[l] = last[l]
    BY <1>3, <1>6 DEF Persist, Swap, Removed
  <2>2. /\ links[l] # None /\ links[l].signal.rest = heard[l].signal.rest /\ last[l] # None
        /\ ~(now - last[l].at >= Heartbeat)
    BY <1>6 DEF Sampled
  <2>3. last[l].present /\ last[l].signal.rest = links[l].signal.rest
    BY <1>3, <2>2 DEF HistoryFollowsRow, Present
  <2>4. last[l].at \in Nat /\ Heartbeat \in Nat
    BY <1>3, <2>2, LinkAssumption DEF LinkTypes, LinksTyped
  <2> QED BY <1>4, <2>1, <2>2, <2>3, <2>4
<1> QED BY <1>5, <1>6

LEMMA PersistEvents ==
  ASSUME LinkTypes, EventsInv, NEW heard \in Table, Persist(heard, now)
  PROVE  EventsInv'
<1>1. /\ known' = TRUE
      /\ \A l \in Link :
           links'[l] = IF l \in DOMAIN heard
                       THEN [signal |-> heard[l].signal, air |-> heard[l].air, at |-> now]
                       ELSE None
  BY PersistTypes
<1>2. ASSUME NEW l \in Link
      PROVE  /\ told'[l] = "lost" => links'[l] = None
             /\ told'[l] = "acquired" => links'[l] # None \/ l \in vanished'
  <2>1. l \in DOMAIN heard => links'[l] # None
    BY <1>1, TableType, Records DEF LinkTypes
  <2>2. l \notin DOMAIN heard => links'[l] = None
    BY <1>1
  <2>3. told'[l] = CASE known /\ l \in Added(heard)   -> "acquired"
                     [] known /\ l \in Removed(heard) -> "lost"
                     [] OTHER -> told[l]
    BY DEF Persist, Told
  <2>4. CASE known /\ l \in Added(heard)
    BY <2>1, <2>3, <2>4 DEF Added, Removed
  <2>5. CASE known /\ l \in Removed(heard)
    BY <2>2, <2>3, <2>5 DEF Added, Removed
  <2>6. CASE ~known
    BY <2>3, <2>6 DEF EventsInv
  <2>7. CASE known /\ l \notin Added(heard) /\ l \notin Removed(heard)
    <3>1. told'[l] = told[l]
      BY <2>3, <2>7
    <3>2. l \in DOMAIN heard <=> links[l] # None
      BY <2>7 DEF Added, Removed, Present
    <3>3. l \notin DOMAIN heard /\ l \in vanished => l \in vanished'
      BY DEF Persist
    <3> QED BY <2>1, <2>2, <3>1, <3>2, <3>3 DEF EventsInv, EventsFollowRows
  <2> QED BY <2>4, <2>5, <2>6, <2>7
<1> QED BY <1>1, <1>2 DEF EventsInv, EventsFollowRows

\* Rows that go without a report contradict neither.
LEMMA ForgetFollows ==
  ASSUME LinkTypes, HistoryFollowsRow, EventsInv, NEW V \in SUBSET Present, Forget(V),
         last' = last,
         \/ UNCHANGED <<told, known>>
         \/ told' = [l \in Link |-> "none"]
  PROVE  HistoryFollowsRow' /\ EventsInv'
<1>1. \A l \in Link : links'[l] = IF l \in V THEN None ELSE links[l]
  BY DEF Forget
<1>2. vanished' = vanished \cup V
  BY DEF Forget
<1>3. HistoryFollowsRow'
  BY <1>1 DEF HistoryFollowsRow, Present
<1>4. CASE UNCHANGED <<told, known>>
  <2>1. told' = told /\ known' = known
    BY <1>4
  <2>2. \A l \in Link : links[l] = None => links'[l] = None
    BY <1>1
  <2>3. \A l \in Link : links[l] # None => links'[l] # None \/ l \in vanished'
    BY <1>1, <1>2
  <2>4. EventsFollowRows'
    BY <1>2, <2>1, <2>2, <2>3 DEF EventsInv, EventsFollowRows
  <2> QED BY <1>3, <2>1, <2>4 DEF EventsInv
<1>5. CASE told' = [l \in Link |-> "none"]
  <2>1. \A l \in Link : told'[l] = "none"
    BY <1>5
  <2>2. EventsFollowRows'
    BY <2>1 DEF EventsFollowRows
  <2> QED BY <1>3, <2>1, <2>2 DEF EventsInv
<1> QED BY <1>3, <1>4, <1>5

LEMMA StepFollows ==
  ASSUME LinkTypes, HistoryFollowsRow, EventsInv, [Next]_vars
  PROVE  HistoryFollowsRow' /\ EventsInv'
<1>1. CASE UNCHANGED <<links, last, told, known, vanished>>
  BY <1>1 DEF HistoryFollowsRow, Present, EventsInv, EventsFollowRows
<1>2. ASSUME NEW r \in LinkRun, Arrives(r, now)
      PROVE  HistoryFollowsRow' /\ EventsInv'
  <2>1. report[r].heard \in Table /\ Persist(report[r].heard, now)
    BY <1>2 DEF Arrives, LinkTypes
  <2> QED BY <2>1, PersistHistory, PersistEvents
<1>3. CASE PersistsCached(now)
  <2>1. cache \in Table /\ Persist(cache, now)
    BY <1>3 DEF PersistsCached, LinkTypes
  <2> QED BY <2>1, PersistHistory, PersistEvents
<1>4. CASE Sweep(now)
  <2>1. last' = last /\ UNCHANGED <<told, known>>
    BY <1>4 DEF Sweep
  <2> QED BY <1>4, <2>1, SweepForgets, ForgetFollows
<1>5. CASE PurgeReporter \/ RestartLinks
  <2>1. last' = last /\ told' = [l \in Link |-> "none"]
    BY <1>5 DEF PurgeReporter, RestartLinks
  <2> QED BY <1>5, <2>1, PurgeForgets, ForgetFollows
<1> QED BY <1>1, <1>2, <1>3, <1>4, <1>5
        DEF Next, Counters, Links, LinkNext, Restart, Tick, Sends, Attaches, Answers, Drop,
            vars, linkVars

LinksInv == LinkTypes /\ HistoryFollowsRow /\ EventsInv

LEMMA LinksInvHolds == Spec => []LinksInv
<1>1. Init => LinksInv
  <2> SUFFICES ASSUME Init PROVE LinksInv
    OBVIOUS
  <2>1. \A l \in Link : links[l] = None /\ told[l] = "none"
    BY DEF Init, LinkInit
  <2> QED BY <2>1, InitTypes DEF LinksInv, HistoryFollowsRow, Present, EventsInv, EventsFollowRows
<1>2. LinksInv /\ [Next]_vars => LinksInv'
  BY StepTypes, StepFollows DEF LinksInv
<1> QED BY <1>1, <1>2, PTL DEF Spec

\* The clock stays within its bounds, and both tables hold what they may, also
\* where averages have taken the place of rows (storage/sqlite_store.py,
\* prune_counter_samples, replace_links_for_reporter).
THEOREM RadioStaysTyped == Spec => []TypeOK
<1>1. CounterValues /\ LinksInv => TypeOK
  BY StartAssumption, CounterAssumption
     DEF CounterValues, TimeTyped, LinksInv, LinkTypes, TypeOK
<1> QED BY <1>1, CounterValuesHold, LinksInvHolds, PTL

\* However runs, cached answers, sweeps, purges and restarts interleave, the
\* newest sample of a link that has a row says that it is there, tells the
\* fields of the row that are written exactly, and is less than a heartbeat
\* older than the row (storage/sqlite_store.py, _link_signal_sample_reason).
THEOREM HistoryNeverFallsBehind == Spec => []HistoryFollowsRow
BY LinksInvHolds, PTL DEF LinksInv

\* ... and the events never contradict the rows: a link last told lost has none,
\* one last told acquired has one unless it went without a report
\* (pipeline/device_discovery.py, link_acquired and link_lost).
THEOREM EventsNeverContradict == Spec => []EventsFollowRows
BY LinksInvHolds, PTL DEF LinksInv, EventsInv

-----------------------------------------------------------------------------
(* the links: neighbors that attach anew *)

\* A neighbor was heard as a before it was heard as b, or then.
Earlier(a, b) == \/ a.session < b.session
                 \/ a.session = b.session /\ a.frames <= b.frames

\* Nothing tells of a neighbor what is yet to come.
Past(heard) == \A l \in DOMAIN heard : Earlier(heard[l].air, air[l])

\* The rows and the cached answer are not later than an answer that nothing has
\* overtaken.
Leads(heard) ==
  \A l \in DOMAIN heard :
    /\ links[l] # None => Earlier(links[l].air, heard[l].air)
    /\ cache # None /\ l \in DOMAIN cache => Earlier(cache[l].air, heard[l].air)

AirInv ==
  /\ \A l \in Present : Earlier(links[l].air, air[l])
  /\ cache # None => Past(cache)
  /\ \A r \in LinkRun : report[r].pc = "fetched" =>
       /\ Past(report[r].heard)
       /\ ~report[r].stale => Leads(report[r].heard)

LEMMA EarlierOrder ==
  /\ \A a \in Airs : Earlier(a, a)
  /\ \A a, b, c \in Airs : Earlier(a, b) /\ Earlier(b, c) => Earlier(a, c)
<1>1. \A a \in Airs : a.session \in Int /\ a.frames \in Int
  BY DEF Airs
<1> QED BY <1>1 DEF Earlier

\* Sessions and frame counters only grow.
LEMMA AirGrows ==
  ASSUME LinkTypes, LinkTypes', NEW l \in Link, Sends(l) \/ Attaches(l)
  PROVE  \A k \in Link : \A a \in Airs : Earlier(a, air[k]) => Earlier(a, air'[k])
<1>1. \A k \in Link : air[k] \in Airs /\ air'[k] \in Airs
  BY DEF LinkTypes, LinksTyped, Airs
<1>2. \A a \in Airs : a.session \in Int /\ a.frames \in Int
  BY DEF Airs
<1>3. \A k \in Link : Earlier(air[k], air'[k])
  <2> SUFFICES ASSUME NEW k \in Link PROVE Earlier(air[k], air'[k])
    OBVIOUS
  <2>1. CASE k # l
    <3>1. air'[k] = air[k]
      BY <2>1 DEF Sends, Attaches, LinkTypes, LinksTyped
    <3> QED BY <1>1, <3>1, EarlierOrder
  <2>2. CASE k = l /\ Sends(l)
    <3>1. air'[l] = [air[l] EXCEPT !.frames = @ + 1]
      BY <2>2 DEF Sends, LinkTypes, LinksTyped
    <3>2. air'[l].session = air[l].session /\ air'[l].frames = air[l].frames + 1
      BY <1>1, <3>1 DEF Airs
    <3> QED BY <1>1, <1>2, <2>2, <3>2 DEF Earlier
  <2>3. CASE k = l /\ Attaches(l)
    <3>1. air'[l] = [session |-> air[l].session + 1, frames |-> 0]
      BY <2>3 DEF Attaches, LinkTypes, LinksTyped
    <3>2. air'[l].session = air[l].session + 1
      BY <3>1
    <3> QED BY <1>1, <1>2, <2>3, <3>2 DEF Earlier
  <2> QED BY <2>1, <2>2, <2>3
<1> QED BY <1>1, <1>3, EarlierOrder

LEMMA PersistAir ==
  ASSUME LinkTypes, AirInv, NEW heard \in Table, Past(heard), Persists(heard),
         \A r \in LinkRun : report'[r].pc = "fetched" =>
           /\ report[r].pc = "fetched" /\ report'[r].heard = report[r].heard
           /\ ~report'[r].stale => /\ ~report[r].stale
                                   /\ \A l \in DOMAIN heard \cap DOMAIN report[r].heard :
                                        Earlier(heard[l].air, report[r].heard[l].air)
  PROVE  AirInv'
<1>1. /\ cache' = heard /\ air' = air
      /\ \A l \in Link :
           links'[l] = IF l \in DOMAIN heard
                       THEN [signal |-> heard[l].signal, air |-> heard[l].air, at |-> now]
                       ELSE None
  BY PersistTypes DEF Persists
<1>2. \A l \in Link : links'[l] # None => l \in DOMAIN heard /\ links'[l].air = heard[l].air
  <2> SUFFICES ASSUME NEW l \in Link, links'[l] # None
               PROVE  l \in DOMAIN heard /\ links'[l].air = heard[l].air
    OBVIOUS
  <2>1. l \in DOMAIN heard
    BY <1>1
  <2>2. links'[l] = [signal |-> heard[l].signal, air |-> heard[l].air, at |-> now]
    BY <1>1, <2>1
  <2> QED BY <2>1, <2>2
<1>3. \A l \in Present' : Earlier(links'[l].air, air'[l])
  BY <1>1, <1>2 DEF Past, Present
<1>4. Past(cache)'
  BY <1>1 DEF Past
<1>5. ASSUME NEW r \in LinkRun, report'[r].pc = "fetched"
      PROVE  /\ Past(report[r].heard)'
             /\ ~report'[r].stale => Leads(report[r].heard)'
  <2>1. Past(report[r].heard) /\ report'[r].heard = report[r].heard /\ report[r].heard \in Table
    BY <1>5 DEF AirInv, LinkTypes
  <2>2. DOMAIN report[r].heard \subseteq Link
    BY <2>1, TableType
  <2>3. Past(report[r].heard)'
    BY <1>1, <2>1 DEF Past
  <2>4. ASSUME ~report'[r].stale
        PROVE  \A l \in DOMAIN report[r].heard :
                 /\ links'[l] # None => Earlier(links'[l].air, report[r].heard[l].air)
                 /\ l \in DOMAIN heard => Earlier(heard[l].air, report[r].heard[l].air)
    BY <1>2, <1>5, <2>2, <2>4
  <2> QED BY <1>1, <2>1, <2>3, <2>4 DEF Leads
<1> QED BY <1>1, <1>3, <1>4, <1>5 DEF AirInv

\* An answer tells how the neighbors are heard now, and nothing is later.
LEMMA AnswersAir ==
  ASSUME LinkTypes, LinkTypes', AirInv, NEW r \in LinkRun, Answers(r)
  PROVE  AirInv'
<1>1. UNCHANGED <<air, cache, links>>
  BY DEF Answers
<1>2. PICK L \in SUBSET Link : \E heard \in [L -> Signal] :
        report' = [report EXCEPT ![r] =
          [pc |-> "fetched", stale |-> FALSE,
           heard |-> [l \in L |-> [signal |-> heard[l], air |-> air[l]]]]]
  BY DEF Answers
<1>3. PICK heard \in [L -> Signal] :
        report' = [report EXCEPT ![r] =
          [pc |-> "fetched", stale |-> FALSE,
           heard |-> [l \in L |-> [signal |-> heard[l], air |-> air[l]]]]]
  BY <1>2
<1> DEFINE answer == [l \in L |-> [signal |-> heard[l], air |-> air[l]]]
<1>4. DOMAIN answer = L /\ \A l \in L : answer[l].air = air[l]
  OBVIOUS
<1> HIDE DEF answer
<1>5. \A l \in Link : air[l] \in Airs
  BY DEF LinkTypes, LinksTyped, Airs
<1>6. report'[r].heard = answer /\ \A q \in LinkRun \ {r} : report'[q] = report[q]
  BY <1>3 DEF LinkTypes, answer
<1>7. \A l \in L : Earlier(report'[r].heard[l].air, air[l])
  BY <1>4, <1>5, <1>6, EarlierOrder
<1>8. Past(report[r].heard)'
  BY <1>1, <1>4, <1>6, <1>7 DEF Past
<1>9. Leads(report[r].heard)'
  <2>1. \A l \in L : links[l] # None => Earlier(links[l].air, air[l])
    BY DEF AirInv, Present
  <2>2. \A l \in L : cache # None /\ l \in DOMAIN cache => Earlier(cache[l].air, air[l])
    BY DEF AirInv, Past
  <2> QED BY <1>1, <1>4, <1>6, <2>1, <2>2 DEF Leads
<1>10. (\A l \in Present : Earlier(links[l].air, air[l]))' /\ (cache # None => Past(cache))'
  BY <1>1 DEF AirInv, Present, Past
<1>11. \A q \in LinkRun \ {r} : report'[q].pc = "fetched" =>
         /\ Past(report[q].heard)'
         /\ ~report'[q].stale => Leads(report[q].heard)'
  BY <1>1, <1>6 DEF AirInv, Past, Leads
<1> QED BY <1>8, <1>9, <1>10, <1>11 DEF AirInv

LEMMA StepAir ==
  ASSUME LinkTypes, LinkTypes', AirInv, [Next]_vars
  PROVE  AirInv'
<1>1. CASE UNCHANGED <<air, report, cache, links>>
  BY <1>1 DEF AirInv, Present, Past, Leads
<1>2. ASSUME NEW l \in Link, Sends(l) \/ Attaches(l)
      PROVE  AirInv'
  <2>1. UNCHANGED <<report, cache, links>>
    BY <1>2 DEF Sends, Attaches
  <2>2. \A k \in Link : \A a \in Airs : Earlier(a, air[k]) => Earlier(a, air'[k])
    BY <1>2, AirGrows
  <2>3. \A k \in Present : links[k].air \in Airs /\ k \in Link
    BY DEF Present, LinkTypes, LinksTyped, Airs
  <2>4. \A h \in Table : Past(h) => \A k \in DOMAIN h : Earlier(h[k].air, air'[k])
    BY <2>2, TableType DEF Past
  <2>5. (\A k \in Present : Earlier(links[k].air, air[k]))'
    BY <2>1, <2>2, <2>3 DEF AirInv, Present
  <2>6. (cache # None => Past(cache))'
    BY <2>1, <2>4 DEF AirInv, Past, LinkTypes
  <2>7. \A r \in LinkRun : report'[r].pc = "fetched" =>
          /\ Past(report[r].heard)'
          /\ ~report'[r].stale => Leads(report[r].heard)'
    BY <2>1, <2>4 DEF AirInv, Past, Leads, LinkTypes
  <2> QED BY <2>5, <2>6, <2>7 DEF AirInv
<1>3. ASSUME NEW r \in LinkRun, Answers(r)
      PROVE  AirInv'
  BY <1>3, AnswersAir
<1>4. ASSUME NEW r \in LinkRun, Arrives(r, now), now' = now
      PROVE  AirInv'
  <2>1. /\ report[r].heard \in Table /\ Past(report[r].heard) /\ Persists(report[r].heard)
    BY <1>4 DEF Arrives, Persists, LinkTypes, AirInv
  <2>2. \A q \in LinkRun : report'[q].pc = "fetched" =>
          report[q].pc = "fetched" /\ report'[q].heard = report[q].heard /\ report'[q].stale
    BY <1>4 DEF Arrives, NoReport, LinkTypes
  <2> QED BY <2>1, <2>2, PersistAir
<1>5. CASE PersistsCached(now) /\ now' = now
  <2>1. cache \in Table /\ cache # None /\ Past(cache) /\ Persists(cache) /\ report' = report
    BY <1>5 DEF PersistsCached, Persists, LinkTypes, AirInv
  <2>2. \A r \in LinkRun : report[r].pc = "fetched" /\ ~report[r].stale =>
          \A l \in DOMAIN cache \cap DOMAIN report[r].heard :
            Earlier(cache[l].air, report[r].heard[l].air)
    BY <2>1 DEF AirInv, Leads
  <2> QED BY <2>1, <2>2, PersistAir
<1>6. ASSUME NEW r \in LinkRun, Drop(r)
      PROVE  AirInv'
  <2>1. UNCHANGED <<air, cache, links>>
    BY <1>6 DEF Drop
  <2>2. \A q \in LinkRun : report'[q] = report[q] \/ report'[q].pc = "idle"
    BY <1>6 DEF Drop, NoReport, LinkTypes
  <2> QED BY <2>1, <2>2 DEF AirInv, Present, Past, Leads
<1>7. ASSUME NEW V \in SUBSET Present, Forget(V), UNCHANGED <<air, cache, report>>
      PROVE  AirInv'
  <2>1. \A l \in Link : links'[l] # None => links'[l] = links[l]
    BY <1>7 DEF Forget
  <2>2. (\A l \in Present : Earlier(links[l].air, air[l]))' /\ (cache # None => Past(cache))'
    BY <1>7, <2>1 DEF AirInv, Present, Past
  <2>3. \A r \in LinkRun : report'[r].pc = "fetched" =>
          /\ Past(report[r].heard)'
          /\ ~report'[r].stale => Leads(report[r].heard)'
    BY <1>7, <2>1, TableType DEF AirInv, Past, Leads, LinkTypes
  <2> QED BY <2>2, <2>3 DEF AirInv
<1>8. CASE Sweep(now) \/ PurgeReporter
  <2>1. UNCHANGED <<air, cache, report>>
    BY <1>8 DEF Sweep, PurgeReporter
  <2> QED BY <1>7, <1>8, <2>1, SweepForgets, PurgeForgets
<1>9. CASE Restart
  <2>1. \A r \in LinkRun : report'[r].pc = "idle"
    BY <1>9 DEF Restart, RestartLinks, NoReport
  <2>2. cache' = None /\ Present' = {}
    BY <1>9 DEF Restart, RestartLinks, Present
  <2> QED BY <2>1, <2>2 DEF AirInv
<1> QED BY <1>1, <1>2, <1>3, <1>4, <1>5, <1>6, <1>8, <1>9
        DEF Next, Counters, Links, LinkNext, Tick, vars, linkVars

\* As long as an answer is not overtaken by a later one, a re_attached_node
\* event tells of a neighbor that did attach anew: its frame counter fell
\* because its session is another, also when cached answers are persisted
\* in between (pipeline/device_discovery.py, re_attached_node).
THEOREM ReattachmentsAreTrue == Spec => []ReattachmentsAreReal
<1>1. Init => AirInv
  <2> SUFFICES ASSUME Init PROVE AirInv
    OBVIOUS
  <2>1. Present = {} /\ cache = None /\ \A r \in LinkRun : report[r].pc = "idle"
    BY DEF Init, LinkInit, Present, NoReport
  <2> QED BY <2>1 DEF AirInv
<1>2. LinkTypes /\ AirInv /\ [Next]_vars => LinkTypes' /\ AirInv'
  BY StepTypes, StepAir
<1>3. LinkTypes /\ AirInv => ReattachmentsAreReal
  <2> SUFFICES ASSUME LinkTypes, AirInv, NEW r \in LinkRun, report[r].pc = "fetched",
                      ~report[r].stale, NEW l \in Reattached(report[r].heard)
               PROVE  report[r].heard[l].air.session # links[l].air.session
    BY DEF ReattachmentsAreReal
  <2>1. /\ l \in DOMAIN report[r].heard /\ links[l] # None /\ l \in Link
        /\ report[r].heard[l].air.frames < links[l].air.frames
    BY DEF Reattached, Present
  <2>2. Earlier(links[l].air, report[r].heard[l].air)
    BY <2>1 DEF AirInv, Leads
  <2>3. links[l].air \in Airs /\ report[r].heard[l].air \in Airs
    BY <2>1, TableType DEF LinkTypes, LinksTyped, Airs
  <2>4. \A a \in Airs : a.session \in Int /\ a.frames \in Int
    BY DEF Airs
  <2> QED BY <2>1, <2>2, <2>3, <2>4 DEF Earlier
<1> QED BY <1>1, <1>2, <1>3, InitTypes, PTL DEF Spec
-----------------------------------------------------------------------------
(* the tables of the views *)

\* A list of node rows, one of each device.
Rows(ns) == ns \in Seq(NodeRow) /\ \A i, j \in DOMAIN ns : ns[i].eui = ns[j].eui => i = j

LEMMA Indices ==
  ASSUME NEW n \in Nat, NEW I \in SUBSET (1 .. n), I # {}
  PROVE  Min(I) \in I /\ Min(I) # 0 /\ Max(I) \in I /\ Max(I) # 0
<1>1. IsFiniteSet(1 .. n)
  BY FS_Interval
<1>2. I \in SUBSET Nat
  OBVIOUS
<1>3. IsFiniteSet(I)
  BY <1>1, FS_Subset
<1>4. 0 \notin I
  OBVIOUS
<1> QED BY <1>2, <1>3, <1>4, MinIs, MaxIs

\* Without the row of a device, the others are as they were.
Without(ns, e) == RemoveFirstMatch(ns, LAMBDA n : n.eui = e)

LEMMA RowTakenOut ==
  ASSUME NEW ns, Rows(ns), NEW e, NEW r, r = Without(ns, e)
  PROVE  Rows(r) /\ \A k \in DOMAIN r : r[k].eui # e
<1>1. ns \in Seq(NodeRow) /\ Len(ns) \in Nat /\ DOMAIN ns = 1 .. Len(ns)
  BY LenProperties DEF Rows
<1>2. CASE ~\E i \in 1 .. Len(ns) : ns[i].eui = e
  BY <1>1, <1>2 DEF Without, RemoveFirstMatch, Rows
<1>3. CASE \E i \in 1 .. Len(ns) : ns[i].eui = e
  <2> DEFINE I == {i \in 1 .. Len(ns) : ns[i].eui = e}
  <2>1. r = RemoveAt(ns, Min(I))
    BY <1>3 DEF Without, RemoveFirstMatch, SelectInSeq
  <2>2. Min(I) \in I
    <3>1. I \in SUBSET (1 .. Len(ns)) /\ I # {}
      BY <1>3
    <3> HIDE DEF I
    <3> QED BY <1>1, <3>1, Indices
  <2>3. PICK i \in 1 .. Len(ns) : ns[i].eui = e /\ r = RemoveAt(ns, i)
    BY <2>1, <2>2
  <2>4. /\ r \in Seq(NodeRow) /\ Len(r) = Len(ns) - 1
        /\ \A k \in 1 .. Len(ns) - 1 : r[k] = IF k < i THEN ns[k] ELSE ns[k + 1]
    BY <1>1, <2>3, OneLess
  <2>5. DOMAIN r = 1 .. Len(r)
    BY <2>4, LenProperties
  <2>6. \A j, k \in 1 .. Len(ns) : ns[j].eui = ns[k].eui => j = k
    BY <1>1 DEF Rows
  <2>7. ASSUME NEW k \in 1 .. Len(r)
        PROVE  \E m \in 1 .. Len(ns) : m = (IF k < i THEN k ELSE k + 1) /\ r[k] = ns[m] /\ m # i
    <3>1. k \in 1 .. Len(ns) - 1
      BY <1>1, <2>4
    <3>2. CASE k < i
      BY <1>1, <2>4, <3>1, <3>2
    <3>3. CASE ~(k < i)
      <4>1. k + 1 \in 1 .. Len(ns) /\ r[k] = ns[k + 1] /\ k + 1 # i
        BY <1>1, <2>4, <3>1, <3>3
      <4> QED BY <3>3, <4>1
    <3> QED BY <3>2, <3>3
  <2>8. \A k \in 1 .. Len(r) : r[k].eui # e
    BY <2>3, <2>6, <2>7
  <2>9. ASSUME NEW j \in 1 .. Len(r), NEW k \in 1 .. Len(r), r[j].eui = r[k].eui
        PROVE  j = k
    <3>1. PICK m \in 1 .. Len(ns) : m = (IF j < i THEN j ELSE j + 1) /\ r[j] = ns[m]
      BY <2>7
    <3>2. PICK n \in 1 .. Len(ns) : n = (IF k < i THEN k ELSE k + 1) /\ r[k] = ns[n]
      BY <2>7
    <3>3. m = n
      BY <2>6, <2>9, <3>1, <3>2
    <3> QED BY <1>1, <2>4, <3>1, <3>2, <3>3
  <2> QED BY <2>4, <2>5, <2>8, <2>9 DEF Rows
<1> QED BY <1>2, <1>3

\* A row of a device comes first.
LEMMA RowPutFirst ==
  ASSUME NEW ns, Rows(ns), NEW row \in NodeRow, \A k \in DOMAIN ns : ns[k].eui # row.eui
  PROVE  Rows(<<row>> \o ns)
<1> DEFINE l == <<row>> \o ns
<1>1. ns \in Seq(NodeRow) /\ Len(ns) \in Nat /\ DOMAIN ns = 1 .. Len(ns)
  BY LenProperties DEF Rows
<1>2. /\ <<row>> \in Seq(NodeRow) /\ Len(<<row>>) = 1 /\ <<row>>[1] = row
  OBVIOUS
<1>3. /\ l \in Seq(NodeRow) /\ Len(l) = 1 + Len(ns)
      /\ \A k \in 1 .. 1 + Len(ns) : l[k] = IF k <= 1 THEN <<row>>[k] ELSE ns[k - 1]
  BY <1>1, <1>2, ConcatProperties
<1> HIDE DEF l
<1>4. DOMAIN l = 1 .. 1 + Len(ns)
  BY <1>3, LenProperties
<1>5. l[1] = row /\ \A k \in 2 .. 1 + Len(ns) : l[k] = ns[k - 1] /\ k - 1 \in DOMAIN ns
  BY <1>1, <1>2, <1>3
<1>6. ASSUME NEW i \in DOMAIN l, NEW j \in DOMAIN l, l[i].eui = l[j].eui
      PROVE  i = j
  <2>1. CASE i = 1 /\ j = 1
    BY <2>1
  <2>2. CASE i = 1 /\ j # 1
    <3>1. j \in 2 .. 1 + Len(ns)
      BY <1>1, <1>4, <2>2
    <3> QED BY <1>5, <1>6, <2>2, <3>1
  <2>3. CASE i # 1 /\ j = 1
    <3>1. i \in 2 .. 1 + Len(ns)
      BY <1>1, <1>4, <2>3
    <3> QED BY <1>5, <1>6, <2>3, <3>1
  <2>4. CASE i # 1 /\ j # 1
    <3>1. i \in 2 .. 1 + Len(ns) /\ j \in 2 .. 1 + Len(ns)
      BY <1>1, <1>4, <2>4
    <3>2. ns[i - 1].eui = ns[j - 1].eui /\ i - 1 \in DOMAIN ns /\ j - 1 \in DOMAIN ns
      BY <1>5, <1>6, <3>1
    <3>3. i - 1 = j - 1
      BY <3>2 DEF Rows
    <3> QED BY <3>1, <3>3
  <2> QED BY <2>1, <2>2, <2>3, <2>4
<1>7. Rows(l)
  BY <1>3, <1>6 DEF Rows
<1> QED BY <1>7 DEF l

LEMMA TablesStep ==
  ASSUME TablesTyped, [ViewsNext]_viewVars
  PROVE  TablesTyped'
<1>1. CASE UNCHANGED tables
  BY <1>1 DEF tables, TablesTyped
<1>2. ASSUME NEW row \in NodeChange, SeeNode(row)
      PROVE  TablesTyped'
  <2>1. Rows(nodes) /\ row \in NodeRow
    BY ChangeAssumption DEF TablesTyped, Rows
  <2>2. PICK r : r = Without(nodes, row.eui)
    OBVIOUS
  <2>3. nodes' = <<row>> \o r
    BY <1>2, <2>2 DEF SeeNode, Without
  <2>4. Rows(r) /\ \A k \in DOMAIN r : r[k].eui # row.eui
    BY <2>1, <2>2, RowTakenOut
  <2>5. Rows(nodes')
    BY <2>1, <2>3, <2>4, RowPutFirst
  <2> QED BY <1>2, <2>5 DEF SeeNode, TablesTyped, Rows
<1>3. ASSUME NEW from \in Eui, NEW to \in Eui, NEW row \in RouteChange, SeeRoute(from, to, row)
      PROVE  TablesTyped'
  <2>1. row \in RouteRow \cup {None}
    BY ChangeAssumption
  <2> QED BY <1>3, <2>1 DEF SeeRoute, TablesTyped
<1>4. ASSUME NEW from \in Eui, NEW to \in Eui, NEW row \in PeerChange, SeePeer(from, to, row)
      PROVE  TablesTyped'
  <2>1. row \in PeerRow \cup {None}
    BY ChangeAssumption
  <2> QED BY <1>4, <2>1 DEF SeePeer, TablesTyped
<1>5. ASSUME NEW e \in Eui, NEW row \in CountsChange, SeeCounts(e, row)
      PROVE  TablesTyped'
  <2>1. row \in Counts
    BY ChangeAssumption
  <2> QED BY <1>5, <2>1 DEF SeeCounts, TablesTyped
<1> QED BY <1>1, <1>2, <1>3, <1>4, <1>5
        DEF ViewsNext, viewVars, tables, Routing, Diagnosing, SomeNode, SomeRoute, SomePeer, SomeCounts

\* The tables hold rows, one of each device, whatever discovery writes and in
\* whichever order (storage/sqlite_store.py, list_nodes and the primary keys).
LEMMA TablesStayTyped == ViewsSpec => []TablesTyped
<1>1. ViewsInit => TablesTyped
  BY DEF ViewsInit
<1> QED BY <1>1, TablesStep, PTL DEF ViewsSpec

-----------------------------------------------------------------------------
(* the rows the views look up *)

\* The first or the last row that passes a test is a row that does.
Found(ns, row, I) ==
  IF I = {} THEN row = None ELSE \E i \in I : row = ns[i]

LEMMA RowFound ==
  ASSUME NEW ns, Rows(ns), NEW e
  PROVE  Found(ns, RowOf(ns, e), {i \in DOMAIN ns : ns[i].eui = e})
<1>1. ns \in Seq(NodeRow) /\ Len(ns) \in Nat /\ DOMAIN ns = 1 .. Len(ns)
  BY LenProperties DEF Rows
<1> DEFINE I == {i \in 1 .. Len(ns) : ns[i].eui = e}
<1>2. RowOf(ns, e) = LET k == IF I # {} THEN Min(I) ELSE 0 IN IF k = 0 THEN None ELSE ns[k]
  BY DEF RowOf, FirstRow, SelectInSeq
<1>3. I # {} => Min(I) \in I /\ Min(I) # 0
  <2>1. I \in SUBSET (1 .. Len(ns))
    OBVIOUS
  <2> HIDE DEF I
  <2> QED BY <1>1, <2>1, Indices
<1> HIDE DEF I
<1>4. Found(ns, RowOf(ns, e), I)
  BY <1>2, <1>3 DEF Found
<1> QED BY <1>1, <1>4 DEF I

LEMMA BorderFound ==
  ASSUME NEW ns, Rows(ns)
  PROVE  Found(ns, FirstRow(ns, LAMBDA n : n.border /\ n.partition # None),
               {i \in DOMAIN ns : ns[i].border /\ ns[i].partition # None})
<1>1. ns \in Seq(NodeRow) /\ Len(ns) \in Nat /\ DOMAIN ns = 1 .. Len(ns)
  BY LenProperties DEF Rows
<1> DEFINE I == {i \in 1 .. Len(ns) : ns[i].border /\ ns[i].partition # None}
           row == FirstRow(ns, LAMBDA n : n.border /\ n.partition # None)
<1>2. row = LET k == IF I # {} THEN Min(I) ELSE 0 IN IF k = 0 THEN None ELSE ns[k]
  BY DEF FirstRow, SelectInSeq
<1>3. I # {} => Min(I) \in I /\ Min(I) # 0
  <2>1. I \in SUBSET (1 .. Len(ns))
    OBVIOUS
  <2> HIDE DEF I
  <2> QED BY <1>1, <2>1, Indices
<1> HIDE DEF I, row
<1>4. Found(ns, row, I)
  BY <1>2, <1>3 DEF Found
<1> QED BY <1>1, <1>4 DEF I, row

LEMMA LeaderFound ==
  ASSUME NEW ns, Rows(ns)
  PROVE  Found(ns, FirstRow(ns, LAMBDA n : n.role = "leader" /\ n.partition # None),
               {i \in DOMAIN ns : ns[i].role = "leader" /\ ns[i].partition # None})
<1>1. ns \in Seq(NodeRow) /\ Len(ns) \in Nat /\ DOMAIN ns = 1 .. Len(ns)
  BY LenProperties DEF Rows
<1> DEFINE I == {i \in 1 .. Len(ns) : ns[i].role = "leader" /\ ns[i].partition # None}
           row == FirstRow(ns, LAMBDA n : n.role = "leader" /\ n.partition # None)
<1>2. row = LET k == IF I # {} THEN Min(I) ELSE 0 IN IF k = 0 THEN None ELSE ns[k]
  BY DEF FirstRow, SelectInSeq
<1>3. I # {} => Min(I) \in I /\ Min(I) # 0
  <2>1. I \in SUBSET (1 .. Len(ns))
    OBVIOUS
  <2> HIDE DEF I
  <2> QED BY <1>1, <2>1, Indices
<1> HIDE DEF I, row
<1>4. Found(ns, row, I)
  BY <1>2, <1>3 DEF Found
<1> QED BY <1>1, <1>4 DEF I, row

LEMMA RouterFound ==
  ASSUME NEW ns, Rows(ns), NEW p, NEW rid
  PROVE  Found(ns, RouterWithId(ns, p, rid),
               {i \in DOMAIN ns : ns[i].partition = p /\ ns[i].rid = rid})
<1>1. ns \in Seq(NodeRow) /\ Len(ns) \in Nat /\ DOMAIN ns = 1 .. Len(ns)
  BY LenProperties DEF Rows
<1> DEFINE I == {i \in 1 .. Len(ns) : ns[i].partition = p /\ ns[i].rid = rid}
<1>2. RouterWithId(ns, p, rid)
        = LET k == IF I # {} THEN Max(I) ELSE 0 IN IF k = 0 THEN None ELSE ns[k]
  BY DEF RouterWithId, LastRow, SelectLastInSeq
<1>3. I # {} => Max(I) \in I /\ Max(I) # 0
  <2>1. I \in SUBSET (1 .. Len(ns))
    OBVIOUS
  <2> HIDE DEF I
  <2> QED BY <1>1, <2>1, Indices
<1> HIDE DEF I
<1>4. Found(ns, RouterWithId(ns, p, rid), I)
  BY <1>2, <1>3 DEF Found
<1> QED BY <1>1, <1>4 DEF I

\* The border router a view finds is a row.
LEMMA OtbrFound ==
  ASSUME NEW ns, Rows(ns)
  PROVE  /\ FindOtbr(ns) = None \/ \E i \in DOMAIN ns : FindOtbr(ns) = ns[i]
         /\ FindOtbr(ns) # None /\ FindOtbr(ns).border =>
              FindOtbr(ns) = FirstRow(ns, LAMBDA n : n.border /\ n.partition # None)
<1> DEFINE border == FirstRow(ns, LAMBDA n : n.border /\ n.partition # None)
           leader == FirstRow(ns, LAMBDA n : n.role = "leader" /\ n.partition # None)
           I == {i \in DOMAIN ns : ns[i].border /\ ns[i].partition # None}
           J == {i \in DOMAIN ns : ns[i].role = "leader" /\ ns[i].partition # None}
<1>1. FindOtbr(ns) = IF border # None THEN border ELSE leader
  BY DEF FindOtbr
<1>2. Found(ns, border, I)
  BY BorderFound
<1>3. Found(ns, leader, J)
  BY LeaderFound
<1>4. \A i \in DOMAIN ns : ns[i] \in NodeRow /\ ns[i] # None
  BY LenProperties, TablesAssumption DEF Rows
<1> HIDE DEF border, leader
<1>5. border = None => I = {}
  BY <1>2, <1>4 DEF Found
<1>6. border = None /\ leader # None => \E j \in J : leader = ns[j]
  BY <1>3 DEF Found
<1>7. border = None /\ leader # None /\ leader.border => FALSE
  BY <1>5, <1>6
<1>8. FindOtbr(ns) # None /\ FindOtbr(ns).border => FindOtbr(ns) = border
  BY <1>1, <1>7
<1>9. border # None => \E i \in I : border = ns[i]
  BY <1>2 DEF Found
<1> QED BY <1>1, <1>6, <1>8, <1>9 DEF border
\* The three views name the same next hop to the border router, in every state
\* the tables can be in (pipeline/routing.py, pipeline/nodes.py): where a row of
\* its partition names a relay, no router id is listed twice and no row is hidden.
THEOREM NextHopsAgree == ViewsSpec => []ViewsAgree
<1>1. TablesTyped => ViewsAgree
  <2> DEFINE otbr == FindOtbr(nodes)
             members == {e \in Eui : \E i \in DOMAIN nodes :
                                       nodes[i].eui = e /\ nodes[i].partition = otbr.partition}
  <2> SUFFICES ASSUME TablesTyped, otbr # None, otbr.border, Collapsed(nodes) = nodes,
                      \A e, f \in members : e # f /\ RowOf(nodes, e).rid # None
                                              => RowOf(nodes, e).rid # RowOf(nodes, f).rid,
                      NEW e \in members \ {otbr.eui}, route[<<e, otbr.eui>>] # None
               PROVE  LET row       == route[<<e, otbr.eui>>]
                          effective == EffectiveNextHop(nodes, route, e, otbr.eui)
                      IN  /\ Direct(row) => Forward(nodes, otbr, row) = otbr.eui /\ effective = otbr.eui
                          /\ ~Direct(row) /\ row.nh \in Rid =>
                               /\ Forward(nodes, otbr, row) = NextHopToOtbr(nodes, route, e)
                               /\ Forward(nodes, otbr, row) = effective
    BY DEF ViewsAgree
  <2> DEFINE row == route[<<e, otbr.eui>>]
             effective == EffectiveNextHop(nodes, route, e, otbr.eui)
  <2>1. Rows(nodes)
    BY DEF TablesTyped, Rows
  <2>2. PICK o \in DOMAIN nodes : otbr = nodes[o]
    BY <2>1, OtbrFound
  <2>3. \A i \in DOMAIN nodes : nodes[i] \in NodeRow /\ nodes[i] # None /\ nodes[i].eui \in Eui
    <3>1. \A i \in DOMAIN nodes : nodes[i] \in NodeRow
      BY <2>1, LenProperties DEF Rows
    <3> QED BY <3>1, TablesAssumption DEF NodeRow
  <2>4. \A i \in DOMAIN nodes : RowOf(nodes, nodes[i].eui) = nodes[i]
    BY <2>1, RowFound DEF Found, Rows
  <2>5. PICK m \in DOMAIN nodes : nodes[m].eui = e /\ nodes[m].partition = otbr.partition
    OBVIOUS
  <2>6. RowOf(nodes, e) = nodes[m] /\ RowOf(nodes, e) # None /\ RowOf(nodes, e).partition = otbr.partition
    BY <2>3, <2>4, <2>5
  <2>7. CASE Direct(row)
    BY <2>7 DEF Forward, EffectiveNextHop
  <2>8. CASE ~Direct(row) /\ row.nh \in Rid
    <3>1. row.nh \notin {None, NoRoute}
      BY <2>8, TablesAssumption
    <3>2. otbr = FirstRow(nodes, LAMBDA n : n.border /\ n.partition # None)
      BY <2>1, OtbrFound
    <3>3. Forward(nodes, otbr, row) = NextHopToOtbr(nodes, route, e)
      <4>1. e # otbr.eui
        OBVIOUS
      <4> QED BY <2>8, <3>1, <3>2, <4>1 DEF Forward, NextHopToOtbr
    <3> DEFINE router == RouterWithId(nodes, otbr.partition, row.nh)
    <3>4. effective = IF router = None THEN None ELSE router.eui
      BY <2>6, <2>8, <3>1 DEF EffectiveNextHop
    <3>5. CASE row.nh # otbr.rid
      <4>1. Forward(nodes, otbr, row) = IF router = None THEN None ELSE router.eui
        BY <2>8, <3>1, <3>5 DEF Forward
      <4> QED BY <2>8, <3>3, <3>4, <4>1
    <3>6. CASE row.nh = otbr.rid
      <4> DEFINE I == {i \in DOMAIN nodes : nodes[i].partition = otbr.partition /\ nodes[i].rid = row.nh}
      <4>1. Found(nodes, router, I)
        BY <2>1, RouterFound
      <4>2. o \in I
        BY <2>2, <3>6
      <4>3. PICK i \in I : router = nodes[i]
        BY <4>1, <4>2 DEF Found
      <4>4. nodes[i].eui \in members /\ otbr.eui \in members
        BY <2>2, <2>3
      <4>5. RowOf(nodes, nodes[i].eui).rid = RowOf(nodes, otbr.eui).rid
        BY <2>2, <2>4, <3>6
      <4>6. RowOf(nodes, nodes[i].eui).rid # None
        BY <2>4, <3>1
      <4>7. nodes[i].eui = otbr.eui
        BY <4>4, <4>5, <4>6
      <4>8. effective = otbr.eui
        BY <2>3, <3>4, <4>3, <4>7
      <4>9. Forward(nodes, otbr, row) = otbr.eui
        BY <2>8, <3>6 DEF Forward
      <4> QED BY <2>8, <3>3, <4>8, <4>9
    <3> QED BY <3>5, <3>6
  <2> QED BY <2>7, <2>8
<1> QED BY <1>1, TablesStayTyped, PTL
-----------------------------------------------------------------------------
(* the formulas of the scores *)

LEMMA OfTwo ==
  ASSUME NEW a \in Int, NEW b \in Int
  PROVE  /\ Min({a, b}) = IF a <= b THEN a ELSE b
         /\ Max({a, b}) = IF a <= b THEN b ELSE a
<1>1. \E x \in {a, b} : \A y \in {a, b} : x <= y
  OBVIOUS
<1>2. \E x \in {a, b} : \A y \in {a, b} : x >= y
  OBVIOUS
<1>3. Min({a, b}) \in {a, b} /\ \A y \in {a, b} : Min({a, b}) <= y
  BY <1>1 DEF Min
<1>4. Max({a, b}) \in {a, b} /\ \A y \in {a, b} : Max({a, b}) >= y
  BY <1>2 DEF Max
<1> QED BY <1>3, <1>4

\* A clamped score is one, and what is one is not clamped.
LEMMA Clamped ==
  ASSUME NEW v \in Int
  PROVE  Clamp(v) = IF v < 0 THEN 0 ELSE IF v > Full THEN Full ELSE v
<1>1. Full \in Int /\ 0 <= Full
  BY DEF Full
<1>2. Min({v, Full}) = IF v <= Full THEN v ELSE Full
  BY <1>1, OfTwo
<1>3. Min({v, Full}) \in Int
  BY <1>1, <1>2
<1>4. Max({0, Min({v, Full})}) = IF 0 <= Min({v, Full}) THEN Min({v, Full}) ELSE 0
  BY <1>3, OfTwo
<1> QED BY <1>1, <1>2, <1>4 DEF Clamp

LEMMA RoundedType ==
  ASSUME NEW n \in Nat, NEW d \in Nat \ {0}
  PROVE  Rounded(n, d) \in Nat
<1> DEFINE a == 2 * n + d
           m == 2 * d
<1>1. a \in Nat /\ m \in Nat /\ m > 0
  OBVIOUS
<1> HIDE DEF a, m
<1>2. a \div m \in Nat
  BY <1>1
<1> QED BY <1>2 DEF Rounded, a, m

Score == {v \in Nat : v <= Full}

LEMMA ClampScore == ASSUME NEW v \in Int PROVE Clamp(v) \in Score
<1>1. Clamp(v) = IF v < 0 THEN 0 ELSE IF v > Full THEN Full ELSE v
  BY Clamped
<1>2. Full \in Nat
  BY DEF Full
<1> QED BY <1>1, <1>2 DEF Score

LEMMA HalfScore == Half \in Score /\ Full \in Score /\ Score \subseteq Nat
BY DEF Half, Full, Score

\* The parts of a score: a missing reading has none, or counts as half.
LEMMA PartTypes ==
  ASSUME NEW n \in Nat \cup {None}, NEW i \in Int \cup {None}, NEW j \in Int \cup {None}
  PROVE  /\ NormalRssi(i) \in Score \cup {None} /\ NormalLqi(n) \in Score \cup {None}
         /\ Freshness(n) \in Score \cup {None} /\ (n # None => Freshness(n) \in Score)
         /\ Retries(n) \in Score /\ Symmetry(i, j) \in Score
<1>1. None \notin Int
  BY TablesAssumption
<1>2. NormalRssi(i) \in Score \cup {None}
  <2>1. CASE i # None
    <3>1. 250 * (i + 95) \in Int
      BY <2>1
    <3>2. NormalRssi(i) = Clamp(250 * (i + 95))
      BY <2>1 DEF NormalRssi
    <3> QED BY <3>1, <3>2, ClampScore
  <2> QED BY <2>1 DEF NormalRssi
<1>3. NormalLqi(n) \in Score \cup {None}
  <2>1. CASE n # None
    <3> DEFINE top == IF n > 3 THEN 255 ELSE 3
    <3>1. Full * n \in Nat /\ top \in Nat \ {0}
      BY <2>1 DEF Full
    <3>2. NormalLqi(n) = Clamp(Rounded(Full * n, top))
      BY <2>1 DEF NormalLqi
    <3> HIDE DEF top
    <3>3. Rounded(Full * n, top) \in Int
      BY <3>1, RoundedType
    <3> QED BY <3>2, <3>3, ClampScore
  <2> QED BY <2>1 DEF NormalLqi
<1>4. (n # None => Freshness(n) \in Score) /\ (n = None => Freshness(n) = None)
  <2>1. CASE n # None
    <3>1. Full * n \in Nat /\ 1800 \in Nat \ {0} /\ Full \in Int
      BY <2>1 DEF Full
    <3>2. Rounded(Full * n, 1800) \in Nat
      BY <3>1, RoundedType
    <3>3. Full - Rounded(Full * n, 1800) \in Int
      BY <3>1, <3>2
    <3>4. Freshness(n) = Clamp(Full - Rounded(Full * n, 1800))
      BY <2>1 DEF Freshness
    <3> QED BY <2>1, <3>3, <3>4, ClampScore
  <2> QED BY <2>1 DEF Freshness
<1>5. Retries(n) \in Score
  <2>1. CASE n # None
    <3>1. 500 * n \in Int
      BY <2>1
    <3>2. Clamp(500 * n) \in Score
      BY <3>1, ClampScore
    <3>3. PICK c \in Score : Retries(n) = Full - c
      BY <2>1, <3>2 DEF Retries
    <3>4. Full - c \in Score
      BY HalfScore DEF Score
    <3> QED BY <3>3, <3>4
  <2>2. CASE n = None
    BY <2>2, HalfScore DEF Retries
  <2> QED BY <2>1, <2>2
<1>6. Symmetry(i, j) \in Score
  <2>1. CASE None \in {i, j}
    BY <2>1, HalfScore DEF Symmetry
  <2>2. CASE None \notin {i, j}
    <3>1. Full - 500 * Apart(i, j) \in Int
      BY <2>2 DEF Apart, Full
    <3>2. Symmetry(i, j) = Clamp(Full - 500 * Apart(i, j))
      BY <2>2 DEF Symmetry
    <3> QED BY <3>1, <3>2, ClampScore
  <2> QED BY <2>1, <2>2
<1> QED BY <1>2, <1>3, <1>4, <1>5, <1>6

LEMMA WeightedType ==
  ASSUME NEW parts, IsFiniteSet(DOMAIN parts),
         \A i \in DOMAIN parts : parts[i][1] \in Nat \ {0} /\ parts[i][2] \in Nat \cup {None}
  PROVE  Weighted(parts) \in Nat
<1> DEFINE there == {i \in DOMAIN parts : parts[i][2] # None}
           value  == [i \in there |-> parts[i][1] * parts[i][2]]
           weight == [i \in there |-> parts[i][1]]
<1>1. IsFiniteSet(there)
  BY FS_Subset
<1>2. \A i \in there : value[i] \in Nat /\ weight[i] \in Nat /\ weight[i] \in Int /\ weight[i] # 0
  <2> TAKE i \in there
  <2>1. parts[i][1] \in Nat \ {0} /\ parts[i][2] \in Nat
    OBVIOUS
  <2>2. parts[i][1] * parts[i][2] \in Nat
    BY <2>1
  <2> QED BY <2>1, <2>2
<1>3. Weighted(parts) = IF there = {} THEN 0
                        ELSE Rounded(SumFunctionOnSet(value, there), SumFunctionOnSet(weight, there))
  BY DEF Weighted
<1> HIDE DEF there, value, weight
<1>4. CASE there = {}
  BY <1>3, <1>4
<1>5. CASE there # {}
  <2>1. SumFunctionOnSet(value, there) \in Nat
    BY <1>1, <1>2, SumNatural
  <2>2. SumFunctionOnSet(weight, there) \in Nat
    BY <1>1, <1>2, SumNatural
  <2>3. PICK i \in there : TRUE
    BY <1>5
  <2>4. SumFunctionOnSet(weight, there) = weight[i] + SumFunctionOnSet(weight, there \ {i})
    BY <1>1, <1>2, SumLess
  <2>5. SumFunctionOnSet(weight, there \ {i}) \in Nat
    <3>1. IsFiniteSet(there \ {i}) /\ \A y \in there \ {i} : weight[y] \in Nat
      BY <1>1, <1>2, FS_Subset
    <3> QED BY <3>1, SumNatural
  <2>6. SumFunctionOnSet(weight, there) # 0
    BY <1>2, <2>4, <2>5
  <2> QED BY <1>3, <1>5, <2>1, <2>2, <2>6, RoundedType
<1> QED BY <1>4, <1>5

LEMMA EdgeScoreType ==
  ASSUME NEW row \in PeerReading, NEW reverse \in Int \cup {None}
  PROVE  EdgeScore(row, reverse) \in Nat
<1>1. row.rssi \in Int \cup {None} /\ row.lqi \in Nat \cup {None} /\ row.age \in Nat \cup {None}
  BY DEF PeerReading
<1> DEFINE r == NormalRssi(row.rssi)
           l == NormalLqi(row.lqi)
           f == Freshness(row.age)
           s == Symmetry(row.rssi, reverse)
           parts == << <<35, r>>, <<25, l>>, <<10, f>>, <<10, s>> >>
<1>2. r \in Nat \cup {None} /\ l \in Nat \cup {None} /\ f \in Nat \cup {None} /\ s \in Nat \cup {None}
  BY <1>1, PartTypes, HalfScore
<1>3. EdgeScore(row, reverse) = Weighted(parts)
  BY DEF EdgeScore
<1> HIDE DEF r, l, f, s
<1>4. DOMAIN parts = 1 .. 4
  OBVIOUS
<1>5. /\ parts[1] = <<35, r>> /\ parts[2] = <<25, l>> /\ parts[3] = <<10, f>> /\ parts[4] = <<10, s>>
  OBVIOUS
<1> HIDE DEF parts
<1>6. \A i \in DOMAIN parts : parts[i][1] \in Nat \ {0} /\ parts[i][2] \in Nat \cup {None}
  <2> SUFFICES ASSUME NEW i \in DOMAIN parts
               PROVE  parts[i][1] \in Nat \ {0} /\ parts[i][2] \in Nat \cup {None}
    OBVIOUS
  <2>1. i = 1 \/ i = 2 \/ i = 3 \/ i = 4
    BY <1>4
  <2> QED BY <1>2, <1>5, <2>1
<1>7. IsFiniteSet(DOMAIN parts)
  <2>1. IsFiniteSet(1 .. 4)
    <3>1. 1 \in Int /\ 4 \in Int
      OBVIOUS
    <3> QED BY <3>1, FS_Interval
  <2> QED BY <1>4, <2>1
<1> QED BY <1>3, <1>6, <1>7, WeightedType

LEMMA TargetIs ==
  ASSUME NEW routers \in Nat
  PROVE  RouterTarget(routers) = 1 \/ RouterTarget(routers) = 2
<1>1. Max({1, routers - 1}) = IF 1 <= routers - 1 THEN routers - 1 ELSE 1
  BY OfTwo
<1>2. PICK x \in Int : x = Max({1, routers - 1}) /\ 1 <= x
  BY <1>1
<1>3. Min({2, x}) = IF 2 <= x THEN 2 ELSE x
  BY OfTwo
<1>4. RouterTarget(routers) = Min({2, x})
  BY <1>2 DEF RouterTarget
<1> QED BY <1>2, <1>3, <1>4

\* With half of what it should have a router is not at its full redundancy.
LEMMA RedundancyIs ==
  ASSUME NEW strong \in Nat, NEW target, target = 1 \/ target = 2
  PROVE  /\ RouterRedundancy(strong, target) \in Score
         /\ strong >= target => RouterRedundancy(strong, target) = Full
         /\ strong < target => 2 * RouterRedundancy(strong, target) <= Full
         /\ strong = 0 => RouterRedundancy(strong, target) = 0
<1> DEFINE redundancy == RouterRedundancy(strong, target)
<1>1. redundancy = Clamp((Full * strong) \div target)
  BY DEF RouterRedundancy
<1>2. CASE target = 1
  <2>1. (Full * strong) \div target = 10000 * strong
    BY <1>2 DEF Full
  <2>2. 10000 * strong \in Int
    OBVIOUS
  <2>3. redundancy \in Score
    BY <1>1, <2>1, <2>2, ClampScore
  <2>4. redundancy = IF 10000 * strong < 0 THEN 0
                     ELSE IF 10000 * strong > Full THEN Full ELSE 10000 * strong
    BY <1>1, <2>1, <2>2, Clamped
  <2> HIDE DEF redundancy
  <2>5. /\ strong >= target => redundancy = Full
        /\ strong < target => redundancy = 0
    BY <1>2, <2>4 DEF Full
  <2>6. 2 * 0 <= Full
    BY DEF Full
  <2> QED BY <1>2, <2>3, <2>5, <2>6 DEF redundancy
<1>3. CASE target = 2
  <2>1. (Full * strong) \div target = 5000 * strong
    BY <1>3 DEF Full
  <2>2. 5000 * strong \in Int
    OBVIOUS
  <2>3. redundancy \in Score
    BY <1>1, <2>1, <2>2, ClampScore
  <2>4. redundancy = IF 5000 * strong < 0 THEN 0
                     ELSE IF 5000 * strong > Full THEN Full ELSE 5000 * strong
    BY <1>1, <2>1, <2>2, Clamped
  <2> HIDE DEF redundancy
  <2>5. /\ strong >= target => redundancy = Full
        /\ strong < target => 2 * redundancy <= Full
        /\ strong = 0 => redundancy = 0
    BY <1>3, <2>4 DEF Full
  <2> QED BY <2>3, <2>5 DEF redundancy
<1> QED BY <1>2, <1>3

\* A score from some value on, as rounded.
LEMMA RoundedAt ==
  ASSUME NEW n \in Nat, NEW k \in Nat
  PROVE  /\ Rounded(n, Full) \in Nat /\ (Rounded(n, Full) >= k <=> 2 * n + Full >= (2 * Full) * k)
         /\ Rounded(n, 100) \in Nat /\ (Rounded(n, 100) >= k <=> 2 * n + 100 >= 200 * k)
<1>1. Full \in Nat \ {0} /\ 100 \in Nat \ {0}
  BY DEF Full
<1>2. Rounded(n, Full) \in Nat /\ Rounded(n, 100) \in Nat
  BY <1>1, RoundedType
<1>3. (2 * n + 100) \div 200 >= k <=> 2 * n + 100 >= 200 * k
  OBVIOUS
<1>4. (2 * n + 10000) \div 20000 >= k <=> 2 * n + 10000 >= 20000 * k
  OBVIOUS
<1>5. Rounded(n, 100) = (2 * n + 100) \div 200
  BY DEF Rounded
<1>6. Rounded(n, Full) = (2 * n + 10000) \div 20000
  BY DEF Rounded, Full
<1>7. 2 * Full = 20000 /\ Full = 10000
  BY DEF Full
<1> QED BY <1>2, <1>3, <1>4, <1>5, <1>6, <1>7

\* Where no reason is given no test is passed.
LEMMA NoReason == ASSUME NEW pairs, Where(pairs) = {}, NEW name PROVE <<name, TRUE>> \notin pairs
<1>1. <<name, TRUE>>[2] /\ <<name, TRUE>>[1] = name
  OBVIOUS
<1> QED BY <1>1 DEF Where

\* What a healthy router has, and what a router below "watch" is told.
RouterTold(strong, alternates, best, retries, age, cut, routers) ==
  LET score == RouterScore(strong, alternates, best, retries, age, cut, routers)
  IN  /\ score \in Nat
      /\ score >= 8000 => strong >= (IF cut THEN RouterTarget(routers) ELSE 1)
      /\ score < 6000 => RouterReasons(strong, alternates, best, cut, routers) # {}

LEMMA RouterScores ==
  ASSUME NEW strong \in Nat, NEW alternates \in Nat, NEW best \in Nat,
         NEW retries \in Nat \cup {None}, NEW age \in Nat \cup {None},
         NEW cut \in BOOLEAN, NEW routers \in Nat
  PROVE  RouterTold(strong, alternates, best, retries, age, cut, routers)
<1> DEFINE score == RouterScore(strong, alternates, best, retries, age, cut, routers)
           target == RouterTarget(routers)
           redundancy == RouterRedundancy(strong, target)
           path == RouterPath(best, alternates)
           b == Clamp(best)
           stability == 70 * Retries(retries) + 30 * (IF age = None THEN Half ELSE Freshness(age))
           whole == IF cut THEN 0 ELSE Full
           sum == 40 * 100 * redundancy + 25 * path + 20 * stability + 15 * 100 * whole
           plain == Rounded(sum, Full)
<1>1. target = 1 \/ target = 2
  BY TargetIs
<1>2. Full = 10000 /\ Half = 5000
  BY DEF Full, Half
<1>3. b \in Nat /\ b <= Full
  BY ClampScore DEF Score
<1>4. path \in Nat /\ path <= 100 * Full /\ (alternates >= 1 => path >= 60 * b + 40 * Full)
  <2>1. PICK more \in Nat : more = Min({Full, Full * alternates}) /\ more <= Full
                            /\ (alternates >= 1 => more = Full)
    <3>1. Full * alternates \in Nat
      BY <1>2
    <3>2. Min({Full, Full * alternates}) = IF Full <= Full * alternates THEN Full ELSE Full * alternates
      BY <1>2, <3>1, OfTwo
    <3>3. alternates >= 1 => Full <= Full * alternates
      BY <1>2
    <3> QED BY <1>2, <3>1, <3>2, <3>3
  <2>2. path = 60 * b + 40 * more
    BY <2>1 DEF RouterPath
  <2> HIDE DEF path, b
  <2> QED BY <1>2, <1>3, <2>1, <2>2
<1>5. stability \in Nat /\ stability <= 100 * Full
  <2>1. PICK r \in Nat : r = Retries(retries) /\ r <= Full
    BY PartTypes DEF Score
  <2>2. PICK f \in Nat : f = (IF age = None THEN Half ELSE Freshness(age)) /\ f <= Full
    <3>1. age # None => Freshness(age) \in Score
      BY PartTypes
    <3> QED BY <3>1, HalfScore DEF Score
  <2>3. stability = 70 * r + 30 * f
    BY <2>1, <2>2
  <2> HIDE DEF stability
  <2> QED BY <1>2, <2>1, <2>2, <2>3
<1>6. /\ redundancy \in Nat /\ redundancy <= Full
      /\ strong >= target => redundancy = Full
      /\ strong < target => 2 * redundancy <= Full
      /\ strong = 0 => redundancy = 0
  <2> HIDE DEF target
  <2> QED BY <1>1, RedundancyIs DEF Score
<1>7. score = IF cut /\ alternates < 1 /\ b < Half THEN Min({plain, 3900}) ELSE plain
  BY DEF RouterScore
<1> HIDE DEF target, redundancy, path, stability, b, score
<1>8. whole \in Nat /\ (cut => whole = 0) /\ (~cut => whole = Full)
  BY <1>2
<1> HIDE DEF whole
<1>9. PICK t \in Nat : /\ t = sum
                       /\ t = 4000 * redundancy + 25 * path + 20 * stability + 1500 * whole
  BY <1>4, <1>5, <1>6, <1>8
<1>10. /\ plain \in Nat
       /\ plain >= 8000 <=> 2 * t + Full >= (2 * Full) * 8000
       /\ plain >= 6000 <=> 2 * t + Full >= (2 * Full) * 6000
  <2>1. plain = Rounded(t, Full)
    BY <1>9
  <2> HIDE DEF plain, sum
  <2>2. plain \in Nat /\ \A k \in Nat : plain >= k <=> 2 * t + Full >= (2 * Full) * k
    BY <2>1, <1>9, RoundedAt
  <2>3. 8000 \in Nat /\ 6000 \in Nat
    OBVIOUS
  <2> QED BY <2>2, <2>3
<1> HIDE DEF sum, plain
<1>11. score \in Nat /\ (score >= 8000 => plain >= 8000) /\ (~cut /\ score < 6000 => ~(plain >= 6000))
  <2>1. Min({plain, 3900}) = IF plain <= 3900 THEN plain ELSE 3900
    BY <1>10, OfTwo
  <2> QED BY <1>7, <1>10, <2>1
<1>12. ASSUME score >= 8000
       PROVE  strong >= (IF cut THEN target ELSE 1)
  <2>1. 2 * t + Full >= (2 * Full) * 8000
    BY <1>10, <1>11, <1>12
  <2>2. redundancy # 0
    BY <1>2, <1>4, <1>5, <1>6, <1>8, <1>9, <2>1
  <2>3. cut => ~(2 * redundancy <= Full)
    BY <1>2, <1>4, <1>5, <1>6, <1>8, <1>9, <2>1
  <2> QED BY <1>1, <1>6, <2>2, <2>3
<1>13. ASSUME score < 6000, RouterReasons(strong, alternates, best, cut, routers) = {}
       PROVE  FALSE
  <2> DEFINE pairs == {<<"LOW_ROUTER_REDUNDANCY", strong < target>>, <<"NO_ALTERNATE_PATH", alternates < 1>>,
                       <<"WEAK_BACKBONE_PATH", b < Half>>, <<"ARTICULATION_ROUTER", cut>>,
                       <<"HIGH_BOTTLENECK_CENTRALITY", cut>>}
  <2>1. Where(pairs) = {}
    BY <1>13 DEF RouterReasons, target, b
  <2>2. ~(strong < target) /\ ~(alternates < 1) /\ ~(b < Half) /\ ~cut
    <3>1. /\ strong < target => <<"LOW_ROUTER_REDUNDANCY", TRUE>> \in pairs
          /\ alternates < 1 => <<"NO_ALTERNATE_PATH", TRUE>> \in pairs
          /\ b < Half => <<"WEAK_BACKBONE_PATH", TRUE>> \in pairs
          /\ cut => <<"ARTICULATION_ROUTER", TRUE>> \in pairs
      OBVIOUS
    <3> HIDE DEF pairs
    <3> QED BY <2>1, <3>1, NoReason
  <2>3. b >= Half /\ alternates >= 1 /\ strong >= target
    BY <1>1, <1>2, <1>3, <2>2
  <2>4. ~(2 * t + Full >= (2 * Full) * 6000)
    BY <1>10, <1>11, <1>13, <2>2
  <2> QED BY <1>2, <1>3, <1>4, <1>5, <1>6, <1>8, <1>9, <2>2, <2>3, <2>4
<1> QED BY <1>11, <1>12, <1>13 DEF RouterTold, target, score

LEMMA EndUnexplained ==
  ASSUME NEW link \in Nat, NEW moves \in Nat, NEW parent \in Nat, EndReasons(link, moves, parent) = {}
  PROVE  ~(Clamp(link) < Half) /\ ~(moves >= 3) /\ ~(Clamp(parent) < 6000)
<1> DEFINE fragile == 6000
           pairs == {<<"MARGINAL_PARENT_LINK", Clamp(link) < Half>>, <<"PARENT_FLAPPING", moves >= 3>>,
                     <<"FRAGILE_PARENT_ROUTER", Clamp(parent) < fragile>>}
<1>1. Where(pairs) = {}
  BY DEF EndReasons
<1> HIDE DEF fragile
<1>2. /\ Clamp(link) < Half => <<"MARGINAL_PARENT_LINK", TRUE>> \in pairs
      /\ moves >= 3 => <<"PARENT_FLAPPING", TRUE>> \in pairs
      /\ Clamp(parent) < fragile => <<"FRAGILE_PARENT_ROUTER", TRUE>> \in pairs
  OBVIOUS
<1> HIDE DEF pairs
<1>3. ~(Clamp(link) < Half) /\ ~(moves >= 3) /\ ~(Clamp(parent) < fragile)
  BY <1>1, <1>2, NoReason
<1> QED BY <1>3 DEF fragile

\* What a healthy end device has, and what a critical one is told.
EndTold(link, moves, parent, retries) ==
  LET score == EndScore(link, moves, parent, retries)
  IN  /\ score \in Nat
      /\ score >= 8000 => link >= Half
      /\ score < 4000 => EndReasons(link, moves, parent) # {}

LEMMA EndScores ==
  ASSUME NEW link \in Nat, NEW moves \in Nat, NEW parent \in Nat, NEW retries \in Nat \cup {None}
  PROVE  EndTold(link, moves, parent, retries)
<1> DEFINE score == EndScore(link, moves, parent, retries)
           l == Clamp(link)
           m == Clamp(Rounded(Full * moves, 3))
           p == Clamp(parent)
           r == Retries(retries)
           sum == 45 * l + 25 * (Full - m) + 20 * p + 10 * r
<1>1. Full = 10000 /\ Half = 5000
  BY DEF Full, Half
<1>2. /\ l \in Nat /\ l <= Full /\ p \in Nat /\ p <= Full /\ r \in Nat /\ r <= Full
  <2>1. l \in Score /\ p \in Score /\ r \in Score
    BY ClampScore, PartTypes
  <2> QED BY <2>1 DEF Score
<1>3. link < Half => l < Half
  BY <1>1, Clamped
<1>4. m \in Nat /\ m <= Full /\ (moves < 3 => m <= 6667)
  <2>1. Full * moves \in Nat /\ 3 \in Nat \ {0}
    BY <1>1
  <2>2. PICK x \in Nat : x = Rounded(Full * moves, 3)
    BY <2>1, RoundedType
  <2>3. x = (20000 * moves + 3) \div 6
    BY <1>1, <2>2 DEF Rounded
  <2>4. moves < 3 => x <= 6667
    BY <2>3
  <2>5. m = Clamp(x)
    BY <2>2
  <2>6. Clamp(x) \in Score /\ Clamp(x) = IF x < 0 THEN 0 ELSE IF x > Full THEN Full ELSE x
    BY Clamped, ClampScore
  <2> HIDE DEF m
  <2> QED BY <1>1, <2>4, <2>5, <2>6 DEF Score
<1>5. score = Rounded(sum, 100)
  BY DEF EndScore
<1> HIDE DEF l, m, p, r, score
<1>6. PICK t \in Nat : t = sum /\ t = 45 * l + 25 * (Full - m) + 20 * p + 10 * r
  BY <1>1, <1>2, <1>4
<1> HIDE DEF sum
<1>7. /\ score \in Nat
      /\ score >= 8000 <=> 2 * t + 100 >= 200 * 8000
      /\ score >= 4000 <=> 2 * t + 100 >= 200 * 4000
  <2>1. score \in Nat /\ \A k \in Nat : score >= k <=> 2 * t + 100 >= 200 * k
    BY <1>5, <1>6, RoundedAt
  <2>2. 8000 \in Nat /\ 4000 \in Nat
    OBVIOUS
  <2> QED BY <2>1, <2>2
<1>8. score >= 8000 => link >= Half
  <2>1. score >= 8000 => l >= Half
    BY <1>1, <1>2, <1>4, <1>6, <1>7
  <2> QED BY <1>1, <1>2, <1>3, <2>1
<1>9. ASSUME score < 4000, EndReasons(link, moves, parent) = {}
      PROVE  FALSE
  <2>2. ~(l < Half) /\ ~(moves >= 3) /\ ~(p < 6000)
    BY <1>9, EndUnexplained DEF l, p
  <2>3. ~(2 * t + 100 >= 200 * 4000)
    <3>1. ~(score >= 4000)
      BY <1>7, <1>9
    <3> QED BY <1>7, <3>1
  <2> QED BY <1>1, <1>2, <1>4, <1>6, <2>2, <2>3
<1> QED BY <1>7, <1>8, <1>9 DEF score, EndTold

\* A healthy network has a third of its redundancy, up to the rounding.
Earned(score, redundancy) == score >= 8000 => 3 * redundancy >= Full - 4

LEMMA NetworkScores ==
  ASSUME NEW redundancy \in Int, NEW path \in Int, NEW level \in Int, NEW stability \in Int,
         NEW bottleneck \in Int, NEW split \in Int
  PROVE  Earned(NetworkScore(redundancy, path, level, stability, bottleneck, split), redundancy)
<1> SUFFICES ASSUME NetworkScore(redundancy, path, level, stability, bottleneck, split) >= 8000
             PROVE  3 * redundancy >= Full - 4
  BY DEF Earned
<1> DEFINE a == Clamp(redundancy)
           b == Clamp(path)
           c == Clamp(level)
           d == Clamp(stability)
           e == Clamp(bottleneck)
           f == Clamp(split)
           sum == 30 * a + 20 * b + 20 * c + 15 * d + 10 * (Full - e) + 5 * (Full - f)
<1>1. Full = 10000
  BY DEF Full
<1>2. /\ a \in Nat /\ b \in Nat /\ c \in Nat /\ d \in Nat /\ e \in Nat /\ f \in Nat
      /\ a <= Full /\ b <= Full /\ c <= Full /\ d <= Full /\ e <= Full /\ f <= Full
  BY ClampScore DEF Score
<1>3. 3 * redundancy < Full - 4 => 3 * a < Full - 4
  BY <1>1, Clamped
<1>4. Rounded(sum, 100) >= 8000
  BY DEF NetworkScore
<1> HIDE DEF a, b, c, d, e, f
<1>5. PICK t \in Nat : t = sum /\ t = 30 * a + 20 * b + 20 * c + 15 * d + 10 * (Full - e) + 5 * (Full - f)
  BY <1>1, <1>2
<1> HIDE DEF sum
<1>6. 2 * t + 100 >= 200 * 8000
  <2>1. \A k \in Nat : Rounded(t, 100) >= k <=> 2 * t + 100 >= 200 * k
    BY RoundedAt
  <2>2. 8000 \in Nat
    OBVIOUS
  <2>3. Rounded(t, 100) >= 8000
    BY <1>4, <1>5
  <2> QED BY <2>1, <2>2, <2>3
<1>7. ~(3 * a < Full - 4)
  BY <1>1, <1>2, <1>5, <1>6
<1> QED BY <1>1, <1>3, <1>7
-----------------------------------------------------------------------------
(* what a request has read *)

\* The edges it scores, the readings of the other direction, and the counters.
Seen(s) ==
  /\ IsFiniteSet(s.edges)
  /\ \A edge \in s.edges : edge.from \in Eui /\ edge.to \in Eui /\ edge.row \in PeerReading
  /\ s.back \in [Eui \X Eui -> PeerRow \cup {None}]
  /\ s.counts \in [Eui -> CountsReading]

LEMMA EdgesSeen ==
  ASSUME NEW ns, NEW pr \in [Eui \X Eui -> PeerRow \cup {None}]
  PROVE  /\ IsFiniteSet(Edges(ns, pr))
         /\ \A edge \in Edges(ns, pr) : edge.from \in Eui /\ edge.to \in Eui /\ edge.row \in PeerReading
<1> DEFINE S == {q \in Listed(ns) \X Listed(ns) :
                   /\ Reports(pr, q[1], q[2])
                    /\ ~(q[2] < q[1] /\ IsPeer(ns, pr, q[1], q[2]) /\ IsPeer(ns, pr, q[2], q[1]))}
           f == [p \in S |-> [from |-> p[1], to |-> p[2], class |-> ClassOf(ns, pr, p[1], p[2]),
                              row |-> pr[p]]]
<1>1. IsFiniteSet(S)
  <2>1. Listed(ns) \in SUBSET Eui /\ IsFiniteSet(Eui)
    BY TablesAssumption DEF Listed
  <2>2. IsFiniteSet(Listed(ns))
    BY <2>1, FS_Subset
  <2>3. IsFiniteSet(Listed(ns) \X Listed(ns))
    BY <2>2, FS_Product
  <2>4. S \in SUBSET (Listed(ns) \X Listed(ns))
    OBVIOUS
  <2> HIDE DEF S
  <2> QED BY <2>3, <2>4, FS_Subset
<1>2. Edges(ns, pr) = {f[p] : p \in S}
  BY DEF Edges
<1>3. \A p \in S : f[p].from \in Eui /\ f[p].to \in Eui /\ f[p].row \in PeerReading
  <2> TAKE p \in S
  <2>1. p[1] \in Eui /\ p[2] \in Eui /\ p = <<p[1], p[2]>> /\ pr[<<p[1], p[2]>>] # None
    BY DEF Listed, Reports
  <2>2. pr[p] \in PeerReading
    BY <2>1, TablesAssumption
  <2>3. f[p].from = p[1] /\ f[p].to = p[2] /\ f[p].row = pr[p]
    OBVIOUS
  <2> QED BY <2>1, <2>2, <2>3
<1>4. f \in Surjection(S, {f[p] : p \in S})
  <2> HIDE DEF S
  <2> QED BY DEF Surjection
<1> HIDE DEF S, f
<1>5. IsFiniteSet({f[p] : p \in S})
  BY <1>1, <1>4, FS_Surjection
<1> QED BY <1>2, <1>3, <1>5

LEMMA FewDevices ==
  /\ \A S \in SUBSET Eui : IsFiniteSet(S) /\ Cardinality(S) \in Nat
  /\ \A ns : Routers(ns) \in SUBSET Eui /\ Listed(ns) \in SUBSET Eui
<1>1. IsFiniteSet(Eui)
  BY TablesAssumption
<1>2. \A S \in SUBSET Eui : IsFiniteSet(S) /\ Cardinality(S) \in Nat
  BY <1>1, FS_Subset, FS_CardinalityType
<1> QED BY <1>2 DEF Routers, Listed

\* The scores around a device are numbers.
LEMMA ScoresSeen ==
  ASSUME NEW s, Seen(s)
  PROVE  \A edge \in s.edges : ScoreOf(s, edge) \in Nat
<1> TAKE edge \in s.edges
<1>1. edge.from \in Eui /\ edge.to \in Eui /\ edge.row \in PeerReading
  BY DEF Seen
<1>2. Back(s, edge) \in Int \cup {None}
  <2>1. s.back[<<edge.to, edge.from>>] \in PeerRow \cup {None}
    BY <1>1 DEF Seen
  <2>2. CASE Reports(s.back, edge.to, edge.from)
    <3>1. s.back[<<edge.to, edge.from>>] \in PeerReading
      BY <2>1, <2>2, TablesAssumption DEF Reports
    <3>2. s.back[<<edge.to, edge.from>>].rssi \in Int \cup {None}
      BY <3>1 DEF PeerReading
    <3> QED BY <2>2, <3>2 DEF Back
  <2>3. CASE ~Reports(s.back, edge.to, edge.from)
    BY <2>3 DEF Back
  <2> QED BY <2>2, <2>3
<1> QED BY <1>1, <1>2, EdgeScoreType DEF ScoreOf

LEMMA AroundSeen ==
  ASSUME NEW s, Seen(s), NEW e
  PROVE  Strong(s, e) \in Nat /\ Alternates(s, e) \in Nat /\ Best(s, e) \in Nat
<1>1. \A score : Near(s, e, score) \in SUBSET Eui
  <2>1. \A edge \in Ends(s, e) : edge.from \in Eui /\ edge.to \in Eui
    BY DEF Ends, Peers, Seen
  <2> QED BY <2>1 DEF Near
<1>2. Strong(s, e) \in Nat
  BY <1>1, FewDevices DEF Strong
<1>3. Alternates(s, e) \in Nat
  <2>1. PICK n \in Nat : n = Cardinality(Near(s, e, Half))
    BY <1>1, FewDevices
  <2>2. PICK m \in Int : m = n - 1
    OBVIOUS
  <2>3. Max({0, m}) = IF 0 <= m THEN m ELSE 0
    BY OfTwo
  <2> QED BY <2>1, <2>2, <2>3 DEF Alternates
<1>4. Best(s, e) \in Nat
  <2> DEFINE S == Ends(s, e)
             f == [edge \in S |-> ScoreOf(s, edge)]
             T == {f[edge] : edge \in S}
  <2>1. S \in SUBSET s.edges /\ IsFiniteSet(s.edges)
    BY DEF Ends, Peers, Seen
  <2>2. IsFiniteSet(S) /\ \A edge \in S : f[edge] \in Nat
    <3>1. \A edge \in S : f[edge] \in Nat
      BY <2>1, ScoresSeen
    <3> HIDE DEF S, f
    <3> QED BY <2>1, <3>1, FS_Subset
  <2>3. {ScoreOf(s, edge) : edge \in Ends(s, e)} = T
    OBVIOUS
  <2> HIDE DEF S
  <2>4. f \in Surjection(S, T)
    BY DEF Surjection
  <2>5. Best(s, e) = Max({0} \cup T)
    BY <2>3 DEF Best
  <2>6. T \in SUBSET Nat
    BY <2>2
  <2> HIDE DEF f, T
  <2>7. IsFiniteSet(T)
    BY <2>2, <2>4, FS_Surjection
  <2>8. IsFiniteSet({0} \cup T)
    <3>1. IsFiniteSet({0})
      BY FS_Singleton
    <3> QED BY <2>7, <3>1, FS_Union
  <2>9. {0} \cup T \in SUBSET Nat /\ {0} \cup T # {}
    BY <2>6
  <2> QED BY <2>5, <2>8, <2>9, MaxIs
<1> QED BY <1>2, <1>3, <1>4

LEMMA DeltaIs ==
  ASSUME NEW pair \in (Nat \X Nat) \cup {None}
  PROVE  Delta(pair) \in Nat \cup {None}
<1>1. CASE pair = None
  BY <1>1 DEF Delta
<1>2. CASE pair # None
  <2>1. pair[1] \in Nat /\ pair[2] \in Nat
    BY <1>2
  <2> QED BY <1>2, <2>1 DEF Delta
<1> QED BY <1>1, <1>2

LEMMA CountsSeen ==
  ASSUME NEW s, Seen(s), NEW e \in Eui
  PROVE  /\ Delta(s.counts[e].retries) \in Nat \cup {None} /\ s.counts[e].age \in Nat \cup {None}
         /\ Moves(s, e) \in Nat
<1>1. s.counts[e] \in CountsReading
  BY DEF Seen
<1>2. /\ s.counts[e].retries \in (Nat \X Nat) \cup {None} /\ s.counts[e].moves \in (Nat \X Nat) \cup {None}
      /\ s.counts[e].age \in Nat \cup {None}
  BY <1>1 DEF CountsReading
<1>3. Delta(s.counts[e].retries) \in Nat \cup {None} /\ Delta(s.counts[e].moves) \in Nat \cup {None}
  BY <1>2, DeltaIs
<1> QED BY <1>2, <1>3 DEF Moves

\* The health of a router ...
LEMMA RouterEarns ==
  ASSUME NEW s, Seen(s), NEW e \in Eui
  PROVE  /\ RouterHealth(s, e) \in Nat
         /\ RouterHealth(s, e) >= 8000 => Strong(s, e) >= (IF IsCut(s, e) THEN Target(s) ELSE 1)
         /\ RouterHealth(s, e) < 6000 => RouterWhy(s, e) # {}
<1>1. PICK n \in Nat : n = Cardinality(Routers(s.listed))
  BY FewDevices
<1>2. PICK cut \in BOOLEAN : cut <=> IsCut(s, e)
  OBVIOUS
<1>3. PICK strong \in Nat, alternates \in Nat, best \in Nat :
        strong = Strong(s, e) /\ alternates = Alternates(s, e) /\ best = Best(s, e)
  <2>1. Strong(s, e) \in Nat /\ Alternates(s, e) \in Nat /\ Best(s, e) \in Nat
    BY AroundSeen
  <2> QED BY <2>1
<1>4. PICK retries \in Nat \cup {None}, age \in Nat \cup {None} :
        retries = Delta(s.counts[e].retries) /\ age = s.counts[e].age
  BY CountsSeen
<1>5. IsCut(s, e) = cut
  BY <1>2 DEF IsCut
<1>6. /\ RouterHealth(s, e) = RouterScore(strong, alternates, best, retries, age, cut, n)
      /\ RouterWhy(s, e) = RouterReasons(strong, alternates, best, cut, n)
      /\ Target(s) = RouterTarget(n)
  BY <1>1, <1>3, <1>4, <1>5 DEF RouterHealth, RouterWhy, Target
<1>7. RouterTold(strong, alternates, best, retries, age, cut, n)
  BY RouterScores
<1> QED BY <1>3, <1>5, <1>6, <1>7 DEF RouterTold

\* ... and of an end device.
LEMMA EndEarns ==
  ASSUME NEW s, Seen(s), NEW e \in Eui
  PROVE  /\ EndHealth(s, e) \in Nat
         /\ EndHealth(s, e) >= 8000 => LinkToParent(s, e) >= Half
         /\ EndHealth(s, e) < 4000 => EndWhy(s, e) # {}
<1>1. LinkToParent(s, e) \in Nat
  <2> DEFINE kept == {edge \in s.edges : edge.from = s.kids[e] /\ edge.to = e}
  <2>1. kept # {} => (CHOOSE edge \in kept : TRUE) \in kept
    OBVIOUS
  <2>2. LinkToParent(s, e) = IF kept = {} THEN Half ELSE ScoreOf(s, CHOOSE edge \in kept : TRUE)
    BY DEF LinkToParent
  <2>3. \A edge \in kept : ScoreOf(s, edge) \in Nat
    BY ScoresSeen
  <2> HIDE DEF kept
  <2> QED BY <2>1, <2>2, <2>3, HalfScore
<1>2. ParentHealth(s, e) \in Nat
  <2> DEFINE parent == s.kids[e]
  <2>1. (ParentHealth(s, e) = RouterHealth(s, parent) /\ parent \in Eui) \/ ParentHealth(s, e) = Half
    BY FewDevices DEF ParentHealth
  <2> HIDE DEF parent
  <2> QED BY <2>1, RouterEarns, HalfScore
<1>3. Moves(s, e) \in Nat /\ Delta(s.counts[e].retries) \in Nat \cup {None}
  BY CountsSeen
<1>4. PICK link \in Nat, parent \in Nat, moves \in Nat, retries \in Nat \cup {None} :
        /\ link = LinkToParent(s, e) /\ parent = ParentHealth(s, e)
        /\ moves = Moves(s, e) /\ retries = Delta(s.counts[e].retries)
  BY <1>1, <1>2, <1>3
<1>5. EndHealth(s, e) = EndScore(link, moves, parent, retries) /\ EndWhy(s, e) = EndReasons(link, moves, parent)
  BY <1>4 DEF EndHealth, EndWhy
<1>6. EndTold(link, moves, parent, retries)
  BY EndScores
<1> QED BY <1>4, <1>5, <1>6 DEF EndTold

LEMMA MeanScoreType ==
  ASSUME NEW f, IsFiniteSet(DOMAIN f), \A x \in DOMAIN f : f[x] \in Int
  PROVE  Mean(f) \in Int
<1>1. CASE DOMAIN f = {}
  BY <1>1 DEF Mean
<1>2. CASE DOMAIN f # {}
  <2>1. PICK n \in Nat \ {0} : n = Cardinality(DOMAIN f)
    <3>1. Cardinality(DOMAIN f) \in Nat
      BY FS_CardinalityType
    <3>2. Cardinality(DOMAIN f) # 0
      BY <1>2, FS_EmptySet
    <3> QED BY <3>1, <3>2
  <2>2. PICK sum \in Int : sum = SumFunctionOnSet(f, DOMAIN f)
    BY SumType
  <2>3. Mean(f) = sum \div n
    BY <1>2, <2>1, <2>2 DEF Mean
  <2> QED BY <2>1, <2>2, <2>3
<1> QED BY <1>1, <1>2

LEMMA PathType ==
  ASSUME NEW best \in Nat, NEW alternates \in Nat
  PROVE  RouterPath(best, alternates) \in Nat
<1>1. Full \in Nat /\ Full * alternates \in Nat
  BY DEF Full
<1>2. Min({Full, Full * alternates}) \in Nat
  <2>1. PICK m \in Nat : m = Full * alternates
    BY <1>1
  <2>2. Min({Full, m}) = IF Full <= m THEN Full ELSE m
    BY <1>1, OfTwo
  <2> QED BY <1>1, <2>1, <2>2
<1>3. Clamp(best) \in Nat
  <2>1. Clamp(best) \in Score
    BY ClampScore
  <2> QED BY <2>1, HalfScore
<1>4. PICK a \in Nat, b \in Nat : a = Clamp(best) /\ b = Min({Full, Full * alternates})
  BY <1>2, <1>3
<1>5. RouterPath(best, alternates) = 60 * a + 40 * b
  BY <1>4 DEF RouterPath
<1> QED BY <1>5

LEMMA ShareType ==
  ASSUME NEW n \in Nat, NEW m \in Nat
  PROVE  (Full * n) \div Max({1, m}) \in Int
<1>1. Max({1, m}) = IF 1 <= m THEN m ELSE 1
  BY OfTwo
<1>2. PICK k \in Nat \ {0} : k = Max({1, m})
  BY <1>1
<1>3. PICK f \in Nat : f = Full * n
  BY DEF Full
<1>4. f \div k \in Int
  OBVIOUS
<1> QED BY <1>2, <1>3, <1>4

\* A healthy network has a third of its redundancy, whatever it was read of.
LEMMA NetworkEarns ==
  ASSUME NEW s, Seen(s)
  PROVE  Health(s).network >= 8000 => 3 * Redundancy(s) >= Full - 4
<1> DEFINE routers == Routers(s.listed)
           listed  == Listed(s.listed)
           score   == [e \in listed |-> IF e \in routers THEN RouterHealth(s, e) ELSE EndHealth(s, e)]
           paths   == [e \in routers |-> RouterPath(Best(s, e), Alternates(s, e)) \div 100]
           levels   == [edge \in {x \in s.edges : x.class # "other"} |-> ScoreOf(s, edge)]
           shares  == [e \in routers |-> RouterRedundancy(Strong(s, e), Target(s))]
           bottleneck == (Full * Cardinality({e \in routers : IsCut(s, e)}))
                           \div Max({1, Cardinality(routers)})
           split   == IF Cardinality({PartitionOf(s.shown, e) : e \in Listed(s.shown)} \ {None}) > 1
                      THEN Full ELSE 0
<1>1. IsFiniteSet(routers) /\ IsFiniteSet(listed) /\ routers \in SUBSET Eui /\ listed \in SUBSET Eui
  BY FewDevices
<1>2. Health(s).network =
        NetworkScore(Redundancy(s), Mean(paths), Mean(levels), Mean(score), bottleneck, split)
  BY DEF Health
<1>3. Redundancy(s) = Mean(shares)
  BY DEF Redundancy
<1>4. Mean(shares) \in Int
  <2>1. ASSUME NEW e \in routers PROVE shares[e] \in Int
    <3>1. PICK strong \in Nat, target \in Nat : /\ strong = Strong(s, e) /\ target = Target(s)
                                                /\ target = 1 \/ target = 2
      <4>1. Strong(s, e) \in Nat
        BY AroundSeen
      <4>2. Cardinality(routers) \in Nat
        BY <1>1, FewDevices
      <4>3. Target(s) = 1 \/ Target(s) = 2
        BY <4>2, TargetIs DEF Target
      <4> QED BY <4>1, <4>3
    <3>2. RouterRedundancy(strong, target) \in Score
      BY <3>1, RedundancyIs
    <3>3. RouterRedundancy(strong, target) \in Int
      BY <3>2 DEF Score
    <3>4. shares[e] = RouterRedundancy(strong, target)
      BY <3>1
    <3> QED BY <3>3, <3>4
  <2>2. DOMAIN shares = routers
    OBVIOUS
  <2> HIDE DEF shares, routers
  <2> QED BY <1>1, <2>1, <2>2, MeanScoreType
<1>5. Mean(paths) \in Int
  <2>1. ASSUME NEW e \in routers PROVE paths[e] \in Int
    <3>1. Best(s, e) \in Nat /\ Alternates(s, e) \in Nat
      BY AroundSeen
    <3>2. PICK p \in Nat : p = RouterPath(Best(s, e), Alternates(s, e))
      BY <3>1, PathType
    <3>3. paths[e] = p \div 100
      BY <3>2
    <3> QED BY <3>3
  <2>2. DOMAIN paths = routers
    OBVIOUS
  <2> HIDE DEF paths, routers
  <2> QED BY <1>1, <2>1, <2>2, MeanScoreType
<1>6. Mean(levels) \in Int
  <2>1. DOMAIN levels = {x \in s.edges : x.class # "other"} /\ DOMAIN levels \in SUBSET s.edges
    OBVIOUS
  <2>2. \A edge \in DOMAIN levels : levels[edge] \in Int
    BY ScoresSeen
  <2>3. IsFiniteSet(s.edges)
    BY DEF Seen
  <2> HIDE DEF levels
  <2>4. IsFiniteSet(DOMAIN levels)
    BY <2>1, <2>3, FS_Subset
  <2> QED BY <2>2, <2>4, MeanScoreType
<1>7. Mean(score) \in Int
  <2>1. ASSUME NEW e \in listed PROVE score[e] \in Int
    <3>1. RouterHealth(s, e) \in Nat
      BY <1>1, RouterEarns
    <3>2. EndHealth(s, e) \in Nat
      BY <1>1, EndEarns
    <3> QED BY <3>1, <3>2
  <2>2. DOMAIN score = listed
    OBVIOUS
  <2> HIDE DEF score, listed
  <2> QED BY <1>1, <2>1, <2>2, MeanScoreType
<1>8. bottleneck \in Int
  <2>1. {e \in routers : IsCut(s, e)} \in SUBSET Eui
    BY <1>1
  <2>2. Cardinality({e \in routers : IsCut(s, e)}) \in Nat /\ Cardinality(routers) \in Nat
    BY <1>1, <2>1, FewDevices
  <2> QED BY <2>2, ShareType
<1>9. split \in Int
  BY DEF Full
<1> HIDE DEF routers, listed, score, paths, levels, shares, bottleneck, split
<1>10. Redundancy(s) \in Int
  BY <1>3, <1>4
<1>11. PICK a \in Int, b \in Int, c \in Int, d \in Int, f \in Int, g \in Int :
         /\ a = Redundancy(s) /\ b = Mean(paths) /\ c = Mean(levels) /\ d = Mean(score)
         /\ f = bottleneck /\ g = split
  BY <1>5, <1>6, <1>7, <1>8, <1>9, <1>10
<1>12. Earned(NetworkScore(a, b, c, d, f, g), a)
  BY NetworkScores
<1> QED BY <1>2, <1>11, <1>12 DEF Earned

LEMMA BandIs ==
  ASSUME NEW x
  PROVE  /\ Band(x) = "healthy" => x >= 8000
         /\ x \in Nat /\ Band(x) \in {"investigate", "critical"} => x < 6000
         /\ x \in Nat /\ Band(x) = "critical" => x < 4000
BY DEF Band

\* What is said of a device depends on what was read, not on the answer.
SameReads(s, t) ==
  s.edges = t.edges /\ s.back = t.back /\ s.listed = t.listed /\ s.kids = t.kids /\ s.cut = t.cut

LEMMA SameSaid ==
  ASSUME NEW s, NEW t, SameReads(s, t)
  PROVE  /\ \A e : /\ Strong(s, e) = Strong(t, e) /\ IsCut(s, e) = IsCut(t, e)
                   /\ LinkToParent(s, e) = LinkToParent(t, e)
         /\ Target(s) = Target(t) /\ Redundancy(s) = Redundancy(t)
<1>1. \A edge : ScoreOf(s, edge) = ScoreOf(t, edge)
  BY DEF SameReads, ScoreOf, Back
<1>2. ASSUME NEW e
      PROVE  Strong(s, e) = Strong(t, e)
  <2>1. Ends(s, e) = Ends(t, e)
    BY DEF SameReads, Ends
  <2>2. ASSUME NEW score
        PROVE  Near(s, e, score) = Near(t, e, score)
    <3> DEFINE A == {x \in Ends(s, e) : ScoreOf(s, x) >= score}
               B == {x \in Ends(t, e) : ScoreOf(t, x) >= score}
    <3>1. A = B
      BY <1>1, <2>1
    <3>2. /\ Near(s, e, score) = UNION {{edge.from, edge.to} \ {e} : edge \in A}
          /\ Near(t, e, score) = UNION {{edge.from, edge.to} \ {e} : edge \in B}
      BY DEF Near
    <3> HIDE DEF A, B
    <3> QED BY <3>1, <3>2
  <2>3. Near(s, e, 7500) = Near(t, e, 7500)
    BY <2>2
  <2> QED BY <2>3 DEF Strong
<1>3. \A e : IsCut(s, e) = IsCut(t, e)
  BY DEF SameReads, IsCut
<1>4. ASSUME NEW e
      PROVE  LinkToParent(s, e) = LinkToParent(t, e)
  <2> DEFINE kept == {edge \in s.edges : edge.from = s.kids[e] /\ edge.to = e}
           others == {edge \in t.edges : edge.from = t.kids[e] /\ edge.to = e}
  <2>1. kept = others
    BY DEF SameReads
  <2>2. /\ LinkToParent(s, e) = IF kept = {} THEN Half ELSE ScoreOf(s, CHOOSE edge \in kept : TRUE)
        /\ LinkToParent(t, e) = IF others = {} THEN Half ELSE ScoreOf(t, CHOOSE edge \in others : TRUE)
    BY DEF LinkToParent
  <2> HIDE DEF kept, others
  <2> QED BY <1>1, <2>1, <2>2
<1>5. Target(s) = Target(t)
  BY DEF SameReads, Target
<1>6. Redundancy(s) = Redundancy(t)
  <2> DEFINE f == [e \in Routers(s.listed) |-> RouterRedundancy(Strong(s, e), Target(s))]
             g == [e \in Routers(t.listed) |-> RouterRedundancy(Strong(t, e), Target(t))]
  <2>1. f = g
    BY <1>2, <1>5 DEF SameReads
  <2>2. Redundancy(s) = Mean(f) /\ Redundancy(t) = Mean(g)
    BY DEF Redundancy
  <2> HIDE DEF f, g
  <2> QED BY <2>1, <2>2
<1> QED BY <1>2, <1>3, <1>4, <1>5, <1>6

\* What a diagnosis has read by the time it concludes; the search runs before.
Fields == {"pc", "shown", "edges", "parent", "listed", "kids", "left", "back", "counts", "graph",
           "calls", "cut", "health", "facts", "placements"}
Diagnosed ==
  /\ DOMAIN scan = Fields
  /\ scan.pc \in {"nodes", "parents", "signals", "graph"} =>
       /\ IsFiniteSet(scan.edges)
       /\ \A edge \in scan.edges : edge.from \in Eui /\ edge.to \in Eui /\ edge.row \in PeerReading
  /\ scan.pc \in {"parents", "signals", "graph"} => scan.counts \in [Eui -> CountsReading]
  /\ scan.pc = "graph" => scan.back \in [Eui \X Eui -> PeerRow \cup {None}]
  /\ dfs # NoDfs => scan.pc = "graph"

\* Stating it of the health that is about to be the answer.
LEMMA Concluded ==
  ASSUME NEW s, Seen(s), NEW t, SameReads(s, t), t.health = Health(s)
  PROVE  /\ \A e \in Listed(t.listed) : Band(t.health.nodes[e]) = "healthy" =>
              IF e \in Routers(t.listed)
              THEN Strong(t, e) >= (IF IsCut(t, e) THEN Target(t) ELSE 1)
              ELSE LinkToParent(t, e) >= Half
         /\ Band(t.health.network) = "healthy" => 3 * Redundancy(t) >= Full - 4
         /\ \A e \in Listed(t.listed) :
              Band(t.health.nodes[e]) \in
                  (IF e \in Routers(t.listed) THEN {"investigate", "critical"} ELSE {"critical"}) =>
                t.health.why[e] # {}
<1>1. s.listed = t.listed
  BY DEF SameReads
<1>2. Band(t.health.network) = "healthy" => 3 * Redundancy(t) >= Full - 4
  <2>1. Redundancy(s) = Redundancy(t)
    BY SameSaid
  <2>2. Band(t.health.network) = "healthy" => t.health.network >= 8000
    BY BandIs
  <2> QED BY <2>1, <2>2, NetworkEarns
<1>3. ASSUME NEW e \in Listed(t.listed)
      PROVE  /\ Band(t.health.nodes[e]) = "healthy" =>
                  IF e \in Routers(t.listed)
                  THEN Strong(t, e) >= (IF IsCut(t, e) THEN Target(t) ELSE 1)
                  ELSE LinkToParent(t, e) >= Half
             /\ Band(t.health.nodes[e]) \in
                    (IF e \in Routers(t.listed) THEN {"investigate", "critical"} ELSE {"critical"}) =>
                  t.health.why[e] # {}
  <2>1. e \in Eui
    BY FewDevices
  <2>2. /\ t.health.nodes[e] = IF e \in Routers(s.listed) THEN RouterHealth(s, e) ELSE EndHealth(s, e)
        /\ t.health.why[e] = IF e \in Routers(s.listed) THEN RouterWhy(s, e) ELSE EndWhy(s, e)
    BY <1>1 DEF Health
  <2>3. /\ Strong(s, e) = Strong(t, e) /\ IsCut(s, e) = IsCut(t, e)
        /\ LinkToParent(s, e) = LinkToParent(t, e) /\ Target(s) = Target(t)
    BY SameSaid
  <2>4. CASE e \in Routers(t.listed)
    <3>1. /\ RouterHealth(s, e) \in Nat
          /\ RouterHealth(s, e) >= 8000 => Strong(t, e) >= (IF IsCut(t, e) THEN Target(t) ELSE 1)
          /\ RouterHealth(s, e) < 6000 => RouterWhy(s, e) # {}
      BY <2>1, <2>3, RouterEarns
    <3>2. t.health.nodes[e] = RouterHealth(s, e) /\ t.health.why[e] = RouterWhy(s, e)
      BY <1>1, <2>2, <2>4
    <3> QED BY <2>4, <3>1, <3>2, BandIs
  <2>5. CASE e \notin Routers(t.listed)
    <3>1. /\ EndHealth(s, e) \in Nat
          /\ EndHealth(s, e) >= 8000 => LinkToParent(t, e) >= Half
          /\ EndHealth(s, e) < 4000 => EndWhy(s, e) # {}
      BY <2>1, <2>3, EndEarns
    <3>2. t.health.nodes[e] = EndHealth(s, e) /\ t.health.why[e] = EndWhy(s, e)
      BY <1>1, <2>2, <2>5
    <3> QED BY <2>5, <3>1, <3>2, BandIs
  <2> QED BY <2>4, <2>5
<1> QED BY <1>2, <1>3

LEMMA ConcludeEarns ==
  ASSUME Diagnosed, Conclude
  PROVE  HealthyIsEarned' /\ BadIsExplained'
<1> DEFINE v == Health(scan)
           w == Facts(scan)
           p == Placements(scan, w)
<1>1. scan.pc = "graph" /\ Seen(scan) /\ DOMAIN scan = Fields
  BY DEF Conclude, Diagnosed, Seen
<1>2. scan' = [scan EXCEPT !.pc = "done", !.health = v, !.facts = w, !.placements = p]
  BY DEF Conclude
<1>3. PICK s, t : s = scan /\ t = scan'
  OBVIOUS
<1> HIDE DEF v, w, p
<1>4. SameReads(s, t) /\ t.health = v
  BY <1>1, <1>2, <1>3 DEF SameReads, Fields
<1>5. t.health = Health(s)
  BY <1>3, <1>4 DEF v
<1>6. Seen(s)
  BY <1>1, <1>3
<1>7. /\ \A e \in Listed(t.listed) : Band(t.health.nodes[e]) = "healthy" =>
           IF e \in Routers(t.listed)
           THEN Strong(t, e) >= (IF IsCut(t, e) THEN Target(t) ELSE 1)
           ELSE LinkToParent(t, e) >= Half
      /\ Band(t.health.network) = "healthy" => 3 * Redundancy(t) >= Full - 4
      /\ \A e \in Listed(t.listed) :
           Band(t.health.nodes[e]) \in
               (IF e \in Routers(t.listed) THEN {"investigate", "critical"} ELSE {"critical"}) =>
             t.health.why[e] # {}
  BY <1>4, <1>5, <1>6, Concluded
<1> QED BY <1>3, <1>7 DEF HealthyIsEarned, BadIsExplained

\* Reading the parents says nothing of what else was read.
LEMMA ParentsRead ==
  ASSUME DOMAIN scan = Fields, ReadParents \/ ReadSignals
  PROVE  \E left, kids : scan' = [scan EXCEPT !.pc = "signals", !.left = left, !.kids = kids]
<1>1. CASE ReadParents
  <2> DEFINE claimed == {e \in Eui : Claims(peer, e) # {}}
             asleep  == {e \in Listed(scan.listed) : RowOf(scan.listed, e).role = "sleepy"}
             left    == asleep \ claimed
  <2>1. PICK claimant : scan' = [scan EXCEPT !.pc = "signals", !.left = left,
                               !.kids = [e \in Eui |-> IF e \in claimed THEN claimant[e] ELSE None]]
    BY <1>1 DEF ReadParents
  <2> DEFINE kids == [e \in Eui |-> IF e \in claimed THEN claimant[e] ELSE None]
  <2>2. scan' = [scan EXCEPT !.pc = "signals", !.left = left, !.kids = kids]
    BY <2>1
  <2> HIDE DEF left, kids
  <2> QED BY <2>2
<1>2. CASE ReadSignals
  <2> DEFINE e == FirstOf(scan.listed, scan.left)
             left == scan.left \ {e}
  <2>1. PICK parent : scan' = [scan EXCEPT !.left = left, !.kids[e] = parent]
    BY <1>2 DEF ReadSignals
  <2> DEFINE kids == [scan.kids EXCEPT ![e] = parent]
  <2> HIDE DEF e, left
  <2>2. scan' = [scan EXCEPT !.left = left, !.kids = kids] /\ scan.pc = "signals"
    BY <1>2, <2>1 DEF ReadSignals
  <2> HIDE DEF left, kids
  <2>3. scan' = [scan EXCEPT !.pc = "signals", !.left = left, !.kids = kids]
    BY <2>2 DEF Fields
  <2> QED BY <2>3
<1> QED BY <1>1, <1>2

\* A step is one of the request's, or leaves it alone.
LEMMA DiagnosisOrNot ==
  ASSUME [ViewsNext]_viewVars
  PROVE  Diagnosing \/ UNCHANGED diagnosisVars
BY DEF ViewsNext, viewVars, Routing, SomeNode, SomeRoute, SomePeer, SomeCounts, diagnosisVars

LEMMA DiagnosedStep ==
  ASSUME TablesTyped, Diagnosed, HealthyIsEarned, BadIsExplained, [ViewsNext]_viewVars
  PROVE  Diagnosed' /\ HealthyIsEarned' /\ BadIsExplained'
<1> USE DEF Fields
<1>1. CASE UNCHANGED <<scan, dfs>>
  BY <1>1 DEF Diagnosed, HealthyIsEarned, BadIsExplained, Strong
<1>2. CASE ReadTopology
  <2> DEFINE shown == Collapsed(nodes)
  <2>1. scan' = [scan EXCEPT !.pc = "links", !.shown = shown]
    BY <1>2 DEF ReadTopology
  <2> HIDE DEF shown
  <2>2. scan'.pc = "links" /\ DOMAIN scan' = DOMAIN scan /\ dfs' = NoDfs
    BY <1>2, <2>1 DEF ReadTopology, Diagnosed
  <2> QED BY <2>2 DEF Diagnosed, HealthyIsEarned, BadIsExplained
<1>3. CASE ReadLinks
  <2> DEFINE edges == Edges(scan.shown, peer)
             parent == [e \in Eui |-> ParentOf(scan.shown, peer, e)]
  <2>1. scan' = [scan EXCEPT !.pc = "nodes", !.edges = edges, !.parent = parent]
    BY <1>3 DEF ReadLinks
  <2>2. /\ IsFiniteSet(edges)
        /\ \A edge \in edges : edge.from \in Eui /\ edge.to \in Eui /\ edge.row \in PeerReading
    BY EdgesSeen DEF TablesTyped
  <2> HIDE DEF edges, parent
  <2>3. scan'.pc = "nodes" /\ scan'.edges = edges /\ DOMAIN scan' = DOMAIN scan /\ dfs' = NoDfs
    BY <1>3, <2>1 DEF ReadLinks, Diagnosed
  <2> QED BY <2>2, <2>3 DEF Diagnosed, HealthyIsEarned, BadIsExplained
<1>4. CASE ReadNodes
  <2> DEFINE listed == Collapsed(nodes)
  <2>1. scan' = [scan EXCEPT !.pc = "parents", !.listed = listed, !.counts = counts]
    BY <1>4 DEF ReadNodes
  <2> HIDE DEF listed
  <2>2. /\ scan'.pc = "parents" /\ scan'.edges = scan.edges /\ scan'.counts = counts
        /\ DOMAIN scan' = DOMAIN scan /\ scan.pc = "nodes" /\ dfs' = NoDfs
    BY <1>4, <2>1 DEF ReadNodes, Diagnosed
  <2>3. counts \in [Eui -> CountsReading]
    BY TablesAssumption DEF TablesTyped
  <2> QED BY <2>2, <2>3 DEF Diagnosed, HealthyIsEarned, BadIsExplained
<1>5. CASE ReadParents \/ ReadSignals
  <2>1. \E left, kids : scan' = [scan EXCEPT !.pc = "signals", !.left = left, !.kids = kids]
    BY <1>5, ParentsRead DEF Diagnosed
  <2>2. /\ scan'.pc = "signals" /\ scan'.edges = scan.edges /\ scan'.counts = scan.counts
        /\ DOMAIN scan' = DOMAIN scan /\ scan.pc \in {"parents", "signals"} /\ dfs' = NoDfs
    BY <1>5, <2>1 DEF ReadParents, ReadSignals, Diagnosed
  <2> QED BY <2>2 DEF Diagnosed, HealthyIsEarned, BadIsExplained
<1>6. CASE ReadBack
  <2> DEFINE graph == [c \in {"health", "facts"} \X Partition |->
                         GraphOf(IF c[1] = "health" THEN scan.listed ELSE scan.shown, Peers(scan.edges), c[2])]
             left  == Listed(scan.listed)
             calls == {c \in DOMAIN graph : Asked(c[1], graph[c])}
  <2>1. scan' = [scan EXCEPT !.pc = "graph", !.back = peer, !.graph = graph, !.left = left, !.calls = calls]
    BY <1>6 DEF ReadBack
  <2> HIDE DEF graph, left, calls
  <2>2. /\ scan'.pc = "graph" /\ scan'.edges = scan.edges /\ scan'.back = peer
        /\ scan'.counts = scan.counts /\ DOMAIN scan' = DOMAIN scan /\ scan.pc = "signals"
    BY <1>6, <2>1 DEF Diagnosed, ReadBack
  <2> QED BY <2>2 DEF Diagnosed, TablesTyped, HealthyIsEarned, BadIsExplained
<1>7. CASE ReadCounts
  <2> DEFINE e == FirstOf(scan.listed, scan.left)
             left == scan.left \ {e}
             read == [scan.counts EXCEPT ![e] = [counts[e] EXCEPT !.age = scan.counts[e].age]]
  <2>1. scan' = [scan EXCEPT !.left = left, !.counts = read] /\ scan.pc = "graph" /\ dfs' = dfs
    BY <1>7 DEF ReadCounts
  <2>2. read \in [Eui -> CountsReading]
    <3>1. scan.counts \in [Eui -> CountsReading] /\ counts \in [Eui -> CountsReading]
      BY <2>1, TablesAssumption DEF Diagnosed, TablesTyped
    <3> HIDE DEF e
    <3>2. e \in Eui => [counts[e] EXCEPT !.age = scan.counts[e].age] \in CountsReading
      BY <3>1 DEF CountsReading
    <3> QED BY <3>1, <3>2
  <2> HIDE DEF e, left, read
  <2>3. /\ scan'.pc = "graph" /\ scan'.edges = scan.edges /\ scan'.back = scan.back
        /\ scan'.counts = read /\ DOMAIN scan' = DOMAIN scan
    BY <2>1 DEF Diagnosed
  <2> QED BY <2>1, <2>2, <2>3 DEF Diagnosed, HealthyIsEarned, BadIsExplained
<1>8. CASE Call
  <2>1. scan' = scan /\ scan.pc = "graph"
    BY <1>8 DEF Call
  <2> QED BY <2>1 DEF Diagnosed, HealthyIsEarned, BadIsExplained
<1>9. CASE Root \/ Look \/ Return
  <2>1. scan' = scan /\ dfs.pc = "run"
    BY <1>9 DEF Root, Look, Return
  <2>2. scan.pc = "graph"
    BY <2>1 DEF NoDfs, Diagnosed
  <2> QED BY <2>1, <2>2 DEF Diagnosed, HealthyIsEarned, BadIsExplained
<1>10. CASE Answer
  <2> DEFINE calls == scan.calls \ {dfs.call}
             cut   == scan.cut \cup ({dfs.call} \X dfs.cut)
  <2>1. scan' = [scan EXCEPT !.calls = calls, !.cut = cut]
    BY <1>10 DEF Answer
  <2> HIDE DEF calls, cut
  <2>2. dfs.pc = "run" /\ dfs' = NoDfs
    BY <1>10 DEF Answer
  <2>3. scan.pc = "graph"
    BY <2>2 DEF NoDfs, Diagnosed
  <2>4. /\ scan'.pc = "graph" /\ scan'.edges = scan.edges /\ scan'.back = scan.back
        /\ scan'.counts = scan.counts /\ DOMAIN scan' = DOMAIN scan
    BY <2>1, <2>3 DEF Diagnosed
  <2> QED BY <2>2, <2>3, <2>4 DEF Diagnosed, HealthyIsEarned, BadIsExplained
<1>11. CASE Conclude
  <2>1. HealthyIsEarned' /\ BadIsExplained'
    BY <1>11, ConcludeEarns
  <2> DEFINE health == Health(scan)
             facts  == Facts(scan)
             placements == Placements(scan, facts)
  <2>2. scan' = [scan EXCEPT !.pc = "done", !.health = health, !.facts = facts, !.placements = placements]
    BY <1>11 DEF Conclude
  <2> HIDE DEF health, facts, placements
  <2>3. scan'.pc = "done" /\ DOMAIN scan' = DOMAIN scan
    BY <2>2 DEF Diagnosed
  <2>4. dfs' = NoDfs
    BY <1>11 DEF Conclude
  <2> QED BY <2>1, <2>3, <2>4 DEF Diagnosed
<1> QED
  <2>1. CASE Diagnosing
    BY <2>1, <1>2, <1>3, <1>4, <1>5, <1>6, <1>7, <1>8, <1>9, <1>10, <1>11
       DEF Diagnosing, DiagnosisNext
  <2>2. CASE UNCHANGED diagnosisVars
    BY <2>2, <1>1 DEF diagnosisVars
  <2> QED BY <2>1, <2>2, DiagnosisOrNot

\* What the health request says can be relied on, whatever discovery writes
\* between its reads: a healthy device and a healthy network have what the band
\* promises (MeshDiagnosis, network_health.py).
THEOREM GoodBandsAreEarned == ViewsSpec => []HealthyIsEarned
<1>1. ViewsInit => Diagnosed /\ HealthyIsEarned /\ BadIsExplained
  BY DEF ViewsInit, Idle, Diagnosed, Fields, HealthyIsEarned, BadIsExplained
<1>2. TablesTyped /\ Diagnosed /\ HealthyIsEarned /\ BadIsExplained /\ [ViewsNext]_viewVars
        => Diagnosed' /\ HealthyIsEarned' /\ BadIsExplained'
  BY DiagnosedStep
<1> QED BY <1>1, <1>2, TablesStayTyped, PTL DEF ViewsSpec

\* ... and a router or an end device in a bad band is told why.
THEOREM BadBandsAreExplained == ViewsSpec => []BadIsExplained
<1>1. ViewsInit => Diagnosed /\ HealthyIsEarned /\ BadIsExplained
  BY DEF ViewsInit, Idle, Diagnosed, Fields, HealthyIsEarned, BadIsExplained
<1>2. TablesTyped /\ Diagnosed /\ HealthyIsEarned /\ BadIsExplained /\ [ViewsNext]_viewVars
        => Diagnosed' /\ HealthyIsEarned' /\ BadIsExplained'
  BY DiagnosedStep
<1> QED BY <1>1, <1>2, TablesStayTyped, PTL DEF ViewsSpec
-----------------------------------------------------------------------------
(* what is reached in a graph *)

\* The balls around `s`: one step wider each time.
Wider(next, b) == b \cup UNION {next[x] : x \in b}
Balls(next, s, n, g) == g = [k \in 0 .. n |-> IF k = 0 THEN {s} ELSE Wider(next, g[k - 1])]

Spread(next, s, n, g) ==
  \A k \in 0 .. n : g[k] = IF k = 0 THEN {s} ELSE Wider(next, g[k - 1])

LEMMA BallIs ==
  ASSUME NEW next, NEW s, NEW n, NEW g, Balls(next, s, n, g)
  PROVE  Spread(next, s, n, g)
<1> SUFFICES ASSUME NEW k \in 0 .. n
             PROVE  g[k] = IF k = 0 THEN {s} ELSE Wider(next, g[k - 1])
  BY DEF Spread
<1> DEFINE e == [j \in 0 .. n |-> IF j = 0 THEN {s} ELSE Wider(next, g[j - 1])]
<1>1. g = e
  BY DEF Balls
<1>2. e[k] = IF k = 0 THEN {s} ELSE Wider(next, g[k - 1])
  OBVIOUS
<1> HIDE DEF e
<1> QED BY <1>1, <1>2

LEMMA BallsExist ==
  ASSUME NEW next, NEW s, NEW n \in Nat
  PROVE  \E g : Balls(next, s, n, g)
<1> DEFINE T == {m \in Nat : \E g : Balls(next, s, m, g)}
<1>1. 0 \in T
  <2> DEFINE g == [k \in 0 .. 0 |-> {s}]
  <2>1. Balls(next, s, 0, g)
    BY DEF Balls
  <2> QED BY <2>1
<1>2. ASSUME NEW m \in T
      PROVE  m + 1 \in T
  <2>1. m \in Nat /\ m + 1 \in Nat
    OBVIOUS
  <2>2. PICK g : Balls(next, s, m, g)
    OBVIOUS
  <2>3. /\ g[0] = {s}
        /\ \A k \in 0 .. m : k # 0 => g[k] = Wider(next, g[k - 1])
    <3>1. 0 \in 0 .. m
      BY <2>1
    <3>2. Spread(next, s, m, g)
      BY <2>2, BallIs
    <3> QED BY <3>1, <3>2 DEF Spread
  <2> DEFINE h == [k \in 0 .. m + 1 |-> IF k <= m THEN g[k] ELSE Wider(next, g[m])]
             e == [k \in 0 .. m + 1 |-> IF k = 0 THEN {s} ELSE Wider(next, h[k - 1])]
  <2>4. ASSUME NEW k \in 0 .. m + 1
        PROVE  h[k] = e[k]
    <3>1. CASE k = 0
      BY <2>1, <2>3, <3>1
    <3>2. CASE k # 0 /\ k <= m
      <4>1. k \in 0 .. m /\ k - 1 \in 0 .. m + 1 /\ k - 1 <= m
        BY <2>1, <3>2
      <4>2. h[k] = g[k] /\ h[k - 1] = g[k - 1]
        BY <3>2, <4>1
      <4> QED BY <2>3, <3>2, <4>1, <4>2
    <3>3. CASE k = m + 1
      <4>1. k # 0 /\ ~(k <= m) /\ k - 1 = m /\ m \in 0 .. m + 1 /\ m <= m
        BY <2>1, <3>3
      <4>2. h[k] = Wider(next, g[m]) /\ h[k - 1] = g[m]
        BY <4>1
      <4> QED BY <4>1, <4>2
    <3> QED BY <2>1, <3>1, <3>2, <3>3
  <2>5. h = e
    <3>1. DOMAIN h = 0 .. m + 1 /\ DOMAIN e = 0 .. m + 1
      OBVIOUS
    <3>2. h = [k \in 0 .. m + 1 |-> h[k]] /\ e = [k \in 0 .. m + 1 |-> e[k]]
      OBVIOUS
    <3> HIDE DEF h, e
    <3> QED BY <2>4, <3>2
  <2>6. Balls(next, s, m + 1, h)
    <3> HIDE DEF h
    <3> QED BY <2>5 DEF Balls
  <2> QED BY <2>1, <2>6
<1>3. T = Nat
  <2>1. T \in SUBSET Nat
    OBVIOUS
  <2> HIDE DEF T
  <2> QED BY <1>1, <1>2, <2>1, Induction
<1> QED BY <1>3

\* Reach is the last of them.
Grows(next, s, n, g) ==
  /\ g[0] = {s} /\ Reach(next, s) = g[n]
  /\ \A k \in 1 .. n : g[k] = Wider(next, g[k - 1])

LEMMA ReachIs ==
  ASSUME NEW next, NEW s, NEW n \in Nat, n = Cardinality(DOMAIN next)
  PROVE  \E g : Grows(next, s, n, g)
<1> DEFINE ball == CHOOSE g : Balls(next, s, n, g)
<1>1. Reach(next, s) = ball[n]
  BY DEF Reach, Balls, Wider
<1>2. Balls(next, s, n, ball)
  BY BallsExist
<1> HIDE DEF ball
<1>3. ball[0] = {s} /\ \A k \in 1 .. n : ball[k] = Wider(next, ball[k - 1])
  <2>1. 0 \in 0 .. n /\ \A k \in 1 .. n : k \in 0 .. n /\ k # 0
    OBVIOUS
  <2>2. Spread(next, s, n, ball)
    BY <1>2, BallIs
  <2> QED BY <2>1, <2>2 DEF Spread
<1> QED BY <1>1, <1>3 DEF Grows

\* It stays within what is closed under the neighbors ...
LEMMA ReachWithin ==
  ASSUME NEW next, NEW s, NEW n \in Nat, n = Cardinality(DOMAIN next),
         NEW C, s \in C, \A x \in C : next[x] \subseteq C
  PROVE  Reach(next, s) \subseteq C
<1>0. PICK g : Grows(next, s, n, g)
  BY ReachIs
<1>1. /\ g[0] = {s} /\ Reach(next, s) = g[n]
      /\ \A k \in 1 .. n : g[k] = Wider(next, g[k - 1])
  BY <1>0 DEF Grows
<1> DEFINE T == {m \in Nat : m <= n => g[m] \subseteq C}
<1>2. 0 \in T
  BY <1>1
<1>3. ASSUME NEW m \in T
      PROVE  m + 1 \in T
  <2>1. m \in Nat /\ m + 1 \in Nat
    OBVIOUS
  <2>2. SUFFICES ASSUME m + 1 <= n PROVE g[m + 1] \subseteq C
    BY <2>1
  <2>3. m <= n /\ m + 1 \in 1 .. n /\ (m + 1) - 1 = m
    BY <2>1, <2>2
  <2>4. g[m] \subseteq C
    BY <2>3
  <2>5. g[m + 1] = Wider(next, g[m])
    BY <1>1, <2>3
  <2> QED BY <2>4, <2>5 DEF Wider
<1>4. T = Nat
  <2>1. T \in SUBSET Nat
    OBVIOUS
  <2> HIDE DEF T
  <2> QED BY <1>2, <1>3, <2>1, Induction
<1> QED BY <1>1, <1>4

\* ... and goes along every path that is short enough.
LEMMA ReachAlong ==
  ASSUME NEW next, NEW s, NEW n \in Nat, n = Cardinality(DOMAIN next),
         NEW path, NEW l \in Nat, l <= n, path[0] = s,
         \A k \in 1 .. l : path[k] \in next[path[k - 1]]
  PROVE  \A k \in 0 .. l : path[k] \in Reach(next, s)
<1>0. PICK g : Grows(next, s, n, g)
  BY ReachIs
<1>1. /\ g[0] = {s} /\ Reach(next, s) = g[n]
      /\ \A k \in 1 .. n : g[k] = Wider(next, g[k - 1])
  BY <1>0 DEF Grows
<1> DEFINE T == {m \in Nat : m <= n => \A k \in 0 .. l : k <= m => path[k] \in g[m]}
<1>2. 0 \in T
  BY <1>1
<1>3. ASSUME NEW m \in T
      PROVE  m + 1 \in T
  <2>1. m \in Nat /\ m + 1 \in Nat
    OBVIOUS
  <2>2. SUFFICES ASSUME m + 1 <= n, NEW k \in 0 .. l, k <= m + 1 PROVE path[k] \in g[m + 1]
    BY <2>1
  <2>3. m <= n /\ m + 1 \in 1 .. n /\ (m + 1) - 1 = m
    BY <2>1, <2>2
  <2>4. \A j \in 0 .. l : j <= m => path[j] \in g[m]
    BY <2>3
  <2>5. g[m + 1] = Wider(next, g[m])
    BY <1>1, <2>3
  <2>6. CASE k <= m
    BY <2>4, <2>5, <2>6 DEF Wider
  <2>7. CASE k = m + 1
    <3>1. m \in 0 .. l /\ m <= m /\ k \in 1 .. l /\ k - 1 = m
      BY <2>1, <2>7
    <3>2. path[m] \in g[m] /\ path[k] \in next[path[m]]
      BY <2>4, <3>1
    <3> QED BY <2>5, <2>7, <3>2 DEF Wider
  <2> QED BY <2>1, <2>2, <2>6, <2>7
<1>4. T = Nat
  <2>1. T \in SUBSET Nat
    OBVIOUS
  <2> HIDE DEF T
  <2> QED BY <1>2, <1>3, <2>1, Induction
<1>5. n \in T
  BY <1>4
<1> QED BY <1>1, <1>5
-----------------------------------------------------------------------------
(* the answer of a walk *)

Routes == [Eui \X Eui -> RouteRow \cup {None}]

\* The hops follow the rows of one table.
Follows(ns, otbr, hops, rt) ==
  \A i \in 1 .. Len(hops) - 1 :
    /\ rt[<<hops[i], otbr.eui>>] # None
    /\ Forward(ns, otbr, rt[<<hops[i], otbr.eui>>]) = hops[i + 1]

\* A way that has begun: from `e`, no device twice, and not at its end.
Begun(otbr, hops, e) ==
  /\ hops \in Seq(Eui) /\ Len(hops) > 0 /\ hops[1] = e
  /\ \A i, j \in 1 .. Len(hops) : hops[i] = hops[j] => i = j
  /\ \A i \in 1 .. Len(hops) : hops[i] # otbr.eui

LEMMA ForwardType ==
  ASSUME NEW ns, Rows(ns), NEW otbr \in NodeRow, NEW row
  PROVE  Forward(ns, otbr, row) \in Eui \cup {None}
<1>1. otbr.eui \in Eui
  BY DEF NodeRow
<1>2. ASSUME NEW p, NEW rid
      PROVE  RouterWithId(ns, p, rid) = None \/ RouterWithId(ns, p, rid).eui \in Eui
  <2> DEFINE I == {i \in DOMAIN ns : ns[i].partition = p /\ ns[i].rid = rid}
  <2>1. Found(ns, RouterWithId(ns, p, rid), I)
    BY RouterFound
  <2>2. \A i \in DOMAIN ns : ns[i].eui \in Eui
    <3>1. \A i \in DOMAIN ns : ns[i] \in NodeRow
      BY LenProperties DEF Rows
    <3> QED BY <3>1 DEF NodeRow
  <2> QED BY <2>1, <2>2 DEF Found
<1> QED BY <1>1, <1>2 DEF Forward

\* A way goes round, ends or arrives in the table it follows.
LEMMA VerdictIs ==
  ASSUME NEW ns, Rows(ns), NEW otbr \in NodeRow, otbr = FindOtbr(ns), NEW rt, NEW e \in Eui,
         e # otbr.eui, RowOf(ns, e) # None => RowOf(ns, e).partition = otbr.partition,
         NEW hops, Begun(otbr, hops, e), Follows(ns, otbr, hops, rt),
         NEW row, row = rt[<<hops[Len(hops)], otbr.eui>>],
         NEW next, next = Forward(ns, otbr, row)
  PROVE  /\ row = None => Verdict(ns, rt, e) = "no_route_to_otbr"
         /\ row # None /\ next = None => Verdict(ns, rt, e) = "unknown_next_hop"
         /\ row # None /\ next \in {hops[i] : i \in 1 .. Len(hops)} => Verdict(ns, rt, e) = "loop_detected"
         /\ row # None /\ next = otbr.eui => Verdict(ns, rt, e) = None
<1> DEFINE forth == [x \in Eui |-> IF x = otbr.eui \/ rt[<<x, otbr.eui>>] = None THEN {}
                                   ELSE {Forward(ns, otbr, rt[<<x, otbr.eui>>])} \ {None}]
           way == Reached(ns, rt, otbr, e)
           S == {hops[i] : i \in 1 .. Len(hops)}
<1>1. way = Reach(forth, e)
  BY DEF Reached
<1>2. Verdict(ns, rt, e) =
        IF otbr.eui \in way THEN None
        ELSE IF \E x \in way : rt[<<x, otbr.eui>>] = None THEN "no_route_to_otbr"
        ELSE IF \E x \in way : Forward(ns, otbr, rt[<<x, otbr.eui>>]) = None THEN "unknown_next_hop"
        ELSE "loop_detected"
  <2>1. otbr # None
    BY TablesAssumption
  <2> HIDE DEF way
  <2>2. way = Reached(ns, rt, otbr, e)
    BY DEF way
  <2> QED BY <2>1, <2>2 DEF Verdict
<1> HIDE DEF way
<1>3. Len(hops) \in Nat /\ Len(hops) > 0 /\ \A i \in 1 .. Len(hops) : hops[i] \in Eui
  BY LenProperties DEF Begun
<1>4. PICK n \in Nat : n = Cardinality(Eui) /\ Len(hops) <= n
  <2>1. IsFiniteSet(Eui) /\ Cardinality(Eui) \in Nat
    BY TablesAssumption, FS_CardinalityType
  <2>2. hops \in Injection(1 .. Len(hops), Eui)
    BY <1>3 DEF Begun, Injection, IsInjective
  <2>3. Cardinality(1 .. Len(hops)) <= Cardinality(Eui)
    BY <2>1, <2>2, FS_Injection
  <2>4. Cardinality(1 .. Len(hops)) = Len(hops)
    <3>1. PICK l \in Nat : l = Len(hops) /\ l > 0
      BY <1>3
    <3>2. 1 \in Int /\ l \in Int
      OBVIOUS
    <3>3. Cardinality(1 .. l) = IF 1 > l THEN 0 ELSE l - 1 + 1
      BY <3>2, FS_Interval
    <3> QED BY <3>1, <3>3
  <2> QED BY <2>1, <2>3, <2>4
<1>5. DOMAIN forth = Eui
  OBVIOUS
<1>6. None \notin Eui
  <2>1. \A x \in Eui : x \in Int
    BY TablesAssumption
  <2>2. None \notin Int
    BY TablesAssumption
  <2> QED BY <2>1, <2>2
<1>7. \A i \in 1 .. Len(hops) - 1 :
        /\ i \in 1 .. Len(hops) /\ i + 1 \in 1 .. Len(hops) /\ rt[<<hops[i], otbr.eui>>] # None
        /\ Forward(ns, otbr, rt[<<hops[i], otbr.eui>>]) = hops[i + 1] /\ forth[hops[i]] = {hops[i + 1]}
  <2> TAKE i \in 1 .. Len(hops) - 1
  <2>1. i \in 1 .. Len(hops) /\ i + 1 \in 1 .. Len(hops)
    BY <1>3
  <2>2. rt[<<hops[i], otbr.eui>>] # None /\ Forward(ns, otbr, rt[<<hops[i], otbr.eui>>]) = hops[i + 1]
    BY DEF Follows
  <2>3. hops[i] \in Eui /\ hops[i] # otbr.eui /\ hops[i + 1] # None
    BY <1>3, <1>6, <2>1 DEF Begun
  <2> QED BY <2>1, <2>2, <2>3
<1> DEFINE tip == hops[Len(hops)]
<1>8. tip \in Eui /\ tip # otbr.eui /\ forth[tip] = IF row = None THEN {} ELSE {next} \ {None}
  BY <1>3 DEF Begun
<1> HIDE DEF forth
\* The hops are on the way, and whatever the last one leads to.
<1>9. S \subseteq way /\ (row # None /\ next # None => next \in way)
  <2> DEFINE path == [k \in 0 .. Len(hops) |-> IF k = Len(hops) THEN next ELSE hops[k + 1]]
  <2>1. path[0] = e /\ \A k \in 1 .. Len(hops) : path[k - 1] = hops[k]
    BY <1>3 DEF Begun
  <2>2. \A k \in 1 .. Len(hops) - 1 : path[k] = hops[k + 1]
    BY <1>3
  <2>3. path[Len(hops)] = next
    BY <1>3
  <2> HIDE DEF path
  <2>4. \A k \in 1 .. Len(hops) - 1 : path[k] \in forth[path[k - 1]]
    BY <1>7, <2>1, <2>2
  <2>5. \A k \in 0 .. Len(hops) - 1 : path[k] \in way
    <3>1. Len(hops) - 1 \in Nat /\ Len(hops) - 1 <= n
      BY <1>3, <1>4
    <3> QED BY <1>1, <1>4, <1>5, <2>1, <2>4, <3>1, ReachAlong
  <2>6. ASSUME row # None, next # None
        PROVE  next \in way
    <3>1. path[Len(hops)] \in forth[path[Len(hops) - 1]]
      BY <1>3, <1>8, <2>1, <2>3, <2>6
    <3>2. \A k \in 1 .. Len(hops) : path[k] \in forth[path[k - 1]]
      BY <1>3, <2>4, <3>1
    <3>3. \A k \in 0 .. Len(hops) : path[k] \in way
      BY <1>1, <1>3, <1>4, <1>5, <2>1, <3>2, ReachAlong
    <3> QED BY <1>3, <2>3, <3>3
  <2>7. ASSUME NEW i \in 1 .. Len(hops)
        PROVE  hops[i] \in way
    <3>1. i - 1 \in 0 .. Len(hops) - 1 /\ path[i - 1] = hops[i]
      BY <1>3, <2>1
    <3> QED BY <2>5, <3>1
  <2> QED BY <2>6, <2>7
\* When the last one leads nowhere else, there is nothing else on the way.
<1>10. ASSUME row = None \/ next = None \/ next \in S
       PROVE  way \subseteq S
  <2>1. e \in S
    BY <1>3 DEF Begun
  <2>2. ASSUME NEW i \in 1 .. Len(hops)
        PROVE  forth[hops[i]] \subseteq S
    <3>1. CASE i = Len(hops)
      BY <1>8, <1>10, <3>1
    <3>2. CASE i # Len(hops)
      <4>1. i \in 1 .. Len(hops) - 1
        BY <1>3, <3>2
      <4> QED BY <1>7, <4>1
    <3> QED BY <3>1, <3>2
  <2>3. \A x \in S : forth[x] \subseteq S
    BY <2>2
  <2> HIDE DEF S
  <2> QED BY <1>1, <1>4, <1>5, <2>1, <2>3, ReachWithin
<1>11. otbr.eui \notin S
  BY DEF Begun
<1>12. \A x \in S : x = tip \/ /\ rt[<<x, otbr.eui>>] # None
                                /\ Forward(ns, otbr, rt[<<x, otbr.eui>>]) \in S
  <2> SUFFICES ASSUME NEW i \in 1 .. Len(hops), i # Len(hops)
               PROVE  /\ rt[<<hops[i], otbr.eui>>] # None
                      /\ Forward(ns, otbr, rt[<<hops[i], otbr.eui>>]) \in S
    OBVIOUS
  <2>1. i \in 1 .. Len(hops) - 1
    BY <1>3
  <2> QED BY <1>7, <2>1
<1>13. None \notin S /\ tip \in S
  BY <1>3, <1>6
<1> HIDE DEF S
<1> DEFINE v == Verdict(ns, rt, e)
<1>14. /\ otbr.eui \in way => v = None
       /\ otbr.eui \notin way /\ (\E x \in way : rt[<<x, otbr.eui>>] = None) => v = "no_route_to_otbr"
       /\ /\ otbr.eui \notin way /\ \A x \in way : rt[<<x, otbr.eui>>] # None
          /\ \E x \in way : Forward(ns, otbr, rt[<<x, otbr.eui>>]) = None
          => v = "unknown_next_hop"
       /\ /\ otbr.eui \notin way /\ \A x \in way : rt[<<x, otbr.eui>>] # None
          /\ \A x \in way : Forward(ns, otbr, rt[<<x, otbr.eui>>]) # None
          => v = "loop_detected"
  BY <1>2
<1> HIDE DEF v
<1>15. rt[<<tip, otbr.eui>>] = row /\ Forward(ns, otbr, rt[<<tip, otbr.eui>>]) = next
  OBVIOUS
<1>16. tip \in way
  BY <1>9, <1>13
<1> HIDE DEF tip
<1>17. row = None => v = "no_route_to_otbr"
  BY <1>10, <1>11, <1>14, <1>15, <1>16
<1>18. ASSUME row # None, next = None
       PROVE  v = "unknown_next_hop"
  <2>1. otbr.eui \notin way
    BY <1>10, <1>11, <1>18
  <2>2. \A x \in way : rt[<<x, otbr.eui>>] # None
    BY <1>10, <1>12, <1>15, <1>18
  <2>3. \E x \in way : Forward(ns, otbr, rt[<<x, otbr.eui>>]) = None
    BY <1>15, <1>16, <1>18
  <2> QED BY <1>14, <2>1, <2>2, <2>3
<1>19. ASSUME row # None, next \in S
       PROVE  v = "loop_detected"
  <2>1. otbr.eui \notin way
    BY <1>10, <1>11, <1>19
  <2>2. \A x \in way : rt[<<x, otbr.eui>>] # None
    BY <1>10, <1>12, <1>15, <1>19
  <2>3. \A x \in way : Forward(ns, otbr, rt[<<x, otbr.eui>>]) # None
    BY <1>10, <1>12, <1>13, <1>15, <1>19
  <2> QED BY <1>14, <2>1, <2>2, <2>3
<1>20. ASSUME row # None, next = otbr.eui
       PROVE  v = None
  <2>1. next # None
    BY <1>6, <1>20 DEF NodeRow
  <2>2. otbr.eui \in way
    BY <1>9, <1>20, <2>1
  <2> QED BY <1>14, <2>2
<1> QED BY <1>17, <1>18, <1>19, <1>20 DEF S, v
Issues == {None, "no_otbr", "self_is_otbr", "different_partition", "no_route_to_otbr",
           "unknown_next_hop", "loop_detected", "max_hops_exceeded"}

\* A walk as it goes, and the tables it was asked of.
WalkRow ==
  [pc : {"locate", "hop", "done"}, source : Eui, nodes : Seq(NodeRow), otbr : NodeRow \cup {None},
   hops : Seq(Eui \cup {None}), issue : Issues, complete : BOOLEAN,
   asked : [nodes : Seq(NodeRow), route : Routes]]

\* Two tables that are the same but for one row.
OneRowApart(rt, other) ==
  \E k \in Eui \X Eui : \A l \in Eui \X Eui : l # k => rt[l] = other[l]

\* A walk to `otbr` goes along the rows of the table `rt`.
Going(w, ns, rt) ==
  /\ w.otbr \in NodeRow /\ w.otbr = FindOtbr(ns) /\ w.source # w.otbr.eui
  /\ RowOf(ns, w.source) # None => RowOf(ns, w.source).partition = w.otbr.partition
  /\ Begun(w.otbr, w.hops, w.source) /\ Follows(ns, w.otbr, w.hops, rt)

\* The invariant: a walk whose nodes have not changed follows the table it was
\* asked of or the one there is now, and when it has stopped it says what that
\* table says.
Walking ==
  walk # NoWalk =>
    /\ walk \in WalkRow /\ Rows(walk.nodes) /\ walk.nodes = walk.asked.nodes
    /\ OneRowApart(walk.asked.route, route)
    /\ walk.pc = "hop" => walk.otbr \in NodeRow
    /\ walk.pc = "hop" /\ walk.asked.nodes = nodes =>
         Going(walk, nodes, walk.asked.route) \/ Going(walk, nodes, route)
    /\ AnswerIsOfOneTable

LEMMA WalkAsked ==
  ASSUME TablesTyped, NEW e \in Eui, AskRoute(e), UNCHANGED tables
  PROVE  Walking'
<1>1. /\ walk' \in WalkRow /\ walk'.pc = "locate" /\ walk'.nodes = nodes
      /\ walk'.asked = [nodes |-> nodes, route |-> route]
  <2>1. nodes \in Seq(NodeRow) /\ route \in Routes /\ << >> \in Seq(Eui \cup {None}) /\ None \in Issues
    BY DEF TablesTyped, Routes, Issues
  <2> QED BY <2>1 DEF AskRoute, WalkRow
<1>2. OneRowApart(route, route)
  <2>1. <<e, e>> \in Eui \X Eui
    OBVIOUS
  <2> QED BY <2>1 DEF OneRowApart
<1>3. nodes' = nodes /\ route' = route /\ Rows(nodes)
  BY DEF tables, TablesTyped, Rows
<1> QED BY <1>1, <1>2, <1>3 DEF Walking, AnswerIsOfOneTable

\* What a stop leaves as it was.
LEMMA Stopped ==
  ASSUME walk \in WalkRow, NEW otbr \in NodeRow \cup {None}, NEW hops \in Seq(Eui \cup {None}),
         NEW issue \in Issues, NEW complete \in BOOLEAN,
         Stop(otbr, hops, issue, complete)
  PROVE  /\ walk' \in WalkRow /\ walk'.pc = "done" /\ walk'.issue = issue
         /\ walk'.source = walk.source /\ walk'.nodes = walk.nodes /\ walk'.asked = walk.asked
BY DEF Stop, WalkRow

\* A walk that stops is right when it says what one of the two tables says.
LEMMA StoppedRight ==
  ASSUME Walking, walk # NoWalk, UNCHANGED tables,
         walk' \in WalkRow, walk'.pc = "done",
         walk'.source = walk.source, walk'.nodes = walk.nodes, walk'.asked = walk.asked,
         walk.asked.nodes = nodes /\ walk'.issue # "max_hops_exceeded" =>
           walk'.issue \in {Verdict(nodes, walk.asked.route, walk.source),
                            Verdict(nodes, route, walk.source)}
  PROVE  Walking'
<1>1. nodes' = nodes /\ route' = route
  BY DEF tables
<1> QED BY <1>1 DEF Walking, AnswerIsOfOneTable

LEMMA WalkLocates ==
  ASSUME TablesTyped, Walking, walk # NoWalk, Locate, UNCHANGED tables
  PROVE  Walking'
<1>1. /\ walk \in WalkRow /\ walk.nodes = walk.asked.nodes /\ OneRowApart(walk.asked.route, route)
      /\ walk.pc = "locate" /\ nodes' = nodes /\ route' = route
  BY DEF Walking, Locate, tables
<1>2. walk.source \in Eui /\ << >> \in Seq(Eui \cup {None}) /\ <<walk.source>> \in Seq(Eui \cup {None})
  BY <1>1 DEF WalkRow
<1> DEFINE otbr == FindOtbr(nodes)
           row  == RowOf(walk.nodes, walk.source)
<1>3. otbr = None \/ (otbr \in NodeRow /\ otbr.eui \in Eui /\ otbr # None)
  <2>1. Rows(nodes)
    BY DEF TablesTyped, Rows
  <2>2. otbr = None \/ \E i \in DOMAIN nodes : otbr = nodes[i]
    BY <2>1, OtbrFound
  <2>3. \A i \in DOMAIN nodes : nodes[i] \in NodeRow
    BY <2>1, LenProperties DEF Rows
  <2>4. None \notin NodeRow /\ \A n \in NodeRow : n.eui \in Eui
    BY TablesAssumption DEF NodeRow
  <2> HIDE DEF otbr
  <2> QED BY <2>2, <2>3, <2>4
<1>4. row = RowOf(walk.asked.nodes, walk.source)
  BY <1>1
<1>5. \/ otbr = None /\ Stop(None, << >>, "no_otbr", FALSE)
      \/ otbr # None /\ otbr.eui = walk.source /\ Stop(otbr, <<otbr.eui>>, "self_is_otbr", TRUE)
      \/ /\ otbr # None /\ otbr.eui # walk.source /\ row # None /\ row.partition # otbr.partition
         /\ Stop(otbr, << >>, "different_partition", FALSE)
      \/ /\ otbr # None /\ otbr.eui # walk.source /\ (row # None => row.partition = otbr.partition)
         /\ walk' = [walk EXCEPT !.pc = "hop", !.otbr = otbr, !.hops = <<walk.source>>]
  BY DEF Locate
<1>6. \A rt : /\ otbr = None => Verdict(nodes, rt, walk.source) = "no_otbr"
              /\ otbr # None /\ walk.source = otbr.eui => Verdict(nodes, rt, walk.source) = "self_is_otbr"
              /\ /\ otbr # None /\ walk.source # otbr.eui /\ walk.asked.nodes = nodes /\ row # None
                 /\ row.partition # otbr.partition
                 => Verdict(nodes, rt, walk.source) = "different_partition"
  BY <1>4 DEF Verdict
<1> HIDE DEF otbr, row
<1>7. CASE otbr = None /\ Stop(None, << >>, "no_otbr", FALSE)
  <2>1. /\ walk' \in WalkRow /\ walk'.pc = "done" /\ walk'.issue = "no_otbr"
        /\ walk'.source = walk.source /\ walk'.nodes = walk.nodes /\ walk'.asked = walk.asked
    BY <1>1, <1>2, <1>7, Stopped DEF Issues
  <2> QED BY <1>6, <1>7, <2>1, StoppedRight
<1>8. CASE otbr # None /\ otbr.eui = walk.source /\ Stop(otbr, <<otbr.eui>>, "self_is_otbr", TRUE)
  <2>1. /\ walk' \in WalkRow /\ walk'.pc = "done" /\ walk'.issue = "self_is_otbr"
        /\ walk'.source = walk.source /\ walk'.nodes = walk.nodes /\ walk'.asked = walk.asked
    BY <1>1, <1>2, <1>3, <1>8, Stopped DEF Issues
  <2> QED BY <1>6, <1>8, <2>1, StoppedRight
<1>9. CASE /\ otbr # None /\ otbr.eui # walk.source /\ row # None /\ row.partition # otbr.partition
           /\ Stop(otbr, << >>, "different_partition", FALSE)
  <2>1. /\ walk' \in WalkRow /\ walk'.pc = "done" /\ walk'.issue = "different_partition"
        /\ walk'.source = walk.source /\ walk'.nodes = walk.nodes /\ walk'.asked = walk.asked
    BY <1>1, <1>2, <1>3, <1>9, Stopped DEF Issues
  <2> QED BY <1>6, <1>9, <2>1, StoppedRight
<1>10. CASE /\ otbr # None /\ otbr.eui # walk.source /\ (row # None => row.partition = otbr.partition)
            /\ walk' = [walk EXCEPT !.pc = "hop", !.otbr = otbr, !.hops = <<walk.source>>]
  <2>1. /\ walk' \in WalkRow /\ walk'.pc = "hop" /\ walk'.otbr = otbr /\ walk'.hops = <<walk.source>>
        /\ walk'.source = walk.source /\ walk'.nodes = walk.nodes /\ walk'.asked = walk.asked
    BY <1>1, <1>2, <1>3, <1>10 DEF WalkRow
  <2>2. ASSUME walk.asked.nodes = nodes
        PROVE  Going(walk', nodes, route)
    <3>1. /\ Len(walk'.hops) = 1 /\ walk'.hops[1] = walk.source /\ walk'.hops \in Seq(Eui)
      BY <1>2, <2>1
    <3>2. Begun(otbr, walk'.hops, walk.source)
      BY <1>10, <3>1 DEF Begun
    <3>3. Follows(nodes, otbr, walk'.hops, route)
      BY <3>1 DEF Follows
    <3>4. RowOf(nodes, walk.source) # None => RowOf(nodes, walk.source).partition = otbr.partition
      BY <1>10, <2>2, <1>1 DEF row
    <3>5. otbr \in NodeRow /\ otbr = FindOtbr(nodes)
      BY <1>3, <1>10 DEF otbr
    <3> QED BY <1>10, <2>1, <3>2, <3>3, <3>4, <3>5 DEF Going
  <2>3. Rows(walk.nodes) /\ otbr \in NodeRow
    BY <1>3, <1>10 DEF Walking
  <2> QED BY <1>1, <2>1, <2>2, <2>3 DEF Walking, AnswerIsOfOneTable
<1> QED BY <1>5, <1>7, <1>8, <1>9, <1>10

\* The hops so far and the row that is read now are of one of the two tables.
LEMMA OneOfTwo ==
  ASSUME NEW w, NEW ns, NEW rt, NEW other, OneRowApart(rt, other), Going(w, ns, rt) \/ Going(w, ns, other)
  PROVE  \E t \in {rt, other} : /\ Going(w, ns, t)
                              /\ t[<<Last(w.hops), w.otbr.eui>>] = other[<<Last(w.hops), w.otbr.eui>>]
<1>1. CASE Going(w, ns, other)
  BY <1>1
<1>2. CASE Going(w, ns, rt)
  <2>1. /\ w.otbr.eui \in Eui /\ w.hops \in Seq(Eui) /\ Len(w.hops) \in Nat /\ Len(w.hops) > 0
        /\ \A i \in 1 .. Len(w.hops) : w.hops[i] \in Eui
        /\ \A i, j \in 1 .. Len(w.hops) : w.hops[i] = w.hops[j] => i = j
    BY <1>2, LenProperties DEF Going, Begun, NodeRow
  <2>2. Last(w.hops) = w.hops[Len(w.hops)] /\ Len(w.hops) \in 1 .. Len(w.hops)
    BY <2>1 DEF Last
  <2>3. PICK k \in Eui \X Eui : \A l \in Eui \X Eui : l # k => rt[l] = other[l]
    BY DEF OneRowApart
  <2>4. CASE k = <<w.hops[Len(w.hops)], w.otbr.eui>>
    <3>1. ASSUME NEW i \in 1 .. Len(w.hops) - 1
          PROVE  rt[<<w.hops[i], w.otbr.eui>>] = other[<<w.hops[i], w.otbr.eui>>]
      <4>1. i \in 1 .. Len(w.hops) /\ i # Len(w.hops)
        BY <2>1
      <4>2. w.hops[i] \in Eui /\ w.hops[i] # w.hops[Len(w.hops)]
        BY <2>1, <2>2, <4>1
      <4>3. <<w.hops[i], w.otbr.eui>> \in Eui \X Eui
        BY <2>1, <4>2
      <4>4. <<w.hops[i], w.otbr.eui>> # k
        BY <2>4, <4>2
      <4> QED BY <2>3, <4>3, <4>4
    <3>2. Follows(ns, w.otbr, w.hops, other)
      BY <1>2, <3>1 DEF Going, Follows
    <3>3. Going(w, ns, other)
      BY <1>2, <3>2 DEF Going
    <3> QED BY <3>3
  <2>5. CASE k # <<w.hops[Len(w.hops)], w.otbr.eui>>
    <3>1. <<w.hops[Len(w.hops)], w.otbr.eui>> \in Eui \X Eui
      BY <2>1, <2>2
    <3>2. rt[<<w.hops[Len(w.hops)], w.otbr.eui>>] = other[<<w.hops[Len(w.hops)], w.otbr.eui>>]
      BY <2>3, <2>5, <3>1
    <3> QED BY <1>2, <2>2, <3>2
  <2> QED BY <2>4, <2>5
<1> QED BY <1>1, <1>2

\* One more hop.
LEMMA WayGoesOn ==
  ASSUME NEW otbr, NEW ns, NEW rt, NEW e, NEW hops, NEW next \in Eui, next # otbr.eui,
         Begun(otbr, hops, e), Follows(ns, otbr, hops, rt),
         \A i \in 1 .. Len(hops) : hops[i] # next,
         rt[<<hops[Len(hops)], otbr.eui>>] # None,
         Forward(ns, otbr, rt[<<hops[Len(hops)], otbr.eui>>]) = next
  PROVE  Begun(otbr, Append(hops, next), e) /\ Follows(ns, otbr, Append(hops, next), rt)
<1>1. /\ hops \in Seq(Eui) /\ Len(hops) \in Nat /\ Len(hops) > 0 /\ hops[1] = e
      /\ \A i, j \in 1 .. Len(hops) : hops[i] = hops[j] => i = j
      /\ \A i \in 1 .. Len(hops) : hops[i] # otbr.eui
  BY LenProperties DEF Begun
<1> DEFINE more == Append(hops, next)
<1>2. /\ more \in Seq(Eui) /\ Len(more) = Len(hops) + 1 /\ more[Len(hops) + 1] = next
      /\ \A i \in 1 .. Len(hops) : more[i] = hops[i]
  BY <1>1, AppendProperties
<1> HIDE DEF more
<1>3. Begun(otbr, more, e)
  <2>1. \A i \in 1 .. Len(more) : i = Len(hops) + 1 \/ i \in 1 .. Len(hops)
    BY <1>1, <1>2
  <2>2. \A i \in 1 .. Len(more) : more[i] # otbr.eui
    BY <1>1, <1>2, <2>1
  <2>3. \A i, j \in 1 .. Len(more) : more[i] = more[j] => i = j
    BY <1>1, <1>2, <2>1
  <2>4. Len(more) > 0 /\ more[1] = e
    BY <1>1, <1>2
  <2> QED BY <1>2, <2>2, <2>3, <2>4 DEF Begun
<1>4. Follows(ns, otbr, more, rt)
  <2> SUFFICES ASSUME NEW i \in 1 .. Len(more) - 1
               PROVE  /\ rt[<<more[i], otbr.eui>>] # None
                      /\ Forward(ns, otbr, rt[<<more[i], otbr.eui>>]) = more[i + 1]
    BY DEF Follows
  <2>1. CASE i = Len(hops)
    BY <1>1, <1>2, <2>1
  <2>2. CASE i # Len(hops)
    <3>1. i \in 1 .. Len(hops) - 1 /\ i \in 1 .. Len(hops) /\ i + 1 \in 1 .. Len(hops)
      BY <1>1, <1>2, <2>2
    <3> QED BY <1>2, <3>1 DEF Follows
  <2> QED BY <2>1, <2>2
<1> QED BY <1>3, <1>4 DEF more

\* What a hop may find, and what the walk then does.
HopFinds(row, next, otbr) ==
  \/ row = None /\ Stop(otbr, walk.hops, "no_route_to_otbr", FALSE)
  \/ /\ row # None /\ next = None
     /\ Stop(otbr, Append(walk.hops, None), "unknown_next_hop", FALSE)
  \/ /\ row # None /\ next # None /\ Contains(walk.hops, next)
     /\ Stop(otbr, walk.hops, "loop_detected", FALSE)
  \/ /\ row # None /\ next = otbr.eui /\ ~Contains(walk.hops, next)
     /\ Stop(otbr, Append(walk.hops, next), None, TRUE)
  \/ row # None /\ next \notin {None, otbr.eui} /\ ~Contains(walk.hops, next) /\ GoOn(next)

LEMMA WalkHops ==
  ASSUME TablesTyped, Walking, walk # NoWalk, Hop, UNCHANGED tables
  PROVE  Walking'
<1>1. /\ walk \in WalkRow /\ walk.nodes = walk.asked.nodes /\ OneRowApart(walk.asked.route, route)
      /\ walk.pc = "hop" /\ nodes' = nodes /\ route' = route
      /\ walk.asked.nodes = nodes => Going(walk, nodes, walk.asked.route) \/ Going(walk, nodes, route)
  BY DEF Walking, Hop, tables
<1>2. PICK otbr : otbr = walk.otbr
  OBVIOUS
<1>3. PICK row : row = HopRow
  OBVIOUS
<1>4. PICK next : next = Forward(walk.nodes, otbr, row)
  OBVIOUS
<1>5. HopFinds(row, next, otbr)
  BY <1>2, <1>3, <1>4 DEF Hop, HopFinds
<1>6. /\ walk.hops \in Seq(Eui \cup {None}) /\ otbr \in NodeRow \cup {None} /\ walk.source \in Eui
      /\ Len(walk.hops) \in Nat /\ \A i \in 1 .. Len(walk.hops) : walk.hops[i] \in Eui \cup {None}
  BY <1>1, <1>2, LenProperties DEF WalkRow
\* Whatever is found, one of the two tables says the same.
<1>7. ASSUME walk.asked.nodes = nodes
      PROVE  \E t \in {walk.asked.route, route} :
               /\ Going(walk, nodes, t) /\ t[<<Last(walk.hops), otbr.eui>>] = row
  <2>1. Going(walk, nodes, walk.asked.route) \/ Going(walk, nodes, route)
    BY <1>1, <1>7
  <2> QED BY <1>1, <1>2, <1>3, <2>1, OneOfTwo DEF HopRow
<1>8. Rows(nodes)
  BY DEF TablesTyped, Rows
<1>9. ASSUME walk.asked.nodes = nodes
      PROVE  \E t \in {walk.asked.route, route} :
               /\ Going(walk, nodes, t) /\ t[<<Last(walk.hops), otbr.eui>>] = row
               /\ row = None => Verdict(nodes, t, walk.source) = "no_route_to_otbr"
               /\ row # None /\ next = None => Verdict(nodes, t, walk.source) = "unknown_next_hop"
               /\ row # None /\ next # None /\ Contains(walk.hops, next) =>
                    Verdict(nodes, t, walk.source) = "loop_detected"
               /\ row # None /\ next = otbr.eui => Verdict(nodes, t, walk.source) = None
  <2>1. PICK t \in {walk.asked.route, route} :
               /\ Going(walk, nodes, t) /\ t[<<Last(walk.hops), otbr.eui>>] = row
    BY <1>7, <1>9
  <2>2. /\ otbr \in NodeRow /\ otbr = FindOtbr(nodes) /\ walk.source # otbr.eui
        /\ RowOf(nodes, walk.source) # None => RowOf(nodes, walk.source).partition = otbr.partition
        /\ Begun(otbr, walk.hops, walk.source) /\ Follows(nodes, otbr, walk.hops, t)
    BY <1>2, <2>1 DEF Going
  <2>3. row = t[<<walk.hops[Len(walk.hops)], otbr.eui>>]
    BY <2>1 DEF Last
  <2>4. next = Forward(nodes, otbr, row)
    BY <1>1, <1>4, <1>9
  <2>5. /\ row = None => Verdict(nodes, t, walk.source) = "no_route_to_otbr"
        /\ row # None /\ next = None => Verdict(nodes, t, walk.source) = "unknown_next_hop"
        /\ row # None /\ next \in {walk.hops[i] : i \in 1 .. Len(walk.hops)} =>
             Verdict(nodes, t, walk.source) = "loop_detected"
        /\ row # None /\ next = otbr.eui => Verdict(nodes, t, walk.source) = None
    <3>1. PICK e : e = walk.source
      OBVIOUS
    <3>2. PICK hops : hops = walk.hops
      OBVIOUS
    <3>3. e \in Eui
      BY <1>6, <3>1
    <3> QED BY <1>8, <2>2, <2>3, <2>4, <3>1, <3>2, <3>3, VerdictIs
  <2>6. Contains(walk.hops, next) => next \in {walk.hops[i] : i \in 1 .. Len(walk.hops)}
    BY DEF Contains
  <2> QED BY <2>1, <2>5, <2>6
<1>10. CASE row = None /\ Stop(otbr, walk.hops, "no_route_to_otbr", FALSE)
  <2>1. /\ walk' \in WalkRow /\ walk'.pc = "done" /\ walk'.issue = "no_route_to_otbr"
        /\ walk'.source = walk.source /\ walk'.nodes = walk.nodes /\ walk'.asked = walk.asked
    BY <1>1, <1>6, <1>10, Stopped DEF Issues
  <2> QED BY <1>9, <1>10, <2>1, StoppedRight
<1>11. CASE /\ row # None /\ next = None
            /\ Stop(otbr, Append(walk.hops, None), "unknown_next_hop", FALSE)
  <2>1. Append(walk.hops, None) \in Seq(Eui \cup {None})
    BY <1>6
  <2>2. /\ walk' \in WalkRow /\ walk'.pc = "done" /\ walk'.issue = "unknown_next_hop"
        /\ walk'.source = walk.source /\ walk'.nodes = walk.nodes /\ walk'.asked = walk.asked
    BY <1>1, <1>6, <1>11, <2>1, Stopped DEF Issues
  <2> QED BY <1>9, <1>11, <2>2, StoppedRight
<1>12. CASE /\ row # None /\ next # None /\ Contains(walk.hops, next)
            /\ Stop(otbr, walk.hops, "loop_detected", FALSE)
  <2>1. /\ walk' \in WalkRow /\ walk'.pc = "done" /\ walk'.issue = "loop_detected"
        /\ walk'.source = walk.source /\ walk'.nodes = walk.nodes /\ walk'.asked = walk.asked
    BY <1>1, <1>6, <1>12, Stopped DEF Issues
  <2> QED BY <1>9, <1>12, <2>1, StoppedRight
\* The next device is a router of the list, or the border router.
<1>13. otbr \in NodeRow /\ Rows(walk.nodes)
  BY <1>1, <1>2 DEF Walking
<1>14. next \in Eui \cup {None}
  BY <1>4, <1>13, ForwardType
<1>15. Append(walk.hops, next) \in Seq(Eui \cup {None})
  BY <1>6, <1>14
<1>16. CASE /\ row # None /\ next = otbr.eui /\ ~Contains(walk.hops, next)
            /\ Stop(otbr, Append(walk.hops, next), None, TRUE)
  <2>1. /\ walk' \in WalkRow /\ walk'.pc = "done" /\ walk'.issue = None
        /\ walk'.source = walk.source /\ walk'.nodes = walk.nodes /\ walk'.asked = walk.asked
    BY <1>1, <1>6, <1>15, <1>16, Stopped DEF Issues
  <2> QED BY <1>9, <1>16, <2>1, StoppedRight
<1>17. CASE row # None /\ next \notin {None, otbr.eui} /\ ~Contains(walk.hops, next) /\ GoOn(next)
  <2>1. CASE Len(walk.hops) = MaxHops
    <3>1. Stop(otbr, Append(walk.hops, next), "max_hops_exceeded", FALSE)
      BY <1>2, <1>17, <2>1 DEF GoOn
    <3>2. /\ walk' \in WalkRow /\ walk'.pc = "done" /\ walk'.issue = "max_hops_exceeded"
          /\ walk'.source = walk.source /\ walk'.nodes = walk.nodes /\ walk'.asked = walk.asked
      BY <1>1, <1>6, <1>15, <3>1, Stopped DEF Issues
    <3> QED BY <3>2, StoppedRight
  <2>2. CASE Len(walk.hops) # MaxHops
    <3>1. walk' = [walk EXCEPT !.hops = Append(@, next)]
      BY <1>17, <2>2 DEF GoOn
    <3>2. /\ walk' \in WalkRow /\ walk'.pc = "hop" /\ walk'.hops = Append(walk.hops, next)
          /\ walk'.otbr = otbr /\ walk'.source = walk.source /\ walk'.nodes = walk.nodes
          /\ walk'.asked = walk.asked
      BY <1>1, <1>2, <1>15, <3>1 DEF WalkRow
    <3>3. ASSUME walk.asked.nodes = nodes
          PROVE  Going(walk', nodes, walk.asked.route) \/ Going(walk', nodes, route)
      <4>1. PICK t \in {walk.asked.route, route} :
                   Going(walk, nodes, t) /\ t[<<Last(walk.hops), otbr.eui>>] = row
        BY <1>7, <3>3
      <4>2. next = Forward(nodes, otbr, row)
        BY <1>1, <1>4, <3>3
      <4>3. next \in Eui /\ next # otbr.eui
        BY <1>14, <1>17
      <4>4. /\ Begun(otbr, walk.hops, walk.source) /\ Follows(nodes, otbr, walk.hops, t)
        BY <1>2, <4>1 DEF Going
      <4>5. /\ Begun(otbr, Append(walk.hops, next), walk.source)
            /\ Follows(nodes, otbr, Append(walk.hops, next), t)
        <5>1. \A i \in 1 .. Len(walk.hops) : walk.hops[i] # next
          BY <1>17 DEF Contains
        <5>2. t[<<walk.hops[Len(walk.hops)], otbr.eui>>] = row /\ row # None
          BY <1>17, <4>1 DEF Last
        <5> QED BY <4>2, <4>3, <4>4, <5>1, <5>2, WayGoesOn
      <4>6. Going(walk', nodes, t)
        BY <1>2, <3>2, <4>1, <4>5 DEF Going
      <4> QED BY <4>1, <4>6
    <3> QED BY <1>1, <1>13, <3>2, <3>3 DEF Walking, AnswerIsOfOneTable
  <2> QED BY <2>1, <2>2
<1> QED BY <1>5, <1>10, <1>11, <1>12, <1>16, <1>17 DEF HopFinds

\* While the tables are as they were asked of, one row may change.
LEMMA WalkWatches ==
  ASSUME TablesTyped, Walking, UNCHANGED walk, [ViewsNext]_viewVars,
         walk = NoWalk \/ Untouched \/ UNCHANGED <<nodes, route>>
  PROVE  Walking'
<1>1. CASE walk = NoWalk
  BY <1>1 DEF Walking
<1>2. CASE walk # NoWalk /\ UNCHANGED <<nodes, route>>
  BY <1>2 DEF Walking, AnswerIsOfOneTable
<1>3. CASE walk # NoWalk /\ Untouched /\ ~UNCHANGED <<nodes, route>>
  <2>1. /\ walk \in WalkRow /\ Rows(walk.nodes) /\ walk.nodes = walk.asked.nodes
        /\ OneRowApart(walk.asked.route, route)
        /\ walk.pc = "hop" => walk.otbr \in NodeRow
        /\ walk.pc = "hop" /\ walk.asked.nodes = nodes =>
             Going(walk, nodes, walk.asked.route) \/ Going(walk, nodes, route)
        /\ walk.pc # "done" /\ walk.asked.nodes = nodes /\ walk.asked.route = route
    BY <1>3 DEF Walking, Untouched
  <2>2. CASE \E row \in NodeChange : SeeNode(row)
    <3>1. route' = route
      BY <2>2 DEF SeeNode
    <3>2. walk.pc = "hop" /\ nodes' = nodes =>
            Going(walk, nodes', walk.asked.route) \/ Going(walk, nodes', route')
      BY <2>1, <3>1
    <3> QED BY <2>1, <3>1, <3>2 DEF Walking, AnswerIsOfOneTable
  <2>3. CASE \E from, to \in Eui : \E row \in RouteChange : SeeRoute(from, to, row)
    <3>1. PICK from \in Eui, to \in Eui, row \in RouteChange : SeeRoute(from, to, row)
      BY <2>3
    <3>2. nodes' = nodes /\ route' = [route EXCEPT ![<<from, to>>] = row] /\ route \in Routes
      BY <3>1 DEF SeeRoute, TablesTyped, Routes
    <3>3. OneRowApart(walk.asked.route, route')
      <4>1. <<from, to>> \in Eui \X Eui
        OBVIOUS
      <4>2. \A l \in Eui \X Eui : l # <<from, to>> => route'[l] = route[l]
        BY <3>2 DEF Routes
      <4> QED BY <2>1, <4>1, <4>2 DEF OneRowApart
    <3>4. walk.pc = "hop" => Going(walk, nodes, walk.asked.route)
      BY <2>1
    <3> QED BY <2>1, <3>2, <3>3, <3>4 DEF Walking, AnswerIsOfOneTable
  <2> QED BY <1>3, <2>2, <2>3
          DEF ViewsNext, viewVars, tables, Routing, Diagnosing, SomeNode, SomeRoute,
              SomePeer, SomeCounts, SeePeer, SeeCounts
<1> QED BY <1>1, <1>2, <1>3

LEMMA WalkStep ==
  ASSUME TablesTyped, Walking, [ViewsNext]_viewVars,
         walk = NoWalk \/ Untouched \/ UNCHANGED <<nodes, route>>
  PROVE  Walking'
<1>1. CASE UNCHANGED walk
  BY <1>1, WalkWatches
<1>2. CASE \E e \in Eui : AskRoute(e) /\ UNCHANGED tables
  BY <1>2, WalkAsked
<1>3. CASE Locate /\ UNCHANGED tables
  <2>1. walk # NoWalk
    BY <1>3 DEF Locate, NoWalk
  <2> QED BY <1>3, <2>1, WalkLocates
<1>4. CASE Hop /\ UNCHANGED tables
  <2>1. walk # NoWalk
    BY <1>4 DEF Hop, NoWalk
  <2> QED BY <1>4, <2>1, WalkHops
<1> QED BY <1>1, <1>2, <1>3, <1>4
        DEF ViewsNext, viewVars, Routing, RouteNext, Diagnosing, SomeNode, SomeRoute,
            SomePeer, SomeCounts, routeVars

\* However the hops of a walk and one write of a node or a route fall together,
\* the answer is the one of the tables before the write or after it, on every
\* network and for every limit on the hops: pipeline/routing.py reads one row at a
\* time under the lock and never mixes the two tables into a third.
THEOREM AnswersAreOfOneTable == OneWriteSpec => []AnswerIsOfOneTable
<1>1. ViewsInit => Walking
  BY DEF ViewsInit, Walking
<1>2. Walking => AnswerIsOfOneTable
  BY DEF Walking, AnswerIsOfOneTable
<1>3. /\ TablesTyped /\ Walking /\ [ViewsNext]_viewVars
      /\ [walk = NoWalk \/ Untouched \/ UNCHANGED <<nodes, route>>]_viewVars
      => Walking'
  <2> SUFFICES ASSUME TablesTyped, Walking, [ViewsNext]_viewVars,
                      [walk = NoWalk \/ Untouched \/ UNCHANGED <<nodes, route>>]_viewVars
               PROVE  Walking'
    OBVIOUS
  <2>1. walk = NoWalk \/ Untouched \/ UNCHANGED <<nodes, route>>
    BY DEF viewVars, tables
  <2> QED BY <2>1, WalkStep
<1> QED BY <1>1, <1>2, <1>3, TablesStayTyped, PTL DEF OneWriteSpec, ViewsSpec

-----------------------------------------------------------------------------
(* what is reached whole, and what is reached without a vertex *)

\* A set is reached whole when what surrounds it is finite: while the balls grow,
\* each has a vertex more than the one before.
LEMMA ReachClosed ==
  ASSUME NEW next, IsFiniteSet(DOMAIN next), \A x \in DOMAIN next : next[x] \subseteq DOMAIN next,
         NEW s \in DOMAIN next
  PROVE  /\ s \in Reach(next, s) /\ Reach(next, s) \subseteq DOMAIN next
         /\ \A x \in Reach(next, s) : next[x] \subseteq Reach(next, s)
<1> DEFINE n == Cardinality(DOMAIN next)
<1>1. n \in Nat
  BY FS_CardinalityType
<1>2. PICK g : Grows(next, s, n, g)
  BY <1>1, ReachIs
<1>3. /\ g[0] = {s} /\ Reach(next, s) = g[n]
      /\ \A k \in 1 .. n : g[k] = Wider(next, g[k - 1])
  BY <1>2 DEF Grows
<1> DEFINE Whole(b) == \A x \in b : next[x] \subseteq b
           T == {m \in Nat : m <= n =>
                   /\ s \in g[m] /\ g[m] \subseteq DOMAIN next
                   /\ Whole(g[m]) \/ Cardinality(g[m]) >= m + 1}
<1>4. 0 \in T
  <2>1. Cardinality(g[0]) = 1
    BY <1>3, FS_Singleton
  <2>2. s \in g[0] /\ g[0] \subseteq DOMAIN next
    BY <1>3
  <2> HIDE DEF n, Whole
  <2> QED BY <2>1, <2>2
<1>5. ASSUME NEW m \in T
      PROVE  m + 1 \in T
  <2>1. m \in Nat /\ m + 1 \in Nat
    OBVIOUS
  <2>2. SUFFICES ASSUME m + 1 <= n
                 PROVE  /\ s \in g[m + 1] /\ g[m + 1] \subseteq DOMAIN next
                        /\ Whole(g[m + 1]) \/ Cardinality(g[m + 1]) >= m + 2
    BY <2>1
  <2>3. m <= n /\ m + 1 \in 1 .. n /\ (m + 1) - 1 = m
    BY <1>1, <2>1, <2>2
  <2>4. /\ s \in g[m] /\ g[m] \subseteq DOMAIN next
        /\ Whole(g[m]) \/ Cardinality(g[m]) >= m + 1
    BY <2>3
  <2>5. g[m + 1] = g[m] \cup UNION {next[x] : x \in g[m]}
    BY <1>3, <2>3 DEF Wider
  <2>6. s \in g[m + 1] /\ g[m + 1] \subseteq DOMAIN next
    BY <2>4, <2>5
  <2>7. CASE Whole(g[m])
    <3>1. g[m + 1] = g[m]
      BY <2>5, <2>7
    <3> QED BY <2>4, <2>6, <2>7, <3>1
  <2>8. CASE ~Whole(g[m])
    <3>1. PICK y \in g[m + 1] : y \notin g[m]
      BY <2>5, <2>8
    <3>2. IsFiniteSet(g[m]) /\ IsFiniteSet(g[m + 1])
      BY <2>4, <2>6, FS_Subset
    <3>3. Cardinality(g[m] \cup {y}) = Cardinality(g[m]) + 1 /\ IsFiniteSet(g[m] \cup {y})
      BY <3>1, <3>2, FS_AddElement
    <3>4. Cardinality(g[m] \cup {y}) <= Cardinality(g[m + 1])
      BY <2>5, <3>1, <3>2, <3>3, FS_Subset
    <3>5. Cardinality(g[m]) \in Nat /\ Cardinality(g[m + 1]) \in Nat
      BY <3>2, FS_CardinalityType
    <3> QED BY <2>1, <2>4, <2>6, <2>8, <3>3, <3>4, <3>5
  <2> QED BY <2>7, <2>8
<1>6. T = Nat
  <2>1. T \in SUBSET Nat
    OBVIOUS
  <2> HIDE DEF T
  <2> QED BY <1>4, <1>5, <2>1, Induction
<1>7. s \in g[n] /\ g[n] \subseteq DOMAIN next /\ (Whole(g[n]) \/ Cardinality(g[n]) >= n + 1)
  BY <1>1, <1>6
<1>8. Cardinality(g[n]) <= n /\ Cardinality(g[n]) \in Nat
  BY <1>7, FS_Subset, FS_CardinalityType
<1>9. Whole(g[n])
  BY <1>1, <1>7, <1>8
<1> QED BY <1>3, <1>7, <1>9

\* It is the least such set.
LEMMA ReachLeast ==
  ASSUME NEW next, IsFiniteSet(DOMAIN next), NEW s, NEW C, s \in C, \A x \in C : next[x] \subseteq C
  PROVE  Reach(next, s) \subseteq C
BY ReachWithin, FS_CardinalityType

-----------------------------------------------------------------------------
(* what is reached without a vertex *)

IsMesh(G) ==
  /\ DOMAIN G \subseteq Nat /\ IsFiniteSet(DOMAIN G)
  /\ \A x \in DOMAIN G : G[x] \subseteq DOMAIN G /\ \A y \in G[x] : x \in G[y]

Away(G, v) == [y \in DOMAIN G |-> G[y] \ {v}]

\* Without a vertex one reaches a set that is closed but for it.
LEMMA AwayClosed ==
  ASSUME NEW G, IsMesh(G), NEW v, NEW a \in DOMAIN G, a # v
  PROVE  /\ a \in Reach(Away(G, v), a) /\ Reach(Away(G, v), a) \subseteq DOMAIN G \ {v}
         /\ \A x \in Reach(Away(G, v), a) : \A y : y \in G[x] /\ y # v => y \in Reach(Away(G, v), a)
<1> DEFINE next == Away(G, v)
<1>1. DOMAIN next = DOMAIN G /\ \A x \in DOMAIN G : next[x] = G[x] \ {v}
  BY DEF Away
<1>2. IsFiniteSet(DOMAIN next) /\ \A x \in DOMAIN next : next[x] \subseteq DOMAIN next
  BY <1>1 DEF IsMesh
<1> HIDE DEF next
<1>3. /\ a \in Reach(next, a) /\ Reach(next, a) \subseteq DOMAIN next
      /\ \A x \in Reach(next, a) : next[x] \subseteq Reach(next, a)
  BY <1>1, <1>2, ReachClosed
<1>4. Reach(next, a) \subseteq DOMAIN G \ {v}
  <2> DEFINE C == DOMAIN G \ {v}
  <2>1. a \in C /\ \A x \in C : next[x] \subseteq C
    BY <1>1 DEF IsMesh
  <2> QED BY <1>2, <2>1, ReachLeast
<1> QED BY <1>1, <1>3, <1>4 DEF next

\* What is closed under the neighbors but for v is not left without v.
LEMMA AwayWithin ==
  ASSUME NEW G, IsMesh(G), NEW v, NEW a, NEW C \in SUBSET DOMAIN G, a \in C,
         \A x \in C : \A y : y \in G[x] /\ y # v => y \in C
  PROVE  Reach(Away(G, v), a) \subseteq C
<1>1. IsFiniteSet(DOMAIN Away(G, v)) /\ \A x \in C : Away(G, v)[x] \subseteq C
  BY DEF Away, IsMesh
<1> QED BY <1>1, ReachLeast

\* Reaching is transitive, and goes back the way it came.
LEMMA AwayFurther ==
  ASSUME NEW G, IsMesh(G), NEW v, NEW a \in DOMAIN G, a # v, NEW b \in Reach(Away(G, v), a)
  PROVE  Reach(Away(G, v), b) \subseteq Reach(Away(G, v), a)
BY AwayClosed, AwayWithin

LEMMA AwayBack ==
  ASSUME NEW G, IsMesh(G), NEW v, NEW a \in DOMAIN G, a # v, NEW b \in Reach(Away(G, v), a)
  PROVE  a \in Reach(Away(G, v), b)
<1> DEFINE C == {y \in DOMAIN G \ {v} : a \in Reach(Away(G, v), y)}
<1>1. a \in C
  BY AwayClosed
<1>2. ASSUME NEW x \in C, NEW y, y \in G[x], y # v
      PROVE  y \in C
  <2>1. x \in DOMAIN G /\ x # v /\ y \in DOMAIN G /\ x \in G[y]
    BY <1>2 DEF IsMesh
  <2>2. x \in Reach(Away(G, v), y)
    BY <1>2, <2>1, AwayClosed
  <2>3. a \in Reach(Away(G, v), y)
    BY <1>2, <2>1, <2>2, AwayFurther
  <2> QED BY <1>2, <2>1, <2>3
<1>3. C \in SUBSET DOMAIN G
  OBVIOUS
<1>4. Reach(Away(G, v), a) \subseteq C
  <2> HIDE DEF C
  <2> QED BY <1>1, <1>2, <1>3, AwayWithin
<1> QED BY <1>4

\* The definition in those terms.
LEMMA CutIs ==
  ASSUME NEW G, NEW v
  PROVE  v \in CutVertices(G) <=>
           v \in DOMAIN G /\ \E a, b \in DOMAIN G \ {v} : b \in Reach(G, a) /\ b \notin Reach(Away(G, v), a)
BY DEF CutVertices, Away

\* A vertex whose neighbors reach one another without it is no cut.
LEMMA NoCut ==
  ASSUME NEW G, IsMesh(G), NEW v \in DOMAIN G,
         \A a, b \in G[v] \ {v} : b \in Reach(Away(G, v), a)
  PROVE  v \notin CutVertices(G)
<1> SUFFICES ASSUME NEW a \in DOMAIN G \ {v}, NEW b \in DOMAIN G \ {v}, b \in Reach(G, a)
             PROVE  b \in Reach(Away(G, v), a)
  BY CutIs
<1> DEFINE R == Reach(Away(G, v), a)
           C == R \cup (IF \E x \in R : v \in G[x] THEN {v} ELSE {})
<1>1. /\ a \in R /\ R \subseteq DOMAIN G \ {v}
      /\ \A x \in R : \A y : y \in G[x] /\ y # v => y \in R
  BY AwayClosed
<1>2. ASSUME NEW x \in C
      PROVE  G[x] \subseteq C
  <2>1. CASE x # v
    <3>1. x \in R
      BY <2>1
    <3> QED BY <1>1, <3>1
  <2>2. CASE x = v
    <3>1. PICK y \in R : v \in G[y]
      BY <1>1, <2>2
    <3>2. y \in G[v] /\ y \in DOMAIN G /\ y # v
      BY <1>1, <3>1 DEF IsMesh
    <3>3. Reach(Away(G, v), y) \subseteq R
      BY <3>1, AwayFurther
    <3>4. G[v] \ {v} \subseteq R
      BY <3>2, <3>3
    <3> QED BY <2>2, <3>1, <3>4
  <2> QED BY <2>1, <2>2
<1>3. Reach(G, a) \subseteq C
  <2>1. IsFiniteSet(DOMAIN G) /\ a \in C
    BY <1>1 DEF IsMesh
  <2> HIDE DEF C
  <2> QED BY <1>2, <2>1, ReachLeast
<1> QED BY <1>3

\* A vertex is one when a set is closed but for it and some way leads out of it.
LEMMA IsCutBy ==
  ASSUME NEW G, IsMesh(G), NEW v \in DOMAIN G, NEW C \in SUBSET DOMAIN G,
         \A x \in C : \A y : y \in G[x] /\ y # v => y \in C,
         NEW a \in C, a # v, v \in G[a], NEW b \in DOMAIN G, b \notin C, b # v, b \in G[v]
  PROVE  v \in CutVertices(G)
<1>1. b \notin Reach(Away(G, v), a)
  BY AwayWithin
<1>2. /\ IsFiniteSet(DOMAIN G) /\ \A x \in DOMAIN G : G[x] \subseteq DOMAIN G
      /\ a \in DOMAIN G
  BY DEF IsMesh
<1>3. /\ a \in Reach(G, a) /\ Reach(G, a) \subseteq DOMAIN G
      /\ \A x \in Reach(G, a) : G[x] \subseteq Reach(G, a)
  BY <1>2, ReachClosed
<1>4. b \in Reach(G, a)
  <2>1. v \in Reach(G, a)
    BY <1>3
  <2> QED BY <1>3, <2>1
<1> QED BY <1>1, <1>2, <1>4, CutIs

-----------------------------------------------------------------------------
(* the search for articulation points, by the ways up its trees *)

Known(d) == {x \in DOMAIN d.graph : d.found[x] > 0}
Open(d, up) == IF d.stack = << >> THEN {} ELSE up[Last(d.stack)]
Kids(d, up, v) == {w \in Known(d) \ Open(d, up) : d.parent[w] = v}

SearchFields == {"pc", "call", "graph", "found", "low", "parent", "children", "looked", "stack", "time", "cut"}
SearchTyped(d) ==
  LET V == DOMAIN d.graph IN
  /\ DOMAIN d = SearchFields /\ d.pc = "run" /\ d.time \in Nat
  /\ d.found \in [V -> Nat] /\ d.low \in [V -> Nat] /\ d.parent \in [V -> V \cup {None}]
  /\ d.children \in [V -> Nat] /\ d.looked \in [V -> SUBSET V]
  /\ d.stack \in Seq(V) /\ d.cut \subseteq V

\* The discovered vertices are trees, up[x] the way from x to its root.
Forest(d, up) ==
  LET V == DOMAIN d.graph IN
  /\ up \in [V -> SUBSET Known(d)]
  /\ \A x \in V \ Known(d) : d.parent[x] = None /\ d.looked[x] = {} /\ up[x] = {}
  /\ \A x \in Known(d) :
       /\ x \in up[x] /\ d.found[x] <= d.time
       /\ d.parent[x] = None => up[x] = {x}
       /\ d.parent[x] # None => /\ d.parent[x] \in Known(d) /\ x \in d.looked[d.parent[x]]
                                /\ d.found[d.parent[x]] < d.found[x]
                                /\ up[x] = up[d.parent[x]] \cup {x}
       /\ \A y \in up[x] : /\ up[y] \subseteq up[x]
                           /\ y # x => d.found[y] < d.found[x]
                           /\ \A z \in up[x] : y \in up[z] \/ z \in up[y]

\* The stack is the way down to the call under way.
Trail(d) ==
  \A i \in 1 .. Len(d.stack) :
    /\ d.stack[i] \in Known(d)
    /\ d.parent[d.stack[i]] = IF i = 1 THEN None ELSE d.stack[i - 1]

\* An edge joins a vertex and one above it.
Across(d, up) ==
  \A x \in Known(d) :
    /\ d.looked[x] \subseteq d.graph[x] \cap Known(d)
    /\ \A u \in d.looked[x] : u \in up[x] \/ x \in up[u]
    /\ x \notin Open(d, up) => d.looked[x] = d.graph[x]

\* What low[x] is found from, and what it is no more than.
LowFrom(d, up, x) ==
  \E y \in Known(d), u \in Known(d) :
    /\ x \in up[y] /\ d.low[x] = d.found[u]
    /\ u = y \/ u \in d.looked[y] \ {d.parent[y]}
LowAtMost(d, up, x) ==
  /\ d.low[x] <= d.found[x]
  /\ \A u \in d.looked[x] \ {d.parent[x]} : d.low[x] <= d.found[u]
  /\ \A y \in Known(d) \ Open(d, up) :
       x \in up[y] /\ (up[y] \ up[x]) \cap Open(d, up) = {} => d.low[x] <= d.low[y]
Lows(d, up) == \A x \in Known(d) : LowFrom(d, up, x) /\ LowAtMost(d, up, x)

CutBy(d, up, v) ==
  IF d.parent[v] = None THEN \E a, b \in Kids(d, up, v) : a # b
                        ELSE \E w \in Kids(d, up, v) : d.low[w] >= d.found[v]
CutSoFar(d, up) ==
  \A v \in DOMAIN d.graph :
    /\ d.children[v] = Cardinality({w \in DOMAIN d.graph : d.parent[w] = v})
    /\ v \in d.cut <=> CutBy(d, up, v)

Searching(d, up) ==
  /\ IsMesh(d.graph) /\ SearchTyped(d) /\ Forest(d, up) /\ Trail(d)
  /\ Across(d, up) /\ Lows(d, up) /\ CutSoFar(d, up)

Searched(d, up) == Searching(d, up) /\ d.stack = << >> /\ Known(d) = DOMAIN d.graph

\* A search that has ended leaves trees of the whole graph, and no edge joins two
\* of them, nor two branches of one.
Trees(d, up) ==
  LET V == DOMAIN d.graph IN
  /\ IsMesh(d.graph) /\ d.found \in [V -> Nat] /\ d.low \in [V -> Nat] /\ d.parent \in [V -> V \cup {None}]
  /\ up \in [V -> SUBSET V] /\ None \notin V
  /\ \A x \in V :
       /\ x \in up[x]
       /\ d.parent[x] = None => up[x] = {x}
       /\ d.parent[x] # None => /\ x \in d.graph[d.parent[x]] /\ d.parent[x] \in d.graph[x]
                                /\ d.found[d.parent[x]] < d.found[x]
                                /\ up[x] = up[d.parent[x]] \cup {x}
       /\ \A y \in up[x] : /\ up[y] \subseteq up[x]
                           /\ y # x => d.found[y] < d.found[x]
                           /\ \A z \in up[x] : y \in up[z] \/ z \in up[y]
  /\ \A x \in V : \A u \in d.graph[x] : u \in up[x] \/ x \in up[u]

\* They are.
LEMMA TreesAre ==
  ASSUME NEW d, NEW up, Searched(d, up)
  PROVE  Trees(d, up)
<1> DEFINE V == DOMAIN d.graph
<1>1. /\ Known(d) = V /\ Open(d, up) = {} /\ Forest(d, up) /\ Across(d, up) /\ IsMesh(d.graph)
      /\ d.found \in [V -> Nat] /\ d.low \in [V -> Nat] /\ d.parent \in [V -> V \cup {None}]
  BY DEF Searched, Searching, SearchTyped, Open
<1>2. None \notin V
  BY <1>1, TablesAssumption DEF IsMesh
<1>3. \A x \in V : d.looked[x] = d.graph[x]
  BY <1>1 DEF Across
<1>4. \A x \in V : \A u \in d.graph[x] : u \in up[x] \/ x \in up[u]
  BY <1>1, <1>3 DEF Across
<1>5. up \in [V -> SUBSET V]
  BY <1>1 DEF Forest
<1>6. ASSUME NEW x \in V
      PROVE  /\ x \in up[x]
             /\ d.parent[x] = None => up[x] = {x}
             /\ d.parent[x] # None => /\ x \in d.graph[d.parent[x]] /\ d.parent[x] \in d.graph[x]
                                      /\ d.found[d.parent[x]] < d.found[x]
                                      /\ up[x] = up[d.parent[x]] \cup {x}
             /\ \A y \in up[x] : /\ up[y] \subseteq up[x]
                                 /\ y # x => d.found[y] < d.found[x]
                                 /\ \A z \in up[x] : y \in up[z] \/ z \in up[y]
  BY <1>1, <1>3 DEF Forest, IsMesh
<1> QED BY <1>1, <1>2, <1>4, <1>5, <1>6 DEF Trees

\* What the low values are when every neighbor was looked at.
LEMMA LowsAre ==
  ASSUME NEW d, NEW up, Searched(d, up), NEW x \in DOMAIN d.graph
  PROVE  /\ d.low[x] <= d.found[x]
         /\ \A u \in d.graph[x] : u # d.parent[x] => d.low[x] <= d.found[u]
         /\ \A y \in DOMAIN d.graph : x \in up[y] => d.low[x] <= d.low[y]
         /\ \E y \in DOMAIN d.graph, u \in DOMAIN d.graph :
              x \in up[y] /\ d.low[x] = d.found[u] /\ (u = y \/ u \in d.graph[y])
<1>1. /\ Known(d) = DOMAIN d.graph /\ Open(d, up) = {} /\ Across(d, up)
      /\ LowFrom(d, up, x) /\ LowAtMost(d, up, x)
  BY DEF Searched, Searching, Open, Lows
<1>2. \A y \in DOMAIN d.graph : d.looked[y] = d.graph[y]
  BY <1>1 DEF Across
<1> QED BY <1>1, <1>2 DEF LowFrom, LowAtMost

\* Of some discovered vertices one was found first.
LEMMA FoundFirst ==
  ASSUME NEW d, NEW up, Trees(d, up), NEW F \in SUBSET DOMAIN d.graph, F # {}
  PROVE  \E x \in F : \A y \in F : d.found[x] <= d.found[y]
<1> DEFINE T == {d.found[x] : x \in F}
<1>1. T \in SUBSET Nat /\ T # {}
  BY DEF Trees
<1>2. PICK n \in T : \A m \in T : n <= m
  BY <1>1, Least
<1> QED BY <1>2

\* One reaches what is above, if v is not on the way.
LEMMA UpReach ==
  ASSUME NEW d, NEW up, Trees(d, up), NEW v, NEW x0 \in DOMAIN d.graph, NEW y \in up[x0],
         y # v, v \notin up[x0] \ up[y]
  PROVE  y \in Reach(Away(d.graph, v), x0)
<1> DEFINE V == DOMAIN d.graph
           R(x) == Reach(Away(d.graph, v), x)
           F == {x \in V : y \in up[x] /\ v \notin up[x] \ up[y] /\ y \notin R(x)}
<1>1. SUFFICES ASSUME F # {} PROVE FALSE
  BY DEF Trees
<1>2. PICK x \in F : \A z \in F : d.found[x] <= d.found[z]
  <2> HIDE DEF F
  <2>1. F \in SUBSET DOMAIN d.graph
    BY DEF F
  <2> QED BY <1>1, <2>1, FoundFirst
<1>3. /\ IsMesh(d.graph) /\ x \in V /\ x \in up[x] /\ y \in up[x] /\ v \notin up[x] \ up[y]
      /\ y \in V /\ up[x] \subseteq V
  BY <1>2 DEF Trees
<1>4. x # y
  BY <1>2, <1>3, AwayClosed
<1>5. x # v
  <2>1. x \notin up[y]
    BY <1>3, <1>4 DEF Trees
  <2> QED BY <1>3, <2>1
<1>6. d.parent[x] # None /\ d.parent[x] \in V /\ d.parent[x] \in d.graph[x]
      /\ d.found[d.parent[x]] < d.found[x] /\ up[x] = up[d.parent[x]] \cup {x}
  BY <1>3, <1>4 DEF Trees
<1> DEFINE q == d.parent[x]
<1>7. y \in up[q] /\ v \notin up[q] \ up[y] /\ q \in up[q]
  BY <1>3, <1>4, <1>6 DEF Trees
<1>8. d.found[q] \in Nat /\ d.found[x] \in Nat
  BY <1>3, <1>6 DEF Trees
<1>9. q \notin F
  BY <1>2, <1>6, <1>8
<1>10. y \in R(q)
  BY <1>6, <1>7, <1>9
<1>11. q # v
  <2>1. CASE q = y
    BY <2>1
  <2>2. CASE q # y
    <3>1. q \notin up[y]
      BY <1>6, <1>7, <1>8, <2>2 DEF Trees
    <3> QED BY <1>7, <3>1
  <2> QED BY <2>1, <2>2
<1>12. q \in R(x)
  BY <1>3, <1>5, <1>6, <1>11, AwayClosed
<1>13. y \in R(x)
  BY <1>3, <1>5, <1>10, <1>12, AwayFurther
<1> QED BY <1>2, <1>13

\* What is below v is below a child of v.
LEMMA ChildToward ==
  ASSUME NEW d, NEW up, Trees(d, up), NEW v \in DOMAIN d.graph, NEW n0 \in DOMAIN d.graph,
         v \in up[n0], v # n0
  PROVE  \E w \in DOMAIN d.graph : d.parent[w] = v /\ w \in up[n0]
<1> DEFINE V == DOMAIN d.graph
           F == {n \in V : v \in up[n] /\ v # n /\ ~\E w \in V : d.parent[w] = v /\ w \in up[n]}
<1>1. SUFFICES ASSUME F # {} PROVE FALSE
  OBVIOUS
<1>2. PICK n \in F : \A z \in F : d.found[n] <= d.found[z]
  <2> HIDE DEF F
  <2>1. F \in SUBSET DOMAIN d.graph
    BY DEF F
  <2> QED BY <1>1, <2>1, FoundFirst
<1>3. /\ n \in V /\ n \in up[n] /\ v \in up[n] /\ v # n
  BY <1>2 DEF Trees
<1>4. d.parent[n] # None /\ d.parent[n] \in V /\ d.found[d.parent[n]] < d.found[n]
      /\ up[n] = up[d.parent[n]] \cup {n}
  BY <1>3 DEF Trees
<1> DEFINE q == d.parent[n]
<1>5. d.found[q] \in Nat /\ d.found[n] \in Nat
  BY <1>3, <1>4 DEF Trees
<1>6. q # v
  BY <1>2, <1>3
<1>7. q \notin F
  BY <1>2, <1>4, <1>5
<1>8. PICK w \in V : d.parent[w] = v /\ w \in up[q]
  BY <1>3, <1>4, <1>6, <1>7
<1> QED BY <1>2, <1>4, <1>8

\* What is below w is closed in the graph without the parent of w, if no low
\* below w leads past that parent.
LEMMA BranchClosed ==
  ASSUME NEW d, NEW up, Searched(d, up), NEW v \in DOMAIN d.graph, NEW w \in DOMAIN d.graph,
         d.parent[w] = v, d.parent[v] = None \/ d.low[w] >= d.found[v],
         NEW x \in DOMAIN d.graph, w \in up[x], NEW u, u \in d.graph[x], u # v
  PROVE  u \in DOMAIN d.graph /\ w \in up[u]
<1> DEFINE V == DOMAIN d.graph
<1>1. Trees(d, up)
  BY TreesAre
<1>2. /\ u \in V /\ (u \in up[x] \/ x \in up[u]) /\ v # None
      /\ up[w] = up[v] \cup {w} /\ d.found[v] < d.found[w] /\ w \in up[w] /\ v \in up[v]
      /\ d.found \in [V -> Nat] /\ d.low \in [V -> Nat] /\ up \in [V -> SUBSET V]
  BY <1>1 DEF Trees, IsMesh
<1>3. CASE x \in up[u]
  BY <1>1, <1>2, <1>3 DEF Trees
<1>4. CASE u \in up[x] /\ u \in up[v]
  <2>1. d.parent[v] # None /\ d.found[u] < d.found[v]
    BY <1>1, <1>2, <1>4 DEF Trees
  <2>2. u # d.parent[x]
    <3>1. SUFFICES ASSUME u = d.parent[x], x # w PROVE FALSE
      OBVIOUS
    <3>2. w \in up[u]
      BY <1>1, <1>2, <3>1 DEF Trees
    <3>3. w \in up[v]
      BY <1>1, <1>2, <1>4, <3>2 DEF Trees
    <3>4. w # v => d.found[w] < d.found[v]
      BY <1>1, <3>3 DEF Trees
    <3> QED BY <1>2, <3>4
  <2>3. d.low[x] <= d.found[u] /\ d.low[w] <= d.low[x]
    BY <2>2, LowsAre
  <2>4. d.low[w] \in Nat /\ d.low[x] \in Nat /\ d.found[u] \in Nat /\ d.found[v] \in Nat
    BY <1>2
  <2> QED BY <2>1, <2>3, <2>4
<1>5. CASE u \in up[x] /\ u \notin up[v]
  <2>1. u \in up[w] \/ w \in up[u]
    BY <1>1, <1>5 DEF Trees
  <2> QED BY <1>2, <1>5, <2>1
<1> QED BY <1>2, <1>3, <1>4, <1>5

\* A vertex the search takes for a cut is one.
LEMMA CutsAreTrue ==
  ASSUME NEW d, NEW up, Searched(d, up), NEW v \in DOMAIN d.graph, CutBy(d, up, v)
  PROVE  v \in CutVertices(d.graph)
<1> DEFINE V == DOMAIN d.graph
           Below(w) == {x \in V : w \in up[x]}
<1>1. Trees(d, up) /\ IsMesh(d.graph)
  BY TreesAre DEF Trees
<1>2. \A w \in Kids(d, up, v) : w \in V /\ d.parent[w] = v
  BY DEF Kids, Known
<1>3. \A w \in V : d.parent[w] = v =>
        /\ v # None /\ w # v /\ v \in d.graph[w] /\ w \in d.graph[v] /\ d.found[v] < d.found[w]
        /\ up[w] = up[v] \cup {w} /\ w \in Below(w) /\ w \notin up[v]
  <2> SUFFICES ASSUME NEW w \in V, d.parent[w] = v
               PROVE  /\ v # None /\ w # v /\ v \in d.graph[w] /\ w \in d.graph[v] /\ d.found[v] < d.found[w]
                      /\ up[w] = up[v] \cup {w} /\ w \in Below(w) /\ w \notin up[v]
    OBVIOUS
  <2>1. /\ v # None /\ v \in d.graph[w] /\ w \in d.graph[v] /\ d.found[v] < d.found[w]
        /\ up[w] = up[v] \cup {w} /\ w \in up[w] /\ d.found[v] \in Nat /\ d.found[w] \in Nat
    BY <1>1 DEF Trees
  <2>2. w \in up[v] => w = v \/ d.found[w] < d.found[v]
    BY <1>1 DEF Trees
  <2> QED BY <2>1, <2>2
<1>4. \A w \in V : Below(w) \in SUBSET V
  OBVIOUS
<1>5. CASE d.parent[v] = None
  <2>1. PICK a \in Kids(d, up, v), b \in Kids(d, up, v) : a # b
    BY <1>5 DEF CutBy
  <2>2. \A x \in Below(a) : \A u : u \in d.graph[x] /\ u # v => u \in Below(a)
    BY <1>2, <1>5, BranchClosed
  <2>3. b \notin Below(a)
    <3>1. up[v] = {v}
      BY <1>1, <1>5 DEF Trees
    <3> QED BY <1>2, <1>3, <2>1, <3>1
  <2> HIDE DEF Below
  <2> QED BY <1>1, <1>2, <1>3, <1>4, <2>1, <2>2, <2>3, IsCutBy
<1>6. CASE d.parent[v] # None
  <2>1. PICK w \in Kids(d, up, v) : d.low[w] >= d.found[v]
    BY <1>6 DEF CutBy
  <2>2. \A x \in Below(w) : \A u : u \in d.graph[x] /\ u # v => u \in Below(w)
    BY <1>2, <2>1, BranchClosed
  <2> DEFINE p == d.parent[v]
  <2>3. /\ p \in V /\ p \in d.graph[v] /\ p # v /\ p \in up[v]
    BY <1>1, <1>6 DEF Trees
  <2>4. p \notin Below(w)
    <3>1. p \in V /\ up[p] \subseteq up[v]
      BY <1>1, <2>3 DEF Trees
    <3> QED BY <1>2, <1>3, <2>1, <3>1
  <2> HIDE DEF Below, p
  <2> QED BY <1>1, <1>2, <1>3, <1>4, <2>1, <2>2, <2>3, <2>4, IsCutBy
<1> QED BY <1>5, <1>6

\* Below a child of v whose low is above v, one gets past v.
LEMMA PastTheParent ==
  ASSUME NEW d, NEW up, Searched(d, up), NEW v \in DOMAIN d.graph, d.parent[v] # None,
         NEW w \in DOMAIN d.graph, d.parent[w] = v, d.low[w] < d.found[v],
         NEW n \in DOMAIN d.graph, w \in up[n]
  PROVE  n # v /\ d.parent[v] \in Reach(Away(d.graph, v), n)
<1> DEFINE V == DOMAIN d.graph
           R(x) == Reach(Away(d.graph, v), x)
           p == d.parent[v]
<1>1. Trees(d, up) /\ IsMesh(d.graph)
  BY TreesAre DEF Trees
<1>2. /\ v # None /\ up[w] = up[v] \cup {w} /\ d.found[v] < d.found[w] /\ w \in up[w] /\ v \in up[v]
      /\ d.found \in [V -> Nat] /\ d.low \in [V -> Nat] /\ up \in [V -> SUBSET V]
      /\ p \in V /\ up[v] = up[p] \cup {v} /\ d.found[p] < d.found[v] /\ p \in up[p]
  BY <1>1 DEF Trees
<1>3. w # v /\ p # v
  BY <1>2
<1>4. \A x \in V : w \in up[x] => /\ x # v /\ v \in up[x] /\ d.found[v] < d.found[x]
                                  /\ w \in R(x) /\ x \in R(w)
  <2> SUFFICES ASSUME NEW x \in V, w \in up[x]
               PROVE  x # v /\ v \in up[x] /\ d.found[v] < d.found[x] /\ w \in R(x) /\ x \in R(w)
    OBVIOUS
  <2>1. v \in up[x]
    BY <1>1, <1>2 DEF Trees
  <2>2. d.found[v] < d.found[x]
    <3>1. x # w => d.found[w] < d.found[x]
      BY <1>1 DEF Trees
    <3>2. d.found[v] \in Nat /\ d.found[x] \in Nat /\ d.found[w] \in Nat
      BY <1>2
    <3> QED BY <1>2, <3>1, <3>2
  <2>3. x # v
    BY <1>2, <2>2
  <2>4. w \in R(x)
    BY <1>1, <1>2, <1>3, UpReach
  <2> QED BY <1>1, <2>1, <2>2, <2>3, <2>4, AwayBack
<1>5. PICK y \in V, u \in V : w \in up[y] /\ d.low[w] = d.found[u] /\ (u = y \/ u \in d.graph[y])
  BY LowsAre
<1>6. d.found[u] < d.found[v] /\ d.found[u] \in Nat /\ d.found[v] \in Nat /\ d.found[y] \in Nat
  BY <1>2, <1>5
<1>7. u # y /\ u \in d.graph[y] /\ u # v
  BY <1>4, <1>5, <1>6
<1>8. u \in up[y]
  <2>1. u \in up[y] \/ y \in up[u]
    BY <1>1, <1>7 DEF Trees
  <2>2. y \in up[u] => d.found[y] < d.found[u]
    BY <1>1, <1>7 DEF Trees
  <2> QED BY <1>4, <1>5, <1>6, <2>1, <2>2
<1>9. u \in up[p]
  <2>1. v \in up[y] /\ u \in up[y]
    BY <1>4, <1>5, <1>8
  <2>2. u \in up[v] \/ v \in up[u]
    BY <1>1, <2>1 DEF Trees
  <2>3. v \in up[u] => d.found[v] < d.found[u]
    BY <1>1, <1>7 DEF Trees
  <2> QED BY <1>2, <1>6, <1>7, <2>2, <2>3
<1>10. v \notin up[p]
  <2>1. v \in up[p] => v = p \/ d.found[v] < d.found[p]
    BY <1>1, <1>2 DEF Trees
  <2>2. d.found[p] \in Nat
    BY <1>2
  <2> QED BY <1>2, <1>3, <1>6, <2>1, <2>2
<1>11. u \in R(p)
  BY <1>1, <1>2, <1>7, <1>9, <1>10, UpReach
<1>12. p \in R(u)
  BY <1>1, <1>2, <1>3, <1>11, AwayBack
<1>13. u \in R(y)
  BY <1>1, <1>4, <1>5, <1>7, AwayClosed
<1>14. y \in R(w) /\ w \in R(n) /\ n # v /\ y # v
  BY <1>4, <1>5
<1>15. y \in R(n)
  BY <1>1, <1>14, AwayFurther
<1>16. u \in R(n)
  BY <1>1, <1>5, <1>13, <1>14, <1>15, AwayFurther
<1>17. p \in R(n)
  BY <1>1, <1>12, <1>14, <1>16, AwayFurther
<1> QED BY <1>14, <1>17

\* The search misses none.
LEMMA CutsAreAll ==
  ASSUME NEW d, NEW up, Searched(d, up), NEW v \in DOMAIN d.graph, ~CutBy(d, up, v)
  PROVE  v \notin CutVertices(d.graph)
<1> DEFINE V == DOMAIN d.graph
           R(x) == Reach(Away(d.graph, v), x)
<1>1. Trees(d, up) /\ IsMesh(d.graph)
  BY TreesAre DEF Trees
<1>2. \A w \in V : d.parent[w] = v <=> w \in Kids(d, up, v)
  BY DEF Kids, Searched, Open
<1>3. d.graph[v] \subseteq V /\ v \in up[v] /\ up[v] \subseteq V
  BY <1>1 DEF Trees, IsMesh
<1>4. \A n \in d.graph[v] : n \in up[v] \/ v \in up[n]
  BY <1>1 DEF Trees
<1>5. CASE d.parent[v] = None
  <2>1. up[v] = {v}
    BY <1>1, <1>5 DEF Trees
  <2>2. \A n \in d.graph[v] \ {v} : \E w \in V : d.parent[w] = v /\ w \in up[n]
    BY <1>1, <1>3, <1>4, <2>1, ChildToward
  <2>3. \A w \in V, n \in V \ {v} : d.parent[w] = v /\ w \in up[n] => w \in R(n) /\ n \in R(w) /\ w # v
    <3> SUFFICES ASSUME NEW w \in V, NEW n \in V \ {v}, d.parent[w] = v, w \in up[n]
                 PROVE  w \in R(n) /\ n \in R(w) /\ w # v
      OBVIOUS
    <3>1. v # None /\ v \in up[w] /\ w # v
      BY <1>1, <1>3 DEF Trees
    <3>2. w \in R(n)
      BY <1>1, <3>1, UpReach
    <3> QED BY <1>1, <3>1, <3>2, AwayBack
  <2>4. \A a, b \in d.graph[v] \ {v} : b \in R(a)
    <3> SUFFICES ASSUME NEW a \in d.graph[v] \ {v}, NEW b \in d.graph[v] \ {v} PROVE b \in R(a)
      OBVIOUS
    <3>1. PICK w \in V : d.parent[w] = v /\ w \in up[a]
      BY <2>2
    <3>2. PICK x \in V : d.parent[x] = v /\ x \in up[b]
      BY <2>2
    <3>3. w = x
      BY <1>2, <1>5, <3>1, <3>2 DEF CutBy
    <3>4. w \in R(a) /\ b \in R(w)
      BY <1>3, <2>3, <3>1, <3>2, <3>3
    <3> QED BY <1>1, <1>3, <3>4, AwayFurther
  <2> QED BY <1>1, <2>4, NoCut
<1>6. CASE d.parent[v] # None
  <2> DEFINE p == d.parent[v]
  <2>1. /\ p \in V /\ p # v /\ up[v] = up[p] \cup {v} /\ d.found[p] < d.found[v]
        /\ d.found[p] \in Nat /\ d.found[v] \in Nat
    BY <1>1, <1>6 DEF Trees
  <2>2. v \notin up[p]
    <3>1. v \in up[p] => d.found[v] < d.found[p]
      BY <1>1, <2>1 DEF Trees
    <3> QED BY <2>1, <3>1
  <2>3. \A w \in V : d.parent[w] = v => d.low[w] < d.found[v]
    <3> SUFFICES ASSUME NEW w \in V, d.parent[w] = v PROVE d.low[w] < d.found[v]
      OBVIOUS
    <3>1. ~(d.low[w] >= d.found[v])
      BY <1>2, <1>6 DEF CutBy
    <3>2. d.low[w] \in Nat
      BY <1>1 DEF Trees
    <3> QED BY <2>1, <3>1, <3>2
  <2>4. \A n \in d.graph[v] \ {v} : p \in R(n)
    <3> SUFFICES ASSUME NEW n \in d.graph[v] \ {v} PROVE p \in R(n)
      OBVIOUS
    <3>1. CASE n \in up[v]
      <4>1. n \in R(p)
        BY <1>1, <2>1, <2>2, <3>1, UpReach
      <4> QED BY <1>1, <2>1, <4>1, AwayBack
    <3>2. CASE v \in up[n]
      <4>1. n \in V
        BY <1>3
      <4>2. PICK w \in V : d.parent[w] = v /\ w \in up[n]
        BY <1>1, <3>2, <4>1, ChildToward
      <4> QED BY <1>6, <2>3, <4>1, <4>2, PastTheParent
    <3> QED BY <1>4, <3>1, <3>2
  <2>5. \A a, b \in d.graph[v] \ {v} : b \in R(a)
    <3> SUFFICES ASSUME NEW a \in d.graph[v] \ {v}, NEW b \in d.graph[v] \ {v} PROVE b \in R(a)
      OBVIOUS
    <3>1. a \in V /\ b \in V /\ p \in R(a) /\ p \in R(b)
      BY <1>3, <2>4
    <3>2. b \in R(p)
      BY <1>1, <3>1, AwayBack
    <3> QED BY <1>1, <3>1, <3>2, AwayFurther
  <2> QED BY <1>1, <2>5, NoCut
<1> QED BY <1>5, <1>6

\* What the search finds are the vertices the graph hangs on, all of them.
LEMMA SearchIsExact ==
  ASSUME NEW d, NEW up, Searched(d, up)
  PROVE  d.cut = CutVertices(d.graph)
<1>1. \A v \in DOMAIN d.graph : v \in d.cut <=> CutBy(d, up, v)
  BY DEF Searched, Searching, CutSoFar
<1>2. d.cut \subseteq DOMAIN d.graph
  BY DEF Searched, Searching, SearchTyped
<1>3. CutVertices(d.graph) \subseteq DOMAIN d.graph
  BY DEF CutVertices
<1> QED BY <1>1, <1>2, <1>3, CutsAreTrue, CutsAreAll

-----------------------------------------------------------------------------
(* the steps of the search *)

\* What a step leaves of a search, and what a call for `w` makes of it.
SameSearch(d, e) == DOMAIN e = SearchFields /\ e.pc = d.pc /\ e.call = d.call /\ e.graph = d.graph
Discovered(d, e, w, from) ==
  /\ SameSearch(d, e)
  /\ e.time = d.time + 1 /\ e.found = [d.found EXCEPT ![w] = d.time + 1]
  /\ e.low = [d.low EXCEPT ![w] = d.time + 1]
  /\ e.parent = [d.parent EXCEPT ![w] = from] /\ e.stack = Append(d.stack, w) /\ e.cut = d.cut
  /\ e.looked = IF from = None THEN d.looked ELSE [d.looked EXCEPT ![from] = @ \cup {w}]
  /\ e.children = IF from = None THEN d.children ELSE [d.children EXCEPT ![from] = @ + 1]

Further(up, above, w) == [up EXCEPT ![w] = above \cup {w}]

\* The calls under way are discovered vertices, those above the last of them.
LEMMA OpenIs ==
  ASSUME NEW d, NEW up, Searching(d, up)
  PROVE  /\ Open(d, up) \subseteq Known(d) /\ None \notin DOMAIN d.graph
         /\ d.stack # << >> => /\ Last(d.stack) \in Known(d) /\ Last(d.stack) \in Open(d, up)
                               /\ Open(d, up) = up[Last(d.stack)]
                               /\ Len(d.stack) \in Nat \ {0} /\ Last(d.stack) = d.stack[Len(d.stack)]
<1>1. /\ IsMesh(d.graph) /\ Forest(d, up) /\ Trail(d) /\ d.stack \in Seq(DOMAIN d.graph)
  BY DEF Searching, SearchTyped
<1>2. None \notin DOMAIN d.graph
  BY <1>1, TablesAssumption DEF IsMesh
<1>3. CASE d.stack = << >>
  BY <1>2, <1>3 DEF Open
<1>4. CASE d.stack # << >>
  <2>1. Len(d.stack) \in Nat \ {0} /\ Last(d.stack) = d.stack[Len(d.stack)]
    BY <1>1, <1>4 DEF Last
  <2>2. Last(d.stack) \in Known(d)
    BY <1>1, <2>1 DEF Trail
  <2>3. Open(d, up) = up[Last(d.stack)]
    BY <1>4 DEF Open
  <2> QED BY <1>1, <1>2, <2>1, <2>2, <2>3 DEF Forest
<1> QED BY <1>3, <1>4

\* What that comes to, `us` the ways up from then on.
Extended(d, e, up, us, w, from) ==
  LET V == DOMAIN d.graph IN
  /\ from # None => /\ from \in Known(d) /\ from \in Open(d, up) /\ from \in V /\ w \in d.graph[from]
                    /\ e.looked[from] = d.looked[from] \cup {w}
                    /\ e.children[from] = d.children[from] + 1
  /\ None \notin V /\ w # from /\ w \notin Known(d) /\ Known(e) = Known(d) \cup {w}
  /\ e.graph = d.graph /\ d.time \in Nat /\ e.time = d.time + 1 /\ e.cut = d.cut
  /\ \A x \in V : x # w => /\ e.found[x] = d.found[x] /\ e.low[x] = d.low[x]
                          /\ e.parent[x] = d.parent[x] /\ us[x] = up[x]
  /\ e.found[w] = d.time + 1 /\ e.low[w] = d.time + 1 /\ e.parent[w] = from
  /\ \A x \in V : x # from => e.looked[x] = d.looked[x] /\ e.children[x] = d.children[x]
  /\ us \in [V -> SUBSET (Known(d) \cup {w})]
  /\ us[w] = Open(d, up) \cup {w} /\ Open(e, us) = Open(d, up) \cup {w}
  /\ Open(d, up) = IF from = None THEN {} ELSE up[from]
  /\ SearchTyped(e)

\* A discovery comes to that, from the last call under way or from none.
LEMMA DiscoveredFields ==
  ASSUME NEW d, NEW up, Searching(d, up), NEW e, NEW w \in DOMAIN d.graph, d.found[w] = 0, NEW from,
         \/ from = None /\ d.stack = << >>
         \/ d.stack # << >> /\ from = Last(d.stack) /\ w \in d.graph[from] \ d.looked[from],
         Discovered(d, e, w, from)
  PROVE  Extended(d, e, up, Further(up, Open(d, up), w), w, from)
<1> DEFINE V == DOMAIN d.graph
           us == Further(up, Open(d, up), w)
<1>1. /\ IsMesh(d.graph) /\ SearchTyped(d) /\ Forest(d, up) /\ None \notin V /\ e.graph = d.graph
      /\ Open(d, up) \subseteq Known(d)
  BY OpenIs DEF Searching, Discovered, SameSearch
<1>2. from # None => from \in Known(d) /\ from \in Open(d, up) /\ from \in V
  <2>1. ASSUME d.stack # << >>
        PROVE  Last(d.stack) \in Known(d) /\ Last(d.stack) \in Open(d, up) /\ Last(d.stack) \in V
    <3>1. Last(d.stack) \in Known(d) /\ Last(d.stack) \in Open(d, up)
      BY <2>1, OpenIs
    <3> QED BY <3>1 DEF Known
  <2> QED BY <2>1
<1>3. Open(d, up) = IF from = None THEN {} ELSE up[from]
  BY <1>1, <1>2, OpenIs DEF Open, Known
<1>4. w \notin Known(d) /\ (from = None \/ from # w)
  BY <1>2 DEF Known
<1>5. \A x \in V : x # w => e.found[x] = d.found[x] /\ e.low[x] = d.low[x] /\ e.parent[x] = d.parent[x]
  BY <1>1 DEF SearchTyped, Discovered
<1>6. e.found[w] = d.time + 1 /\ e.low[w] = d.time + 1 /\ e.parent[w] = from /\ d.time \in Nat
      /\ e.cut = d.cut
  BY <1>1 DEF SearchTyped, Discovered
<1>7. /\ \A x \in V : x # from => e.looked[x] = d.looked[x] /\ e.children[x] = d.children[x]
      /\ from # None => e.looked[from] = d.looked[from] \cup {w} /\ e.children[from] = d.children[from] + 1
  <2>1. d.looked \in [V -> SUBSET V] /\ d.children \in [V -> Nat]
    BY <1>1 DEF SearchTyped
  <2>2. CASE from = None
    <3>1. e.looked = d.looked /\ e.children = d.children
      BY <2>2 DEF Discovered
    <3> QED BY <1>1, <2>2, <3>1
  <2>3. CASE from # None
    <3>1. e.looked = [d.looked EXCEPT ![from] = @ \cup {w}]
          /\ e.children = [d.children EXCEPT ![from] = @ + 1]
      BY <2>3 DEF Discovered
    <3> QED BY <1>2, <2>1, <2>3, <3>1
  <2> QED BY <2>2, <2>3
<1>9. Known(e) = Known(d) \cup {w}
  BY <1>1, <1>5, <1>6 DEF Known
<1>10. /\ \A x \in V : x # w => us[x] = up[x]
       /\ us[w] = Open(d, up) \cup {w} /\ us \in [V -> SUBSET (Known(d) \cup {w})]
  BY <1>1 DEF Forest, Further
<1>11. Open(e, us) = Open(d, up) \cup {w}
  <2>1. d.stack \in Seq(V) /\ e.stack = Append(d.stack, w)
    BY <1>1 DEF SearchTyped, Discovered
  <2>2. e.stack # << >> /\ Last(e.stack) = w
    <3>1. Len(e.stack) = Len(d.stack) + 1 /\ Len(d.stack) \in Nat /\ e.stack[Len(d.stack) + 1] = w
      BY <2>1, AppendProperties
    <3>2. Len(<< >>) = 0
      OBVIOUS
    <3> QED BY <3>1, <3>2 DEF Last
  <2> QED BY <1>10, <2>2 DEF Open
<1>12. SearchTyped(e)
  <2>1. DOMAIN e = SearchFields /\ e.pc = "run" /\ e.time \in Nat /\ e.cut \subseteq V /\ e.stack \in Seq(V)
    <3>1. d.stack \in Seq(V) /\ d.pc = "run" /\ d.time \in Nat /\ d.cut \subseteq V
      BY <1>1 DEF SearchTyped
    <3>2. /\ DOMAIN e = SearchFields /\ e.pc = d.pc /\ e.time = d.time + 1 /\ e.cut = d.cut
          /\ e.stack = Append(d.stack, w)
      BY DEF Discovered, SameSearch
    <3>3. e.stack \in Seq(V)
      <4>1. w \in V /\ d.stack \in Seq(V)
        BY <3>1
      <4> HIDE DEF V
      <4>2. Append(d.stack, w) \in Seq(V)
        BY <4>1, AppendProperties
      <4> QED BY <3>2, <4>2
    <3> QED BY <3>1, <3>2, <3>3
  <2>2. e.found \in [V -> Nat] /\ e.low \in [V -> Nat]
    <3>1. /\ d.found \in [V -> Nat] /\ d.low \in [V -> Nat] /\ d.time + 1 \in Nat
          /\ e.found = [d.found EXCEPT ![w] = d.time + 1] /\ e.low = [d.low EXCEPT ![w] = d.time + 1]
      <4>1. d.found \in [V -> Nat] /\ d.low \in [V -> Nat] /\ d.time + 1 \in Nat
        BY <1>1 DEF SearchTyped
      <4>2. e.found = [d.found EXCEPT ![w] = d.time + 1] /\ e.low = [d.low EXCEPT ![w] = d.time + 1]
        BY DEF Discovered
      <4> QED BY <4>1, <4>2
    <3> QED BY <3>1
  <2>3. e.parent \in [V -> V \cup {None}]
    BY <1>1, <1>2 DEF SearchTyped, Discovered
  <2>4. e.looked \in [V -> SUBSET V] /\ e.children \in [V -> Nat]
    <3>1. d.looked \in [V -> SUBSET V] /\ d.children \in [V -> Nat]
      BY <1>1 DEF SearchTyped
    <3>2. CASE from = None
      BY <3>1, <3>2 DEF Discovered
    <3>3. CASE from # None
      <4>1. e.looked = [d.looked EXCEPT ![from] = @ \cup {w}]
            /\ e.children = [d.children EXCEPT ![from] = @ + 1]
        BY <3>3 DEF Discovered
      <4> QED BY <1>2, <3>1, <3>3, <4>1
    <3> QED BY <3>2, <3>3
  <2> QED BY <1>1, <2>1, <2>2, <2>3, <2>4 DEF SearchTyped
<1>13. e.time = d.time + 1
  BY DEF Discovered
<1> HIDE DEF us
<1>14. Extended(d, e, up, us, w, from)
  BY <1>1, <1>2, <1>3, <1>4, <1>5, <1>6, <1>7, <1>9, <1>10, <1>11, <1>12, <1>13 DEF Extended
<1> QED BY <1>14 DEF us

\* A vertex discovered from the last of the stack extends the way to it.
LEMMA DiscoverSearches ==
  ASSUME NEW d, NEW up, Searching(d, up), NEW e, NEW w \in DOMAIN d.graph, d.found[w] = 0, NEW from,
         \/ from = None /\ d.stack = << >>
         \/ d.stack # << >> /\ from = Last(d.stack) /\ w \in d.graph[from] \ d.looked[from],
         Discovered(d, e, w, from)
  PROVE  Searching(e, Further(up, Open(d, up), w))
<1> DEFINE V == DOMAIN d.graph
           us == Further(up, Open(d, up), w)
<1>1. /\ IsMesh(d.graph) /\ SearchTyped(d) /\ Forest(d, up) /\ Trail(d)
      /\ Across(d, up) /\ Lows(d, up) /\ CutSoFar(d, up) /\ None \notin V
      /\ Open(d, up) \subseteq Known(d) /\ Known(d) \subseteq V
  BY OpenIs DEF Searching, Known
<1>2. /\ from # None => from \in Known(d) /\ from \in Open(d, up) /\ from \in V /\ w \in d.graph[from]
      /\ from # None => e.looked[from] = d.looked[from] \cup {w} /\ e.children[from] = d.children[from] + 1
      /\ None \notin V /\ w # from /\ w \notin Known(d) /\ Known(e) = Known(d) \cup {w}
      /\ e.graph = d.graph /\ DOMAIN e.graph = V /\ d.time \in Nat /\ e.time = d.time + 1 /\ e.cut = d.cut
      /\ \A x \in V : x # w => /\ e.found[x] = d.found[x] /\ e.low[x] = d.low[x]
                              /\ e.parent[x] = d.parent[x] /\ us[x] = up[x]
      /\ e.found[w] = d.time + 1 /\ e.low[w] = d.time + 1 /\ e.parent[w] = from
      /\ \A x \in V : x # from => e.looked[x] = d.looked[x] /\ e.children[x] = d.children[x]
      /\ us[w] = Open(d, up) \cup {w} /\ Open(e, us) = Open(d, up) \cup {w}
      /\ Open(d, up) = IF from = None THEN {} ELSE up[from]
      /\ us \in [V -> SUBSET Known(e)] /\ SearchTyped(e)
  <2>1. Extended(d, e, up, us, w, from)
    BY DiscoveredFields
  <2> HIDE DEF us
  <2> QED BY <2>1 DEF Extended
<1> HIDE DEF us
<1>3. d.parent[w] = None /\ d.looked[w] = {} /\ up[w] = {}
  BY <1>1, <1>2 DEF Forest
<1>4. \A x \in Known(d) : x # w /\ x \in V /\ up[x] \subseteq Known(d) /\ us[x] = up[x]
  BY <1>1, <1>2 DEF Forest
<1>5. \A x \in V : d.found[x] \in Nat /\ d.low[x] \in Nat
  BY <1>1 DEF SearchTyped
<1>6. Forest(e, us)
  <2>1. us \in [V -> SUBSET Known(e)]
    BY <1>2
  <2>2. \A x \in V \ Known(e) : e.parent[x] = None /\ e.looked[x] = {} /\ us[x] = {}
    BY <1>1, <1>2 DEF Forest
  <2>3. ASSUME NEW x \in Known(d)
        PROVE  /\ x \in us[x] /\ e.found[x] <= e.time
               /\ e.parent[x] = None => us[x] = {x}
               /\ e.parent[x] # None => /\ e.parent[x] \in Known(e) /\ x \in e.looked[e.parent[x]]
                                        /\ e.found[e.parent[x]] < e.found[x]
                                        /\ us[x] = us[e.parent[x]] \cup {x}
    <3>1. x \in us[x] /\ e.found[x] <= e.time
      BY <1>1, <1>2, <1>4, <1>5 DEF Forest, Discovered
    <3>2. e.parent[x] = d.parent[x] /\ (e.parent[x] = None => us[x] = {x})
      BY <1>1, <1>2, <1>4 DEF Forest
    <3>3. ASSUME e.parent[x] # None
          PROVE  /\ e.parent[x] \in Known(e) /\ x \in e.looked[e.parent[x]]
                 /\ e.found[e.parent[x]] < e.found[x]
                 /\ us[x] = us[e.parent[x]] \cup {x}
      <4>1. /\ d.parent[x] \in Known(d) /\ x \in d.looked[d.parent[x]] /\ d.found[d.parent[x]] < d.found[x]
            /\ up[x] = up[d.parent[x]] \cup {x}
        BY <1>1, <3>2, <3>3 DEF Forest
      <4> QED BY <1>2, <1>4, <3>2, <4>1
    <3> QED BY <3>1, <3>2, <3>3
  <2>4. ASSUME NEW x \in Known(d), NEW y \in us[x]
        PROVE  /\ us[y] \subseteq us[x]
               /\ y # x => e.found[y] < e.found[x]
               /\ \A z \in us[x] : y \in us[z] \/ z \in us[y]
    <3>1. y \in up[x] /\ y \in Known(d) /\ us[x] = up[x] /\ us[y] = up[y]
      BY <1>4, <2>4
    <3>2. /\ up[y] \subseteq up[x]
          /\ y # x => d.found[y] < d.found[x]
          /\ \A z \in up[x] : y \in up[z] \/ z \in up[y]
      BY <1>1, <3>1 DEF Forest
    <3>3. \A z \in up[x] : us[z] = up[z]
      BY <1>4
    <3>4. e.found[x] = d.found[x] /\ e.found[y] = d.found[y]
      BY <1>2, <1>4, <3>1
    <3> QED BY <3>1, <3>2, <3>3, <3>4
  <2>5. /\ w \in us[w] /\ e.found[w] <= e.time
        /\ e.parent[w] = None => us[w] = {w}
        /\ e.parent[w] # None => /\ e.parent[w] \in Known(e) /\ w \in e.looked[e.parent[w]]
                                 /\ e.found[e.parent[w]] < e.found[w]
                                 /\ us[w] = us[e.parent[w]] \cup {w}
    <3>1. w \in us[w] /\ e.found[w] <= e.time
      BY <1>2 DEF Discovered
    <3>2. CASE from = None
      BY <1>2, <3>1, <3>2
    <3>3. CASE from # None
      <4>1. from \in Known(d) /\ w \in e.looked[from] /\ us[w] = us[from] \cup {w}
        BY <1>2, <1>4, <3>3
      <4>2. e.found[from] <= d.time /\ e.found[from] \in Nat
        BY <1>1, <1>2, <1>4, <1>5, <4>1 DEF Forest
      <4> QED BY <1>2, <3>1, <3>3, <4>1, <4>2
    <3> QED BY <3>2, <3>3
  <2>6. ASSUME NEW y \in us[w]
        PROVE  /\ us[y] \subseteq us[w]
               /\ y # w => e.found[y] < e.found[w]
               /\ \A z \in us[w] : y \in us[z] \/ z \in us[y]
    <3>1. CASE y = w
      <4>1. \A z \in us[w] : z \in us[y]
        BY <3>1
      <4> QED BY <3>1, <4>1
    <3>2. CASE y # w
      <4>1. from # None /\ from \in Known(d) /\ y \in up[from] /\ us[w] = up[from] \cup {w}
        BY <1>2, <2>6, <3>2
      <4>2. /\ up[y] \subseteq up[from] /\ y \in Known(d)
            /\ \A z \in up[from] : y \in up[z] \/ z \in up[y]
        BY <1>1, <4>1 DEF Forest
      <4>3. us[y] = up[y] /\ \A z \in up[from] : us[z] = up[z]
        BY <1>4, <4>1, <4>2
      <4>4. e.found[y] <= d.time /\ e.found[y] \in Nat
        BY <1>1, <1>2, <1>4, <1>5, <4>2 DEF Forest
      <4>5. \A z \in us[w] : y \in us[z] \/ z \in us[y]
        BY <2>6, <4>1, <4>2, <4>3
      <4> QED BY <1>2, <4>1, <4>2, <4>3, <4>4, <4>5
    <3> QED BY <3>1, <3>2
  <2>7. \A x \in Known(e) :
          /\ x \in us[x] /\ e.found[x] <= e.time
          /\ e.parent[x] = None => us[x] = {x}
          /\ e.parent[x] # None => /\ e.parent[x] \in Known(e) /\ x \in e.looked[e.parent[x]]
                                   /\ e.found[e.parent[x]] < e.found[x]
                                   /\ us[x] = us[e.parent[x]] \cup {x}
    BY <1>2, <2>3, <2>5
  <2>8. \A x \in Known(e) : \A y \in us[x] :
          /\ us[y] \subseteq us[x]
          /\ y # x => e.found[y] < e.found[x]
          /\ \A z \in us[x] : y \in us[z] \/ z \in us[y]
    BY <1>2, <2>4, <2>6
  <2> QED BY <1>2, <2>1, <2>2, <2>7, <2>8 DEF Forest
<1>7. Trail(e)
  <2>1. d.stack \in Seq(V) /\ e.stack = Append(d.stack, w)
    BY <1>1 DEF SearchTyped, Discovered
  <2>2. /\ Len(e.stack) = Len(d.stack) + 1 /\ Len(d.stack) \in Nat /\ e.stack[Len(d.stack) + 1] = w
        /\ \A i \in 1 .. Len(d.stack) : e.stack[i] = d.stack[i]
    BY <2>1
  <2>3. ASSUME NEW i \in 1 .. Len(d.stack)
        PROVE  /\ e.stack[i] \in Known(e)
               /\ e.parent[e.stack[i]] = IF i = 1 THEN None ELSE e.stack[i - 1]
    <3>1. /\ d.stack[i] \in Known(d)
          /\ d.parent[d.stack[i]] = IF i = 1 THEN None ELSE d.stack[i - 1]
      BY <1>1 DEF Trail
    <3>2. e.stack[i] = d.stack[i] /\ (i # 1 => e.stack[i - 1] = d.stack[i - 1])
      BY <2>2
    <3> QED BY <1>2, <1>4, <3>1, <3>2
  <2>4. w \in Known(e) /\ e.parent[w] = IF Len(d.stack) + 1 = 1 THEN None ELSE e.stack[Len(d.stack)]
    <3>1. CASE from = None
      <4>1. d.stack = << >>
        BY <1>1, <1>2, <3>1, OpenIs DEF Known
      <4> QED BY <1>2, <3>1, <4>1
    <3>2. CASE from # None
      <4>1. d.stack # << >> /\ from = Last(d.stack)
        BY <3>2
      <4>2. Len(d.stack) \in Nat \ {0} /\ from = d.stack[Len(d.stack)]
        BY <4>1, OpenIs
      <4> QED BY <1>2, <2>2, <4>2
    <3> QED BY <3>1, <3>2
  <2>5. \A i \in 1 .. Len(e.stack) : i \in 1 .. Len(d.stack) \/ i = Len(d.stack) + 1
    BY <2>2
  <2> QED BY <2>2, <2>3, <2>4, <2>5 DEF Trail
<1>8. Across(e, us)
  <2>1. ASSUME NEW x \in Known(d)
        PROVE  /\ e.looked[x] \subseteq e.graph[x] \cap Known(e)
               /\ \A u \in e.looked[x] : u \in us[x] \/ x \in us[u]
               /\ x \notin Open(e, us) => e.looked[x] = e.graph[x]
    <3>1. /\ d.looked[x] \subseteq d.graph[x] \cap Known(d)
          /\ \A u \in d.looked[x] : u \in up[x] \/ x \in up[u]
          /\ x \notin Open(d, up) => d.looked[x] = d.graph[x]
      BY <1>1 DEF Across
    <3>2. x \in V /\ us[x] = up[x] /\ \A u \in d.looked[x] : us[u] = up[u]
      BY <1>4, <3>1
    <3>3. CASE x # from
      <4>1. e.looked[x] = d.looked[x] /\ (x \notin Open(e, us) => x \notin Open(d, up))
        BY <1>2, <3>2, <3>3
      <4> QED BY <1>2, <3>1, <3>2, <4>1
    <3>4. CASE x = from
      <4>1. e.looked[x] = d.looked[x] \cup {w} /\ x \in Open(d, up) /\ w \in d.graph[x]
        BY <1>1, <1>2, <3>2, <3>4
      <4>2. x \in us[w] /\ x \in Open(e, us)
        BY <1>2, <4>1
      <4> QED BY <1>2, <3>1, <3>2, <4>1, <4>2
    <3> QED BY <3>3, <3>4
  <2>2. e.looked[w] = {} /\ w \in Open(e, us)
    BY <1>2, <1>3
  <2> QED BY <1>2, <2>1, <2>2 DEF Across
<1>9. Lows(e, us)
  <2>1. ASSUME NEW x \in Known(d)
        PROVE  LowFrom(e, us, x)
    <3>1. PICK y \in Known(d), u \in Known(d) :
            /\ x \in up[y] /\ d.low[x] = d.found[u]
            /\ u = y \/ u \in d.looked[y] \ {d.parent[y]}
      BY <1>1 DEF Lows, LowFrom
    <3>2. /\ y \in Known(e) /\ u \in Known(e) /\ x \in us[y] /\ e.low[x] = e.found[u]
          /\ e.parent[y] = d.parent[y] /\ d.looked[y] \subseteq e.looked[y]
      BY <1>2, <1>4, <3>1
    <3> QED BY <3>1, <3>2 DEF LowFrom
  <2>2. ASSUME NEW x \in Known(d)
        PROVE  LowAtMost(e, us, x)
    <3>1. /\ d.low[x] <= d.found[x] /\ x \in V
          /\ \A u \in d.looked[x] \ {d.parent[x]} : d.low[x] <= d.found[u]
          /\ \A y \in Known(d) \ Open(d, up) :
               x \in up[y] /\ (up[y] \ up[x]) \cap Open(d, up) = {} => d.low[x] <= d.low[y]
      BY <1>1 DEF Lows, LowAtMost, Known
    <3>2. e.low[x] = d.low[x] /\ e.found[x] = d.found[x] /\ e.parent[x] = d.parent[x] /\ us[x] = up[x]
      BY <1>2, <1>4
    <3>3. d.looked[x] \subseteq Known(d)
      BY <1>1 DEF Across
    <3>4. ASSUME NEW u \in e.looked[x] \ {e.parent[x]}
          PROVE  e.low[x] <= e.found[u]
      <4>1. CASE u = w
        <5>1. d.found[x] <= d.time
          BY <1>1 DEF Forest
        <5> QED BY <1>2, <1>5, <3>1, <3>2, <4>1, <5>1
      <4>2. CASE u # w
        <5>1. u \in d.looked[x] \ {d.parent[x]}
          BY <1>2, <3>1, <3>2, <3>4, <4>2
        <5> QED BY <1>2, <1>4, <3>1, <3>2, <3>3, <5>1
      <4> QED BY <4>1, <4>2
    <3>5. ASSUME NEW y \in Known(e) \ Open(e, us), x \in us[y], (us[y] \ us[x]) \cap Open(e, us) = {}
          PROVE  e.low[x] <= e.low[y]
      <4>1. y \in Known(d) \ Open(d, up) /\ us[y] = up[y] /\ e.low[y] = d.low[y]
        BY <1>2, <1>4, <3>5
      <4>2. (up[y] \ up[x]) \cap Open(d, up) = {}
        BY <1>2, <3>2, <3>5, <4>1
      <4> QED BY <3>1, <3>2, <3>5, <4>1, <4>2
    <3> QED BY <3>1, <3>2, <3>4, <3>5 DEF LowAtMost
  <2>3. LowFrom(e, us, w) /\ LowAtMost(e, us, w)
    <3>1. LowFrom(e, us, w)
      BY <1>2 DEF LowFrom
    <3>2. e.looked[w] = {} /\ e.low[w] <= e.found[w]
      BY <1>2, <1>3
    <3>3. \A y \in Known(e) \ Open(e, us) : w \notin us[y]
      BY <1>2, <1>4
    <3> QED BY <3>1, <3>2, <3>3 DEF LowAtMost
  <2> QED BY <1>2, <2>1, <2>2, <2>3 DEF Lows
<1>10. CutSoFar(e, us)
  <2>1. ASSUME NEW v \in V
        PROVE  e.children[v] = Cardinality({x \in V : e.parent[x] = v})
    <3> DEFINE S == {x \in V : d.parent[x] = v}
    <3>1. d.children[v] = Cardinality(S) /\ IsFiniteSet(S) /\ w \notin S /\ v # None
      <4>1. IsFiniteSet(V) /\ S \subseteq V
        BY <1>1 DEF IsMesh
      <4>2. IsFiniteSet(S)
        BY <4>1, FS_Subset
      <4> QED BY <1>1, <1>3, <4>2 DEF CutSoFar
    <3>2. CASE v = from
      <4>1. {x \in V : e.parent[x] = v} = S \cup {w}
        BY <1>2, <3>2
      <4>2. Cardinality(S \cup {w}) = Cardinality(S) + 1
        BY <3>1, FS_AddElement
      <4>3. e.children[v] = d.children[v] + 1
        BY <1>2, <3>1, <3>2
      <4> HIDE DEF S
      <4> QED BY <3>1, <4>1, <4>2, <4>3
    <3>3. CASE v # from
      <4>1. {x \in V : e.parent[x] = v} = S
        BY <1>2, <3>1, <3>3
      <4> QED BY <1>2, <3>1, <3>3, <4>1
    <3> QED BY <3>2, <3>3
  <2>2. ASSUME NEW v \in V
        PROVE  Kids(e, us, v) = Kids(d, up, v)
    <3>1. Known(e) \ Open(e, us) = Known(d) \ Open(d, up)
      BY <1>1, <1>2
    <3> QED BY <1>2, <1>4, <3>1 DEF Kids
  <2>3. ASSUME NEW v \in V
        PROVE  v \in e.cut <=> CutBy(e, us, v)
    <3>1. \A x \in Kids(d, up, v) : x \in Known(d) /\ e.low[x] = d.low[x] /\ d.parent[x] = v
      BY <1>2, <1>4 DEF Kids
    <3>2. CASE v # w
      <4>1. e.parent[v] = d.parent[v] /\ e.found[v] = d.found[v]
        BY <1>2, <3>2
      <4>2. CutBy(e, us, v) <=> CutBy(d, up, v)
        BY <2>2, <3>1, <4>1 DEF CutBy
      <4> QED BY <1>1, <1>2, <4>2 DEF CutSoFar
    <3>3. CASE v = w
      <4>1. Kids(d, up, v) = {}
        <5>1. \A x \in Known(d) : d.parent[x] # w
          BY <1>1, <1>2 DEF Forest
        <5> QED BY <3>1, <3>3, <5>1
      <4>2. ~CutBy(d, up, v) /\ ~CutBy(e, us, v)
        BY <2>2, <4>1 DEF CutBy
      <4> QED BY <1>1, <1>2, <4>2 DEF CutSoFar
    <3> QED BY <3>2, <3>3
  <2>4. DOMAIN e.graph = V
    BY <1>2
  <2> HIDE DEF V, us
  <2> QED BY <2>1, <2>3, <2>4 DEF CutSoFar
<1> QED BY <1>1, <1>2, <1>6, <1>7, <1>8, <1>9, <1>10 DEF Searching, us

\* What a look at a neighbor that was discovered before leaves.
LookedAt(d, e, v, w) ==
  /\ SameSearch(d, e) /\ e.time = d.time /\ e.found = d.found /\ e.parent = d.parent
  /\ e.children = d.children /\ e.stack = d.stack /\ e.cut = d.cut
  /\ e.looked = [d.looked EXCEPT ![v] = @ \cup {w}]
  /\ e.low = [d.low EXCEPT ![v] = IF w = d.parent[v] THEN @ ELSE Min({@, d.found[w]})]

\* The lesser of two numbers.
LEMMA LesserIs ==
  ASSUME NEW a \in Nat, NEW b \in Nat
  PROVE  Min({a, b}) \in {a, b} /\ Min({a, b}) <= a /\ Min({a, b}) <= b /\ Min({a, b}) \in Nat
<1>1. {a, b} \in SUBSET Nat /\ {a, b} # {}
  OBVIOUS
<1>2. Min({a, b}) \in {a, b} /\ \A m \in {a, b} : Min({a, b}) <= m
  BY <1>1, MinIs
<1> QED BY <1>2

\* A neighbor that was discovered before is above the vertex or below it.
LEMMA LookSearches ==
  ASSUME NEW d, NEW up, Searching(d, up), NEW e, d.stack # << >>, NEW w \in Known(d),
         w \in d.graph[Last(d.stack)] \ d.looked[Last(d.stack)], LookedAt(d, e, Last(d.stack), w)
  PROVE  Searching(e, up)
<1> DEFINE V == DOMAIN d.graph
           v == Last(d.stack)
<1>1. /\ IsMesh(d.graph) /\ SearchTyped(d) /\ Forest(d, up) /\ Trail(d)
      /\ Across(d, up) /\ Lows(d, up) /\ CutSoFar(d, up) /\ Known(d) \subseteq V
  BY DEF Searching, Known
<1>2. v \in Known(d) /\ v \in Open(d, up) /\ Open(d, up) = up[v] /\ v \in V /\ w \in V
      /\ w \in d.graph[v] /\ w \notin d.looked[v]
  BY <1>1, OpenIs
<1> HIDE DEF v
<1>3. /\ e.graph = d.graph /\ e.time = d.time /\ e.found = d.found /\ e.parent = d.parent
      /\ e.children = d.children /\ e.stack = d.stack /\ e.cut = d.cut
      /\ e.looked = [d.looked EXCEPT ![v] = @ \cup {w}]
      /\ e.low = [d.low EXCEPT ![v] = IF w = d.parent[v] THEN @ ELSE Min({@, d.found[w]})]
  BY DEF LookedAt, SameSearch, v
<1>4. /\ \A x \in V : d.found[x] \in Nat /\ d.low[x] \in Nat
      /\ d.looked \in [V -> SUBSET V] /\ d.low \in [V -> Nat]
  BY <1>1 DEF SearchTyped
<1>5. /\ e.looked \in [V -> SUBSET V] /\ e.looked[v] = d.looked[v] \cup {w}
      /\ \A x \in V : x # v => e.looked[x] = d.looked[x]
  BY <1>2, <1>3, <1>4
<1>6. /\ e.low \in [V -> Nat] /\ \A x \in V : x # v => e.low[x] = d.low[x]
      /\ e.low[v] <= d.low[v] /\ (w # d.parent[v] => e.low[v] <= d.found[w])
      /\ e.low[v] = d.low[v] \/ (w # d.parent[v] /\ e.low[v] = d.found[w])
  <2>1. CASE w = d.parent[v]
    <3>1. e.low = [d.low EXCEPT ![v] = d.low[v]]
      BY <1>2, <1>3, <1>4, <2>1
    <3> QED BY <1>2, <1>4, <2>1, <3>1
  <2>2. CASE w # d.parent[v]
    <3> DEFINE l == Min({d.low[v], d.found[w]})
    <3>1. e.low = [d.low EXCEPT ![v] = l]
      BY <1>2, <1>3, <1>4, <2>2
    <3>2. l \in {d.low[v], d.found[w]} /\ l <= d.low[v] /\ l <= d.found[w] /\ l \in Nat
      BY <1>2, <1>4, LesserIs
    <3> HIDE DEF l
    <3> QED BY <1>2, <1>4, <2>2, <3>1, <3>2
  <2> QED BY <2>1, <2>2
<1>7. Known(e) = Known(d) /\ Open(e, up) = Open(d, up) /\ DOMAIN e.graph = V
  BY <1>3 DEF Known, Open
<1>8. SearchTyped(e)
  <2>1. DOMAIN e = SearchFields /\ e.pc = "run"
    BY <1>1 DEF SearchTyped, LookedAt, SameSearch
  <2> QED BY <1>1, <1>3, <1>5, <1>6, <2>1 DEF SearchTyped
<1>9. Forest(e, up)
  <2>1. ASSUME NEW x \in Known(d), d.parent[x] # None
        PROVE  x \in e.looked[d.parent[x]]
    <3>1. d.parent[x] \in V /\ x \in d.looked[d.parent[x]]
      BY <1>1, <2>1 DEF Forest
    <3> QED BY <1>5, <3>1
  <2>2. \A x \in V \ Known(d) : e.looked[x] = d.looked[x]
    BY <1>2, <1>5
  <2>3. ASSUME NEW x \in Known(d)
        PROVE  /\ x \in up[x] /\ d.found[x] <= d.time
               /\ d.parent[x] = None => up[x] = {x}
               /\ d.parent[x] # None => /\ d.parent[x] \in Known(d) /\ x \in e.looked[d.parent[x]]
                                        /\ d.found[d.parent[x]] < d.found[x]
                                        /\ up[x] = up[d.parent[x]] \cup {x}
               /\ \A y \in up[x] : /\ up[y] \subseteq up[x]
                                   /\ y # x => d.found[y] < d.found[x]
                                   /\ \A z \in up[x] : y \in up[z] \/ z \in up[y]
    BY <1>1, <2>1 DEF Forest
  <2>4. \A x \in V \ Known(d) : d.parent[x] = None /\ e.looked[x] = {} /\ up[x] = {}
    BY <1>1, <2>2 DEF Forest
  <2>5. up \in [V -> SUBSET Known(d)]
    BY <1>1 DEF Forest
  <2> QED BY <1>3, <1>7, <2>3, <2>4, <2>5 DEF Forest
<1>10. Trail(e)
  BY <1>1, <1>3, <1>7 DEF Trail
<1>11. w \in up[v] \/ v \in up[w]
  <2>1. CASE w \in Open(d, up)
    BY <1>2, <2>1
  <2>2. CASE w \notin Open(d, up)
    <3>1. d.looked[w] = d.graph[w] /\ v \in d.graph[w]
      BY <1>1, <1>2, <2>2 DEF Across, IsMesh
    <3> QED BY <1>1, <3>1 DEF Across
  <2> QED BY <2>1, <2>2
<1>12. Across(e, up)
  <2>1. ASSUME NEW x \in Known(d)
        PROVE  /\ e.looked[x] \subseteq d.graph[x] \cap Known(d)
               /\ \A u \in e.looked[x] : u \in up[x] \/ x \in up[u]
               /\ x \notin Open(d, up) => e.looked[x] = d.graph[x]
    <3>1. /\ d.looked[x] \subseteq d.graph[x] \cap Known(d)
          /\ \A u \in d.looked[x] : u \in up[x] \/ x \in up[u]
          /\ x \notin Open(d, up) => d.looked[x] = d.graph[x]
      BY <1>1 DEF Across
    <3>2. CASE x = v
      BY <1>2, <1>5, <1>11, <3>1, <3>2
    <3>3. CASE x # v
      BY <1>1, <1>5, <3>1, <3>3
    <3> QED BY <3>2, <3>3
  <2> QED BY <1>3, <1>7, <2>1 DEF Across
<1>13. Lows(e, up)
  <2>1. ASSUME NEW x \in Known(d)
        PROVE  LowFrom(e, up, x)
    <3>1. CASE e.low[x] = d.low[x]
      <4>1. PICK y \in Known(d), u \in Known(d) :
              /\ x \in up[y] /\ d.low[x] = d.found[u]
              /\ u = y \/ u \in d.looked[y] \ {d.parent[y]}
        BY <1>1 DEF Lows, LowFrom
      <4>2. y \in V /\ d.looked[y] \subseteq e.looked[y]
        BY <1>1, <1>5
      <4> QED BY <1>3, <1>7, <3>1, <4>1, <4>2 DEF LowFrom
    <3>2. CASE e.low[x] # d.low[x]
      <4>1. x = v /\ w # d.parent[v] /\ e.low[v] = d.found[w]
        BY <1>1, <1>6, <3>2
      <4>2. v \in up[v] /\ w \in e.looked[v] \ {e.parent[v]}
        BY <1>2, <1>3, <1>5, <4>1
      <4> QED BY <1>2, <1>3, <1>7, <4>1, <4>2 DEF LowFrom
    <3> QED BY <3>1, <3>2
  <2>2. ASSUME NEW x \in Known(d)
        PROVE  LowAtMost(e, up, x)
    <3>1. /\ d.low[x] <= d.found[x] /\ x \in V
          /\ \A u \in d.looked[x] \ {d.parent[x]} : d.low[x] <= d.found[u]
          /\ \A y \in Known(d) \ Open(d, up) :
               x \in up[y] /\ (up[y] \ up[x]) \cap Open(d, up) = {} => d.low[x] <= d.low[y]
      BY <1>1 DEF Lows, LowAtMost
    <3>2. e.low[x] <= d.low[x] /\ e.low[x] \in Nat
      BY <1>4, <1>6, <3>1
    <3>3. ASSUME NEW u \in e.looked[x] \ {d.parent[x]}
          PROVE  e.low[x] <= d.found[u]
      <4>1. CASE u \in d.looked[x]
        <5>1. d.low[x] <= d.found[u] /\ u \in V
          BY <1>4, <3>1, <3>3, <4>1
        <5> QED BY <1>4, <3>1, <3>2, <5>1
      <4>2. CASE u \notin d.looked[x]
        <5>1. x = v /\ u = w
          BY <1>5, <3>1, <3>3, <4>2
        <5> QED BY <1>6, <3>3, <5>1
      <4> QED BY <4>1, <4>2
    <3>4. ASSUME NEW y \in Known(d) \ Open(d, up), x \in up[y], (up[y] \ up[x]) \cap Open(d, up) = {}
          PROVE  e.low[x] <= e.low[y]
      <4>1. y \in V /\ y # v
        BY <1>1, <1>2
      <4>2. e.low[y] = d.low[y] /\ d.low[x] <= d.low[y]
        BY <1>6, <3>1, <3>4, <4>1
      <4> QED BY <1>4, <3>1, <3>2, <4>1, <4>2
    <3>5. e.low[x] <= d.found[x]
      BY <1>4, <3>1, <3>2
    <3> QED BY <1>3, <1>7, <3>3, <3>4, <3>5 DEF LowAtMost
  <2> QED BY <1>7, <2>1, <2>2 DEF Lows
<1>14. CutSoFar(e, up)
  <2>1. ASSUME NEW u \in V
        PROVE  CutBy(e, up, u) <=> CutBy(d, up, u)
    <3>1. Kids(e, up, u) = Kids(d, up, u)
      BY <1>3, <1>7 DEF Kids
    <3>2. \A x \in Kids(d, up, u) : e.low[x] = d.low[x]
      BY <1>1, <1>2, <1>6 DEF Kids
    <3>3. (\E x \in Kids(e, up, u) : e.low[x] >= e.found[u]) <=> \E x \in Kids(d, up, u) : d.low[x] >= d.found[u]
      BY <1>3, <3>1, <3>2
    <3>4. (\E a, b \in Kids(e, up, u) : a # b) <=> \E a, b \in Kids(d, up, u) : a # b
      BY <3>1
    <3> QED BY <1>3, <3>3, <3>4 DEF CutBy
  <2> QED BY <1>1, <1>3, <1>7, <2>1 DEF CutSoFar
<1> QED BY <1>1, <1>3, <1>8, <1>9, <1>10, <1>12, <1>13, <1>14 DEF Searching

\* What is left when the call for w returns.
Returned(d, e, w) ==
  /\ SameSearch(d, e) /\ e.time = d.time /\ e.found = d.found /\ e.parent = d.parent
  /\ e.children = d.children /\ e.stack = Front(d.stack) /\ e.looked = d.looked
  /\ LET v == d.parent[w] IN
     /\ e.low = IF v = None THEN d.low ELSE [d.low EXCEPT ![v] = Min({@, d.low[w]})]
     /\ e.cut = IF v # None /\ Cuts(d, v, w) THEN d.cut \cup {v} ELSE d.cut

\* The call that returns leaves its caller on the stack.
LEMMA ReturnsTo ==
  ASSUME NEW d, NEW up, Searching(d, up), NEW e, d.stack # << >>, Returned(d, e, Last(d.stack))
  PROVE  LET w == Last(d.stack)
             v == d.parent[w]
         IN  /\ w \in Open(d, up) /\ Open(e, up) = Open(d, up) \ {w} /\ e.stack \in Seq(DOMAIN d.graph)
             /\ v # None => v \in Known(d) /\ v # w /\ Open(e, up) = up[v] /\ d.found[v] < d.found[w]
             /\ v = None => Open(e, up) = {}
             /\ Trail(e)
<1> DEFINE V == DOMAIN d.graph
           n == Len(d.stack)
           w == Last(d.stack)
           v == d.parent[w]
           Claim == /\ w \in Open(d, up) /\ Open(e, up) = Open(d, up) \ {w} /\ e.stack \in Seq(V)
                    /\ v # None => v \in Known(d) /\ v # w /\ Open(e, up) = up[v] /\ d.found[v] < d.found[w]
                    /\ v = None => Open(e, up) = {}
                    /\ Trail(e)
<1>1. /\ SearchTyped(d) /\ Forest(d, up) /\ Trail(d) /\ Known(d) \subseteq V /\ None \notin V
  BY OpenIs DEF Searching, Known
<1>2. w \in Known(d) /\ w \in Open(d, up) /\ Open(d, up) = up[w] /\ n \in Nat \ {0} /\ w = d.stack[n]
  BY OpenIs
<1>3. /\ e.stack = Front(d.stack) /\ d.stack \in Seq(V) /\ e.parent = d.parent /\ Known(e) = Known(d)
      /\ n = Len(d.stack)
  BY <1>1 DEF SearchTyped, Returned, SameSearch, Known
<1> HIDE DEF n, w
<1>4. /\ e.stack \in Seq(V) /\ Len(e.stack) = n - 1
      /\ \A i \in 1 .. n - 1 : e.stack[i] = d.stack[i]
  <2>1. e.stack = [i \in 1 .. n - 1 |-> d.stack[i]]
    BY <1>2, <1>3 DEF Front
  <2>2. \A i \in 1 .. n - 1 : d.stack[i] \in V
    BY <1>2, <1>3
  <2> QED BY <1>2, <2>1, <2>2
<1>5. Trail(e)
  <2>1. ASSUME NEW i \in 1 .. n - 1
        PROVE  /\ e.stack[i] \in Known(e)
               /\ e.parent[e.stack[i]] = IF i = 1 THEN None ELSE e.stack[i - 1]
    <3>1. e.stack[i] = d.stack[i] /\ (i # 1 => e.stack[i - 1] = d.stack[i - 1]) /\ i \in 1 .. n
      BY <1>2, <1>4
    <3>2. /\ d.stack[i] \in Known(d)
          /\ d.parent[d.stack[i]] = IF i = 1 THEN None ELSE d.stack[i - 1]
      BY <1>1, <1>3, <3>1 DEF Trail
    <3> QED BY <1>3, <3>1, <3>2
  <2> QED BY <1>4, <2>1 DEF Trail
<1>6. v = IF n = 1 THEN None ELSE d.stack[n - 1]
  <2>1. n \in 1 .. Len(d.stack)
    BY <1>2, <1>3
  <2> QED BY <1>1, <1>2, <2>1 DEF Trail
<1>7. ASSUME v = None
      PROVE  Claim
  <2>1. n = 1
    <3>1. n # 1 => d.stack[n - 1] \in V
      <4>1. \A i \in 1 .. n : d.stack[i] \in V
        BY <1>3
      <4>2. n # 1 => n - 1 \in 1 .. n
        BY <1>2
      <4> QED BY <4>1, <4>2
    <3>2. n # 1 => v \in V
      BY <1>6, <3>1
    <3>3. None \notin V
      BY <1>1
    <3> HIDE DEF v, V
    <3> QED BY <1>7, <3>2, <3>3
  <2>2. e.stack = << >>
    BY <1>4, <2>1
  <2>3. up[w] = {w}
    BY <1>1, <1>2, <1>7 DEF Forest
  <2>4. Open(e, up) = {}
    BY <2>2 DEF Open
  <2> QED BY <1>2, <1>4, <1>5, <1>7, <2>3, <2>4
<1>8. ASSUME v # None
      PROVE  Claim
  <2>1. n # 1 /\ v = e.stack[n - 1] /\ n - 1 \in 1 .. n - 1
    BY <1>2, <1>4, <1>6, <1>8
  <2>2. e.stack # << >> /\ Last(e.stack) = v
    BY <1>4, <2>1 DEF Last
  <2>3. Open(e, up) = up[v]
    BY <2>2 DEF Open
  <2>4. v \in Known(d) /\ d.found[v] < d.found[w] /\ up[w] = up[v] \cup {w}
    BY <1>1, <1>2, <1>8 DEF Forest
  <2>5. d.found[v] \in Nat /\ d.found[w] \in Nat
    BY <1>1, <1>2, <2>4 DEF SearchTyped
  <2>6. v # w
    BY <2>4, <2>5
  <2>7. w \notin up[v]
    BY <1>1, <2>4, <2>5, <2>6 DEF Forest
  <2> QED BY <1>2, <1>4, <1>5, <1>8, <2>3, <2>4, <2>6, <2>7
<1>9. Claim
  BY <1>7, <1>8
<1> QED BY <1>9 DEF w

\* A finite set has more than one element when it has two that differ.
LEMMA TwoOrMore ==
  ASSUME NEW S, IsFiniteSet(S)
  PROVE  Cardinality(S) > 1 <=> \E a, b \in S : a # b
<1>1. Cardinality(S) \in Nat
  BY FS_CardinalityType
<1>2. CASE S = {}
  BY <1>2, FS_EmptySet
<1>3. CASE S # {}
  <2>1. Cardinality(S) # 0
    BY <1>3, FS_EmptySet
  <2>2. Cardinality(S) = 1 <=> \E x : S = {x}
    BY FS_Singleton
  <2> QED BY <1>1, <1>3, <2>1, <2>2
<1> QED BY <1>2, <1>3

\* A call that returns closes its vertex, the low value of its caller covers what
\* is below it, and the caller is a cut from then on if its child shows it.
LEMMA ReturnSearches ==
  ASSUME NEW d, NEW up, Searching(d, up), NEW e, d.stack # << >>,
         d.graph[Last(d.stack)] = d.looked[Last(d.stack)], Returned(d, e, Last(d.stack))
  PROVE  Searching(e, up)
<1> DEFINE V == DOMAIN d.graph
           w == Last(d.stack)
           v == d.parent[w]
<1>1. /\ IsMesh(d.graph) /\ SearchTyped(d) /\ Forest(d, up)
      /\ Across(d, up) /\ Lows(d, up) /\ CutSoFar(d, up) /\ Known(d) \subseteq V /\ None \notin V
  BY OpenIs DEF Searching, Known
<1>2. w \in Known(d) /\ w \in Open(d, up) /\ Open(d, up) = up[w] /\ w \in V /\ d.graph[w] = d.looked[w]
  BY <1>1, OpenIs
<1>3. /\ w \in Open(d, up) /\ Open(e, up) = Open(d, up) \ {w} /\ e.stack \in Seq(V) /\ Trail(e)
      /\ v # None => v \in Known(d) /\ v # w /\ Open(e, up) = up[v] /\ d.found[v] < d.found[w]
      /\ v = None => Open(e, up) = {}
  BY ReturnsTo
<1> HIDE DEF w
<1>4. /\ e.graph = d.graph /\ e.time = d.time /\ e.found = d.found /\ e.parent = d.parent
      /\ e.children = d.children /\ e.looked = d.looked /\ DOMAIN e = SearchFields /\ e.pc = "run"
      /\ e.low = IF v = None THEN d.low ELSE [d.low EXCEPT ![v] = Min({@, d.low[w]})]
      /\ e.cut = IF v # None /\ Cuts(d, v, w) THEN d.cut \cup {v} ELSE d.cut
  BY <1>1 DEF Returned, SameSearch, w, SearchTyped
<1>5. /\ \A x \in V : d.found[x] \in Nat /\ d.low[x] \in Nat
      /\ d.low \in [V -> Nat] /\ d.cut \subseteq V
  BY <1>1 DEF SearchTyped
<1>6. /\ e.low \in [V -> Nat] /\ \A x \in V : x # v => e.low[x] = d.low[x]
      /\ v # None => /\ e.low[v] \in {d.low[v], d.low[w]}
                     /\ e.low[v] <= d.low[v] /\ e.low[v] <= d.low[w]
  <2>1. CASE v = None
    BY <1>1, <1>4, <1>5, <2>1
  <2>2. CASE v # None
    <3> DEFINE l == Min({d.low[v], d.low[w]})
    <3>1. v \in V
      BY <1>1, <1>3, <2>2
    <3>2. e.low = [d.low EXCEPT ![v] = l]
      BY <1>4, <1>5, <2>2, <3>1
    <3>3. l \in {d.low[v], d.low[w]} /\ l <= d.low[v] /\ l <= d.low[w] /\ l \in Nat
      BY <1>2, <1>5, <3>1, LesserIs
    <3> HIDE DEF l, v
    <3> QED BY <1>5, <2>2, <3>1, <3>2, <3>3
  <2> QED BY <2>1, <2>2
<1>7. Known(e) = Known(d) /\ DOMAIN e.graph = V /\ Open(e, up) \subseteq Open(d, up)
  BY <1>3, <1>4 DEF Known
<1>8. SearchTyped(e)
  <2>1. e.cut \subseteq V
    BY <1>1, <1>3, <1>4, <1>5
  <2> QED BY <1>1, <1>3, <1>4, <1>6, <2>1 DEF SearchTyped
<1>9. Forest(e, up)
  BY <1>1, <1>4, <1>7 DEF Forest
<1>10. Across(e, up)
  <2>1. ASSUME NEW x \in Known(d)
        PROVE  /\ d.looked[x] \subseteq d.graph[x] \cap Known(d)
               /\ \A u \in d.looked[x] : u \in up[x] \/ x \in up[u]
               /\ x \notin Open(e, up) => d.looked[x] = d.graph[x]
    BY <1>1, <1>2, <1>3 DEF Across
  <2> QED BY <1>4, <1>7, <2>1 DEF Across
\* What is above w and is not v is above v, not below it.
<1>11. ASSUME v # None, NEW x \in up[w], x # w, x # v
       PROVE  x \in up[v] /\ v \notin up[x]
  <2>1. x \in up[v]
    BY <1>2, <1>3, <1>11
  <2>2. d.found[x] < d.found[v] /\ x \in Known(d) /\ d.found[x] \in Nat /\ d.found[v] \in Nat
    <3>1. v \in Known(d) /\ x \in Known(d)
      BY <1>1, <1>3, <1>11, <2>1 DEF Forest
    <3> QED BY <1>1, <1>5, <1>11, <2>1, <3>1 DEF Forest
  <2>3. v \notin up[x]
    <3>1. v \in up[x] => d.found[v] < d.found[x]
      BY <1>1, <1>11, <2>2 DEF Forest
    <3> QED BY <2>2, <3>1
  <2> QED BY <2>1, <2>3
<1>12. ASSUME NEW x \in Known(d)
       PROVE  LowFrom(e, up, x)
  <2>1. ASSUME NEW t \in Known(d), x \in up[t], e.low[x] = d.low[t]
        PROVE  LowFrom(e, up, x)
    <3>1. PICK y \in Known(d), u \in Known(d) :
            /\ t \in up[y] /\ d.low[t] = d.found[u]
            /\ u = y \/ u \in d.looked[y] \ {d.parent[y]}
      BY <1>1 DEF Lows, LowFrom
    <3>2. x \in up[y]
      BY <1>1, <2>1, <3>1 DEF Forest
    <3> QED BY <1>4, <1>7, <2>1, <3>1, <3>2 DEF LowFrom
  <2>2. x \in up[x]
    BY <1>1 DEF Forest
  <2>3. CASE e.low[x] = d.low[x]
    BY <2>1, <2>2, <2>3
  <2>4. CASE e.low[x] # d.low[x]
    <3>1. x = v /\ v # None /\ e.low[x] = d.low[w]
      BY <1>1, <1>6, <2>4
    <3>2. x \in up[w]
      BY <1>2, <1>3, <2>2, <3>1
    <3> QED BY <1>2, <2>1, <3>1, <3>2
  <2> QED BY <2>3, <2>4
<1>13. ASSUME NEW x \in Known(d)
       PROVE  LowAtMost(e, up, x)
  <2>1. /\ d.low[x] <= d.found[x] /\ x \in V
        /\ \A u \in d.looked[x] \ {d.parent[x]} : d.low[x] <= d.found[u]
        /\ \A y \in Known(d) \ Open(d, up) :
             x \in up[y] /\ (up[y] \ up[x]) \cap Open(d, up) = {} => d.low[x] <= d.low[y]
    BY <1>1 DEF Lows, LowAtMost
  <2>2. e.low[x] <= d.low[x] /\ e.low[x] \in Nat
    <3>1. d.low[x] \in Nat
      BY <1>5, <2>1
    <3>2. CASE x = v
      BY <1>1, <1>6, <2>1, <3>1, <3>2
    <3>3. CASE x # v
      BY <1>6, <2>1, <3>1, <3>3
    <3> QED BY <3>2, <3>3
  <2>3. e.low[x] <= d.found[x]
    BY <1>5, <2>1, <2>2
  <2>4. \A u \in d.looked[x] \ {d.parent[x]} : e.low[x] <= d.found[u]
    <3>1. \A u \in d.looked[x] : u \in V
      BY <1>1 DEF Across
    <3> QED BY <1>5, <2>1, <2>2, <3>1
  <2>5. ASSUME NEW y \in Known(d) \ Open(e, up), x \in up[y], (up[y] \ up[x]) \cap Open(e, up) = {}
        PROVE  e.low[x] <= e.low[y]
    <3>1. y \in V /\ y # v /\ d.low[y] \in Nat /\ d.low[w] \in Nat /\ d.low[x] \in Nat
      <4>1. v # None => v \in Open(e, up)
        BY <1>1, <1>3 DEF Forest
      <4> QED BY <1>1, <1>2, <1>5, <2>1, <2>5, <4>1
    <3>2. e.low[y] = d.low[y]
      BY <1>6, <3>1
    <3>3. d.low[w] <= d.low[y] \/ y = w \/ w \notin up[y]
      <4>1. ASSUME y # w, w \in up[y]
            PROVE  d.low[w] <= d.low[y]
        <5>1. y \in Known(d) \ Open(d, up) /\ (up[y] \ up[w]) \cap Open(d, up) = {}
          BY <1>2, <1>3, <2>5, <4>1
        <5> QED BY <1>1, <1>2, <4>1, <5>1 DEF Lows, LowAtMost
      <4> QED BY <4>1
    \* Either w is between, or nothing that was open is.
    <3>4. CASE w \in up[y] /\ w \notin up[x]
      <4>1. x \in up[w] /\ x # w /\ up[w] \subseteq up[y]
        <5>1. x \in up[x]
          BY <1>1 DEF Forest
        <5> QED BY <1>1, <2>5, <3>4, <5>1 DEF Forest
      <4>2. v # None
        BY <1>2, <1>3, <4>1
      <4>3. v \in up[w] /\ v \in Open(e, up)
        BY <1>1, <1>2, <1>3, <4>2 DEF Forest
      <4>4. x = v
        <5>1. x # v => v \notin up[x]
          BY <1>11, <4>1, <4>2
        <5> QED BY <2>5, <4>1, <4>3, <5>1
      <4>5. e.low[x] <= d.low[w]
        BY <1>6, <4>2, <4>4
      <4>6. d.low[w] <= d.low[y]
        BY <3>1, <3>3, <3>4
      <4> QED BY <2>2, <3>1, <3>2, <4>5, <4>6
    <3>5. CASE ~(w \in up[y] /\ w \notin up[x])
      <4>1. (up[y] \ up[x]) \cap Open(d, up) = {}
        BY <1>3, <2>5, <3>5
      <4>2. CASE y = w
        <5>1. y \in up[y]
          BY <1>1, <2>5 DEF Forest
        <5>2. w \in up[x] /\ x \in up[w]
          BY <2>5, <3>5, <4>2, <5>1
        <5>3. x = w
          <6>1. x # w => d.found[x] < d.found[w] /\ d.found[w] < d.found[x]
            BY <1>1, <1>2, <5>2 DEF Forest
          <6> QED BY <1>2, <1>5, <2>1, <6>1
        <5> QED BY <2>2, <3>1, <3>2, <4>2, <5>3
      <4>3. CASE y # w
        <5>1. y \in Known(d) \ Open(d, up)
          BY <1>3, <2>5, <4>3
        <5>2. d.low[x] <= d.low[y]
          BY <2>1, <2>5, <4>1, <5>1
        <5> QED BY <2>2, <3>1, <3>2, <5>2
      <4> QED BY <4>2, <4>3
    <3> QED BY <3>4, <3>5
  <2> QED BY <1>4, <1>7, <2>3, <2>4, <2>5 DEF LowAtMost
<1>14. Lows(e, up)
  BY <1>7, <1>12, <1>13 DEF Lows
<1>15. CutSoFar(e, up)
  <2>1. ASSUME NEW u \in V, u # v
        PROVE  u \in e.cut <=> CutBy(e, up, u)
    <3>1. Kids(e, up, u) = Kids(d, up, u)
      <4>1. Known(e) \ Open(e, up) = (Known(d) \ Open(d, up)) \cup {w} /\ d.parent[w] # u
        BY <1>2, <1>3, <1>7, <2>1
      <4>2. {x \in Known(e) \ Open(e, up) : e.parent[x] = u} = {x \in Known(d) \ Open(d, up) : d.parent[x] = u}
        <5>1. e.parent = d.parent
          BY <1>4
        <5> HIDE DEF v
        <5> QED BY <4>1, <5>1
      <4> QED BY <4>2 DEF Kids
    <3>2. \A x \in Kids(d, up, u) : e.low[x] = d.low[x]
      <4>1. \A x \in Kids(d, up, u) : x \in V /\ x \notin Open(d, up)
        BY <1>1 DEF Kids
      <4>2. v # None => v \in Open(d, up)
        BY <1>1, <1>3, <1>7 DEF Forest
      <4> QED BY <1>1, <1>6, <4>1, <4>2
    <3>3. (\E x \in Kids(e, up, u) : e.low[x] >= e.found[u]) <=> \E x \in Kids(d, up, u) : d.low[x] >= d.found[u]
      BY <1>4, <3>1, <3>2
    <3>4. (\E a, b \in Kids(e, up, u) : a # b) <=> \E a, b \in Kids(d, up, u) : a # b
      BY <3>1
    <3>5. CutBy(e, up, u) <=> CutBy(d, up, u)
      BY <1>4, <3>3, <3>4 DEF CutBy
    <3>6. u \in e.cut <=> u \in d.cut
      BY <1>4, <2>1
    <3> QED BY <1>1, <3>5, <3>6 DEF CutSoFar
  <2>2. ASSUME v # None
        PROVE  v \in e.cut <=> CutBy(e, up, v)
    <3>1. v \in V /\ v \in Open(e, up) /\ (v \in d.cut <=> CutBy(d, up, v))
      <4>1. v \in Known(d) /\ v \in V /\ Open(e, up) = up[v]
        BY <1>1, <1>3, <2>2
      <4>2. v \in up[v]
        BY <1>1, <4>1 DEF Forest
      <4>3. \A u \in V : u \in d.cut <=> CutBy(d, up, u)
        BY <1>1 DEF CutSoFar
      <4> QED BY <4>1, <4>2, <4>3
    <3>2. Kids(e, up, v) = Kids(d, up, v) \cup {w} /\ w \notin Kids(d, up, v)
      <4>1. Known(e) \ Open(e, up) = (Known(d) \ Open(d, up)) \cup {w}
        BY <1>2, <1>3, <1>7
      <4> QED BY <1>3, <1>4, <4>1 DEF Kids
    <3>3. \A x \in Kids(e, up, v) : e.low[x] = d.low[x]
      <4>1. \A x \in Kids(e, up, v) : x \in V /\ x # v
        BY <1>1, <1>7, <3>1 DEF Kids
      <4> QED BY <1>6, <4>1
    <3>4. v \in e.cut <=> v \in d.cut \/ Cuts(d, v, w)
      BY <1>4, <2>2
    <3>5. CASE d.parent[v] = None
      <4> DEFINE S == {x \in V : d.parent[x] = v}
      <4>1. S = Kids(e, up, v)
        <5>1. ASSUME NEW x \in V, d.parent[x] = v
              PROVE  x \in Known(d) /\ x \notin Open(e, up)
          <6>1. x \in Known(d)
            BY <1>1, <2>2, <5>1 DEF Forest
          <6>2. d.found[v] < d.found[x] /\ d.found[v] \in Nat /\ d.found[x] \in Nat
            BY <1>1, <1>5, <2>2, <3>1, <5>1, <6>1 DEF Forest
          <6>3. x \in up[v] => x = v \/ d.found[x] < d.found[v]
            BY <1>1, <1>3, <2>2 DEF Forest
          <6> QED BY <1>3, <2>2, <6>1, <6>2, <6>3
        <5> QED BY <1>1, <1>4, <1>7, <5>1 DEF Kids
      <4>2. IsFiniteSet(S) /\ d.children[v] = Cardinality(S)
        <5>1. IsFiniteSet(V) /\ S \subseteq V
          BY <1>1 DEF IsMesh
        <5>2. IsFiniteSet(S)
          BY <5>1, FS_Subset
        <5> QED BY <1>1, <3>1, <5>2 DEF CutSoFar
      <4>3. Cuts(d, v, w) <=> \E a, b \in S : a # b
        <5>1. Cuts(d, v, w) <=> Cardinality(S) > 1
          BY <3>5, <4>2 DEF Cuts
        <5> HIDE DEF S
        <5> QED BY <4>2, <5>1, TwoOrMore
      <4>4. CutBy(e, up, v) <=> \E a, b \in S : a # b
        BY <1>4, <3>5, <4>1 DEF CutBy
      <4>5. CutBy(d, up, v) => \E a, b \in S : a # b
        <5>1. Kids(d, up, v) \subseteq S
          BY <3>2, <4>1
        <5> HIDE DEF S
        <5> QED BY <3>5, <5>1 DEF CutBy
      <4> QED BY <3>1, <3>4, <4>3, <4>4, <4>5
    <3>6. CASE d.parent[v] # None
      <4>1. CutBy(e, up, v) <=> \E x \in Kids(e, up, v) : d.low[x] >= d.found[v]
        BY <1>4, <3>3, <3>6 DEF CutBy
      <4>2. CutBy(d, up, v) <=> \E x \in Kids(d, up, v) : d.low[x] >= d.found[v]
        BY <3>6 DEF CutBy
      <4>3. Cuts(d, v, w) <=> d.low[w] >= d.found[v]
        BY <3>6 DEF Cuts
      <4> QED BY <3>1, <3>2, <3>4, <4>1, <4>2, <4>3
    <3> QED BY <3>5, <3>6
  <2>3. \A u \in V : u \in e.cut <=> CutBy(e, up, u)
    BY <1>1, <2>1, <2>2
  <2>4. \A u \in V : e.children[u] = Cardinality({x \in V : e.parent[x] = u})
    <3>1. \A u \in V : d.children[u] = Cardinality({x \in V : d.parent[x] = u})
      BY <1>1 DEF CutSoFar
    <3>2. e.children = d.children /\ e.parent = d.parent
      BY <1>4
    <3> QED BY <3>1, <3>2
  <2> QED BY <1>7, <2>3, <2>4 DEF CutSoFar
<1> QED BY <1>1, <1>3, <1>4, <1>8, <1>9, <1>10, <1>14, <1>15 DEF Searching

\* A search begins with nothing discovered.
LEMMA BeginSearches ==
  ASSUME NEW d, IsMesh(d.graph), DOMAIN d = SearchFields, d.pc = "run", d.time = 0, d.stack = << >>, d.cut = {},
         LET V == DOMAIN d.graph IN
           /\ d.found = [x \in V |-> 0] /\ d.low = [x \in V |-> 0] /\ d.children = [x \in V |-> 0]
           /\ d.parent = [x \in V |-> None] /\ d.looked = [x \in V |-> {}]
  PROVE  Searching(d, [x \in DOMAIN d.graph |-> {}])
<1> DEFINE V == DOMAIN d.graph
           up == [x \in V |-> {}]
<1>1. /\ \A x \in V : /\ d.found[x] = 0 /\ d.low[x] = 0 /\ d.parent[x] = None /\ d.looked[x] = {}
                      /\ d.children[x] = 0 /\ up[x] = {}
      /\ None \notin V
  BY TablesAssumption DEF IsMesh
<1>2. Known(d) = {} /\ Open(d, up) = {}
  BY <1>1 DEF Known, Open
<1>3. SearchTyped(d)
  <2>1. d.stack \in Seq(V)
    OBVIOUS
  <2>2. /\ d.found \in [V -> Nat] /\ d.low \in [V -> Nat] /\ d.children \in [V -> Nat]
        /\ d.parent \in [V -> V \cup {None}] /\ d.looked \in [V -> SUBSET V]
    OBVIOUS
  <2> QED BY <2>1, <2>2 DEF SearchTyped
<1>4. Forest(d, up)
  BY <1>1, <1>2 DEF Forest
<1>5. Trail(d)
  BY DEF Trail
<1>6. Across(d, up) /\ Lows(d, up)
  BY <1>2 DEF Across, Lows
<1>7. CutSoFar(d, up)
  <2>1. ASSUME NEW v \in V
        PROVE  Kids(d, up, v) = {} /\ {w \in V : d.parent[w] = v} = {}
    BY <1>1, <1>2 DEF Kids
  <2>2. \A v \in V : ~CutBy(d, up, v)
    BY <2>1 DEF CutBy
  <2>3. \A v \in V : d.children[v] = Cardinality({w \in V : d.parent[w] = v})
    BY <1>1, <2>1, FS_EmptySet
  <2> QED BY <2>2, <2>3 DEF CutSoFar
<1> QED BY <1>3, <1>4, <1>5, <1>6, <1>7 DEF Searching

\* Root, Look and Return are such steps of a search.
LEMMA RootDiscovers ==
  ASSUME NEW up, Searching(dfs, up), Root
  PROVE  Searching(dfs', Further(up, Open(dfs, up), Min(New))) /\ dfs'.call = dfs.call /\ dfs'.graph = dfs.graph
<1> DEFINE w == Min(New)
           e == Discover(w, None)
<1>1. dfs.stack = << >> /\ New # {} /\ dfs' = e
  BY DEF Root
<1>2. DOMAIN dfs = SearchFields /\ IsMesh(dfs.graph)
  BY DEF Searching, SearchTyped
<1>3. w \in New
  <2>1. New \in SUBSET Nat
    BY <1>2 DEF New, IsMesh
  <2> QED BY <1>1, <2>1, MinIs
<1>4. w \in DOMAIN dfs.graph /\ dfs.found[w] = 0
  BY <1>3 DEF New
<1> HIDE DEF w
<1>5. Discovered(dfs, e, w, None)
  BY <1>2 DEF Discovered, SameSearch, Discover, SearchFields
<1> HIDE DEF e
<1>6. Searching(e, Further(up, Open(dfs, up), w))
  BY <1>1, <1>4, <1>5, DiscoverSearches
<1>7. e.call = dfs.call /\ e.graph = dfs.graph
  BY <1>5 DEF Discovered, SameSearch
<1> QED BY <1>1, <1>6, <1>7 DEF w

\* Looking at the next neighbor discovers it or finds it discovered.
LEMMA LookGoesOn ==
  ASSUME NEW up, Searching(dfs, up), Look
  PROVE  (\E us : Searching(dfs', us)) /\ dfs'.call = dfs.call /\ dfs'.graph = dfs.graph
<1> DEFINE v == Last(dfs.stack)
           left == dfs.graph[v] \ dfs.looked[v]
           w == Min(left)
           e == [Discover(w, v) EXCEPT !.looked[v] = @ \cup {w}, !.children[v] = @ + 1]
           f == [dfs EXCEPT !.looked[v] = @ \cup {w},
                            !.low[v] = IF w = dfs.parent[v] THEN @ ELSE Min({@, dfs.found[w]})]
<1>1. /\ dfs.stack # << >> /\ left # {}
      /\ (w \in New /\ dfs' = e) \/ (w \notin New /\ dfs' = f)
  BY DEF Look
<1>2. DOMAIN dfs = SearchFields /\ IsMesh(dfs.graph) /\ dfs.found \in [DOMAIN dfs.graph -> Nat]
  BY DEF Searching, SearchTyped
<1>3. v \in DOMAIN dfs.graph /\ v # None
  BY <1>1, OpenIs DEF Known
<1>4. w \in left
  <2>1. left \in SUBSET Nat
    BY <1>2, <1>3 DEF IsMesh
  <2> HIDE DEF left
  <2> QED BY <1>1, <2>1, MinIs
<1>5. w \in DOMAIN dfs.graph
  BY <1>2, <1>3, <1>4 DEF IsMesh
<1> HIDE DEF w
<1>6. CASE w \in New /\ dfs' = e
  <2>1. Discovered(dfs, e, w, v)
    <3> HIDE DEF v
    <3> QED BY <1>2, <1>3 DEF Discovered, SameSearch, Discover, SearchFields
  <2> HIDE DEF e
  <2>2. dfs.found[w] = 0
    BY <1>6 DEF New
  <2>3. Searching(e, Further(up, Open(dfs, up), w))
    BY <1>1, <1>4, <1>5, <2>1, <2>2, DiscoverSearches
  <2> QED BY <1>6, <2>1, <2>3 DEF Discovered, SameSearch
<1>7. CASE w \notin New /\ dfs' = f
  <2>1. LookedAt(dfs, f, v, w)
    <3> HIDE DEF v
    <3> QED BY <1>2, <1>3 DEF LookedAt, SameSearch, SearchFields
  <2> HIDE DEF f
  <2>2. w \in Known(dfs)
    BY <1>2, <1>5, <1>7 DEF New, Known
  <2>3. Searching(f, up)
    BY <1>1, <1>4, <2>1, <2>2, LookSearches
  <2> QED BY <1>7, <2>1, <2>3 DEF LookedAt, SameSearch
<1> QED BY <1>1, <1>6, <1>7

\* A call returns when every neighbor was looked at.
LEMMA ReturnGoesOn ==
  ASSUME NEW up, Searching(dfs, up), Return
  PROVE  Searching(dfs', up) /\ dfs'.call = dfs.call /\ dfs'.graph = dfs.graph
<1> DEFINE w == Last(dfs.stack)
           v == dfs.parent[w]
           e == IF v = None THEN [dfs EXCEPT !.stack = Front(@)]
                ELSE [dfs EXCEPT !.stack = Front(@), !.low[v] = Min({@, dfs.low[w]}),
                                 !.cut = IF Cuts(dfs, v, w) THEN @ \cup {v} ELSE @]
<1>1. dfs.stack # << >> /\ dfs.graph[w] = dfs.looked[w] /\ dfs' = e
  BY DEF Return
<1>2. DOMAIN dfs = SearchFields
  BY DEF Searching, SearchTyped
<1>3. Returned(dfs, e, w)
  <2> HIDE DEF w
  <2>1. CASE v = None
    BY <1>2, <2>1 DEF Returned, SameSearch, SearchFields
  <2>2. CASE v # None
    BY <1>2, <2>2 DEF Returned, SameSearch, SearchFields
  <2> QED BY <2>1, <2>2
<1> HIDE DEF e
<1>4. Searching(e, up)
  BY <1>1, <1>3, ReturnSearches
<1> QED BY <1>1, <1>3, <1>4 DEF Returned, SameSearch

-----------------------------------------------------------------------------
(* the diagnosis around the search *)

\* The graph of a partition is one the search is made for.
LEMMA MeshOf ==
  ASSUME NEW ns, NEW edges, \A edge \in edges : edge.from \in Eui /\ edge.to \in Eui, NEW p
  PROVE  IsMesh(GraphOf(ns, edges, p))
<1> DEFINE inside == {edge \in edges : PartitionOf(ns, edge.from) = p /\ PartitionOf(ns, edge.to) = p}
           ends == {edge.from : edge \in inside} \cup {edge.to : edge \in inside}
           G == GraphOf(ns, edges, p)
<1>1. G = [v \in ends |-> {w \in ends : \E edge \in inside : {edge.from, edge.to} = {v, w}}]
  BY DEF GraphOf
<1>2. ends \in SUBSET Eui
  OBVIOUS
<1> HIDE DEF inside, ends, G
<1>3. ends \subseteq Nat /\ IsFiniteSet(ends)
  BY <1>2, TablesAssumption, FS_Subset
<1>4. DOMAIN G = ends /\ \A x \in ends : \A y : y \in G[x] <=> y \in ends /\ \E edge \in inside : {edge.from, edge.to} = {x, y}
  BY <1>1
<1>5. \A x, y : {x, y} = {y, x}
  OBVIOUS
<1>6. IsMesh(G)
  BY <1>3, <1>4, <1>5 DEF IsMesh
<1> QED BY <1>6 DEF G

\* The calls a diagnosis may make.
Views == {"health", "facts"} \X Partition

\* There is a next call to make.
LEMMA NextIs ==
  ASSUME scan.calls \subseteq Views, scan.calls # {}
  PROVE  NextCall \in scan.calls
<1> DEFINE Of(view) == {p \in Partition : <<view, p>> \in scan.calls}
           Before(c, d) == (c[1] = "health" /\ d[1] = "facts") \/ (c[1] = d[1] /\ c[2] <= d[2])
<1>1. \A view : Of(view) \in SUBSET Nat
  BY TablesAssumption
<1>2. \A c \in scan.calls : c = <<c[1], c[2]>> /\ c[1] \in {"health", "facts"} /\ c[2] \in Of(c[1])
  BY DEF Views
<1>3. ASSUME NEW view, Of(view) # {}
      PROVE  \E p \in Of(view) : \A q \in Of(view) : p <= q
  BY <1>1, <1>3, Least
<1>4. \E c \in scan.calls : \A d \in scan.calls : Before(c, d)
  <2>1. CASE Of("health") # {}
    <3>1. PICK p \in Of("health") : \A q \in Of("health") : p <= q
      BY <1>3, <2>1
    <3>2. <<"health", p>> \in scan.calls
      OBVIOUS
    <3>3. \A d \in scan.calls : Before(<<"health", p>>, d)
      BY <1>2, <3>1
    <3> QED BY <3>2, <3>3
  <2>2. CASE Of("health") = {}
    <3>1. \A c \in scan.calls : c[1] = "facts" /\ c[2] \in Of("facts")
      BY <1>2, <2>2
    <3>2. PICK p \in Of("facts") : \A q \in Of("facts") : p <= q
      BY <1>3, <3>1
    <3>3. <<"facts", p>> \in scan.calls
      OBVIOUS
    <3>4. \A d \in scan.calls : Before(<<"facts", p>>, d)
      BY <3>1, <3>2
    <3> QED BY <3>3, <3>4
  <2> QED BY <2>1, <2>2
<1> QED BY <1>4 DEF NextCall

\* The articulation points a diagnosis has noted of a call.
CutOf(s, c) == {x[2] : x \in {y \in s.cut : y[1] = c}}

\* Of a graph it has asked about it noted the cut vertices, of the others nothing
\* yet; the facts are about the peer edges it read.
Noted(s) ==
  /\ s.pc \in {"idle", "links", "nodes", "parents", "signals"} => s.cut = {}
  /\ s.pc \in {"graph", "done"} =>
       /\ DOMAIN s.graph = Views /\ s.calls \subseteq Views
       /\ \A c \in Views :
            /\ IsMesh(s.graph[c])
            /\ CutOf(s, c) = IF c \in s.calls THEN {} ELSE CutVertices(s.graph[c])
       /\ \A p \in Partition : s.graph[<<"facts", p>>] = GraphOf(s.shown, Peers(s.edges), p)
  /\ s.pc = "done" => s.calls = {}

\* The search under way is for a call that is not answered.
Sought ==
  dfs # NoDfs => /\ dfs.call \in scan.calls /\ dfs.graph = scan.graph[dfs.call]
                 /\ \E up : Searching(dfs, up)

\* A call begins such a search.
LEMMA CallSeeks ==
  ASSUME Diagnosed, Noted(scan), Call
  PROVE  Sought'
<1> DEFINE call == NextCall
           G == scan.graph[call]
           zero == [v \in DOMAIN G |-> 0]
           e == [pc |-> "run", call |-> call, graph |-> G, found |-> zero, low |-> zero,
                 parent |-> [v \in DOMAIN zero |-> None], children |-> zero,
                 looked |-> [v \in DOMAIN zero |-> {}], stack |-> << >>, time |-> 0, cut |-> {}]
<1>1. scan.pc = "graph" /\ scan.calls # {} /\ dfs' = e /\ scan' = scan
  BY DEF Call
<1>2. call \in scan.calls /\ IsMesh(G)
  <2>1. scan.calls \subseteq Views
    BY <1>1 DEF Noted
  <2>2. call \in scan.calls
    BY <1>1, <2>1, NextIs
  <2> HIDE DEF call
  <2> QED BY <1>1, <2>1, <2>2 DEF Noted
<1> HIDE DEF call
<1>3. /\ DOMAIN e = SearchFields /\ e.pc = "run" /\ e.time = 0 /\ e.stack = << >> /\ e.cut = {}
      /\ e.call = call /\ e.graph = G
  BY DEF SearchFields
<1>4. /\ e.found = [x \in DOMAIN G |-> 0] /\ e.low = [x \in DOMAIN G |-> 0] /\ e.children = [x \in DOMAIN G |-> 0]
      /\ e.parent = [x \in DOMAIN G |-> None] /\ e.looked = [x \in DOMAIN G |-> {}]
  OBVIOUS
<1> HIDE DEF e
<1>5. \E up : Searching(e, up)
  <2> HIDE DEF G
  <2>1. Searching(e, [x \in DOMAIN e.graph |-> {}])
    BY <1>2, <1>3, <1>4, BeginSearches
  <2> QED BY <2>1
<1>6. dfs'.call \in scan'.calls /\ dfs'.graph = scan'.graph[dfs'.call]
  BY <1>1, <1>2, <1>3
<1> QED BY <1>1, <1>5, <1>6 DEF Sought

\* A graph the view does not ask about has no articulation point.
LEMMA Unasked ==
  ASSUME NEW G, IsMesh(G), NEW view, ~Asked(view, G)
  PROVE  CutVertices(G) = {}
<1>1. IsFiniteSet(DOMAIN G) /\ Cardinality(DOMAIN G) \in Nat
  BY FS_CardinalityType DEF IsMesh
<1>2. Cardinality(DOMAIN G) < 3
  BY <1>1 DEF Asked
<1>3. SUFFICES ASSUME NEW v \in CutVertices(G) PROVE FALSE
  OBVIOUS
<1>4. PICK a \in DOMAIN G \ {v}, b \in DOMAIN G \ {v} : b \in Reach(G, a) /\ b \notin Reach(Away(G, v), a)
  BY <1>3, CutIs
<1>5. v \in DOMAIN G /\ a # b
  BY <1>3, <1>4, CutIs, AwayClosed
<1>6. Cardinality({v, a, b}) = 3 /\ IsFiniteSet({v, a, b})
  <2>1. Cardinality({v}) = 1 /\ IsFiniteSet({v})
    BY FS_Singleton
  <2>2. Cardinality({v} \cup {a}) = 2 /\ IsFiniteSet({v} \cup {a})
    <3>1. a \notin {v}
      BY <1>4
    <3>2. Cardinality({v} \cup {a}) = Cardinality({v}) + 1 /\ IsFiniteSet({v} \cup {a})
      BY <2>1, <3>1, FS_AddElement
    <3> QED BY <2>1, <3>2
  <2>3. b \notin {v} \cup {a}
    BY <1>4, <1>5
  <2>4. Cardinality(({v} \cup {a}) \cup {b}) = 3 /\ IsFiniteSet(({v} \cup {a}) \cup {b})
    <3>1. /\ Cardinality(({v} \cup {a}) \cup {b}) = Cardinality({v} \cup {a}) + 1
          /\ IsFiniteSet(({v} \cup {a}) \cup {b})
      BY <2>2, <2>3, FS_AddElement
    <3> QED BY <2>2, <3>1
  <2>5. ({v} \cup {a}) \cup {b} = {v, a, b}
    OBVIOUS
  <2> QED BY <2>4, <2>5
<1>7. {v, a, b} \subseteq DOMAIN G
  BY <1>4, <1>5
<1> QED BY <1>1, <1>2, <1>6, <1>7, FS_Subset

\* Two of the facts a diagnosis states.
LEMMA FactsTell ==
  ASSUME NEW s
  PROVE  /\ (\E edge \in s.edges : Weak(edge.row)) => \E fact \in Facts(s) : fact.kind = "weak_links"
         /\ (\E x \in s.cut : x[1][1] = "facts") => \E fact \in Facts(s) : fact.kind = "choke_point"
<1>1. ASSUME \E edge \in s.edges : Weak(edge.row)
      PROVE  \E fact \in Facts(s) : fact.kind = "weak_links"
  <2>1. [kind |-> "weak_links", eui |-> None] \in Facts(s)
    BY <1>1 DEF Facts
  <2> QED BY <2>1
<1>2. ASSUME \E x \in s.cut : x[1][1] = "facts"
      PROVE  \E fact \in Facts(s) : fact.kind = "choke_point"
  <2> DEFINE chokes == {c[2] : c \in {x \in s.cut : x[1][1] = "facts"}}
             f == [kind |-> "choke_point", eui |-> Top(chokes, LAMBDA e : 0 - Degree(s, e), LAMBDA e : 0)]
  <2>1. chokes # {}
    BY <1>2
  <2>2. f \in Facts(s)
    BY <2>1 DEF Facts
  <2> HIDE DEF chokes
  <2>3. f.kind = "choke_point"
    OBVIOUS
  <2> HIDE DEF f
  <2> QED BY <2>2, <2>3
<1> QED BY <1>1, <1>2

\* When every call is answered, the answer has what the two properties ask of it.
LEMMA ConcludeTells ==
  ASSUME Diagnosed, Noted(scan), Conclude
  PROVE  Noted(scan') /\ ChokePointsAreExact' /\ FragilityIsTold' /\ dfs' = NoDfs
<1> DEFINE v == Health(scan)
           w == Facts(scan)
           p == Placements(scan, w)
<1>1. scan.pc = "graph" /\ scan.calls = {} /\ DOMAIN scan = Fields /\ dfs' = NoDfs
  BY DEF Conclude, Diagnosed
<1>2. scan' = [scan EXCEPT !.pc = "done", !.health = v, !.facts = w, !.placements = p]
  BY DEF Conclude
<1>3. PICK s, t : s = scan /\ t = scan'
  OBVIOUS
<1> HIDE DEF v, w, p
<1>4. /\ t.pc = "done" /\ t.calls = {} /\ t.graph = s.graph /\ t.cut = s.cut /\ t.shown = s.shown
      /\ t.edges = s.edges /\ t.facts = w
  BY <1>1, <1>2, <1>3 DEF Fields
<1>5. /\ DOMAIN s.graph = Views
      /\ \A c \in Views : IsMesh(s.graph[c]) /\ CutOf(s, c) = CutVertices(s.graph[c])
      /\ \A q \in Partition : s.graph[<<"facts", q>>] = GraphOf(s.shown, Peers(s.edges), q)
  BY <1>1, <1>3 DEF Noted
<1>6. \A c : CutOf(t, c) = CutOf(s, c)
  BY <1>4 DEF CutOf
<1>7. Noted(t)
  BY <1>4, <1>5, <1>6 DEF Noted
<1>8. ChokePointsAreExact'
  BY <1>3, <1>4, <1>5, <1>6 DEF ChokePointsAreExact, CutOf
<1>9. FragilityIsTold'
  <2>1. SUFFICES ASSUME NEW q \in Partition,
                        CutVertices(GraphOf(s.shown, {edge \in Peers(s.edges) : ~Weak(edge.row)}, q)) # {}
                 PROVE  \E fact \in w : fact.kind \in {"choke_point", "weak_links"}
    BY <1>3, <1>4 DEF FragilityIsTold
  <2>2. CASE \E edge \in s.edges : Weak(edge.row)
    <3>1. \E fact \in Facts(s) : fact.kind = "weak_links"
      BY <2>2, FactsTell
    <3> QED BY <1>3, <3>1 DEF w
  <2>3. CASE ~\E edge \in s.edges : Weak(edge.row)
    <3>1. {edge \in Peers(s.edges) : ~Weak(edge.row)} = Peers(s.edges)
      BY <2>3 DEF Peers
    <3>2. CutVertices(s.graph[<<"facts", q>>]) # {} /\ <<"facts", q>> \in Views
      BY <1>5, <2>1, <3>1 DEF Views
    <3>3. CutOf(s, <<"facts", q>>) # {}
      BY <1>5, <3>2
    <3>4. \E x \in s.cut : x[1][1] = "facts"
      BY <3>3 DEF CutOf
    <3>5. \E fact \in Facts(s) : fact.kind = "choke_point"
      BY <3>4, FactsTell
    <3> QED BY <1>3, <3>5 DEF w
  <2> QED BY <2>2, <2>3
<1> QED BY <1>1, <1>3, <1>7, <1>8, <1>9

\* The search that ends adds its vertices to what was noted.
LEMMA AnswerNotes ==
  ASSUME Diagnosed, Noted(scan), Sought, Answer
  PROVE  Noted(scan') /\ scan'.pc = "graph" /\ dfs' = NoDfs
<1> DEFINE call == dfs.call
           calls == scan.calls \ {call}
           cut == scan.cut \cup ({call} \X dfs.cut)
<1>1. dfs.pc = "run" /\ dfs.stack = << >> /\ New = {} /\ dfs' = NoDfs
  BY DEF Answer
<1>2. dfs # NoDfs /\ scan.pc = "graph" /\ DOMAIN scan = Fields
  BY <1>1 DEF NoDfs, Diagnosed
<1>3. PICK up : Searching(dfs, up)
  BY <1>2 DEF Sought
<1>4. call \in scan.calls /\ dfs.graph = scan.graph[call]
  BY <1>2 DEF Sought
<1>5. Known(dfs) = DOMAIN dfs.graph
  <2>1. dfs.found \in [DOMAIN dfs.graph -> Nat]
    BY <1>3 DEF Searching, SearchTyped
  <2> QED BY <1>1, <2>1 DEF New, Known
<1>6. dfs.cut = CutVertices(dfs.graph)
  BY <1>1, <1>3, <1>5, SearchIsExact DEF Searched
<1>7. scan' = [scan EXCEPT !.calls = calls, !.cut = cut]
  BY DEF Answer
<1>8. PICK s, t : s = scan /\ t = scan'
  OBVIOUS
<1> HIDE DEF calls, cut
<1>9. /\ t.pc = "graph" /\ t.calls = calls /\ t.graph = s.graph /\ t.cut = cut /\ t.shown = s.shown
      /\ t.edges = s.edges
  BY <1>2, <1>7, <1>8 DEF Fields
<1>10. /\ DOMAIN s.graph = Views /\ s.calls \subseteq Views
       /\ \A c \in Views :
            /\ IsMesh(s.graph[c])
            /\ CutOf(s, c) = IF c \in s.calls THEN {} ELSE CutVertices(s.graph[c])
       /\ \A p \in Partition : s.graph[<<"facts", p>>] = GraphOf(s.shown, Peers(s.edges), p)
  BY <1>2, <1>8 DEF Noted
<1>11. ASSUME NEW c \in Views
       PROVE  CutOf(t, c) = IF c \in t.calls THEN {} ELSE CutVertices(t.graph[c])
  <2>1. CASE c = call
    <3>1. CutOf(s, c) = {} /\ c \notin t.calls
      BY <1>4, <1>8, <1>9, <1>10, <2>1 DEF calls
    <3>2. CutOf(t, c) = CutOf(s, c) \cup dfs.cut
      <4>1. \A x \in {call} \X dfs.cut : x[1] = c
        BY <2>1
      <4>2. \A z \in dfs.cut : \E x \in {call} \X dfs.cut : x[2] = z
        <5> TAKE z \in dfs.cut
        <5>1. <<call, z>> \in {call} \X dfs.cut /\ <<call, z>>[2] = z
          OBVIOUS
        <5> QED BY <5>1
      <4> QED BY <1>8, <1>9, <4>1, <4>2 DEF CutOf, cut
    <3> QED BY <1>4, <1>6, <1>8, <1>9, <2>1, <3>1, <3>2
  <2>2. CASE c # call
    <3>1. CutOf(t, c) = CutOf(s, c)
      <4>1. \A x \in {call} \X dfs.cut : x[1] # c
        BY <2>2
      <4> QED BY <1>8, <1>9, <4>1 DEF CutOf, cut
    <3>2. c \in t.calls <=> c \in s.calls
      BY <1>8, <1>9, <2>2 DEF calls
    <3> QED BY <1>9, <1>10, <3>1, <3>2
  <2> QED BY <2>1, <2>2
<1>12. t.calls \subseteq Views
  BY <1>8, <1>9, <1>10 DEF calls
<1>13. Noted(t)
  BY <1>9, <1>10, <1>11, <1>12 DEF Noted
<1> QED BY <1>1, <1>8, <1>9, <1>13

\* A diagnosis asks about the graphs it builds, and has been told nothing yet.
LEMMA ReadAsks ==
  ASSUME Diagnosed, Noted(scan), ReadBack
  PROVE  Noted(scan') /\ scan'.pc = "graph"
<1> DEFINE graph  == [c \in {"health", "facts"} \X Partition |->
                        GraphOf(IF c[1] = "health" THEN scan.listed ELSE scan.shown, Peers(scan.edges), c[2])]
           left   == Listed(scan.listed)
           calls  == {c \in DOMAIN graph : Asked(c[1], graph[c])}
<1>1. scan' = [scan EXCEPT !.pc = "graph", !.back = peer, !.graph = graph, !.left = left, !.calls = calls]
  BY DEF ReadBack
<1>2. scan.pc = "signals" /\ DOMAIN scan = Fields
  BY DEF ReadBack, Diagnosed
<1>3. \A edge \in Peers(scan.edges) : edge.from \in Eui /\ edge.to \in Eui
  BY <1>2 DEF Diagnosed, Peers
<1>4. PICK s, t : s = scan /\ t = scan'
  OBVIOUS
<1>5. /\ DOMAIN graph = Views
      /\ \A view \in {"health", "facts"}, p \in Partition :
           graph[<<view, p>>] = GraphOf(IF view = "health" THEN scan.listed ELSE scan.shown, Peers(scan.edges), p)
  BY DEF Views
<1> HIDE DEF graph, left
<1>6. calls \subseteq Views /\ \A c \in Views : c \notin calls => ~Asked(c[1], graph[c])
  BY <1>5
<1> HIDE DEF calls
<1>7. /\ t.pc = "graph" /\ t.calls = calls /\ t.graph = graph /\ t.cut = s.cut /\ t.shown = s.shown
      /\ t.edges = s.edges
  BY <1>1, <1>2, <1>4 DEF Fields
<1>8. s.cut = {}
  BY <1>2, <1>4 DEF Noted
<1>9. ASSUME NEW c \in Views
      PROVE  /\ IsMesh(graph[c])
             /\ CutOf(t, c) = IF c \in calls THEN {} ELSE CutVertices(graph[c])
  <2>1. c = <<c[1], c[2]>> /\ c[1] \in {"health", "facts"} /\ c[2] \in Partition
    BY DEF Views
  <2>2. PICK ns : graph[c] = GraphOf(ns, Peers(scan.edges), c[2])
    BY <1>5, <2>1
  <2>3. IsMesh(graph[c])
    BY <1>3, <2>2, MeshOf
  <2>4. CutOf(t, c) = {}
    BY <1>7, <1>8 DEF CutOf
  <2> QED BY <1>6, <2>3, <2>4, Unasked
<1>10. \A p \in Partition : graph[<<"facts", p>>] = GraphOf(t.shown, Peers(t.edges), p)
  BY <1>4, <1>5, <1>7
<1>11. Noted(t)
  BY <1>5, <1>6, <1>7, <1>9, <1>10 DEF Noted
<1> QED BY <1>4, <1>7, <1>11

\* Before the graphs are built no articulation point is noted.
LEMMA ReadsCutNothing ==
  ASSUME DOMAIN scan = Fields, dfs # NoDfs => scan.pc = "graph",
         ReadTopology \/ ReadLinks \/ ReadNodes \/ ReadParents \/ ReadSignals
  PROVE  /\ scan'.pc \in {"links", "nodes", "parents", "signals"} /\ scan'.cut = scan.cut
         /\ scan.pc \in {"idle", "links", "nodes", "parents", "signals"} /\ dfs' = NoDfs
<1> USE DEF Fields
<1>1. CASE ReadTopology
  <2> DEFINE shown == Collapsed(nodes)
  <2>1. scan' = [scan EXCEPT !.pc = "links", !.shown = shown] /\ scan.pc = "idle" /\ dfs' = dfs
    BY <1>1 DEF ReadTopology
  <2> HIDE DEF shown
  <2> QED BY <2>1
<1>2. CASE ReadLinks
  <2> DEFINE edges == Edges(scan.shown, peer)
             parent == [e \in Eui |-> ParentOf(scan.shown, peer, e)]
  <2>1. /\ scan' = [scan EXCEPT !.pc = "nodes", !.edges = edges, !.parent = parent]
        /\ scan.pc = "links" /\ dfs' = dfs
    BY <1>2 DEF ReadLinks
  <2> HIDE DEF edges, parent
  <2> QED BY <2>1
<1>3. CASE ReadNodes
  <2> DEFINE listed == Collapsed(nodes)
  <2>1. /\ scan' = [scan EXCEPT !.pc = "parents", !.listed = listed, !.counts = counts]
        /\ scan.pc = "nodes" /\ dfs' = dfs
    BY <1>3 DEF ReadNodes
  <2> HIDE DEF listed
  <2> QED BY <2>1
<1>4. CASE ReadParents \/ ReadSignals
  <2>1. PICK left, kids : scan' = [scan EXCEPT !.pc = "signals", !.left = left, !.kids = kids]
    BY <1>4, ParentsRead
  <2>2. scan.pc \in {"parents", "signals"} /\ dfs' = dfs
    BY <1>4 DEF ReadParents, ReadSignals
  <2> QED BY <2>1, <2>2
<1> QED BY <1>1, <1>2, <1>3, <1>4

\* The search and what comes of it, over the steps of the views.
SearchInv == Diagnosed /\ Noted(scan) /\ Sought /\ ChokePointsAreExact /\ FragilityIsTold

\* Where the diagnosis does not conclude nothing is stated yet.
LEMMA SearchStep ==
  ASSUME SearchInv, [ViewsNext]_viewVars
  PROVE  Noted(scan') /\ Sought' /\ ChokePointsAreExact' /\ FragilityIsTold'
<1> USE DEF SearchInv
<1>1. CASE UNCHANGED <<scan, dfs>>
  BY <1>1 DEF Sought, ChokePointsAreExact, FragilityIsTold
<1>2. ASSUME scan'.pc # "done"
      PROVE  ChokePointsAreExact' /\ FragilityIsTold'
  BY <1>2 DEF ChokePointsAreExact, FragilityIsTold
<1>3. CASE ReadTopology \/ ReadLinks \/ ReadNodes \/ ReadParents \/ ReadSignals
  <2>1. /\ scan'.pc \in {"links", "nodes", "parents", "signals"} /\ scan'.cut = scan.cut
        /\ scan.pc \in {"idle", "links", "nodes", "parents", "signals"} /\ dfs' = NoDfs
    BY <1>3, ReadsCutNothing DEF Diagnosed
  <2>2. Noted(scan')
    BY <2>1 DEF Noted
  <2> QED BY <1>2, <2>1, <2>2 DEF Sought
<1>4. CASE ReadBack
  <2>1. Noted(scan') /\ scan'.pc = "graph"
    BY <1>4, ReadAsks
  <2>2. dfs' = NoDfs
    BY <1>4 DEF ReadBack, Diagnosed
  <2> QED BY <1>2, <2>1, <2>2 DEF Sought
<1>5. CASE Call
  <2>1. scan' = scan /\ scan.pc = "graph" /\ Sought'
    BY <1>5, CallSeeks DEF Call
  <2> QED BY <1>2, <2>1
<1>6. CASE Root \/ Look \/ Return
  <2>1. scan' = scan /\ dfs # NoDfs
    BY <1>6 DEF Root, Look, Return, NoDfs
  <2>2. PICK up : Searching(dfs, up)
    BY <2>1 DEF Sought
  <2>3. (\E us : Searching(dfs', us)) /\ dfs'.call = dfs.call /\ dfs'.graph = dfs.graph
    BY <1>6, <2>2, RootDiscovers, LookGoesOn, ReturnGoesOn
  <2>4. scan.pc = "graph" /\ Sought'
    BY <2>1, <2>3 DEF Sought, Diagnosed
  <2> QED BY <1>2, <2>1, <2>4
<1>7. CASE Answer
  <2>1. Noted(scan') /\ scan'.pc = "graph" /\ dfs' = NoDfs
    BY <1>7, AnswerNotes
  <2> QED BY <1>2, <2>1 DEF Sought
<1>8. CASE ReadCounts
  <2> DEFINE e == FirstOf(scan.listed, scan.left)
             left == scan.left \ {e}
             read == [scan.counts EXCEPT ![e] = [counts[e] EXCEPT !.age = scan.counts[e].age]]
  <2>1. scan' = [scan EXCEPT !.left = left, !.counts = read] /\ scan.pc = "graph" /\ dfs' = NoDfs
    BY <1>8 DEF ReadCounts
  <2> HIDE DEF e, left, read
  <2>2. /\ scan'.pc = "graph" /\ scan'.graph = scan.graph /\ scan'.calls = scan.calls /\ scan'.cut = scan.cut
        /\ scan'.shown = scan.shown /\ scan'.edges = scan.edges
    BY <2>1 DEF Diagnosed, Fields
  <2>3. \A c : CutOf(scan', c) = CutOf(scan, c)
    BY <2>2 DEF CutOf
  <2>4. Noted(scan')
    BY <2>1, <2>2, <2>3 DEF Noted
  <2> QED BY <1>2, <2>1, <2>2, <2>4 DEF Sought
<1>9. CASE Conclude
  BY <1>9, ConcludeTells DEF Sought
<1> QED
  <2>1. CASE Diagnosing
    BY <2>1, <1>3, <1>4, <1>5, <1>6, <1>7, <1>8, <1>9 DEF Diagnosing, DiagnosisNext
  <2>2. CASE UNCHANGED diagnosisVars
    BY <2>2, <1>1 DEF diagnosisVars
  <2> QED BY <2>1, <2>2, DiagnosisOrNot

\* ... so a diagnosis has noted what is there, whatever discovery writes meanwhile.
LEMMA SearchHolds == ViewsSpec => [](Noted(scan) /\ Sought /\ ChokePointsAreExact /\ FragilityIsTold)
<1> DEFINE Inv == HealthyIsEarned /\ BadIsExplained /\ SearchInv
<1>1. ViewsInit => Inv
  BY DEF ViewsInit, Idle, Diagnosed, Fields, HealthyIsEarned, BadIsExplained,
         SearchInv, Noted, Sought, ChokePointsAreExact, FragilityIsTold
<1>2. TablesTyped /\ Inv /\ [ViewsNext]_viewVars => Inv'
  <2> SUFFICES ASSUME TablesTyped, Inv, [ViewsNext]_viewVars
               PROVE  Inv'
    OBVIOUS
  <2>1. Diagnosed' /\ HealthyIsEarned' /\ BadIsExplained'
    BY DiagnosedStep DEF SearchInv
  <2>2. Noted(scan') /\ Sought' /\ ChokePointsAreExact' /\ FragilityIsTold'
    BY SearchStep
  <2>3. SearchInv'
    BY <2>1, <2>2 DEF SearchInv
  <2> QED BY <2>1, <2>3
<1>3. Inv => Noted(scan) /\ Sought /\ ChokePointsAreExact /\ FragilityIsTold
  BY DEF SearchInv
<1> QED BY <1>1, <1>2, <1>3, TablesStayTyped, PTL DEF ViewsSpec

\* The articulation points the health request lists are the cut vertices of the
\* mesh, whatever the graph and whatever discovery writes between the reads
\* (_find_articulation_points).
THEOREM ChokePointsAreAllFound == ViewsSpec => []ChokePointsAreExact
<1>1. Noted(scan) /\ Sought /\ ChokePointsAreExact /\ FragilityIsTold => ChokePointsAreExact
  OBVIOUS
<1> QED BY <1>1, SearchHolds, PTL

\* A mesh that hangs on one router by its healthy edges is said to be weak or
\* choked (derive_graph_diagnostics).
THEOREM FragileMeshesAreTold == ViewsSpec => []FragilityIsTold
<1>1. Noted(scan) /\ Sought /\ ChokePointsAreExact /\ FragilityIsTold => FragilityIsTold
  OBVIOUS
<1> QED BY <1>1, SearchHolds, PTL
=============================================================================
