------------------------------ MODULE StatsProofs ------------------------------
(***************************************************************************)
(* Proofs about Stats, for any number of samples with any values: that     *)
(* Sorted sorts, and what that means for the percentiles and for the       *)
(* verdict of evaluate_sla.                                                *)
(***************************************************************************)
EXTENDS Stats, Integers, FiniteSetTheorems, WellFoundedInduction, TLAPS

-----------------------------------------------------------------------------
(* Induction on a set of numbers in place of a predicate                   *)

Below == {p \in Nat \X Nat : p[1] < p[2]}

LEMMA BelowWellFounded == IsWellFoundedOn(Below, Nat)
  BY NatLessThanWellFounded DEF OpToRel, Below

LEMMA LeastNumber ==
  ASSUME NEW T \in SUBSET Nat, T # {}
  PROVE  \E x \in T : \A y \in T : x <= y
  <1>1. PICK x \in T : \A y \in T : ~(<<y, x>> \in Below)
    BY BelowWellFounded, WFMin
  <1>2. \A y \in T : ~(y < x)
    BY <1>1 DEF Below
  <1> QED
    BY <1>2

LEMMA SetInduction ==
  ASSUME NEW S, 0 \in S, \A n \in Nat : n \in S => n + 1 \in S
  PROVE  \A n \in Nat : n \in S
  <1> SUFFICES ASSUME Nat \ S # {} PROVE FALSE
    OBVIOUS
  <1>1. PICK n \in Nat \ S : \A m \in Nat \ S : n <= m
    BY LeastNumber
  <1>2. n # 0 /\ n - 1 \in Nat
    BY <1>1
  <1>3. n - 1 \in S
    BY <1>1, <1>2
  <1>4. (n - 1) + 1 = n
    BY <1>1
  <1> QED
    BY <1>1, <1>2, <1>3, <1>4

-----------------------------------------------------------------------------
(* Samples                                                                 *)

Samples(values) == IsFiniteSet(DOMAIN values) /\ values \in [DOMAIN values -> Nat]

\* Among finitely many samples there is a largest.
LEMMA LargestSample ==
  ASSUME NEW values, Samples(values), NEW T \in SUBSET DOMAIN values, T # {}
  PROVE  \E i \in T : \A j \in T : values[j] <= values[i]
  <1> DEFINE D == DOMAIN values
             HasLargest(U) == U # {} => \E i \in U : \A j \in U : values[j] <= values[i]
             S == {n \in Nat : \A U \in SUBSET D : Cardinality(U) = n => HasLargest(U)}
  <1>1. \A U \in SUBSET D : IsFiniteSet(U) /\ Cardinality(U) \in Nat
    BY FS_Subset, FS_CardinalityType DEF Samples
  <1>2. \A i \in D : values[i] \in Nat
    BY DEF Samples
  <1>3. 0 \in S
    <2>1. \A U \in SUBSET D : Cardinality(U) = 0 => U = {}
      BY <1>1, FS_EmptySet
    <2> QED
      BY <2>1
  <1>4. ASSUME NEW n \in Nat, n \in S PROVE n + 1 \in S
    <2> SUFFICES ASSUME NEW U \in SUBSET D, Cardinality(U) = n + 1, U # {}
                 PROVE  \E i \in U : \A j \in U : values[j] <= values[i]
      OBVIOUS
    <2>1. PICK x \in U : TRUE
      OBVIOUS
    <2>2. Cardinality(U \ {x}) = n
      <3>1. IsFiniteSet(U)
        BY <1>1
      <3>2. Cardinality(U \ {x}) = Cardinality(U) - 1
        BY <2>1, <3>1, FS_RemoveElement
      <3> QED
        BY <3>2
    <2>3. HasLargest(U \ {x})
      BY <1>4, <2>2
    <2>4. CASE U \ {x} = {}
      <3>1. \A j \in U : j = x
        BY <2>4
      <3> QED
        BY <1>2, <2>1, <3>1
    <2>5. CASE U \ {x} # {}
      <3>1. PICK i \in U \ {x} : \A j \in U \ {x} : values[j] <= values[i]
        BY <2>3, <2>5
      <3>2. CASE values[x] <= values[i]
        BY <3>1, <3>2
      <3>3. CASE values[i] <= values[x]
        <4>1. \A j \in U \ {x} : values[j] <= values[x]
          BY <1>2, <2>1, <3>1, <3>3
        <4> QED
          BY <1>2, <2>1, <4>1
      <3> QED
        BY <1>2, <2>1, <3>1, <3>2, <3>3
    <2> QED
      BY <2>4, <2>5
  <1>5. \A n \in Nat : n \in S
    <2> HIDE DEF S
    <2> QED
      BY <1>3, <1>4, SetInduction
  <1> QED
    BY <1>1, <1>5

LEMMA UpToFacts ==
  ASSUME NEW values, Samples(values)
  PROVE  /\ Size(values) \in Nat
         /\ \A v : /\ UpTo(values, v) \in SUBSET DOMAIN values
                   /\ IsFiniteSet(UpTo(values, v))
                   /\ Cardinality(UpTo(values, v)) \in 0 .. Size(values)
  <1>1. Size(values) \in Nat
    BY FS_CardinalityType DEF Samples, Size
  <1>2. ASSUME NEW v
        PROVE  /\ UpTo(values, v) \in SUBSET DOMAIN values
               /\ IsFiniteSet(UpTo(values, v))
               /\ Cardinality(UpTo(values, v)) \in 0 .. Size(values)
    <2>1. UpTo(values, v) \in SUBSET DOMAIN values
      BY DEF UpTo
    <2>2. IsFiniteSet(UpTo(values, v)) /\ Cardinality(UpTo(values, v)) <= Size(values)
      BY <2>1, FS_Subset DEF Samples, Size
    <2>3. Cardinality(UpTo(values, v)) \in Nat
      BY <2>2, FS_CardinalityType
    <2> QED
      BY <1>1, <2>1, <2>2, <2>3
  <1> QED
    BY <1>1, <1>2

\* A larger value has as many samples up to it, or more.
LEMMA UpToGrows ==
  ASSUME NEW values, Samples(values), NEW v \in Nat, NEW w \in Nat, v <= w
  PROVE  Cardinality(UpTo(values, v)) <= Cardinality(UpTo(values, w))
  <1>1. UpTo(values, v) \in SUBSET UpTo(values, w)
    BY DEF UpTo, Samples
  <1> QED
    BY <1>1, UpToFacts, FS_Subset

-----------------------------------------------------------------------------
(* Sorted                                                                  *)

\* If there are k samples up to v, one of them has as many samples up to it.
LEMMA SampleBelow ==
  ASSUME NEW values, Samples(values), NEW v \in Nat, NEW k \in Nat \ {0},
         Cardinality(UpTo(values, v)) >= k
  PROVE  \E w \in Image(values) : w <= v /\ Cardinality(UpTo(values, w)) >= k
  <1>1. \A i \in DOMAIN values : values[i] \in Nat
    BY DEF Samples
  <1>2. UpTo(values, v) # {}
    BY UpToFacts, FS_EmptySet
  <1>3. PICK i \in UpTo(values, v) : \A j \in UpTo(values, v) : values[j] <= values[i]
    BY <1>2, UpToFacts, LargestSample
  <1>4. i \in DOMAIN values /\ values[i] \in Nat /\ values[i] <= v
    BY <1>1, <1>3 DEF UpTo
  <1>5. UpTo(values, v) \in SUBSET UpTo(values, values[i])
    BY <1>3 DEF UpTo
  <1>6. Cardinality(UpTo(values, v)) <= Cardinality(UpTo(values, values[i]))
    BY <1>5, UpToFacts, FS_Subset
  <1>7. Cardinality(UpTo(values, values[i])) >= k
    BY <1>6, UpToFacts
  <1> QED
    BY <1>4, <1>7 DEF Image

\* The k-th of the sorted values is what its definition says.
LEMMA KthFacts ==
  ASSUME NEW values, Samples(values), NEW k \in 1 .. Size(values)
  PROVE  /\ Sorted(values)[k] \in Image(values) /\ Sorted(values)[k] \in Nat
         /\ Cardinality(UpTo(values, Sorted(values)[k])) >= k
         /\ \A w \in Image(values) :
              Cardinality(UpTo(values, w)) >= k => Sorted(values)[k] <= w
  <1> DEFINE T == {v \in Image(values) : Cardinality(UpTo(values, v)) >= k}
  <1>1. Image(values) \in SUBSET Nat
    BY DEF Image, Samples
  <1>2. T # {}
    <2>1. DOMAIN values # {}
      BY UpToFacts, FS_EmptySet DEF Size, Samples
    <2>2. PICK i \in DOMAIN values : \A j \in DOMAIN values : values[j] <= values[i]
      BY <2>1, LargestSample
    <2>3. UpTo(values, values[i]) = DOMAIN values
      BY <2>2 DEF UpTo
    <2>4. values[i] \in T
      BY <2>3, UpToFacts DEF Image, Size
    <2> QED
      BY <2>4
  <1>3. PICK v \in T : \A w \in T : v <= w
    BY <1>1, <1>2, LeastNumber
  <1>4. \E u \in Image(values) :
          /\ Cardinality(UpTo(values, u)) >= k
          /\ \A w \in Image(values) : Cardinality(UpTo(values, w)) >= k => u <= w
    BY <1>3
  <1>5. Sorted(values)[k] =
          CHOOSE u \in Image(values) : Cardinality(UpTo(values, u)) >= k
            /\ \A w \in Image(values) : Cardinality(UpTo(values, w)) >= k => u <= w
    BY DEF Sorted
  <1> HIDE DEF T
  <1> QED
    BY <1>1, <1>4, <1>5

\* The values up to v come first.
LEMMA SortedUpTo ==
  ASSUME NEW values, Samples(values), NEW v \in Nat
  PROVE  UpTo(Sorted(values), v) = 1 .. Cardinality(UpTo(values, v))
  <1> DEFINE c == Cardinality(UpTo(values, v))
  <1>1. DOMAIN Sorted(values) = 1 .. Size(values)
    BY DEF Sorted
  <1>2. c \in 0 .. Size(values) /\ Size(values) \in Nat
    BY UpToFacts
  <1>3. ASSUME NEW k \in 1 .. Size(values), k <= c PROVE Sorted(values)[k] <= v
    <2>1. PICK w \in Image(values) : w <= v /\ Cardinality(UpTo(values, w)) >= k
      BY <1>2, <1>3, SampleBelow
    <2>2. w \in Nat
      BY <2>1 DEF Image, Samples
    <2>3. Sorted(values)[k] <= w /\ Sorted(values)[k] \in Nat
      BY <2>1, KthFacts
    <2> QED
      BY <2>1, <2>2, <2>3
  <1>4. ASSUME NEW k \in 1 .. Size(values), Sorted(values)[k] <= v PROVE k <= c
    <2> DEFINE s == Sorted(values)[k]
    <2>1. s \in Nat /\ Cardinality(UpTo(values, s)) >= k
      BY KthFacts
    <2>2. Cardinality(UpTo(values, s)) <= c
      BY <1>4, <2>1, UpToGrows
    <2>3. Cardinality(UpTo(values, s)) \in Nat
      BY UpToFacts
    <2> QED
      BY <1>2, <2>1, <2>2, <2>3
  <1> QED
    BY <1>1, <1>2, <1>3, <1>4 DEF UpTo

\* Sorted is sorting, for any number of samples and any values: the result is in order,
\* and for every value as many of it are up to that value as of the samples.
THEOREM SortedCorrect ==
  ASSUME NEW values, Samples(values)
  PROVE  /\ Sorted(values) \in [1 .. Size(values) -> Image(values)]
         /\ \A i, j \in 1 .. Size(values) : i <= j => Sorted(values)[i] <= Sorted(values)[j]
         /\ \A v \in Nat : Cardinality(UpTo(Sorted(values), v)) = Cardinality(UpTo(values, v))
  <1>1. Sorted(values) \in [1 .. Size(values) -> Image(values)]
    <2>1. \A k \in 1 .. Size(values) : Sorted(values)[k] \in Image(values)
      BY KthFacts
    <2>2. Sorted(values) = [k \in 1 .. Size(values) |-> Sorted(values)[k]]
      BY DEF Sorted
    <2> QED
      BY <2>1, <2>2
  <1>2. ASSUME NEW i \in 1 .. Size(values), NEW j \in 1 .. Size(values), i <= j
        PROVE  Sorted(values)[i] <= Sorted(values)[j]
    <2>1. Sorted(values)[j] \in Image(values) /\ Sorted(values)[j] \in Nat
          /\ Cardinality(UpTo(values, Sorted(values)[j])) >= j
      BY KthFacts
    <2>2. Cardinality(UpTo(values, Sorted(values)[j])) >= i
      BY <1>2, <2>1, UpToFacts
    <2> QED
      BY <2>1, <2>2, KthFacts
  <1>3. ASSUME NEW v \in Nat
        PROVE  Cardinality(UpTo(Sorted(values), v)) = Cardinality(UpTo(values, v))
    <2>1. Cardinality(UpTo(values, v)) \in Nat
      BY UpToFacts
    <2> QED
      BY <2>1, SortedUpTo, FS_Interval
  <1> QED
    BY <1>1, <1>2, <1>3

-----------------------------------------------------------------------------
(* Percentiles                                                             *)

Quantile == {50, 95, 99}

\* _percentiles never reads outside the values, for any number of them, and its three
\* percentiles are ordered.
THEOREM RankInRange ==
  \A n \in Nat \ {0} :
    /\ 1 <= Rank(50, n) /\ Rank(50, n) <= Rank(95, n)
    /\ Rank(95, n) <= Rank(99, n) /\ Rank(99, n) <= n
  BY DEF Rank

\* The position _percentiles takes is the nearest rank or the one below it, never
\* above: what it reports is at most the percentile.
THEOREM RankBelowNearest ==
  \A n \in Nat \ {0} : \A q \in Quantile :
    /\ Rank(q, n) <= NearestRank(q, n) /\ NearestRank(q, n) <= Rank(q, n) + 1
    /\ NearestRank(q, n) <= n
  BY DEF Rank, NearestRank, Quantile

LEMMA RankFacts ==
  ASSUME NEW n \in Nat \ {0}, NEW q \in Quantile
  PROVE  Rank(q, n) \in 1 .. n /\ (q * n) \div 100 <= Rank(q, n) /\ (q * n) \div 100 \in Nat
  BY DEF Rank, Quantile

\* A percentile of no samples is 0, and otherwise one of the samples, with as many up to
\* it as its rank says.
LEMMA PercentileFacts ==
  ASSUME NEW values, Samples(values), NEW q \in Quantile
  PROVE  /\ Percentile(values, q) \in Nat
         /\ DOMAIN values = {} => Percentile(values, q) = 0 /\ Size(values) = 0
         /\ DOMAIN values # {} =>
              /\ Size(values) \in Nat \ {0} /\ Rank(q, Size(values)) \in 1 .. Size(values)
              /\ Percentile(values, q) = Sorted(values)[Rank(q, Size(values))]
              /\ Cardinality(UpTo(values, Percentile(values, q))) >= Rank(q, Size(values))
  <1>1. CASE DOMAIN values = {}
    BY <1>1, FS_EmptySet DEF Percentile, Size
  <1>2. CASE DOMAIN values # {}
    <2>1. Size(values) \in Nat \ {0}
      BY <1>2, UpToFacts, FS_EmptySet DEF Samples, Size
    <2>2. Rank(q, Size(values)) \in 1 .. Size(values)
      BY <2>1, RankFacts
    <2>3. Percentile(values, q) = Sorted(values)[Rank(q, Size(values))]
      BY <1>2 DEF Percentile
    <2> QED
      BY <1>2, <2>1, <2>2, <2>3, KthFacts
  <1> QED
    BY <1>1, <1>2

\* The report of a run never has its p50 above its p95, nor its p95 above its p99,
\* however few samples there are.
THEOREM PercentilesOrdered ==
  ASSUME NEW values, Samples(values)
  PROVE  /\ Percentile(values, 50) <= Percentile(values, 95)
         /\ Percentile(values, 95) <= Percentile(values, 99)
  <1> DEFINE n == Size(values)
  <1>1. CASE DOMAIN values = {}
    <2>1. \A q \in Quantile : Percentile(values, q) = 0
      BY <1>1, PercentileFacts
    <2> QED
      BY <2>1 DEF Quantile
  <1>2. CASE DOMAIN values # {}
    <2>1. n \in Nat \ {0}
      BY <1>2, PercentileFacts DEF Quantile
    <2>2. /\ Rank(50, n) \in 1 .. n /\ Rank(95, n) \in 1 .. n /\ Rank(99, n) \in 1 .. n
          /\ Rank(50, n) <= Rank(95, n) /\ Rank(95, n) <= Rank(99, n)
      <3>1. \A q \in Quantile : Rank(q, n) \in 1 .. n
        BY <2>1, RankFacts
      <3> QED
        BY <2>1, <3>1, RankInRange DEF Quantile
    <2>3. \A q \in Quantile : Percentile(values, q) = Sorted(values)[Rank(q, n)]
      BY <1>2, PercentileFacts
    <2>4. \A i, j \in 1 .. n : i <= j => Sorted(values)[i] <= Sorted(values)[j]
      BY SortedCorrect
    <2> QED
      BY <2>2, <2>3, <2>4 DEF Quantile
  <1> QED
    BY <1>1, <1>2

\* What _percentiles reports is never above the nearest-rank percentile of the same
\* samples: it errs, if at all, by one sample and downwards.
THEOREM PercentileBelowNearest ==
  ASSUME NEW values, Samples(values), DOMAIN values # {}, NEW q \in Quantile
  PROVE  LET n == Size(values) IN
         \/ Percentile(values, q) = Sorted(values)[NearestRank(q, n)]
         \/ /\ NearestRank(q, n) > 1
            /\ Percentile(values, q) = Sorted(values)[NearestRank(q, n) - 1]
            /\ Percentile(values, q) <= Sorted(values)[NearestRank(q, n)]
  <1> DEFINE n == Size(values)
             r == Rank(q, n)
             s == NearestRank(q, n)
  <1>1. n \in Nat \ {0} /\ r \in 1 .. n /\ Percentile(values, q) = Sorted(values)[r]
    BY PercentileFacts
  <1>2. s \in Nat
    BY <1>1 DEF NearestRank, Quantile
  <1>3. r <= s /\ s <= r + 1 /\ s <= n
    BY <1>1, RankBelowNearest
  <1>4. s = r \/ (s - 1 = r /\ s > 1 /\ s \in 1 .. n /\ r <= s)
    BY <1>1, <1>2, <1>3
  <1>5. \A i, j \in 1 .. n : i <= j => Sorted(values)[i] <= Sorted(values)[j]
    BY SortedCorrect
  <1> QED
    BY <1>1, <1>4, <1>5

-----------------------------------------------------------------------------
(* Verdicts                                                                *)

LimitType == [p50 : Nat, p95 : Nat, p99 : Nat, failurePct : Nat, throughput : Nat]

\* A passed SLA bounds the samples: of n at least q * n percent, rounded down, are
\* within the limit of percentile q.
THEOREM PassedBoundsTail ==
  ASSUME NEW values, Samples(values), NEW submitted \in Nat, NEW failed \in Nat,
         NEW duration \in Nat, NEW limits \in LimitType,
         Passed(Summary(submitted, failed, duration, values), limits),
         NEW t \in {<<50, limits.p50>>, <<95, limits.p95>>, <<99, limits.p99>>}
  PROVE  /\ DOMAIN values # {} =>
              Cardinality(UpTo(values, t[2])) >= Rank(t[1], Size(values))
         /\ Cardinality(UpTo(values, t[2])) >= (t[1] * Size(values)) \div 100
  <1>1. t[1] \in Quantile /\ t[2] \in Nat /\ Percentile(values, t[1]) <= t[2]
    BY DEF Quantile, LimitType, Passed, Summary
  <1>2. Percentile(values, t[1]) \in Nat
    BY <1>1, PercentileFacts
  <1>3. Cardinality(UpTo(values, Percentile(values, t[1])))
          <= Cardinality(UpTo(values, t[2]))
    BY <1>1, <1>2, UpToGrows
  <1>4. /\ Cardinality(UpTo(values, t[2])) \in Nat
        /\ Cardinality(UpTo(values, Percentile(values, t[1]))) \in Nat
    BY UpToFacts
  <1>5. CASE DOMAIN values = {}
    <2>1. Size(values) = 0
      BY <1>1, <1>5, PercentileFacts
    <2>2. t[1] * 0 = 0 /\ 0 \div 100 = 0
      BY <1>1 DEF Quantile
    <2> QED
      BY <1>4, <1>5, <2>1, <2>2
  <1>6. CASE DOMAIN values # {}
    <2> DEFINE n == Size(values)
               r == Rank(t[1], n)
    <2>1. n \in Nat \ {0} /\ r \in 1 .. n
          /\ Cardinality(UpTo(values, Percentile(values, t[1]))) >= r
      BY <1>1, <1>6, PercentileFacts
    <2>2. (t[1] * n) \div 100 <= r /\ (t[1] * n) \div 100 \in Nat
      BY <1>1, <2>1, RankFacts
    <2>3. Cardinality(UpTo(values, t[2])) >= r
      BY <1>3, <1>4, <2>1
    <2> QED
      BY <1>4, <2>1, <2>2, <2>3
  <1> QED
    BY <1>5, <1>6

\* A passed SLA whose failure rate is below 100 percent has a success behind it, unless
\* nothing was submitted, in which case the rate is not looked at.
THEOREM PassedHasSuccess ==
  ASSUME NEW values, Samples(values), NEW submitted \in Nat, NEW duration \in Nat,
         NEW limits \in LimitType, limits.failurePct < 100,
         Size(values) <= submitted,
         Passed(Summary(submitted, submitted - Size(values), duration, values), limits)
  PROVE  submitted = 0 \/ Size(values) > 0
  <1>1. Size(values) \in Nat
    BY UpToFacts
  <1>2. SUFFICES ASSUME submitted > 0, Size(values) = 0 PROVE FALSE
    BY <1>1
  <1>3. 100 * submitted <= limits.failurePct * submitted
    BY <1>2 DEF Passed, FailureRateOk, Summary
  <1>4. limits.failurePct \in Nat
    BY DEF LimitType
  <1>5. limits.failurePct * submitted < 100 * submitted
    BY <1>2, <1>4
  <1>6. limits.failurePct * submitted \in Nat
    BY <1>4
  <1> QED
    BY <1>3, <1>5, <1>6

\* A throughput that is asked for takes a success, in a run that lasts.
LEMMA PassedHasThroughput ==
  ASSUME NEW values, Samples(values), NEW submitted \in Nat, NEW failed \in Nat,
         NEW duration \in Nat, NEW limits \in LimitType, Size(values) = 0,
         Passed(Summary(submitted, failed, duration, values), limits)
  PROVE  limits.throughput = 0 \/ duration = 0
  <1>1. limits.throughput \in Nat
    BY DEF LimitType
  <1>2. SUFFICES ASSUME limits.throughput > 0, duration > 0 PROVE FALSE
    BY <1>1
  <1>3. 0 >= limits.throughput * duration
    BY <1>2 DEF Passed, ThroughputOk, Summary
  <1>4. \A a, b \in Nat : a > 0 /\ b > 0 => a * b > 0
    OBVIOUS
  <1> QED
    BY <1>1, <1>2, <1>3, <1>4

\* The hazard of evaluate_sla, for every set of limits without a throughput: a run that
\* submitted nothing passes.
THEOREM EmptyRunPasses ==
  ASSUME NEW duration \in Nat, NEW limits \in LimitType, limits.throughput = 0,
         NEW values, Samples(values), DOMAIN values = {}
  PROVE  Passed(Summary(0, 0, duration, values), limits)
  <1>1. \A q \in Quantile : Percentile(values, q) = 0
    BY PercentileFacts
  <1> QED
    BY <1>1 DEF Passed, FailureRateOk, ThroughputOk, Summary, LimitType, Quantile
=============================================================================
