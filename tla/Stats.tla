--------------------------------- MODULE Stats ---------------------------------
(***************************************************************************)
(* What a run's numbers become: _percentiles of the load producer and      *)
(* evaluate_sla of benchlib.sla.  Times are in ticks, failure rates in     *)
(* percent, both integers; a rate a/b is compared as a product.  The       *)
(* values are a function on the samples, of which a list is one: nothing   *)
(* here depends on their order.                                            *)
(***************************************************************************)
EXTENDS Naturals, FiniteSets

\* Mutant of Rank: the - 1 is taken from a position, as if it were not yet an index.
Rank_OneLess(q, n) == IF q * n < 200 THEN 1 ELSE (q * n) \div 100 - 1

\* Position, from 1, of the q-th percentile among n sorted values: the code takes
\* index max(0, int(q / 100 * n) - 1) from 0.
Rank(q, n) == IF q * n < 100 THEN 1 ELSE (q * n) \div 100

Size(values)  == Cardinality(DOMAIN values)
Image(values) == {values[i] : i \in DOMAIN values}

\* The samples that are v or less.
UpTo(values, v) == {i \in DOMAIN values : values[i] <= v}

\* sorted(values), from 1: the k-th is the least value that has k samples up to it.
Sorted(values) ==
  [k \in 1 .. Size(values) |->
     CHOOSE v \in Image(values) : Cardinality(UpTo(values, v)) >= k
       /\ \A w \in Image(values) : Cardinality(UpTo(values, w)) >= k => v <= w]

\* _percentiles for one q; 0.0 if there are no values.
Percentile(values, q) ==
  IF DOMAIN values = {} THEN 0 ELSE Sorted(values)[Rank(q, Size(values))]

\* The reference: the smallest rank that has q percent of n values at or below it.
NearestRank(q, n) == (q * n + 99) \div 100

\* The fields of ProducerResult that evaluate_sla reads.
Summary(submitted, failed, duration, values) ==
  [submitted |-> submitted, succeeded |-> Size(values), failed |-> failed,
   duration |-> duration, p50 |-> Percentile(values, 50),
   p95 |-> Percentile(values, 95), p99 |-> Percentile(values, 99)]

\* Mutant of FailureRateOk: it guards against a division by zero with the wrong count.
FailureRateOk_NoneSucceeded(result, limits) ==
  result.succeeded > 0 => 100 * result.failed <= limits.failurePct * result.submitted

FailureRateOk(result, limits) ==
  result.submitted > 0 => 100 * result.failed <= limits.failurePct * result.submitted

ThroughputOk(result, limits) ==
  limits.throughput > 0 /\ result.duration > 0
    => result.succeeded >= limits.throughput * result.duration

\* Mutant of Passed: the check of p95 compares p50 again.
Passed_P50Twice(result, limits) ==
  /\ result.p50 <= limits.p50 /\ result.p50 <= limits.p95 /\ result.p99 <= limits.p99
  /\ FailureRateOk(result, limits) /\ ThroughputOk(result, limits)

\* evaluate_sla: passed is that none of the five checks found a violation.
Passed(result, limits) ==
  /\ result.p50 <= limits.p50 /\ result.p95 <= limits.p95 /\ result.p99 <= limits.p99
  /\ FailureRateOk(result, limits) /\ ThroughputOk(result, limits)
=============================================================================
