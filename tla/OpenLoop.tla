------------------------------- MODULE OpenLoop -------------------------------
(***************************************************************************)
(* BenchmarkProducer._open_loop (modes open_loop and soak) with a clock,   *)
(* and what becomes of its numbers: ProducerResult and evaluate_sla.       *)
(*                                                                         *)
(* Producer has the same loop without time, but with crashes, errors of    *)
(* the log, redelivery and the other modes.  Here every call that takes    *)
(* time moves now by the time it takes: apply_async, the pause that keeps  *)
(* the rate, and ar.get.  The clock starts with the loop, so that the      *)
(* deadline is the duration.                                               *)
(***************************************************************************)
EXTENDS Stats, Sequences

CONSTANTS
  Prefetches, DefaultRate,   \* spec.prefetch, here a number of tasks in Unit ticks
  Unit,
  Durations,                 \* the --duration argument, 0 if not given
  DefaultDuration,           \* of each mode: 30 s and 300 s in the code
  GetTimeout,                \* of ar.get: 60 s in the code
  Expires,                   \* result_expires: 300 s in the code
  PublishTimes, Lateness,    \* how long apply_async takes, how late a sleep ends
  ServiceTimes,              \* from submission to the stored result
  Limits                     \* the thresholds evaluate_sla is called with

Modes == {"open_loop", "soak"}

\* What apply_async gives: a handle on the result backend, on a result the task is
\* declared to ignore, or on one that is there because a memory broker runs the task
\* eagerly, within apply_async.
Sources == {"backend", "ignored", "eager"}

ASSUME RateAssumption ==
  /\ Prefetches \subseteq Nat /\ DefaultRate \in Nat /\ Unit \in Nat
  /\ \A r \in Prefetches \cup {DefaultRate} : r > 0 => Unit \div r > 0
  /\ DefaultRate > 0
ASSUME DurationAssumption ==
  Durations \subseteq Nat /\ DefaultDuration \in [Modes -> Nat]
ASSUME TimeAssumption ==
  /\ GetTimeout \in Nat /\ Expires \in Nat
  /\ PublishTimes \subseteq Nat /\ Lateness \subseteq Nat /\ ServiceTimes \subseteq Nat
ASSUME LimitsAssumption ==
  Limits \subseteq [p50 : Nat, p95 : Nat, p99 : Nat, failurePct : Nat, throughput : Nat]

VARIABLES
  pc,         \* where the producer is
  now,        \* time.monotonic()
  interval,   \* between two submissions
  duration,   \* of the submission window, which is also its deadline
  source,     \* where the handles get their results from
  starts,     \* loop_start of every pass
  pending,    \* the handles, with their t0 and t1
  collected,  \* per handle collected: t6 and whether it counted as a success
  prompt,     \* history: no pass took longer than the interval
  lost,       \* history: handles whose success was stored when get began to wait for it
              \* in vain
  result,     \* the ProducerResult, <<>> before
  verdict     \* the limits of evaluate_sla and whether the run passed, <<>> before

history == <<prompt, lost>>
vars == <<pc, now, interval, duration, source, starts, pending, collected, history, result, verdict>>

Init ==
  /\ pc = "run" /\ now = 0 /\ interval = 0 /\ duration = 0 /\ source = "backend"
  /\ starts = <<>> /\ pending = <<>> /\ collected = <<>>
  /\ prompt = TRUE /\ lost = {} /\ result = <<>> /\ verdict = <<>>

-----------------------------------------------------------------------------
\* run: a prefetch of 0 and a duration of 0 count as not given.
Run(mode, prefetch, d, from) ==
  /\ pc = "run"
  /\ interval' = Unit \div (IF prefetch = 0 THEN DefaultRate ELSE prefetch)
  /\ duration' = IF d = 0 THEN DefaultDuration[mode] ELSE d
  /\ source' = from
  /\ pc' = "loop"
  /\ UNCHANGED <<now, starts, pending, collected, history, result, verdict>>

\* while time.monotonic() < deadline: loop_start = time.monotonic()
NextPass ==
  /\ pc = "loop" /\ now < duration
  /\ starts' = Append(starts, now)
  /\ pc' = "publishing"
  /\ UNCHANGED <<now, interval, duration, source, pending, collected, history, result, verdict>>

\* _submit returns after d ticks; pending.append((ar, t0, t1)).
Published(d) ==
  /\ pc = "publishing"
  /\ now' = now + d
  /\ pending' = Append(pending, [t0 |-> now, t1 |-> now + d])
  /\ pc' = "pause"
  /\ UNCHANGED <<interval, duration, source, starts, collected, history, result, verdict>>

\* _submit raises after d ticks: nothing is counted.
PublishFailed(d) ==
  /\ pc = "publishing" /\ source # "eager"
  /\ now' = now + d
  /\ pc' = "pause"
  /\ UNCHANGED <<interval, duration, source, starts, pending, collected, history, result, verdict>>

\* Mutant of Due: the passes follow a schedule, so that a slow one is made up for.
Due_Schedule == starts[1] + Len(starts) * interval

\* loop_start + interval: when the next pass is due.
Due == starts[Len(starts)] + interval

\* Mutant of Sleep: it pauses for the whole interval, whatever publishing took.
Sleep_WholeInterval(late) ==
  /\ pc = "pause" /\ now < Due
  /\ now' = now + interval + late
  /\ prompt' = (prompt /\ late = 0)
  /\ pc' = "loop"
  /\ UNCHANGED <<interval, duration, source, starts, pending, collected, lost, result, verdict>>

\* sleep_for > 0: time.sleep(sleep_for) ends at the due time or later.
Sleep(late) ==
  /\ pc = "pause" /\ now < Due
  /\ now' = Due + late
  /\ prompt' = (prompt /\ late = 0)
  /\ pc' = "loop"
  /\ UNCHANGED <<interval, duration, source, starts, pending, collected, lost, result, verdict>>

\* sleep_for <= 0: the next pass begins at once and is not made up for.
NoSleep ==
  /\ pc = "pause" /\ now >= Due
  /\ prompt' = (prompt /\ now = Due)
  /\ pc' = "loop"
  /\ UNCHANGED <<now, interval, duration, source, starts, pending, collected, lost, result, verdict>>

EndLoop ==
  /\ pc = "loop" /\ now >= duration
  /\ pc' = "collect"
  /\ UNCHANGED <<now, interval, duration, source, starts, pending, collected, history, result, verdict>>

-----------------------------------------------------------------------------
\* The handle whose turn it is.
Turn == Len(collected) + 1

Later(a, b) == IF a > b THEN a ELSE b

\* When ar.get, called now, sees the result stored at time ready.
Seen(ready) == Later(now, ready)

\* get sees it before it gives up.
InTime(ready)  == Seen(ready) <= now + GetTimeout

\* By then the result may be gone: result_expires tells the backend how long to keep it
\* at least, Redis removes it then, a database when celery beat cleans up, if ever.
MayBeGone(ready) == Seen(ready) >= ready + Expires

\* Mutant of GetReturns: t6 is taken when the result is stored, as a callback would.
GetReturns_StampsStored(service, ok) ==
  LET ready == pending[Turn].t0 + service IN
  /\ pc = "collect" /\ Turn <= Len(pending) /\ source = "backend"
  /\ InTime(ready)
  /\ now' = Seen(ready)
  /\ collected' = Append(collected, [t6 |-> ready, ok |-> ok])
  /\ UNCHANGED <<pc, interval, duration, source, starts, pending, history, result, verdict>>

\* _collect: get returns a result stored service ticks after submission, and
\* ar.failed() then tells whether it was a success.
GetReturns(service, ok) ==
  LET ready == pending[Turn].t0 + service IN
  /\ pc = "collect" /\ Turn <= Len(pending) /\ source = "backend"
  /\ InTime(ready)
  /\ now' = Seen(ready)
  /\ collected' = Append(collected, [t6 |-> Seen(ready), ok |-> ok])
  /\ UNCHANGED <<pc, interval, duration, source, starts, pending, history, result, verdict>>

\* _collect: get of an ignored result returns at once, and failed() finds no failure;
\* an eager result is final, whatever became of the task, and get does not raise.
GetAtOnce(ok) ==
  /\ pc = "collect" /\ Turn <= Len(pending) /\ source # "backend"
  /\ source = "ignored" => ok
  /\ collected' = Append(collected, [t6 |-> now, ok |-> ok])
  /\ UNCHANGED <<pc, now, interval, duration, source, starts, pending, history, result, verdict>>

\* Mutant of GiveUp: without t6 = t1 before the try.
GiveUp_NoFallback ==
  /\ pc = "collect" /\ Turn <= Len(pending) /\ source = "backend"
  /\ now' = now + GetTimeout
  /\ collected' = Append(collected, [ok |-> FALSE])
  /\ UNCHANGED <<pc, interval, duration, source, starts, pending, prompt, result, verdict>>

\* The exception of a get that waited to its end: t6 stays t1, the task has failed.
GiveUp ==
  /\ pc = "collect" /\ Turn <= Len(pending) /\ source = "backend"
  /\ now' = now + GetTimeout
  /\ collected' = Append(collected, [t6 |-> pending[Turn].t1, ok |-> FALSE])
  /\ UNCHANGED <<pc, interval, duration, source, starts, pending, prompt, result, verdict>>

\* Mutant of GetTimesOut: get(timeout=0), which does not wait and so may miss a result
\* that is there.
GetTimesOut_Polls(service, ok) ==
  LET ready == pending[Turn].t0 + service IN
  /\ GiveUp
  /\ lost' = IF ok /\ ready <= now THEN lost \cup {Turn} ELSE lost

\* _collect: get raises TimeoutError, for the result came too late or has expired.
\* At the last moment either may happen, and so with a result that may have expired.
GetTimesOut(service, ok) ==
  LET ready == pending[Turn].t0 + service IN
  /\ GiveUp
  /\ ~InTime(ready) \/ (ready > now /\ Seen(ready) = now + GetTimeout) \/ MayBeGone(ready)
  /\ lost' = IF ok /\ ready <= now THEN lost \cup {Turn} ELSE lost

\* The same for a result that is never stored.
GetNothing == GiveUp /\ UNCHANGED lost

Succeeded == {i \in 1 .. Len(collected) : collected[i].ok}
Latency(i) == collected[i].t6 - pending[i].t0

\* e2e_times: the latencies of the successes.
E2eTimes == [i \in Succeeded |-> Latency(i)]

\* ProducerResult, with duration_s the nominal duration.
Report ==
  /\ pc = "collect" /\ Turn > Len(pending)
  /\ result' = <<Summary(Len(pending), Len(pending) - Size(E2eTimes), duration, E2eTimes)>>
  /\ pc' = "reported"
  /\ UNCHANGED <<now, interval, duration, source, starts, pending, collected, history, verdict>>

Evaluate(limits) ==
  /\ pc = "reported"
  /\ verdict' = <<[limits |-> limits, passed |-> Passed(result[1], limits)]>>
  /\ pc' = "done"
  /\ UNCHANGED <<now, interval, duration, source, starts, pending, collected, history, result>>

Loop == NextPass \/ EndLoop \/ NoSleep \/ \E late \in Lateness : Sleep(late)
Publish == \E d \in PublishTimes : Published(d) \/ PublishFailed(d)
Collect ==
  \/ GetNothing \/ \E ok \in BOOLEAN : GetAtOnce(ok)
  \/ \E service \in ServiceTimes, ok \in BOOLEAN :
       GetReturns(service, ok) \/ GetTimesOut(service, ok)

Next ==
  \/ \E mode \in Modes, prefetch \in Prefetches, d \in Durations, from \in Sources :
       Run(mode, prefetch, d, from)
  \/ Loop \/ Publish \/ Collect \/ Report
  \/ \E limits \in Limits : Evaluate(limits)

Spec == Init /\ [][Next]_vars

-----------------------------------------------------------------------------
(* Properties                                                              *)

\* Every variable keeps its shape, and a handle is collected after it was published.
TypeOK ==
  /\ pc \in {"run", "loop", "publishing", "pause", "collect", "reported", "done"}
  /\ now \in Nat /\ interval \in Nat /\ duration \in Nat /\ source \in Sources
  /\ starts \in Seq(Nat)
  /\ pending \in Seq([t0 : Nat, t1 : Nat])
  /\ collected \in Seq([t6 : Nat, ok : BOOLEAN])
  /\ Len(pending) <= Len(starts) /\ Len(collected) <= Len(pending)
  /\ prompt \in BOOLEAN /\ lost \subseteq 1 .. Len(collected)

\* producer.py:354 "at rate tasks/s for duration seconds", from above: any two
\* submissions are as far apart as the rate says, slow publishes are not made up for
\* in a burst, and no more are begun than fit in the window.
OfferedLoad ==
  /\ \A i, j \in 1 .. Len(starts) : i < j => starts[j] - starts[i] >= (j - i) * interval
  /\ starts # <<>> => (Len(starts) - 1) * interval < duration

\* The same from below: if apply_async never takes longer than the interval and no
\* sleep ends late, the window gets all the submissions the rate promises.
RateHeld ==
  prompt /\ pc \in {"collect", "reported", "done"} => Len(starts) * interval >= duration

\* Handles are collected when the window is over, so what the open loop reports as
\* end-to-end latency contains the time the handle waited for its turn: at least an
\* interval for each handle submitted after it.
LatencyIncludesWait ==
  \A i \in Succeeded : Latency(i) > (Len(pending) - i) * interval

\* result_expires against the length of the run: a success that was stored before get
\* asked for it counts as a failure only if the run is so old that it may have expired,
\* a whole get later; and each such miss makes the collection a timeout longer, so that
\* more of the results behind it expire.
ExpiryDecides ==
  /\ \A i \in lost :
       source = "backend" /\ i \notin Succeeded /\ pending[i].t0 + Expires + GetTimeout <= now
  /\ lost # {} => duration + Cardinality(lost) * GetTimeout <= now

Quantiles(limits) == {<<50, limits.p50>>, <<95, limits.p95>>, <<99, limits.p99>>}
PassedRun == verdict # <<>> /\ verdict[1].passed

\* What a passed SLA says of the tasks themselves: of n successes at least q * n
\* percent, rounded down, were within the limit of percentile q.
SlaBoundsTail ==
  PassedRun => \A t \in Quantiles(verdict[1].limits) :
    Cardinality({i \in Succeeded : Latency(i) <= t[2]})
      >= (t[1] * Cardinality(Succeeded)) \div 100

\* A run without a single success passes only where nothing was submitted, or every
\* failure is allowed, and no throughput is asked for.
PassedNeedsSuccess ==
  PassedRun /\ Succeeded = {} =>
    /\ pending = <<>> \/ verdict[1].limits.failurePct >= 100
    /\ verdict[1].limits.throughput = 0 \/ duration = 0

\* No system under test, however fast, passes the SLA with a long window: the limit
\* of each percentile must exceed the interval times the successes below it.
SlaPassesShortRuns ==
  PassedRun /\ Succeeded # {} => \A t \in Quantiles(verdict[1].limits) :
    (Rank(t[1], Cardinality(Succeeded)) - 1) * interval < t[2]
=============================================================================
