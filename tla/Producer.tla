------------------------------- MODULE Producer -------------------------------
(***************************************************************************)
(* benchlib.producer: one process runs BenchmarkProducer.run() in one of   *)
(* its load modes against a Celery broker, worker and result backend.      *)
(*                                                                         *)
(* The producer is single threaded, so every action below is the code      *)
(* between two points at which the broker, a worker or the result backend  *)
(* can act.  Task number t is the t-th pass through the submission loop.   *)
(* Wall-clock time is abstracted: a timeout may fire whenever the producer *)
(* waits, and the deadline of the open loop may pass at any loop head.     *)
(* Celery itself is not part of the repository; the actions of the section *)
(* "environment" say what the producer relies on.                          *)
(***************************************************************************)
EXTENDS Naturals, Sequences

CONSTANTS MaxTasks,     \* bound on the passes through the submission loop
          MaxDeliveries,\* bound on the times a worker is handed one message
          ModeNames,    \* RunSpec.mode values tried
          TaskNames     \* RunSpec.task values tried

ASSUME BoundsAssumption == MaxTasks \in Nat /\ MaxDeliveries \in Nat
ASSUME NamesAssumption  == ModeNames \subseteq STRING /\ TaskNames \subseteq STRING

VARIABLES
  spec,         \* the RunSpec, as [mode, task, memory], and who runs it; never changes
  count,        \* the count argument of run(); never changes
  pc,           \* where the producer process is
  always_eager, \* celery_app.conf.task_always_eager
  attempts,     \* passes through the submission loop so far
  pending,      \* async results not yet collected, in submission order
  cur,          \* the task _collect is working on, or NoTask
  frame,        \* the locals of _collect: ok, t6 and the AsyncResult's cache
  submitted, succeeded, failed,   \* the counters of ProducerResult
  e2e_times,    \* where T6 of every latency sample came from
  events,       \* the lines of events.jsonl
  outcome,      \* history: what the run made of every attempt
  msg,          \* broker: the message of every task
  deliveries,   \* broker: how often a worker was handed the message
  backend,      \* result backend: the state a reader of the task sees
  stored        \* history: every final state ever stored for the task

config == <<spec, count>>
tally  == <<submitted, succeeded, failed, e2e_times, outcome>>
locals == <<attempts, pending, cur, frame>>
celery == <<msg, deliveries, backend, stored>>
vars   == <<config, pc, always_eager, locals, tally, events, celery>>

Tasks   == 1 .. MaxTasks
NoTask  == 0
Finals  == {"SUCCESS", "FAILURE"}
Stopped == {"exit0", "exit1", "aborted", "killed"}
InHand  == {"collect", "get", "e2e", "verdict"}   \* pc values inside _collect

\* _TASK_MAP: the names _resolve_task accepts.
TaskMap == {"noop", "echo", "sleep_task", "cpu_task", "fanout_task",
            "chain_task", "retry_once", "fail_task"}

Counted == {"burst", "closed_loop"}      \* modes that submit count tasks
Timed   == {"open_loop", "soak"}         \* modes that submit until a deadline

\* The final states an execution of the task body may end in.
Results(task) == IF task = "fail_task" THEN {"FAILURE"} ELSE Finals

\* In process: bodies that cannot raise succeed; what canvas and retries do when
\* they are run eagerly is Celery's affair.
Harmless == {"noop", "echo", "sleep_task", "cpu_task"}
EagerResults(task) == IF task \in Harmless THEN {"SUCCESS"} ELSE Results(task)

\* noop is declared with ignore_result=True: no worker ever stores its result.
Ignored == spec.task = "noop" /\ ~spec.memory

\* smoke_cli takes the constant SMOKE_SPEC, run_cli a RunSpec from a file.
Clis      == {"smoke", "run"}
SmokeSpec == spec.mode = "burst" /\ spec.task = "noop" /\ spec.memory

Fresh == [ok |-> TRUE, t6 |-> "t1", state |-> "PENDING"]

Init ==
  /\ spec \in [mode : ModeNames, task : TaskNames, memory : BOOLEAN, cli : Clis]
  /\ spec.cli = "smoke" => SmokeSpec
  /\ count \in 0 .. MaxTasks
  /\ pc = "construct" /\ always_eager = FALSE
  /\ attempts = 0 /\ pending = <<>> /\ cur = NoTask /\ frame = Fresh
  /\ submitted = 0 /\ succeeded = 0 /\ failed = 0 /\ e2e_times = <<>>
  /\ events = <<>>
  /\ outcome = [t \in Tasks |-> "new"]
  /\ msg = [t \in Tasks |-> "none"]
  /\ deliveries = [t \in Tasks |-> 0]
  /\ backend = [t \in Tasks |-> "PENDING"]
  /\ stored = [t \in Tasks |-> {}]

-----------------------------------------------------------------------------
(* Start-up and dispatch                                                   *)

\* BenchmarkProducer.__init__: _resolve_task raises KeyError on unknown names.
Construct ==
  /\ pc = "construct"
  /\ pc' = IF spec.task \in TaskMap THEN "enter" ELSE "aborted"
  /\ UNCHANGED <<config, always_eager, locals, tally, events, celery>>

\* Mutant of Enter: task_always_eager is not switched on for a memory broker.
Enter_NotEager ==
  /\ pc = "enter"
  /\ pc' = IF spec.mode \in Counted \cup Timed THEN "submit" ELSE "aborted"
  /\ UNCHANGED <<config, always_eager, locals, tally, events, celery>>

\* __enter__ and the dispatch of run(), which raises ValueError on an unknown
\* mode; __exit__ then puts the global Celery setting back.
Enter ==
  /\ pc = "enter"
  /\ IF spec.mode \in Counted \cup Timed
     THEN pc' = "submit"  /\ always_eager' = spec.memory
     ELSE pc' = "aborted" /\ always_eager' = FALSE
  /\ UNCHANGED <<config, locals, tally, events, celery>>

-----------------------------------------------------------------------------
(* Submission: the loops of _burst, _closed_loop and _open_loop            *)

\* Another pass: count not reached, or (open loop) the deadline not passed.
SubmitBegin ==
  /\ pc = "submit"
  /\ attempts < IF spec.mode \in Timed THEN MaxTasks ELSE count
  /\ attempts' = attempts + 1
  /\ pc' = "publishing"
  /\ UNCHANGED <<config, always_eager, pending, cur, frame, tally, events, celery>>

\* Mutant of PublishOk: the closed loop keeps the handle for later, as burst does.
PublishOk_Gathers ==
  /\ pc = "publishing"
  /\ always_eager \/ msg[attempts] # "none"
  /\ submitted' = submitted + 1
  /\ outcome' = [outcome EXCEPT ![attempts] = "submitted"]
  /\ pc' = "submit" /\ pending' = Append(pending, attempts)
  /\ UNCHANGED <<config, always_eager, attempts, cur, frame, succeeded, failed,
                 e2e_times, events, celery>>

\* apply_async returned.  With task_always_eager it ran the body in process.
\* The closed loop goes straight on to _collect, the others keep the handle.
PublishOk ==
  /\ pc = "publishing"
  /\ \/ /\ always_eager
        /\ \E r \in EagerResults(spec.task) :
             /\ backend' = [backend EXCEPT ![attempts] = r]
             /\ stored' = [stored EXCEPT ![attempts] = {r}]
        /\ UNCHANGED <<msg, deliveries>>
     \/ /\ ~always_eager
        /\ msg[attempts] # "none"
        /\ UNCHANGED celery
  /\ submitted' = submitted + 1
  /\ outcome' = [outcome EXCEPT ![attempts] = "submitted"]
  /\ IF spec.mode = "closed_loop"
     THEN pc' = "collect" /\ cur' = attempts /\ UNCHANGED pending
     ELSE pc' = "submit" /\ pending' = Append(pending, attempts) /\ UNCHANGED cur
  /\ UNCHANGED <<config, always_eager, attempts, frame, succeeded, failed,
                 e2e_times, events>>

\* Mutant of PublishError: submitted is incremented before apply_async is called.
PublishError_Counts ==
  /\ pc = "publishing"
  /\ ~always_eager
  /\ pc' = "submit"
  /\ submitted' = submitted + 1
  /\ outcome' = [outcome EXCEPT ![attempts] = "rejected"]
  /\ UNCHANGED <<config, always_eager, locals, succeeded, failed, e2e_times,
                 events, celery>>

\* apply_async raised, before or after the broker had taken the message: the
\* attempt is printed to stderr and counted nowhere.
PublishError ==
  /\ pc = "publishing"
  /\ ~always_eager
  /\ pc' = "submit"
  /\ outcome' = [outcome EXCEPT ![attempts] = "rejected"]
  /\ UNCHANGED <<config, always_eager, locals, submitted, succeeded, failed,
                 e2e_times, events, celery>>

\* Mutant of EndSubmit: the open loop returns its result without gathering.
EndSubmit_SkipsGather ==
  /\ pc = "submit"
  /\ spec.mode \in Timed \/ attempts >= count
  /\ pc' = IF spec.mode \in Timed THEN "exit0" ELSE "drain"
  /\ UNCHANGED <<config, always_eager, locals, tally, events, celery>>

\* The loop ends: count passes made, or the deadline of the open loop reached.
EndSubmit ==
  /\ pc = "submit"
  /\ spec.mode \in Timed \/ attempts >= count
  /\ pc' = "drain"
  /\ UNCHANGED <<config, always_eager, locals, tally, events, celery>>

-----------------------------------------------------------------------------
(* Collection: for ar, t0, t1 in pending: _collect(...)                    *)

\* Mutant of TakeNext: the handle stays in the list and is collected again.
TakeNext_Keeps ==
  /\ pc = "drain"
  /\ pending # <<>>
  /\ cur' = Head(pending)
  /\ pc' = "collect"
  /\ UNCHANGED <<config, always_eager, attempts, pending, frame, tally, events, celery>>

TakeNext ==
  /\ pc = "drain"
  /\ pending # <<>>
  /\ cur' = Head(pending)
  /\ pending' = Tail(pending)
  /\ pc' = "collect"
  /\ UNCHANGED <<config, always_eager, attempts, frame, tally, events, celery>>

\* record_publish and the T0/T1 line: written now, not when T0 and T1 were taken.
RecordPublish ==
  /\ pc = "collect"
  /\ events' = Append(events, [task |-> cur, points |-> "T0T1"])
  /\ frame' = Fresh
  /\ pc' = "get"
  /\ UNCHANGED <<config, always_eager, attempts, pending, cur, tally, celery>>

\* ar.get returned: t6 is read from the clock and a final state is cached in ar.
\* The result of a task with ignore_result is not waited for at all.
GetReturns ==
  /\ pc = "get"
  /\ Ignored \/ backend[cur] \in Finals
  /\ frame' = [ok |-> TRUE, t6 |-> "get",
               state |-> IF Ignored THEN "PENDING" ELSE backend[cur]]
  /\ pc' = "e2e"
  /\ UNCHANGED <<config, always_eager, attempts, pending, cur, tally, events, celery>>

\* Mutants of GetFails: t6 has no fallback; ar.get has no timeout.
GetFails_NoFallback ==
  /\ pc = "get"
  /\ ~always_eager
  /\ frame' = [Fresh EXCEPT !.ok = FALSE, !.t6 = "unbound"]
  /\ pc' = "e2e"
  /\ UNCHANGED <<config, always_eager, attempts, pending, cur, tally, events, celery>>
GetFails_NoTimeout == FALSE /\ UNCHANGED vars

\* ar.get(timeout=60) raised: the timeout, possibly racing a result that has just
\* arrived, or an error of the backend connection.  t6 keeps its fallback t1.
GetFails ==
  /\ pc = "get"
  /\ ~always_eager
  /\ frame' = [Fresh EXCEPT !.ok = FALSE]
  /\ pc' = "e2e"
  /\ UNCHANGED <<config, always_eager, attempts, pending, cur, tally, events, celery>>

\* Mutant of RecordE2e: the T6 line is written only when the result was seen.
RecordE2e_OnlySeen ==
  /\ pc = "e2e"
  /\ events' = IF frame.ok THEN Append(events, [task |-> cur, points |-> "T6"]) ELSE events
  /\ pc' = "verdict"
  /\ UNCHANGED <<config, always_eager, locals, tally, celery>>

\* record_e2e and the T6 line, written whether or not the result was seen.
RecordE2e ==
  /\ pc = "e2e"
  /\ events' = Append(events, [task |-> cur, points |-> "T6"])
  /\ pc' = "verdict"
  /\ UNCHANGED <<config, always_eager, locals, tally, celery>>

\* What ar.failed() looks at: the cached final state, or else the backend now.
ResultState == IF frame.state \in Finals THEN frame.state ELSE backend[cur]

\* Mutants of Verdict: the failure of get is forgotten (ok is not set to False); the
\* latency of a failed task is sampled too.
Verdict_ForgetsGet ==
  /\ pc = "verdict"
  /\ LET good == ResultState # "FAILURE" IN
       /\ succeeded' = succeeded + (IF good THEN 1 ELSE 0)
       /\ failed' = failed + (IF good THEN 0 ELSE 1)
       /\ e2e_times' = IF good THEN Append(e2e_times, frame.t6) ELSE e2e_times
       /\ outcome' = [outcome EXCEPT ![cur] = IF good THEN "ok" ELSE "bad"]
  /\ cur' = NoTask
  /\ pc' = IF spec.mode = "closed_loop" THEN "submit" ELSE "drain"
  /\ UNCHANGED <<config, always_eager, attempts, pending, frame, submitted,
                 events, celery>>
Verdict_SamplesAll ==
  /\ pc = "verdict"
  /\ LET good == frame.ok /\ ResultState # "FAILURE" IN
       /\ succeeded' = succeeded + (IF good THEN 1 ELSE 0)
       /\ failed' = failed + (IF good THEN 0 ELSE 1)
       /\ e2e_times' = Append(e2e_times, frame.t6)
       /\ outcome' = [outcome EXCEPT ![cur] = IF good THEN "ok" ELSE "bad"]
  /\ cur' = NoTask
  /\ pc' = IF spec.mode = "closed_loop" THEN "submit" ELSE "drain"
  /\ UNCHANGED <<config, always_eager, attempts, pending, frame, submitted,
                 events, celery>>

\* ar.failed() answered; the mode's loop adds the verdict to its counters.
Verdict ==
  /\ pc = "verdict"
  /\ IF frame.ok /\ ResultState # "FAILURE"
     THEN /\ succeeded' = succeeded + 1
          /\ e2e_times' = Append(e2e_times, frame.t6)
          /\ outcome' = [outcome EXCEPT ![cur] = "ok"]
          /\ UNCHANGED failed
     ELSE /\ failed' = failed + 1
          /\ outcome' = [outcome EXCEPT ![cur] = "bad"]
          /\ UNCHANGED <<succeeded, e2e_times>>
  /\ cur' = NoTask
  /\ pc' = IF spec.mode = "closed_loop" THEN "submit" ELSE "drain"
  /\ UNCHANGED <<config, always_eager, attempts, pending, frame, submitted,
                 events, celery>>

\* How the process ends once run() has returned: run_cli exits 0 iff no task failed;
\* smoke_cli asks its ResultDir for a run_dir, which it has not, and dies of that.
ExitOf == IF spec.cli = "smoke" THEN "aborted"
          ELSE IF failed = 0 THEN "exit0" ELSE "exit1"

\* Mutants of Report: the last task is not waited for; the exit code is always 0.
Report_DropsLast ==
  /\ pc = "drain"
  /\ Len(pending) <= 1
  /\ pc' = ExitOf
  /\ always_eager' = FALSE
  /\ UNCHANGED <<config, locals, tally, events, celery>>
Report_AlwaysZero ==
  /\ pc = "drain"
  /\ pending = <<>>
  /\ pc' = "exit0"
  /\ always_eager' = FALSE
  /\ UNCHANGED <<config, locals, tally, events, celery>>

\* ProducerResult is built, __exit__ runs, the CLI prints and ends.
Report ==
  /\ pc = "drain"
  /\ pending = <<>>
  /\ pc' = ExitOf
  /\ always_eager' = FALSE
  /\ UNCHANGED <<config, locals, tally, events, celery>>

\* append_event raises OSError, or ar.failed() cannot reach the backend: nothing
\* in _collect or its callers catches it, the run ends without a ProducerResult.
Abort ==
  /\ pc \in {"collect", "e2e", "verdict"}
  /\ pc' = "aborted"
  /\ always_eager' = FALSE
  /\ UNCHANGED <<config, locals, tally, events, celery>>

\* The pod is evicted; the Job has backoffLimit 0 and is not started again.
Kill ==
  /\ pc \notin Stopped
  /\ pc' = "killed"
  /\ always_eager' = FALSE
  /\ UNCHANGED <<config, locals, tally, events, celery>>

-----------------------------------------------------------------------------
(* Environment: the Celery broker, workers and result backend (external)   *)

producer == <<config, pc, always_eager, locals, tally, events>>

\* The broker takes the message while apply_async is under way.
Enqueue ==
  /\ pc = "publishing"
  /\ ~always_eager
  /\ msg[attempts] = "none"
  /\ msg' = [msg EXCEPT ![attempts] = "queued"]
  /\ UNCHANGED <<producer, deliveries, backend, stored>>

Deliver(t) ==
  /\ msg[t] = "queued"
  /\ deliveries[t] < MaxDeliveries
  /\ msg' = [msg EXCEPT ![t] = "running"]
  /\ deliveries' = [deliveries EXCEPT ![t] = @ + 1]
  /\ UNCHANGED <<producer, backend, stored>>

\* The worker ends the task and stores its final state, unless it is ignored;
\* a lost acknowledgement puts the message back on the queue.
StoreResult(t, r) ==
  /\ msg[t] = "running"
  /\ msg' \in {[msg EXCEPT ![t] = m] : m \in {"gone", "queued"}}
  /\ IF Ignored
     THEN UNCHANGED <<backend, stored>>
     ELSE /\ backend' = [backend EXCEPT ![t] = r]
          /\ stored' = [stored EXCEPT ![t] = @ \cup {r}]
  /\ UNCHANGED <<producer, deliveries>>

\* The broker or the worker dies with the message.
LoseMessage(t) ==
  /\ msg[t] \in {"queued", "running"}
  /\ msg' = [msg EXCEPT ![t] = "gone"]
  /\ UNCHANGED <<producer, deliveries, backend, stored>>

\* result_expires=300: the backend forgets a result it stored.
Expire(t) ==
  /\ ~spec.memory
  /\ backend[t] # "PENDING"
  /\ backend' = [backend EXCEPT ![t] = "PENDING"]
  /\ UNCHANGED <<producer, msg, deliveries, stored>>

-----------------------------------------------------------------------------
ProducerStep ==
  \/ Construct \/ Enter
  \/ SubmitBegin \/ PublishOk \/ PublishError \/ EndSubmit
  \/ TakeNext \/ RecordPublish \/ GetReturns \/ GetFails
  \/ RecordE2e \/ Verdict \/ Report

Environment ==
  \/ Enqueue
  \/ \E t \in Tasks : Deliver(t) \/ LoseMessage(t) \/ Expire(t)
  \/ \E t \in Tasks : \E r \in Results(spec.task) : StoreResult(t, r)

Next == ProducerStep \/ Abort \/ Kill \/ Environment

\* Only the producer's own code is assumed to keep running: kombu's publish gives
\* up after its retries and ar.get has a timeout, so each wait ends by itself.
Spec == Init /\ [][Next]_vars /\ WF_vars(ProducerStep)

-----------------------------------------------------------------------------
(* Properties                                                              *)

\* Every variable keeps its shape.
ControlOK ==
  /\ spec \in [mode : ModeNames, task : TaskNames, memory : BOOLEAN, cli : Clis]
  /\ count \in 0 .. MaxTasks
  /\ pc \in {"construct", "enter", "submit", "publishing", "drain"}
            \cup InHand \cup Stopped
  /\ always_eager \in BOOLEAN
  /\ attempts \in 0 .. MaxTasks
  /\ pending \in Seq(Tasks)
  /\ cur \in Tasks \cup {NoTask}

BooksOK ==
  /\ frame \in [ok : BOOLEAN, t6 : {"t1", "get"}, state : Finals \cup {"PENDING"}]
  /\ submitted \in Nat /\ succeeded \in Nat /\ failed \in Nat
  /\ e2e_times \in Seq({"t1", "get"})
  /\ events \in Seq([task : Tasks, points : {"T0T1", "T6"}])
  /\ outcome \in [Tasks -> {"new", "submitted", "rejected", "ok", "bad"}]

CeleryOK ==
  /\ msg \in [Tasks -> {"none", "queued", "running", "gone"}]
  /\ deliveries \in [Tasks -> 0 .. MaxDeliveries]
  /\ backend \in [Tasks -> Finals \cup {"PENDING"}]
  /\ stored \in [Tasks -> SUBSET Finals]

TypeOK == ControlOK /\ BooksOK /\ CeleryOK

\* At every moment, also after an abort or a kill, each submitted task is counted
\* once: succeeded, failed, in the hands of _collect, or still pending.
Accounting ==
  submitted = succeeded + failed + Len(pending) + (IF cur = NoTask THEN 0 ELSE 1)

\* events.jsonl is a sequence of pairs, the T0/T1 line of a task followed by its T6
\* line, with at most the last pair cut short by an abort or a kill.
EventsAlternate ==
  \A i \in 1 .. Len(events) :
    IF i % 2 = 1 THEN events[i].points = "T0T1"
    ELSE events[i].points = "T6" /\ events[i].task = events[i - 1].task

\* The log and the counters agree: two lines for every verdict, at most two more
\* for the task in hand, and exactly two per submitted task when the run reports
\* (test_events_written: 5 tasks, 10 events).
EventsMatchTally ==
  LET judged == succeeded + failed IN
  /\ 2 * judged <= Len(events) /\ Len(events) <= 2 * judged + 2
  /\ pc \in {"exit0", "exit1"} => Len(events) = 2 * submitted

\* No task has two T0/T1 lines or two T6 lines: none is collected twice.
NoDoubleRecord ==
  \A i, j \in 1 .. Len(events) : events[i] = events[j] => i = j

\* A task counted as succeeded was run to SUCCESS, and a worker had stored that
\* before the verdict, whatever was lost, redelivered, timed out or expired; the
\* one exception is a result nobody stores (ignore_result).
SuccessWitnessed ==
  \A t \in Tasks : outcome[t] = "ok" => Ignored \/ "SUCCESS" \in stored[t]

\* The fallback T6 of a failed get never enters the latency percentiles, and
\* there is one sample per success.
SamplesMeasured ==
  /\ Len(e2e_times) = succeeded
  /\ \A i \in 1 .. Len(e2e_times) : e2e_times[i] = "get"

\* Exit code 0 leaves no accepted task behind: none without a verdict, none that
\* was judged failed.
CleanExit ==
  pc = "exit0" => \A t \in Tasks : outcome[t] \in {"new", "rejected", "ok"}

\* The gate of dagster_bench/jobs/smoke.py: in process (memory://) a counted run
\* that reports has submitted all it was asked to, logged two events for each,
\* and, unless the task may raise, succeeded with each.
SmokeGate ==
  (spec.memory /\ spec.mode \in Counted /\ pc \in {"exit0", "exit1"}) =>
    /\ submitted = count /\ Len(events) = 2 * count
    /\ spec.task \in Harmless => succeeded = count

\* The closed loop has one task at a time: a new attempt starts only when every
\* accepted task has its verdict.
ClosedLoopSerial ==
  [][ (spec.mode = "closed_loop" /\ attempts' # attempts) =>
        \A t \in Tasks : outcome[t] # "submitted" ]_vars

\* A run that is not killed always ends, whatever the broker, the workers and the
\* backend do or fail to do.
RunStops == <>(pc \in Stopped)

\* The run implements the ledger: one verdict per accepted task, never revised,
\* and the books close only when none is missing.
Ledger == INSTANCE RunLedger WITH closed <- pc \in {"exit0", "exit1"}
LedgerSpec == Ledger!Spec

\* producer.py:14 says of closed_loop "wait for the result before submitting the
\* next": when an attempt starts, every task counted as succeeded (so no timeout was
\* involved) has been handed to a worker.
ClosedLoopWaits ==
  [][ (spec.mode = "closed_loop" /\ attempts' # attempts /\ ~spec.memory) =>
        \A t \in Tasks : outcome[t] = "ok" => deliveries[t] > 0 ]_vars
=============================================================================
