------------------------------ MODULE SignalHooks ------------------------------
(***************************************************************************)
(* benchlib.metrics.connect_celery_signals: the four handlers that a       *)
(* worker runs on task_received, task_prerun, task_postrun and             *)
(* task_failure, and the dict _state they share, keyed by task id.         *)
(*                                                                         *)
(* An attempt is one delivery of a message to this worker; a retry or a    *)
(* redelivery is another attempt of the same task id.  A timestamp is      *)
(* abstracted to the attempt whose handler took it, which is all one needs *)
(* to tell whether a span mixes the stamps of two attempts or lacks one.   *)
(* Celery itself is not part of the repository: which handler runs when,   *)
(* and in which process, is the "worker" part of the actions.              *)
(***************************************************************************)
EXTENDS Naturals, FiniteSets

CONSTANTS Tasks,       \* the task ids of the run
          MaxAttempts, \* bound on the deliveries
          Children     \* the processes of a prefork pool

ASSUME AttemptsAssumption == MaxAttempts \in Nat
ASSUME NamesAssumption    == "none" \notin Tasks /\ "main" \notin Children

VARIABLES
  pool,     \* RunSpec.pool; never changes
  task,     \* the task id of every attempt, "none" before there is one
  stage,    \* how far the worker is with every attempt
  proc,     \* the process that executes the attempt
  outcome,  \* how the task body ended
  state,    \* _state of every process: the stamps kept for every task id
  logged,   \* the T2..T5 lines in events.jsonl
  full,     \* no more lines can be written: append_event raises OSError
  span,     \* the t2 and t3 of the attempt's bench.execution span
  broken    \* attempts whose postrun handler raised

worker == <<pool, task, stage, proc, outcome>>
traces == <<state, logged, full, span, broken>>
vars   == <<worker, traces>>

Attempts == 1 .. MaxAttempts
None     == 0                            \* a key the dict does not have
Procs    == Children \cup {"main"}
Empty    == [T2 |-> None, T3 |-> None, T4 |-> None]   \* no dict for the task id
NoSpan   == [t2 |-> None, t3 |-> None, done |-> FALSE]

\* The processes that execute task bodies.
Executors == IF pool = "prefork" THEN Children ELSE {"main"}

InBody   == {"running", "ended", "post"}        \* between prerun and postrun's end
InFlight == {"received"} \cup InBody

Init ==
  /\ pool \in {"solo", "threads", "prefork"}
  /\ task \in [Attempts -> Tasks \cup {"none"}]
  /\ \A a, b \in Attempts : task[a] = task[b] /\ task[a] # "none" => a = b
  /\ \A a, b \in Attempts : a < b /\ task[b] # "none" => task[a] # "none"
  /\ stage = [a \in Attempts |-> IF task[a] = "none" THEN "none" ELSE "queued"]
  /\ proc = [a \in Attempts |-> "main"]
  /\ outcome = [a \in Attempts |-> "none"]
  /\ state = [p \in Procs |-> [t \in Tasks |-> Empty]]
  /\ logged = {} /\ full \in BOOLEAN /\ span = [a \in Attempts |-> NoSpan] /\ broken = {}

\* _state.pop(task_id, ...) in process p.
Pop(p, t) == state' = [state EXCEPT ![p][t] = Empty]

\* result_dir.append_event in on_received and on_prerun: an OSError ends the
\* handler, but by then it had nothing left to do; Celery logs it and goes on.
Append(a, point) == logged' = IF full THEN logged ELSE logged \cup {<<a, point>>}

-----------------------------------------------------------------------------
\* Mutant of Receive: one slot for all tasks, not a dict keyed by task id.
Receive_OneSlot(a) ==
  /\ stage[a] = "queued"
  /\ pool = "solo" => \A b \in Attempts : stage[b] \notin InFlight
  /\ stage' = [stage EXCEPT ![a] = "received"]
  /\ state' = [state EXCEPT !["main"] = [t \in Tasks |-> [Empty EXCEPT !.T2 = a]]]
  /\ Append(a, "T2")
  /\ UNCHANGED <<pool, task, proc, outcome, full, span, broken>>

\* The consumer takes a message and fires task_received: on_received replaces
\* whatever was kept for the task id.  A solo worker executes in the consumer, so
\* it takes the next message only when it is done with the last.
Receive(a) ==
  /\ stage[a] = "queued"
  /\ pool = "solo" => \A b \in Attempts : stage[b] \notin InFlight
  /\ stage' = [stage EXCEPT ![a] = "received"]
  /\ state' = [state EXCEPT !["main"][task[a]] = [Empty EXCEPT !.T2 = a]]
  /\ Append(a, "T2")
  /\ UNCHANGED <<pool, task, proc, outcome, full, span, broken>>

\* Mutant of Prerun: _state[task_id] = {"T3": t3} in place of setdefault.
Prerun_Replaces(a, p) ==
  /\ stage[a] = "received"
  /\ pool = "prefork" => \A b \in Attempts : stage[b] \in InBody => proc[b] # p
  /\ stage' = [stage EXCEPT ![a] = "running"]
  /\ proc' = [proc EXCEPT ![a] = p]
  /\ state' = [state EXCEPT ![p][task[a]] = [Empty EXCEPT !.T3 = a]]
  /\ Append(a, "T3")
  /\ UNCHANGED <<pool, task, outcome, full, span, broken>>

\* A thread or a child takes the task and fires task_prerun: on_prerun.
Prerun(a, p) ==
  /\ stage[a] = "received"
  /\ pool = "prefork" => \A b \in Attempts : stage[b] \in InBody => proc[b] # p
  /\ stage' = [stage EXCEPT ![a] = "running"]
  /\ proc' = [proc EXCEPT ![a] = p]
  /\ state' = [state EXCEPT ![p][task[a]].T3 = a]
  /\ Append(a, "T3")
  /\ UNCHANGED <<pool, task, outcome, full, span, broken>>

End(a, o) ==
  /\ stage[a] = "running"
  /\ stage' = [stage EXCEPT ![a] = "ended"]
  /\ outcome' = [outcome EXCEPT ![a] = o]

\* The body returned; no hook listens to task_success.
Succeed(a) ==
  /\ End(a, "ok")
  /\ UNCHANGED <<pool, task, proc, traces>>

\* The body raised: task_failure fires before task_postrun, and on_failure drops
\* what was kept for the task id.
Fail(a) ==
  /\ End(a, "fail")
  /\ Pop(proc[a], task[a])
  /\ UNCHANGED <<pool, task, proc, logged, full, span, broken>>

\* Another message with the task id of attempt a; the worker may take it at once.
Publish(a, b) ==
  /\ task[b] = "none" /\ \A c \in Attempts : c < b => task[c] # "none"
  /\ task' = [task EXCEPT ![b] = task[a]]

\* self.retry: the new message is sent from inside the body, before task_postrun.
Retry(a, b) ==
  /\ Publish(a, b)
  /\ stage[a] = "running"
  /\ stage' = [stage EXCEPT ![a] = "ended", ![b] = "queued"]
  /\ outcome' = [outcome EXCEPT ![a] = "retry"]
  /\ UNCHANGED <<pool, proc, traces>>

\* The acknowledgement is lost: the broker delivers the message again.
Redeliver(a, b) ==
  /\ Publish(a, b)
  /\ stage[a] \in InFlight
  /\ stage' = [stage EXCEPT ![b] = "queued"]
  /\ UNCHANGED <<pool, proc, outcome, traces>>

\* Mutant of PostrunStamp: the T5 line is written as the producer's point.
PostrunStamp_WritesT6(a) ==
  /\ stage[a] = "ended" /\ ~full
  /\ state' = [state EXCEPT ![proc[a]][task[a]].T4 = a]
  /\ logged' = logged \cup {<<a, "T4">>, <<a, "T6">>}
  /\ stage' = [stage EXCEPT ![a] = "post"]
  /\ UNCHANGED <<pool, task, proc, outcome, full, span, broken>>

\* Mutant of PostrunStamp: _state[task_id] = {"T4": t4} in place of setdefault.
PostrunStamp_Resets(a) ==
  /\ stage[a] = "ended" /\ ~full
  /\ state' = [state EXCEPT ![proc[a]][task[a]] = [Empty EXCEPT !.T4 = a]]
  /\ logged' = logged \cup {<<a, "T4">>, <<a, "T5">>}
  /\ stage' = [stage EXCEPT ![a] = "post"]
  /\ UNCHANGED <<pool, task, proc, outcome, full, span, broken>>

\* Mutant of PostrunStamp: an error of append_event is swallowed.
PostrunStamp_Swallows(a) ==
  /\ stage[a] = "ended"
  /\ state' = [state EXCEPT ![proc[a]][task[a]].T4 = a]
  /\ Append(a, "T4")
  /\ stage' = [stage EXCEPT ![a] = "post"]
  /\ UNCHANGED <<pool, task, proc, outcome, full, span, broken>>

\* on_postrun up to the second lock: T4 is kept, the T4 and T5 lines are written.
\* The disk may be full, or fill up between the two lines.
PostrunStamp(a) ==
  /\ stage[a] = "ended"
  /\ state' = [state EXCEPT ![proc[a]][task[a]].T4 = a]
  /\ \/ /\ ~full
        /\ logged' = logged \cup {<<a, "T4">>, <<a, "T5">>}
        /\ stage' = [stage EXCEPT ![a] = "post"]
        /\ UNCHANGED <<full, broken>>
     \/ /\ Append(a, "T4")
        /\ full' = TRUE
        /\ stage' = [stage EXCEPT ![a] = "done"]
        /\ broken' = broken \cup {a}
  /\ UNCHANGED <<pool, task, proc, outcome, span>>

\* Mutant of PostrunSpan: the stamps are read with get, not taken out with pop.
PostrunSpan_Gets(a) ==
  /\ stage[a] = "post"
  /\ LET kept == state[proc[a]][task[a]] IN
       span' = [span EXCEPT ![a] = [t2 |-> kept.T2, t3 |-> kept.T3, done |-> TRUE]]
  /\ stage' = [stage EXCEPT ![a] = "done"]
  /\ UNCHANGED <<pool, task, proc, outcome, state, logged, full, broken>>

\* The rest of on_postrun: the stamps are taken out of the dict and the span made
\* of them; a missing stamp is replaced by t4.
PostrunSpan(a) ==
  /\ stage[a] = "post"
  /\ LET kept == state[proc[a]][task[a]] IN
       span' = [span EXCEPT ![a] = [t2 |-> kept.T2, t3 |-> kept.T3, done |-> TRUE]]
  /\ Pop(proc[a], task[a])
  /\ stage' = [stage EXCEPT ![a] = "done"]
  /\ UNCHANGED <<pool, task, proc, outcome, logged, full, broken>>

Next ==
  \/ \E a \in Attempts : Receive(a) \/ Succeed(a) \/ Fail(a)
                         \/ PostrunStamp(a) \/ PostrunSpan(a)
  \/ \E a \in Attempts, p \in Executors : Prerun(a, p)
  \/ \E a, b \in Attempts : Retry(a, b) \/ Redeliver(a, b)

Spec == Init /\ [][Next]_vars

-----------------------------------------------------------------------------
(* Properties                                                              *)

\* Every variable keeps its shape.
TypeOK ==
  /\ pool \in {"solo", "threads", "prefork"}
  /\ task \in [Attempts -> Tasks \cup {"none"}]
  /\ stage \in [Attempts -> {"none", "queued", "done"} \cup InFlight]
  /\ proc \in [Attempts -> Procs]
  /\ outcome \in [Attempts -> {"none", "ok", "fail", "retry"}]
  /\ state \in [Procs -> [Tasks -> [T2 : 0 .. MaxAttempts, T3 : 0 .. MaxAttempts,
                                    T4 : 0 .. MaxAttempts]]]
  /\ full \in BOOLEAN
  /\ logged \subseteq Attempts \X {"T2", "T3", "T4", "T5"}
  /\ span \in [Attempts -> [t2 : 0 .. MaxAttempts, t3 : 0 .. MaxAttempts, done : BOOLEAN]]
  /\ broken \subseteq Attempts

Siblings(a) == {b \in Attempts : task[b] = task[a]}
Own(a)      == [t2 |-> a, t3 |-> a, done |-> TRUE]

\* Attempt a accounts for what process p keeps for task id t.
Due(a, p, t) ==
  /\ task[a] = t
  /\ \/ (stage[a] \in InBody \/ a \in broken) /\ proc[a] = p
     \/ stage[a] = "received" /\ p = "main"

\* What the docstring claims for concurrent tasks: where consumer and executors
\* share one dict, the span of a task delivered once and not failed has its own T2
\* and T3, however the handlers of other tasks interleave with its own.
SpanExact ==
  \A a \in Attempts :
    (/\ pool # "prefork" /\ span[a].done
     /\ Siblings(a) = {a} /\ outcome[a] # "fail") => span[a] = Own(a)

\* A solo worker keeps the attempts of one task apart too, retried or redelivered.
SoloExact ==
  \A a \in Attempts :
    (pool = "solo" /\ span[a].done /\ outcome[a] # "fail") => span[a] = Own(a)

\* A stamp never crosses from one task id to another.
SameTask ==
  \A a \in Attempts : \A s \in {span[a].t2, span[a].t3} :
    s # None => task[s] = task[a]

\* The dict of a process that executes tasks does not grow: what it keeps for a
\* task id belongs to an attempt this process executes, or has still to execute, or
\* to one whose postrun handler raised in this process.
NoLeak ==
  \A p \in Executors, t \in Tasks : state[p][t] # Empty => \E a \in Attempts : Due(a, p, t)

\* Every span belongs to an attempt that was executed to the end, with its T4 and T5
\* lines in the log, and an attempt that ended without a span had a handler raise.
SpanOrBroken ==
  \A a \in Attempts :
    /\ span[a].done => {<<a, "T4">>, <<a, "T5">>} \subseteq logged
    /\ stage[a] = "done" => (span[a].done \equiv a \notin broken)

-----------------------------------------------------------------------------
(* What the docstrings say and the code does not do                        *)

\* metrics.py:178 "so multiple concurrent tasks don't conflict": with one dict for
\* all threads, a span has the stamps of one attempt.
SpanOfOneAttempt ==
  \A a \in Attempts :
    (pool = "threads" /\ span[a].done /\ outcome[a] # "fail") => span[a] = Own(a)

\* metrics.py:9 says T3 is when task execution starts, of a failing task too.
FailureTimed ==
  \A a \in Attempts :
    (pool # "prefork" /\ span[a].done /\ Siblings(a) = {a}) => span[a].t3 = a

\* metrics.py:20 says connect_celery_signals captures T2-T5: in every pool RunSpec
\* names, a task delivered once has a span that starts at its T2.
QueueWaitMeasured ==
  \A a \in Attempts :
    (span[a].done /\ Siblings(a) = {a} /\ outcome[a] # "fail") => span[a].t2 = a
=============================================================================
