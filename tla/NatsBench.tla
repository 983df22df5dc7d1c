------------------------------- MODULE NatsBench -------------------------------
(***************************************************************************)
(* benchmarks/nats: main and its scenarios in one process, a solo worker   *)
(* in a daemonic child process, a broker queue between them.               *)
(*                                                                         *)
(* A scenario makes rounds of calls and waits for all calls of a round     *)
(* before the next: one round for a group, a round of one call for each    *)
(* chain, retry or chord.  A call is executed in steps, each a message:    *)
(* the links of a chain, the attempts of a task that retries.  Time is     *)
(* abstracted: a wait with a timeout may be given up at any moment.        *)
(***************************************************************************)
EXTENDS Naturals, Sequences, FiniteSets

CONSTANTS
  TaskCounts,     \* --count
  ChainCounts,    \* --chain-count, 0 if not given
  RetryCounts,    \* --retry-count, 0 if not given
  SizeLists,      \* --fanout-sizes, <<>> with --no-fanout
  FailCount,      \* of bench_retry
  MaxRetries,     \* of the task flaky
  Leftovers,      \* messages of an earlier benchmark that may be in the queue
  MaxRedeliveries \* bound of the instance

Sizes == {"small", "medium", "large"}

ASSUME ArgsAssumption ==
  /\ TaskCounts \subseteq Nat /\ ChainCounts \subseteq Nat /\ RetryCounts \subseteq Nat
  /\ SizeLists \subseteq Seq(Sizes) /\ Leftovers \in Nat /\ MaxRedeliveries \in Nat
ASSUME RetryAssumption ==
  FailCount \in Nat /\ MaxRetries \in Nat /\ FailCount <= MaxRetries

Larger(a, b) == IF a > b THEN a ELSE b

\* A task name and how many messages it takes to execute a call of it.
Scenario(name, task, rounds, width, steps) ==
  [name |-> name, task |-> task, rounds |-> rounds, width |-> width, steps |-> steps]

Group(name, task, count)         == Scenario(name, task, 1, count, 1)
OneByOne(name, task, count, steps) == Scenario(name, task, count, 1, steps)

\* The tasks the worker knows: those of the app in tasks.py.
Registered == {"add", "process_payload", "flaky"}

\* The scenarios main runs, in order.  A chord, five messages and then a callback, is a
\* call of two steps: no worker here executes it, so that only its first step matters.
PlanOf(count, chain, chains, sizes, retry, retries, kv) ==
  LET fanout(i) == Group(sizes[i], "process_payload", count)
      orElse(n, default) == IF n = 0 THEN default ELSE n
      part(n) == Larger(1, count \div n)
  IN  <<Group("throughput", "add", count)>>
      \o (IF chain THEN <<OneByOne("chain", "add", orElse(chains, count), 3)>> ELSE <<>>)
      \o [i \in 1 .. Len(sizes) |-> fanout(i)]
      \o (IF retry THEN <<OneByOne("retry", "flaky", orElse(retries, part(5)), FailCount + 1)>>
                   ELSE <<>>)
      \o (IF kv THEN <<Group("kv", "add_kv", part(2)), OneByOne("chord", "chord_add", part(10), 2),
                       Group("hybrid/small", "hybrid_echo", part(5)),
                       Group("hybrid/large", "hybrid_echo", part(20))>>
                ELSE <<>>)

VARIABLES
  plan,       \* the scenarios of this run
  pc,         \* where main is
  round,      \* rounds of the current scenario that are over
  raised,     \* main has an exception to end with
  worker,     \* the child process
  ready,      \* the event the worker sets in worker_ready
  signalled,  \* SIGTERM was sent to the worker
  queue,      \* messages: scenario, call and step
  redelivered,
  executed,   \* history: the messages whose task body ran
  stored,     \* calls whose result is in the result backend of main
  results,    \* of the scenarios that are over
  report      \* what print_report prints, <<>> before

mainVars == <<plan, pc, round, raised, results, report>>
workerVars == <<worker, ready, queue, redelivered, executed, stored>>
vars == <<mainVars, signalled, workerVars>>

Message(s, r, i, step) == [scenario |-> s, round |-> r, call |-> i, step |-> step]
Leftover == Message(0, 0, 0, 1)

Init ==
  /\ \E count \in TaskCounts, chains \in ChainCounts, retries \in RetryCounts,
        sizes \in SizeLists, chain \in BOOLEAN, retry \in BOOLEAN, kv \in BOOLEAN :
       plan = PlanOf(count, chain, chains, sizes, retry, retries, kv)
  /\ pc = "spawn" /\ round = 0 /\ raised = FALSE
  /\ worker = "none" /\ ready = FALSE /\ signalled = FALSE
  /\ \E n \in 0 .. Leftovers : queue = [i \in 1 .. n |-> Leftover]
  /\ redelivered = 0 /\ executed = {} /\ stored = {}
  /\ results = <<>> /\ report = <<>>

-----------------------------------------------------------------------------
(* main                                                                    *)

\* The scenario main is at.
Current == Len(results) + 1
CallsOf(s, r) == {s} \X {r} \X (1 .. plan[s].width)

\* start_worker: proc.start().
Spawn ==
  /\ pc = "spawn"
  /\ pc' = "wait" /\ worker' = "booting"
  /\ UNCHANGED <<plan, round, raised, results, report, signalled, ready, queue, redelivered,
                 executed, stored>>

\* ready.wait returns true.
WorkerIsReady ==
  /\ pc = "wait" /\ ready
  /\ pc' = "call"
  /\ UNCHANGED <<plan, round, raised, results, report, signalled, workerVars>>

\* ready.wait gives up: the worker is terminated, and RuntimeError.
WorkerIsNotReady ==
  /\ pc = "wait" /\ ~ready
  /\ signalled' = TRUE /\ raised' = TRUE /\ pc' = "exiting"
  /\ UNCHANGED <<plan, round, results, report, workerVars>>

\* apply_async of the calls of the next round.
Call ==
  /\ pc = "call" /\ Current <= Len(plan) /\ round < plan[Current].rounds
  /\ queue' = queue \o [i \in 1 .. plan[Current].width |-> Message(Current, round + 1, i, 1)]
  /\ pc' = "get"
  /\ UNCHANGED <<plan, round, raised, results, report, signalled, worker, ready, redelivered,
                 executed, stored>>

\* Mutant of GetReturns: the results of a group are not awaited all.
GetReturns_First ==
  /\ pc = "get"
  /\ CallsOf(Current, round + 1) \cap stored # {} \/ plan[Current].width = 0
  /\ round' = round + 1 /\ pc' = "call"
  /\ UNCHANGED <<plan, raised, results, report, signalled, workerVars>>

\* result.get: every call of the round has its result.
GetReturns ==
  /\ pc = "get"
  /\ CallsOf(Current, round + 1) \subseteq stored
  /\ round' = round + 1 /\ pc' = "call"
  /\ UNCHANGED <<plan, raised, results, report, signalled, workerVars>>

\* result.get(timeout) raises.
GetTimesOut ==
  /\ pc = "get"
  /\ raised' = TRUE /\ pc' = "finally"
  /\ UNCHANGED <<plan, round, results, report, signalled, workerVars>>

\* Mutant of EndScenario: the rounds go on counting.
EndScenario_KeepsRound ==
  /\ pc = "call" /\ Current <= Len(plan) /\ round = plan[Current].rounds
  /\ results' = Append(results, plan[Current].name)
  /\ UNCHANGED <<plan, pc, round, raised, report, signalled, workerVars>>

\* The scenario returns its ScenarioResult: results.append(r).
EndScenario ==
  /\ pc = "call" /\ Current <= Len(plan) /\ round = plan[Current].rounds
  /\ results' = Append(results, plan[Current].name)
  /\ round' = 0
  /\ UNCHANGED <<plan, pc, raised, report, signalled, workerVars>>

EndScenarios ==
  /\ pc = "call" /\ Current > Len(plan)
  /\ pc' = "finally"
  /\ UNCHANGED <<plan, round, raised, results, report, signalled, workerVars>>

\* Any other exception: apply_async fails, or main is interrupted.
Raise ==
  /\ pc \in {"wait", "call", "get"}
  /\ raised' = TRUE
  /\ pc' = IF pc = "wait" THEN "exiting" ELSE "finally"
  /\ UNCHANGED <<plan, round, results, report, signalled, workerVars>>

\* finally: worker_proc.terminate()
Terminate ==
  /\ pc = "finally"
  /\ signalled' = TRUE /\ pc' = "join"
  /\ UNCHANGED <<plan, round, raised, results, report, workerVars>>

\* Mutant of Join: an exception is logged, and then the report is printed.
Join_ReportsAnyway ==
  /\ pc = "join"
  /\ pc' = "report"
  /\ UNCHANGED <<plan, round, raised, results, report, signalled, workerVars>>

\* worker_proc.join(timeout=10) returns whether or not the worker has ended.
Join ==
  /\ pc = "join"
  /\ pc' = IF raised THEN "exiting" ELSE "report"
  /\ UNCHANGED <<plan, round, raised, results, report, signalled, workerVars>>

\* print_report(results)
Report ==
  /\ pc = "report"
  /\ report' = <<results>> /\ pc' = "exiting"
  /\ UNCHANGED <<plan, round, raised, results, signalled, workerVars>>

\* Mutant of AtExit: the child is not daemonic.
AtExit_NotDaemonic ==
  /\ pc = "exiting"
  /\ pc' = "reap"
  /\ UNCHANGED <<plan, round, raised, results, report, signalled, workerVars>>

\* As main exits, multiprocessing terminates the daemonic child ...
AtExit ==
  /\ pc = "exiting"
  /\ signalled' = TRUE /\ pc' = "reap"
  /\ UNCHANGED <<plan, round, raised, results, report, workerVars>>

\* ... and waits for it, without a timeout.
Exit ==
  /\ pc = "reap" /\ worker = "dead"
  /\ pc' = "exited"
  /\ UNCHANGED <<plan, round, raised, results, report, signalled, workerVars>>

\* SIGKILL: nothing is cleaned up.
Kill ==
  /\ pc \notin {"exited", "killed"}
  /\ pc' = "killed"
  /\ UNCHANGED <<plan, round, raised, results, report, signalled, workerVars>>

-----------------------------------------------------------------------------
(* The worker and the broker                                               *)

\* worker_ready: ready_event.set().
OnReady ==
  /\ worker = "booting"
  /\ worker' = "up" /\ ready' = TRUE
  /\ UNCHANGED <<mainVars, signalled, queue, redelivered, executed, stored>>

\* The worker ends on its own: no server to connect to, or a crash.
Die ==
  /\ worker \in {"booting", "up"}
  /\ worker' = "dead"
  /\ UNCHANGED <<mainVars, signalled, ready, queue, redelivered, executed, stored>>

\* A warm shutdown after SIGTERM.
Shutdown == signalled /\ Die

\* The call a message belongs to.
CallOf(m) == <<m.scenario, m.round, m.call>>

\* Its task is registered; of a leftover message only that it was consumed matters.
Known(m) == m # Leftover /\ plan[m.scenario].task \in Registered

\* What is left of the queue when the first message has been taken: the broker may
\* deliver it once more.
Taken(rest) ==
  \/ rest = Tail(queue) /\ UNCHANGED redelivered
  \/ /\ redelivered < MaxRedeliveries
     /\ rest = Append(Tail(queue), Head(queue)) /\ redelivered' = redelivered + 1

\* A task that is registered: a link of a chain publishes the next, an attempt of
\* flaky before the last the retry, and the end of a call stores its result.
Execute ==
  LET m == Head(queue) IN
  /\ worker = "up" /\ queue # <<>>
  /\ Known(m)
  /\ executed' = executed \cup {m}
  /\ \E rest \in {Tail(queue), Append(Tail(queue), m)} :
       /\ Taken(rest)
       /\ IF m.step < plan[m.scenario].steps
          THEN queue' = Append(rest, [m EXCEPT !.step = @ + 1]) /\ UNCHANGED stored
          ELSE queue' = rest /\ stored' = stored \cup {CallOf(m)}
  /\ UNCHANGED <<mainVars, signalled, worker, ready>>

\* A task of another app, which the worker does not know, or a message whose sender is
\* gone: no result gets to main.
Discard ==
  LET m == Head(queue) IN
  /\ worker = "up" /\ queue # <<>>
  /\ ~Known(m)
  /\ queue' = Tail(queue)
  /\ UNCHANGED <<mainVars, signalled, worker, ready, redelivered, executed, stored>>

Scenarios == Call \/ GetReturns \/ GetTimesOut \/ EndScenario \/ EndScenarios
Cleanup == Terminate \/ Join \/ Report \/ AtExit \/ Exit
Main == Spawn \/ WorkerIsReady \/ WorkerIsNotReady \/ Scenarios \/ Cleanup
Worker == OnReady \/ Die \/ Execute \/ Discard

Next == Main \/ Raise \/ Kill \/ Worker

\* main goes on, for each of its waits has a timeout but the last; a worker that was
\* told to stop does, for its tasks are short.
Fairness == WF_vars(Main) /\ WF_vars(Shutdown)

Spec == Init /\ [][Next]_vars /\ Fairness

-----------------------------------------------------------------------------
(* Properties                                                              *)

Done == 1 .. Len(results)

\* Every variable keeps its shape; no scenario makes more rounds than it should, and
\* results are stored only of calls of the plan.
TypeOK ==
  /\ pc \in {"spawn", "wait", "call", "get", "finally", "join", "report", "exiting", "reap",
             "exited", "killed"}
  /\ worker \in {"none", "booting", "up", "dead"}
  /\ {raised, ready, signalled} \subseteq BOOLEAN
  /\ round \in Nat /\ redelivered \in Nat
  /\ Len(results) <= Len(plan)
  /\ round <= IF Current <= Len(plan) THEN plan[Current].rounds ELSE 0
  /\ \A c \in stored : c[1] \in DOMAIN plan /\ c[2] \in 1 .. plan[c[1]].rounds

\* What a ScenarioResult counts has been done: for each scenario that is over, every call
\* has its result and every step of it was executed by the worker, the three links of a
\* chain and the attempts flaky fails on purpose (benchmark.py:14) included, whatever
\* was redelivered or left over in the queue.
ResultsBacked ==
  \A s \in Done : \A r \in 1 .. plan[s].rounds, i \in 1 .. plan[s].width :
    /\ <<s, r, i>> \in stored
    /\ \A step \in 1 .. plan[s].steps : Message(s, r, i, step) \in executed

\* The report is of the whole plan or there is none: if a scenario raises, whenever and
\* for whatever reason, the results of those before it are not printed as if they were
\* the benchmark's.
ReportWhole ==
  report # <<>> => report[1] = [s \in DOMAIN plan |-> plan[s].name]

\* README.rst:33 "kv_backend/throughput - same as throughput but using nats+kv:// result
\* backend", benchmark.py:234 "Fire *count* add() tasks using the NATS KV backend for
\* result storage": while main waits for a round and the worker is up, each call of the
\* round has its result or is still in the queue to get it.
NoCallLost ==
  pc = "get" /\ worker = "up" =>
    \A c \in CallsOf(Current, round + 1) \ stored :
      \E k \in DOMAIN queue : CallOf(queue[k]) = c

\* Whatever the worker does - never ready, dead while main waits for it, not answering -
\* the benchmark ends, and takes the worker with it, unless it is killed.
MainEnds == <>(pc = "killed" \/ (pc = "exited" /\ worker = "dead"))
=============================================================================
