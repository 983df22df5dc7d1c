# Formal models of celery-perf

celery-perf measures Celery: a producer submits tasks, workers run them, both
write time stamps T0..T6, and a run ends in a summary, an event log and an exit
code. What makes such a tool wrong is not a wrong formula but a number that does
not mean what its name says: a task counted twice or not at all, a latency of a
result nobody got, a span made of the stamps of two attempts. The modules here
model the parts of the code where such things are decided, TLC checks them on
small instances, and TLAPS proves the main properties for all values of the
constants.

## Inventory

| component | code | state | operations | talks to |
|---|---|---|---|---|
| load producer | `benchlib/producer.py` | counters, list of pending handles, locals of `_collect`, the global Celery setting `task_always_eager` | `run` in four modes, `_submit`, `_collect`, `__enter__`/`__exit__`, the two CLIs | Celery (`apply_async`, `get`, `failed`), event log, OTel |
| task suite, app | `benchlib/workload.py` | Celery configuration | eight tasks | workers, result backend |
| worker signal hooks | `benchlib/metrics.py:170-227` | dict of stamps per process, its lock | four signal handlers | Celery signals, event log, OTel |
| span records | `benchlib/metrics.py:47-165` | tracer | `record_*` | OTel SDK |
| result files | `benchlib/results.py` | run directory, lock per object | `write_run_json`, `append_event`, `read_events`, `write_parquet` | file system |
| run specification | `benchlib/run_spec.py` | none (run id read from the clock) | `partition_key`, `run_id` | |
| SLA, percentiles | `benchlib/sla.py`, `producer.py:140-150` | none | `evaluate_sla`, `_percentiles` | results of runs |
| NATS benchmark | `benchmarks/nats/` | worker process, ready event, list of results | eight scenarios, `start_worker`, report | NATS, worker process |
| smoke job, resource | `dagster_bench/jobs/smoke.py`, `resources/pvc.py` | the summary passed between its two ops | `run_smoke_burst`, `assert_smoke_results` | producer, results volume |
| smoke notebook | `notebooks/02_smoke_harness.ipynb` | base directory, run id, the saved histogram | setup, find, load, assert, draw | results volume |
| environment check | `dagster_bench/assets/`, `notebooks/00_*` | none | versions, a write test | file system |
| manifests | `infra/` | | Job with `backoffLimit: 0`, worker Deployment | Kubernetes |

How they interact: `run_cli` makes a `ResultDir` and a `BenchmarkProducer`; the
producer publishes to a broker, a worker process takes the message, runs a task
of the suite and stores its result; the producer gets it and logs. Job, commands
and notebook meet only on the results volume: each computes where the runs are, and
the notebook reads whatever run is the newest there. The hooks run
inside worker processes and append to the same `events.jsonl`. No code of the
repository calls `connect_celery_signals`; it is modelled as the function it is.

What is hard, with the properties that make each component correct:

- *Producer*: one thread, but broker, workers and backend act between any two of
  its steps. Results arrive late, twice, never, or vanish (`result_expires`); the
  timeout of `get` races the result; `apply_async` may raise after the message is
  taken; an error of the log or the backend, or an eviction, ends the run
  anywhere. Correct means: counters, log, latency samples and exit code agree with
  each other and with what workers did; the run ends.
- *Hooks*: one dict for all tasks of a process, handlers of different tasks in
  any order, two critical sections in `on_postrun`, two processes in a prefork
  pool, attempts that share a task id. Correct means: a span has the stamps of its
  own attempt, nothing leaks, no span is lost silently.
- *Result files*: writers of one directory, a crash between write and rename, a
  reader across a rename, a cut line. Correct means: a file is one version or absent.
- *Open loop*: pacing against publishes of any length and sleeps that end late,
  collection only after the window, results that expire while they wait for their
  turn, and results that never expire, being ignored or eager. Correct means: the offered load is the one asked for; a latency, and an SLA on
  it, says what it seems to say.
- *Smoke gates*: runs that share a directory, are still writing, were killed, or are
  somewhere else. Correct means: a job's gate that passes has seen its own run and all of
  it; the notebook finds the run it is about, and that run is complete.
- *NATS benchmark*: a worker that is not ready, dies or does not know a task; messages
  left over and delivered twice; a scenario that raises. Correct means: what is
  reported was done, and everything ends.
- *Percentiles and SLA*: boundaries (no sample, one sample, no submission).

`PROJECT.json` lists the hazards, each at its line, with the properties that
cover it or the reason none does yet.

## Modules

| module | models | kind |
|---|---|---|
| `RunLedger` | what a run promises about its attempts | abstract specification |
| `RunLog` | what a run in process promises about its event log | abstract specification |
| `Producer` | `BenchmarkProducer` and its environment | state machine, implements `RunLedger` |
| `MCProducer` | small instance of `Producer` | model checking |
| `ProducerProofs` | theorems about `Producer` | proofs |
| `ProducerProgress` | that a run is bounded and never stuck, and keeps a `RunLog` | proofs |
| `SignalHooks` | `connect_celery_signals` and the worker around it | state machine |
| `MCSignalHooks` | small instance of `SignalHooks` | model checking |
| `SignalHooksProofs` | theorems about `SignalHooks` | proofs |
| `AtomicFile` | what a reader of `run.json` may rely on | abstract specification |
| `ResultFiles` | writers and readers of run directories | state machine, implements `AtomicFile` |
| `MCResultFiles` | small instance of `ResultFiles` | model checking |
| `ResultFilesProofs` | theorems about `ResultFiles` | proofs |
| `Stats` | `_percentiles` and `evaluate_sla` | operators |
| `StatsProofs` | theorems about `Stats` | proofs |
| `OpenLoop` | `_open_loop` with a clock, its result and the SLA on it | state machine, uses `Stats` |
| `MCOpenLoop` | small instance of `OpenLoop` | model checking |
| `OpenLoopProofs` | theorems about `OpenLoop`, and that it implements `RunLedger` | proofs |
| `SmokeHarness` | the smoke job, other runs, and the smoke notebook on one volume | state machine |
| `MCSmokeHarness` | small instance of `SmokeHarness` | model checking |
| `SmokeHarnessProofs` | theorems about `SmokeHarness`, and that its runs keep a `RunLog` | proofs |
| `NatsBench` | `benchmarks/nats`: main, worker process, queue | state machine |
| `MCNatsBench` | small instance of `NatsBench` | model checking |
| `NatsBenchProofs` | theorems about `NatsBench` | proofs |

A definition whose name has an underscore and whose comment begins with "Mutant"
is not part of a model: it is the next definition with a plausible mistake, kept
to show that the properties notice it.

### Producer

The program counter `pc` cuts the code where something else can act.

| action | code |
|---|---|
| `Construct`, `Enter` | `__init__` (unknown task: `KeyError`), `__enter__` and the dispatch of `run` (unknown mode: `ValueError`) |
| `SubmitBegin`, `PublishOk`, `PublishError`, `EndSubmit` | the submission loop of the mode; `apply_async` is under way in `pc = "publishing"` |
| `TakeNext` | `for ar, t0, t1 in pending` |
| `RecordPublish`, `GetReturns`, `GetFails`, `RecordE2e`, `Verdict` | `_collect`, and the counting after it |
| `Report` | `ProducerResult`, `__exit__`, the end of the CLI (`ExitOf`) |
| `Abort` | an exception out of `append_event` or `ar.failed()` |
| `Kill` | eviction of the pod; the Job is not retried |
| `Enqueue`, `Deliver`, `StoreResult`, `LoseMessage`, `Expire` | broker, worker, backend (not in the repository) |

`soak` is `_open_loop` with another default, so the two share everything but the
name. `count` is arbitrary up to the bound, so that the empty run is included.
`frame` holds `ok`, where `t6` came from, and the final state that Celery caches
in the `AsyncResult`: `ar.failed()` asks the backend again only if none is cached.
In process (`memory`) the body runs inside `apply_async`; of tasks that use
canvas or retry no outcome is assumed there. `outcome` and `stored` are history
variables; no guard reads them. Two things the model has as the code has them, and no
run claims otherwise: after a failed `get` the T6 line is still written, with the
fallback `t6 = t1` (`GetFails`, `RecordE2e`), though `metrics.py:12` says of T6 "after
.get(), result visible to caller"; and the smoke command reads `rd.run_dir`
(`producer.py:441`), an attribute `ResultDir` does not have, so that `ExitOf` has it
end with a traceback after every run, and `sys.exit(0)` four lines on is not reached.

Bounds: `MaxTasks` caps the passes of the loop (the deadline of the open loop is
one that comes after at most that many); `MaxDeliveries` caps the deliveries of a
message.

### SignalHooks

An *attempt* is one delivery of a message; attempts of one task id come from
`self.retry` and from redelivery. A time stamp is represented by the attempt whose
handler took it. `state[p]` is the dict `_state` of process `p`: the consumer and,
except in a prefork pool, the executing threads are `"main"`; a child of a prefork
pool has its own. Each critical section of the code is one action; `on_postrun`
is two (`PostrunStamp`, `PostrunSpan`) because it takes the lock twice.
`append_event` raises when the disk is `full`, at the start or from the middle of
`on_postrun` on. Not modelled: a child killed by the pool, children forked after
the first message (they inherit a copy of the parent's dict), and the green-thread
pools, whose handlers interleave as threads do.

### ResultFiles

A writer is a process with one run: `Start` (run id and `ResultDir.__init__`),
`OpenTmp`, `WriteHead`, `WriteTail`, `Replace` (`write_run_json`), then any number
of `AppendEvent`. Between any two steps it may fail or be killed (`Stop`), and it
may find `run.tmp` gone when it wants to rename it. Every writer of a directory
uses the same `run.tmp`, so files and names are kept apart: `tmp` and `dest` say
which file has a name, `fd` and `rfd` which file is open, `half` what is in it. A
file has two halves, marked with the writer whose bytes they are: a reader that
gets two different marks, or a mark and nothing, did not get a version.
`write_parquet` does the same with other names and is not modelled a second time.

Run ids tell seconds apart, so two runs of one specification can share a
directory. If one opens `run.tmp` while the other is between opening and renaming
it, the code promises nothing: the one may publish what the other has half
written, and the other gets `FileNotFoundError`. `mixed` collects the directories
where that happened, and the properties of content are about the others, in which
writers may well follow each other, failed ones included. That a named `run.json`
never goes away (`RunJsonFirst`) and that whole appends never spoil the log
(`LogReadable`) hold in all of them. A line is appended by one write to a file opened for
appending: that processes do not cut each other's lines is POSIX's promise for a local
file system and assumed. What cuts a line is a full disk or a kill in the middle of a
write, after which the writer is `"raised"` and does nothing more.

### OpenLoop and Stats

`Producer` abstracts time to which of two racing things comes first. `OpenLoop` has
the same loop with a clock `now` in ticks, and nothing else: no crashes, no errors of
the log.

| action | code |
|---|---|
| `Run` | the defaults of `run` for `open_loop` and `soak`, and `interval = 1.0 / rate` |
| `NextPass`, `EndLoop` | `while time.monotonic() < deadline` |
| `Published`, `PublishFailed` | `_submit`, after any of `PublishTimes` |
| `Sleep`, `NoSleep` | `sleep_for > 0`, or not; a sleep ends at its time or later |
| `GetReturns`, `GetTimesOut`, `GetNothing` | `_collect` of a result on the backend, stored some `ServiceTimes` after submission: it may be waited for, be there, come too late, have expired, or never come |
| `GetAtOnce` | `_collect` of a result that needs no backend: `noop` ignores its own, and with a memory broker the task ran inside `apply_async` |
| `Report`, `Evaluate` | `ProducerResult`, with the nominal duration; `evaluate_sla` |

`source` says which of the three kinds the handles of a run are. At the last moment of
`get` either answer may win. So it is with a result older than `result_expires`
(`MayBeGone`): that setting is the least time a backend keeps a result, and when it is
removed is the backend's affair. `lost` is a history variable: handles of a success
that was there when `get` asked and was yet not got. `Stats` has percentages and rates as integers; a rate is compared as a
product. The rank of `_percentiles` is a floating-point product in the code; for the
three percentiles it uses, `int(q / 100 * n)` and the integer quotient agree (compared
for all n up to 200 000). Only tests of the repository call `evaluate_sla`; it is
applied to the results such a run can end with. `sorted(values)` is given by its order
statistics, the k-th value being the least with k samples up to it, since `SortSeq` of the
library is recursive and out of the provers' reach; `MCOpenLoop` has TLC compare the two
for up to four samples. The samples are a function from the handles that succeeded
to their latencies, and nothing depends on their order.

### SmokeHarness

A run is its directory, the number of tasks it is to make and how many event lines it
has written: what leads to the lines is in `Producer`, the bytes of a line in
`ResultFiles`. A line is known by its run and position, which determine task and stamps.

| action | code |
|---|---|
| `TakeId` (`StartJob`, `StartCli`), `MakeDir` | `spec.run_id`, `ResultDir`, in the job or one of the commands |
| `WriteLine`, `Finish`, `Stop` | `append_event` twice a task; `run` returns, or the run ends between lines, in one, or before it has a directory |
| `AssertResults` | `assert_smoke_results`, at any time after the first op |
| `NbSetup`, `NbFind`, `NbReport`, `NbAgain` | the notebook's cells |
| `Tick` | a second passes |

Paths are sequences of names, so that the three ways in which the code builds the path
of a run directory can be compared. A run id is a second and a hash of the
specification: two runs of one specification in one second share a directory. Of
runs that share one, a torn line makes every later read raise; the finer cuts (a line
that lost only its newline) are in `ResultFiles`. Lines of workers are not in these
files: no code of the repository connects the hooks. The notebook reads `events.jsonl`
once; printing and drawing are left out. `smoke.py:3-8` asks for a p95 that is not
zero where the code asserts that it is not negative; for in-process runs neither is a
matter of state.

### NatsBench

`main` runs a *plan*: scenarios in a fixed order that the arguments choose from. A
scenario is a number of *rounds*, each a number of calls that are published and then
all waited for: one round for a group (throughput, fan-out, kv, hybrid), a round of one
call for each chain, retry or chord. A call takes a number of *steps*, each a message:
three links of a chain, three attempts of `flaky`, which fails twice.

| action | code |
|---|---|
| `Spawn`, `WorkerIsReady`, `WorkerIsNotReady` | `start_worker` |
| `Call`, `GetReturns`, `GetTimesOut`, `EndScenario`, `EndScenarios` | the scenarios and the `try` block of `main` |
| `Raise` | any other exception in it |
| `Terminate`, `Join`, `Report` | the `finally` block, `print_report` |
| `AtExit`, `Exit` | a daemonic child is terminated and joined when the interpreter ends |
| `Kill` | SIGKILL to `main` |
| `OnReady`, `Die` | the worker process |
| `Execute`, `Discard` | a message of a task the worker knows, and of one it does not or that nobody waits for |

The worker runs the app of `tasks.py`; the tasks of scenarios 5 to 8 are registered on
apps that `benchmark.py` makes in its own process. So the worker discards their messages,
the wait for them ends with a timeout, and the benchmark with a traceback: a report
is only ever printed with `--no-kv`, which is the finding of `nats_kv`. The
queue may hold a message of an earlier benchmark, and any message may be delivered
once more. How long a scenario takes and what it prints of that is left out.

## Runs

| run | bounds | checks |
|---|---|---|
| `producer` | 2 tasks, 2 deliveries, 4 modes and an unknown one, 4 task names, both kinds of broker, both CLIs | all properties below; 1.1 million states |
| `producer_waits` | same | `ClosedLoopWaits`: violated |
| `hooks` | 3 attempts of 2 task ids, 2 children, 3 pools | all properties below; 94 thousand states up to symmetry |
| `hooks_retry` | same | `SpanOfOneAttempt`: violated |
| `hooks_failure` | same | `FailureTimed`: violated |
| `hooks_prefork` | same | `QueueWaitMeasured`: violated |
| `files` | 3 writers, 1 reader, 2 directories, 2 lines | all properties below; 1.85 million states |
| `pacing` | a window of up to 13 intervals' worth of ticks, two rates, publishes shorter and longer than the interval, results of three kinds that may expire after 10 ticks, 3 thresholds | all properties below; 290 thousand states |
| `smoke` | 2 runs in 2 seconds, 2 tasks expected, commands with 1 or 3, both settings of `BENCH_RESULTS_PATH`, 2 values each of `--out` and `results_path` | all properties below; 1.0 million states |
| `smoke_notebook` | same | `SmokeRunFound`: violated |
| `nats` | every choice of scenarios, 0 or 2 tasks, up to 2 chains or retries, 1 message left over, 1 redelivery | all properties below; 112 thousand states |
| `nats_kv` | same | `NoCallLost`: violated |

Two tasks are enough for what can go wrong between a task in hand and one pending,
two deliveries for a result that is overwritten. In `hooks` three attempts give
two attempts of one task with another task between them. In `files` the third
writer finds what the first left in `run.tmp` after the second has published, and
the second line is what a cut first line can spoil. In `pacing` the defaults keep the
code's proportions (`soak` 300 s is ten times `open_loop` 30 s and as long as results
live, `get` waits a fifth of that), so a soak can end with results that may have expired. In
`smoke` two runs are one that a gate looks at and one that shares its directory, is
newer, or is elsewhere; the numbers of tasks are below and above what is expected. In
`nats` two calls in a group let one be done while the other is waited for, and
one message left over or delivered again reaches every place in the queue. The theorems do not
depend on the bounds. `CHECK_DEADLOCK FALSE`: a run that is over, and a worker
with nothing left to do, stop.

What the producer run shows: each submitted task is counted once at every moment
(`Accounting`); the log is pairs of lines, one pair a task (`EventsAlternate`,
`NoDoubleRecord`), and agrees with the counters (`EventsMatchTally`); a success
rests on a stored SUCCESS (`SuccessWitnessed`); no fallback time stamp enters the
percentiles (`SamplesMeasured`); exit 0 leaves no accepted task behind
(`CleanExit`); the assertions of the smoke job hold of every in-process run that
reports (`SmokeGate`); the closed loop is serial (`ClosedLoopSerial`); the run
implements the ledger (`LedgerSpec`, with `closed` mapped to having exited 0 or 1)
and always stops (`RunStops`).

What the hooks run shows: where consumer and executors share the dict, the span of
a task delivered once has its own T2 and T3 (`SpanExact`), and on a solo worker so
has every attempt (`SoloExact`); no stamp crosses to another task (`SameTask`);
what an executing process keeps belongs to an attempt of its own (`NoLeak`); a
span is missing only where a handler raised (`SpanOrBroken`).

What the files run shows: `run.json` is whole whenever it exists (`RunJsonWhole`), a
reader that has it open across a replacement gets one version (`ReadsWhole`), a
writer that no other overlapped is never refused the renaming, publishes its own whole
`run.json` and leaves no `run.tmp`, one that a killed writer had left included
(`NoTmpLeft`), no event is logged without `run.json` (`RunJsonFirst`), only a writer that
failed, or was killed, in the middle of a line can make `read_events` raise
(`LogReadable`), and all of it amounts to an atomic file (`FilesSpec`).

What the pacing run shows: submissions are never closer than the rate says, nor more
than fit in the window (`OfferedLoad`), and not fewer either if publishes and sleeps
are prompt (`RateHeld`); a latency contains an interval for each later submission,
since handles are collected after the window (`LatencyIncludesWait`), and so the
limits of a passed SLA bound the length of the run, however fast the system
(`SlaPassesShortRuns`); a stored success is missed only on a backend and past
`result_expires`, and each such miss costs a whole timeout, so the collection of a run that
misses some is longer by it (`ExpiryDecides`: runs of `noop` or in process miss none,
however long); a passed SLA does bound the share of successes it names (`SlaBoundsTail`),
and a run without a success passes only where none was asked for (`PassedNeedsSuccess`).

What the smoke run shows: the job's assertions pass only on exactly the lines of its own
run, and fail a run that has returned only if another shared its id (`JobGateExact`);
a saved histogram of a directory that is one run's alone is of a complete run, though the
notebook may look while it is written or after it was killed (`FigureComplete`). The
notebook counts tasks, not runs: of runs that share a directory, or of one that was to
make more tasks than are expected, it may save a figure though none is complete, and the
property excludes exactly these two.

What the nats run shows: each call that a finished scenario counts has its result
and was executed step by step (`ResultsBacked`); the report is of the whole plan or
not printed (`ReportWhole`); `main` ends and takes
the worker with it unless it is killed (`MainEnds`).

The six violated properties are sentences of the code's documentation that the
code does not keep:

- the closed loop does not wait for `noop`, whose result is ignored
  (`producer.py:321`);
- the dict is not thread-local and attempts of one task conflict in a thread pool
  (`metrics.py:178`);
- the span of a failed task has no start (`metrics.py:9`);
- in a prefork pool T2 is kept by one process and looked for in another
  (`metrics.py:20`);
- the notebook that "reads the most recent smoke run" does not look where the smoke job
  writes: the job's `ResultDir` adds `results/raw` to the path of the resource, the
  notebook adds `raw` to the same path, and fails in its setup
  (`02_smoke_harness.ipynb:10`);
- the KV and hybrid scenarios of the benchmark measure nothing: the worker discards their
  messages (`README.rst:33`, `benchmark.py:234`).

## Fairness

`Producer` assumes `WF_vars(ProducerStep)`: the producer's own code keeps running.
It covers `PublishError` and `GetFails`, which are enabled whenever the producer
waits for somebody else: kombu gives up publishing after its retries and `ar.get`
has a timeout of 60 s. Nothing is assumed of broker, workers, backend, `Abort` or
`Kill`. `NatsBench` assumes `WF_vars(Main)`, since each wait of `main` but the last
has a timeout that ends it, and `WF_vars(Shutdown)`: a worker that was sent SIGTERM
stops, since its tasks are short. It does not assume that the worker gets ready or
executes anything. The other modules have safety properties only and assume no fairness.

## Proofs

All theorems are about the specifications as TLC checks them, for every set of
modes, task names and task ids and all bounds. Assumed of the constants: bounds are
natural numbers, names are strings (`BoundsAssumption`, `AttemptsAssumption`,
`LinesAssumption`, `NumberAssumption`, `ArgsAssumption`), the name for "nothing" names
no task id, writer or directory (`NamesAssumption`, `NoneAssumption`); an interval is
not rounded to zero ticks (`RateAssumption`), times are natural numbers
(`DurationAssumption`, `TimeAssumption`), so are the limits of an SLA
(`LimitsAssumption`), paths are made of `FileNames` and the
checkout is not the empty path (`PathAssumption`), and `flaky` may be retried as often
as the benchmark lets it fail (`RetryAssumption`).

`ProducerProofs`: `TypeCorrect`, `AccountingCorrect` and `SamplesMeasuredCorrect`
need little more than the types and that a task is in hand exactly when `pc` says
so (`CurInHand`). The others do not follow from themselves: that a task is not
logged twice needs that it is not both pending and in hand nor pending twice, and
that its lines so far are those its place in `_collect` calls for. The inductive
invariant `IInv` says this for every task (`HeldOnce` and its neighbours), together
with what is known of the cached result: it was stored. From it follow
`SuccessWitnessedCorrect`, `LogCorrect`, `EventsMatchTallyCorrect`,
`CleanExitCorrect`, `ClosedLoopSerialCorrect`, `NoDoubleRecordCorrect`, and, with
three more invariants about runs in process (eager to the end, every attempt submitted,
no FAILURE from a harmless body), `SmokeGateCorrect`; and `LedgerCorrect`, the refinement:
the initial state maps to an initial state, and every step to a step of the ledger
or to none.

`SignalHooksProofs`: `SpanExact` speaks of a finished span; what is needed before
is that while an attempt is in flight, is alone on its entry (`Alone`) and has not
failed, the dict has its stamps (`KeptOwn`). For a solo worker that rests on one
attempt being in flight at a time (`SoloSerial`), for threads on no other attempt
having the task id (`NotDisturbed`), which must also hold backwards, since an
attempt may lose but never regain its solitude (`AloneBefore`). `Finished` relates
stage, span, log and broken handlers, `NoLeak` is inductive given that. Together
they are `IInv`. `SameTaskCorrect` adds that what is kept under a task id are stamps of
attempts at that task (`KeptOfTask`), which holds as an attempt never changes its task.

`ResultFilesProofs`: that `run.json` is whole now says nothing of the next write, so
the invariant says where writes go. In a directory kept apart one writer is inside
`write_run_json`, and the file it writes is the one called `run.tmp` (`Apart`); a
file that is whole and is not called so is settled (`Settled`), and stays settled
(`SettledStays`); what `run.json` names and what a reader has open is settled. That
names and open files stay in their directory (`Homes`) keeps the writers of another
directory out. `RunJsonWholeCorrect`, `ReadsWholeCorrect` and `RunJsonFirstCorrect`
are read off it; `FilesCorrect` is the refinement, in which an overlap is a step
(`Spoil`) of the abstract file. `NoTmpLeftCorrect` is of a step:
where a writer is about to rename in a directory kept apart, `run.tmp` names the file it
has itself written in full, whoever made that file first, so the renaming succeeds and
publishes it (`RenamePublishes`), and no other step takes a writer beyond that point
(`OnlyReplace`). `LogReadableCorrect` keeps that a writer that raised stays so.

`OpenLoopProofs`: `StartsInv` says of every pass so far how far it is from the next,
not only from the one before, so that adding a pass keeps `OfferedLoad`; `PendingInv` the same of
the handles, counted from the end, which is what `LatencyIncludesWait` needs once
nothing is collected before the window is over; `PromptInv` has the passes at the
multiples of the interval. `SlaBoundsTailCorrect` and `SlaPassesShortRunsCorrect` add that
the result is the summary of the collected latencies and the verdict that of the
result; `ExpiryDecidesCorrect` that each handle missed has moved the clock by a timeout
since the window was over. The rest is `StatsProofs`, and for the second that of the successes within a limit
the earliest has waited for all the others. `LedgerCorrect` shows that the open
loop implements `RunLedger` too, with handles for attempts.

`StatsProofs`: the lemmas about counting samples up to a value lead to `SortedCorrect`,
which says of `Sorted` what sorting promises: values of the samples, in order, and as
many up to any v. Where a proof goes by induction it takes a set of numbers for the
predicate (`SetInduction`, from `LeastNumber`: a set of numbers has a least member), since
the library's induction theorems need an operator for a parameter. From the order of the
ranks (`RankInRange`, `RankBelowNearest`) follow p50 <= p95 <= p99 (`PercentilesOrdered`) and that a percentile is the nearest-rank one or
the sample below it (`PercentileBelowNearest`). `PassedBoundsTail`, `PassedHasSuccess`,
`PassedHasThroughput` and `EmptyRunPasses` say what a passed SLA does and does not mean.

`SmokeHarnessProofs`: `JobGateExact` is inductive, and so is for the notebook that a figure has
as many complete tasks as expected behind it (`FigureCounted`), once it is known
that runs keep their directory and never take lines back (`Grows`). What remains is
counting: as many lines as twice the expected tasks, among them those of the job's own
complete run, are no other lines; and a task has both its lines exactly if its number is at most
half of what its run has written: so a run alone in its directory, of no more tasks than
expected, has written them all (`AloneComplete`), which is `FigureCorrect`.

`NatsBenchProofs`: a message of step k is in the queue only when the steps before k were
executed (`QueueInv`), so a stored result has all its steps behind it (`StoredInv`), and
main passes a round only when it is stored (`ProgressInv`). `ReportWholeCorrect` is read off it.
`KvNeverReported`, where the violation of `NoCallLost` leads for every plan, needs
besides that a scenario of an unknown task always has a call to wait for
(`Waits`), which is what `max(1, ...)` in `main` sees to.

### Progress

Liveness under fairness is out of the prover's reach; what makes it true is not. Three
modules prove that part, a bound and a guard:

- `RunIsBounded` (`ProducerProgress`): `Effort`, 16 for each pass to come, 8 for each
  pending handle and a weight for `pc`, starts at 16 for each pass and four, is never
  negative, is lowered by every step of the producer and touched by no other step.
  Together with `NeverStuck`, that the guard of a step of the producer holds until it has
  stopped, this is `RunStops` but for the fairness. `Ready` states the guards, since
  `ENABLED` is out of reach. The hard case is an eager `ar.get`, which has no timeout:
  what the producer holds was run when it was submitted and its result stays
  (`EagerStored`).
- `LoopIsBounded` (`OpenLoopProofs`): a window of d ticks takes at most 5d + 3 steps,
  whether calls take time or none, because passes are an interval apart.
- `MainIsBounded`, `BenchmarkIsBounded` and `NeverStuck` (`NatsBenchProofs`): the same of
  `main`, with R the largest number of rounds of a scenario, which the arguments bound;
  where `main` waits for the worker's end, the worker was told to stop and can, and
  a `main` that has exited has left none.

### Two models, one log

`Producer` has what happens in a run, `SmokeHarness` has what gates make of several. What
they have in common is `RunLog`: two lines for each task and no more, all of them before
the run returns, none after it was ended. `RunLogCorrect` proves it of every run of
`Producer` that is in process and counted, as the smoke runs are (`InProcess`), and
`RunsKeepLog` of every run in `SmokeHarness`: it begins a log, and whatever
happens to it is a step of its log or none. So what `SmokeHarness` takes for granted of
a run's log, without following the run, is what `Producer` was shown to keep.

### Only model-checked

`RunStops` and `MainEnds`, as the liveness properties they are: what is missing above is
the step from a guard that holds to a step that is taken, by weak fairness and `ENABLED`.
And the six violations, which are counterexamples. Every other property of a passing
run is a theorem.

## Not modelled, and the plan

Not modelled:

- the calls into the OpenTelemetry SDK (`record_publish`, `record_execution`,
  `record_e2e`, `init_tracer`). Two things there are worth knowing: `start_time` of a
  span is a monotonic clock's value where the SDK takes nanoseconds since the epoch, and
  a second `init_tracer` does not replace the global provider;
- `write_parquet` and `read_parquet`, the same calls as for `run.json` under other names;
  nothing in the repository but its tests calls them;
- the environment check (asset and notebook): imports, versions and one write test;
- `partition_key`, a hash of the fields of a specification, beyond that equal
  specifications have equal ones;
- what `fanout_task` and `chain_task` come to: they call `get` inside a task, which
  Celery refuses with `RuntimeError` unless it is allowed, so there is no pool of
  waiting tasks to model; `Producer` assumes nothing of their outcome;
- Dagster's machinery, and the manifests beyond the restart policy and the paths.

What would come next: the composition of `Producer` with a worker that runs
`SignalHooks`, for the order of T0..T6 in one log (no code of the repository connects the
two today). On the side of the proofs: that the open loop of `Producer`, with the
clock of `OpenLoop` added, is one program (now each implements `RunLedger` by itself), and
what the six violated properties hold of (the pools, tasks and commands for which the
sentences of the documentation are true).
