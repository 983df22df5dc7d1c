----------------------------- MODULE SmokeHarness -----------------------------
(***************************************************************************)
(* The two gates over a smoke run and the runs they look at: the Dagster   *)
(* smoke_job (run_smoke_burst, then assert_smoke_results) and the notebook *)
(* 02_smoke_harness.  Runs of the job and of the two commands start at any *)
(* time, write their event lines and end, are stopped by an error or       *)
(* killed; the gates find them by directory and read them later.           *)
(*                                                                         *)
(* Of a run only its directory, its number of accepted tasks and how many  *)
(* event lines it has written is kept: Producer has what leads to the      *)
(* lines, ResultFiles the bytes of a line and of run.json.  A path is a    *)
(* sequence of names, the empty one stands for no path.                    *)
(***************************************************************************)
EXTENDS Naturals, Sequences, FiniteSets

CONSTANTS
  Expected,       \* tasks of the job, and expected_tasks of the notebook: 100
  Counts,         \* tasks of a run of a command
  Hashes,         \* first characters of the partition keys, as numbers
  SmokeHash,      \* that of SMOKE_SPEC
  Outs,           \* the --out arguments of the commands
  Mounts,         \* values of BENCH_RESULTS_PATH, the empty path if it is not set
  Injected,       \* the notebook's results_path, the empty path for None
  FileNames,      \* of which paths are made
  Repo,           \* the checkout, where the commands and papermill are started
  MaxRuns, LastSecond  \* bounds of the instance

Paths == Seq(FileNames)

ASSUME NumberAssumption ==
  /\ Expected \in Nat /\ Counts \subseteq Nat /\ Hashes \subseteq Nat
  /\ SmokeHash \in Hashes /\ MaxRuns \in Nat /\ LastSecond \in Nat
ASSUME PathAssumption ==
  /\ {"results", "raw"} \subseteq FileNames
  /\ Outs \subseteq Paths /\ Mounts \subseteq Paths /\ Injected \subseteq Paths
  /\ Repo \in Paths \ {<<>>}

VARIABLES
  second,    \* the wall clock
  mount,     \* BENCH_RESULTS_PATH
  runs,      \* in the order in which they took their run_id
  nb,        \* the notebook that is executed
  figures    \* histograms saved: base directory and run_id

vars == <<second, mount, runs, nb, figures>>

NoRun == [second |-> 0, hash |-> 0]
Idle  == [pc |-> "setup", base |-> <<>>, id |-> NoRun]

Init ==
  /\ second = 0 /\ mount \in Mounts
  /\ runs = <<>> /\ nb = Idle /\ figures = {}

Tick ==
  /\ second < LastSecond
  /\ second' = second + 1
  /\ UNCHANGED <<mount, runs, nb, figures>>

-----------------------------------------------------------------------------
\* LocalResultsResource.path.
ResourcePath == IF mount = <<>> THEN Repo \o <<"results">> ELSE mount

\* Where ResultDir puts the directories of the runs.
RawDir(base) == base \o <<"results", "raw">>

Within(raw, id) == {r \in DOMAIN runs : runs[r].raw = raw /\ runs[r].id = id}
Sharing(r) == Within(runs[r].raw, runs[r].id)

\* The directory is there, made by one of its runs.
Made(r) == runs[r].state \notin {"named", "gone"}
Exists(raw, id) == \E r \in Within(raw, id) : Made(r)

\* A line is known by its run and its position in what the run writes: for each task,
\* in turn, a line with T0 and T1 and then one with T6.
LinesOf(r) == {r} \X (1 .. runs[r].written)
Lines(raw, id) == UNION {LinesOf(r) : r \in Within(raw, id)}
TaskOf(line) == <<line[1], (line[2] + 1) \div 2>>
Submission(task) == <<task[1], 2 * task[2] - 1>>
Completion(task) == <<task[1], 2 * task[2]>>

\* A line was cut: json.loads raises on it, also if another run goes on writing.
Torn(raw, id) == \E r \in Within(raw, id) : runs[r].state = "torn"

-----------------------------------------------------------------------------
\* spec.run_id: the time of day and the partition key.
TakeId(kind, base, hash, count) ==
  /\ Len(runs) < MaxRuns
  /\ runs' = Append(runs, [kind |-> kind, raw |-> RawDir(base),
                           id |-> [second |-> second, hash |-> hash],
                           count |-> count, state |-> "named", written |-> 0, read |-> {}])
  /\ UNCHANGED <<second, mount, nb, figures>>

\* run_smoke_burst begins.
StartJob == TakeId("job", ResourcePath, SmokeHash, Expected)

\* smoke_cli, or run_cli with any spec.
StartCli(out, hash, count) == TakeId("cli", out, hash, count)

\* ResultDir and write_run_json.
MakeDir(r) ==
  /\ runs[r].state = "named"
  /\ runs' = [runs EXCEPT ![r].state = "running"]
  /\ UNCHANGED <<second, mount, nb, figures>>

\* append_event, twice for each task.
WriteLine(r) ==
  /\ runs[r].state = "running" /\ runs[r].written < 2 * runs[r].count
  /\ runs' = [runs EXCEPT ![r].written = @ + 1]
  /\ UNCHANGED <<second, mount, nb, figures>>

\* Mutant of Finish: it returns when all are submitted.
Finish_Uncollected(r) ==
  /\ runs[r].state = "running"
  /\ runs' = [runs EXCEPT ![r].state = "done"]
  /\ UNCHANGED <<second, mount, nb, figures>>

\* producer.run returns; the job passes its summary on.
Finish(r) ==
  /\ runs[r].state = "running" /\ runs[r].written = 2 * runs[r].count
  /\ runs' = [runs EXCEPT ![r].state = "done"]
  /\ UNCHANGED <<second, mount, nb, figures>>

\* The run is killed or an exception ends it: before there is a directory, between two
\* lines or in the middle of one.
Stop(r, end) ==
  /\ runs[r].state = IF end = "gone" THEN "named" ELSE "running"
  /\ end = "torn" => runs[r].written < 2 * runs[r].count
  /\ runs' = [runs EXCEPT ![r].state = end]
  /\ UNCHANGED <<second, mount, nb, figures>>

-----------------------------------------------------------------------------
\* Mutant of EventsComplete: the lines are not counted.
EventsComplete_AnyNumber(lines) ==
  \A l \in lines : {Submission(TaskOf(l)), Completion(TaskOf(l))} \subseteq lines

\* assert_smoke_results on the lines it has read: twice as many as tasks, and for every
\* task in them T0 and T6.
EventsComplete(lines) ==
  /\ Cardinality(lines) = 2 * Expected
  /\ \A l \in lines : {Submission(TaskOf(l)), Completion(TaskOf(l))} \subseteq lines

\* assert_smoke_results, at any time after run_smoke_burst has returned.
AssertResults(r) ==
  LET lines == Lines(runs[r].raw, runs[r].id)
      ok    == /\ runs[r].count = Expected
               /\ ~Torn(runs[r].raw, runs[r].id)
               /\ EventsComplete(lines)
  IN  /\ runs[r].kind = "job" /\ runs[r].state = "done"
      /\ runs' = [runs EXCEPT ![r].state = IF ok THEN "passed" ELSE "rejected",
                              ![r].read = lines]
      /\ UNCHANGED <<second, mount, nb, figures>>

-----------------------------------------------------------------------------
\* The notebook looks for runs here.
NotebookRaw(base) == base \o <<"raw">>

DefaultBase == IF mount = <<>> THEN Repo \o <<"results">> ELSE mount

\* The assertion that fails ends the notebook.
NbFail == nb' = [nb EXCEPT !.pc = "failed"]

\* 1. Setup: assert raw_dir.exists().
NbSetup(path) ==
  LET base == IF path = <<>> THEN DefaultBase ELSE path IN
  /\ nb.pc = "setup"
  /\ nb' = [nb EXCEPT !.base = base,
                      !.pc = IF \E r \in DOMAIN runs : runs[r].raw = NotebookRaw(base) /\ Made(r)
                             THEN "find" ELSE "failed"]
  /\ UNCHANGED <<second, mount, runs, figures>>

\* Names are sorted as strings: the time stamp first, then the partition key.
Newer(id1, id2) ==
  id1.second > id2.second \/ (id1.second = id2.second /\ id1.hash > id2.hash)

\* 2. Find run: the given run_id, or the last of the names.
NbFind(id, given) ==
  /\ nb.pc = "find"
  /\ given \/ Exists(NotebookRaw(nb.base), id)
  /\ ~given => \A r \in DOMAIN runs :
       Newer(runs[r].id, id) => ~Exists(NotebookRaw(nb.base), runs[r].id)
  /\ IF Exists(NotebookRaw(nb.base), id)
     THEN nb' = [nb EXCEPT !.pc = "load", !.id = id]
     ELSE NbFail
  /\ UNCHANGED <<second, mount, runs, figures>>

\* Mutant of AllStamps: T6 is not asked for.
AllStamps_NoT6(lines) == \A l \in lines : Submission(TaskOf(l)) \in lines

\* 4. Assertions: every task has T0 and T1, and T6.
AllStamps(lines) ==
  /\ \A l \in lines : Submission(TaskOf(l)) \in lines
  /\ \A l \in lines : Completion(TaskOf(l)) \in lines

\* 3. to 6.: the file is read once, and if nothing is missing the histogram is saved.
NbReport ==
  LET lines == Lines(NotebookRaw(nb.base), nb.id) IN
  /\ nb.pc = "load"
  /\ IF /\ lines # {} /\ ~Torn(NotebookRaw(nb.base), nb.id)
        /\ Cardinality({TaskOf(l) : l \in lines}) = Expected
        /\ AllStamps(lines)
     THEN /\ nb' = [nb EXCEPT !.pc = "passed"]
          /\ figures' = figures \cup {<<nb.base, nb.id>>}
     ELSE NbFail /\ UNCHANGED figures
  /\ UNCHANGED <<second, mount, runs>>

\* It is executed again.
NbAgain ==
  /\ nb.pc \in {"passed", "failed"}
  /\ nb' = Idle
  /\ UNCHANGED <<second, mount, runs, figures>>

-----------------------------------------------------------------------------
Ids == [second : 0 .. LastSecond, hash : Hashes]

Start ==
  \/ StartJob
  \/ \E out \in Outs, hash \in Hashes, count \in Counts : StartCli(out, hash, count)
Step(r) ==
  \/ MakeDir(r) \/ WriteLine(r) \/ Finish(r) \/ AssertResults(r)
  \/ \E end \in {"gone", "stopped", "torn"} : Stop(r, end)
Notebook ==
  \/ \E path \in Injected : NbSetup(path)
  \/ \E id \in Ids, given \in BOOLEAN : NbFind(id, given)
  \/ NbReport \/ NbAgain

Next == Tick \/ Start \/ Notebook \/ \E r \in DOMAIN runs : Step(r)

Spec == Init /\ [][Next]_vars

-----------------------------------------------------------------------------
(* Properties                                                              *)

RunType ==
  [kind : {"job", "cli"}, raw : Paths, id : [second : Nat, hash : Nat], count : Nat,
   state : {"named", "running", "done", "gone", "stopped", "torn", "passed", "rejected"},
   written : Nat, read : SUBSET (Nat \X Nat)]

\* Every variable keeps its shape, a run writes no more than its two lines for each
\* task, and one that has returned has written them all.
TypeOK ==
  /\ second \in Nat /\ mount \in Mounts
  /\ runs \in Seq(RunType)
  /\ nb \in [pc : {"setup", "find", "load", "passed", "failed"}, base : Paths,
             id : [second : Nat, hash : Nat]]
  /\ figures \subseteq Paths \X [second : Nat, hash : Nat]
  /\ \A r \in DOMAIN runs :
       /\ runs[r].written <= 2 * runs[r].count
       /\ runs[r].state \in {"done", "passed", "rejected"} =>
            runs[r].written = 2 * runs[r].count

\* The Phase 0 gate (smoke.py:3) says what happened to the run of its job, though other
\* runs may share the directory, and come and go, before it looks: if it passes it has
\* read the lines of that run, all of them and no others, and it rejects a run that
\* has returned only if another had taken the same run_id.
JobGateExact ==
  \A r \in DOMAIN runs :
    /\ runs[r].state = "passed" => runs[r].read = LinesOf(r)
    /\ runs[r].state = "rejected" => Sharing(r) # {r}

\* The histogram is about a complete run wherever the directory is one run's alone and
\* that run was to make no more than expected_tasks: it is never about one that is still
\* writing, was killed or failed, though the notebook may look at any time.  Runs that
\* share a directory, and longer ones cut short, may pass for a run of expected_tasks.
FigureComplete ==
  \A f \in figures, r \in DOMAIN runs :
    Within(NotebookRaw(f[1]), f[2]) = {r} /\ runs[r].count <= Expected =>
      runs[r].count = Expected /\ runs[r].written = 2 * Expected

\* notebooks/02_smoke_harness.ipynb:10 "Reads the most recent smoke run's `events.jsonl`":
\* executed without results_path after a smoke run has passed its gate, the notebook does
\* not fail in the setup for want of a raw directory.
SmokeRunFound ==
  [][nb.pc = "setup" /\ nb'.pc = "failed" /\ nb'.base = DefaultBase =>
       \A r \in DOMAIN runs : runs[r].state # "passed"]_vars
=============================================================================
