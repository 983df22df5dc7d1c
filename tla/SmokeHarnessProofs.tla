--------------------------- MODULE SmokeHarnessProofs ---------------------------
(***************************************************************************)
(* Proofs about SmokeHarness, for any number of runs, tasks and seconds:   *)
(* what a verdict of the two gates says of the runs.                       *)
(***************************************************************************)
EXTENDS SmokeHarness, FiniteSetTheorems, TLAPS

\* The job writes below a second "results" directory, as many tasks as its gate expects.
JobInv ==
  \A r \in DOMAIN runs : runs[r].kind = "job" =>
    runs[r].raw = RawDir(ResourcePath) /\ runs[r].count = Expected

\* The tasks of a directory whose two lines are there.
Completed(raw, id) ==
  UNION {{r} \X (1 .. runs[r].written \div 2) : r \in Within(raw, id)}

\* A directory with a histogram has as many of them as the notebook expects.
FigureCounted ==
  \A f \in figures : Cardinality(Completed(NotebookRaw(f[1]), f[2])) >= Expected

Inv == TypeOK /\ JobInv /\ JobGateExact /\ FigureCounted

\* Runs keep their directory and their lines.
Grows ==
  \A r \in DOMAIN runs :
    /\ r \in DOMAIN runs'
    /\ runs'[r].raw = runs[r].raw /\ runs'[r].id = runs[r].id
    /\ runs'[r].written \in Nat /\ runs[r].written \in Nat
    /\ runs'[r].written >= runs[r].written

-----------------------------------------------------------------------------
(* Lemmas about the sets of lines                                          *)

LEMMA ElementFact ==
  ASSUME NEW S, NEW s \in Seq(S), NEW i \in DOMAIN s
  PROVE  s[i] \in S
  OBVIOUS

LEMMA PairsCardinality ==
  ASSUME NEW r, NEW n \in Nat
  PROVE  IsFiniteSet({r} \X (1 .. n)) /\ Cardinality({r} \X (1 .. n)) = n
  <1>1. IsFiniteSet(1 .. n) /\ Cardinality(1 .. n) = n
    BY FS_Interval
  <1>2. IsFiniteSet({r}) /\ Cardinality({r}) = 1
    BY FS_Singleton
  <1> QED
    BY <1>1, <1>2, FS_Product

\* A first part of the tasks, or lines, of each of finitely many runs.
LEMMA PartsFinite ==
  ASSUME NEW n \in Nat, NEW W \in SUBSET (1 .. n), NEW g \in [W -> Nat]
  PROVE  IsFiniteSet(UNION {{r} \X (1 .. g[r]) : r \in W})
  <1> DEFINE T == {{r} \X (1 .. g[r]) : r \in W}
             f == [r \in W |-> {r} \X (1 .. g[r])]
  <1>1. IsFiniteSet(1 .. n)
    BY FS_Interval
  <1>2. IsFiniteSet(W)
    BY <1>1, FS_Subset
  <1>3. f \in Surjection(W, T)
    BY DEF Surjection
  <1>4. IsFiniteSet(T)
    BY <1>2, <1>3, FS_Surjection
  <1>5. ASSUME NEW t \in T PROVE IsFiniteSet(t)
    <2>1. PICK r \in W : t = {r} \X (1 .. g[r])
      OBVIOUS
    <2>2. g[r] \in Nat
      OBVIOUS
    <2>3. IsFiniteSet({r} \X (1 .. g[r]))
      BY <2>2, PairsCardinality
    <2> QED
      BY <2>1, <2>3
  <1> QED
    BY <1>4, <1>5, FS_UNION

LEMMA RunFacts ==
  ASSUME NEW s \in Seq(RunType), NEW r \in DOMAIN s
  PROVE  /\ s[r] \in RunType
         /\ s[r].written \in Nat /\ s[r].count \in Nat
         /\ s[r].written \div 2 \in Nat
         /\ r \in 1 .. Len(s) /\ r \in Nat
  <1>1. s[r] \in RunType
    BY ElementFact
  <1>2. s[r].written \in Nat /\ s[r].count \in Nat
    BY <1>1 DEF RunType
  <1> QED
    BY <1>1, <1>2

LEMMA CompletedFinite ==
  ASSUME runs \in Seq(RunType), NEW raw, NEW id
  PROVE  IsFiniteSet(Completed(raw, id))
  <1> DEFINE W == Within(raw, id)
             g == [r \in W |-> runs[r].written \div 2]
  <1>1. W \in SUBSET (1 .. Len(runs)) /\ Len(runs) \in Nat
    BY DEF Within
  <1>2. \A r \in W : runs[r].written \div 2 \in Nat
    BY RunFacts DEF Within
  <1>3. g \in [W -> Nat]
    BY <1>2
  <1>4. IsFiniteSet(UNION {{r} \X (1 .. g[r]) : r \in W})
    BY <1>1, <1>3, PartsFinite
  <1>5. Completed(raw, id) = UNION {{r} \X (1 .. g[r]) : r \in W}
    BY DEF Completed
  <1> QED
    BY <1>4, <1>5

LEMMA CompletedFiniteNext ==
  ASSUME runs' \in Seq(RunType), NEW raw, NEW id
  PROVE  IsFiniteSet(Completed(raw, id)')
  <1> DEFINE W == Within(raw, id)'
             g == [r \in W |-> runs'[r].written \div 2]
  <1>1. W \in SUBSET (1 .. Len(runs')) /\ Len(runs') \in Nat
    BY DEF Within
  <1>2. \A r \in W : runs'[r].written \div 2 \in Nat
    BY RunFacts DEF Within
  <1>3. g \in [W -> Nat]
    BY <1>2
  <1>4. IsFiniteSet(UNION {{r} \X (1 .. g[r]) : r \in W})
    BY <1>1, <1>3, PartsFinite
  <1>5. Completed(raw, id)' = UNION {{r} \X (1 .. g[r]) : r \in W}
    BY DEF Completed
  <1> QED
    BY <1>4, <1>5

\* What a directory has completed stays completed.
LEMMA CompletedGrows ==
  ASSUME runs' \in Seq(RunType), Grows, NEW raw, NEW id
  PROVE  Cardinality(Completed(raw, id)') >= Cardinality(Completed(raw, id))
  <1>1. Within(raw, id) \subseteq Within(raw, id)'
    BY DEF Grows, Within
  <1>2. ASSUME NEW r \in Within(raw, id)
        PROVE  1 .. runs[r].written \div 2 \subseteq 1 .. runs'[r].written \div 2
    <2>1. /\ runs'[r].written \in Nat /\ runs[r].written \in Nat
          /\ runs'[r].written >= runs[r].written
      BY DEF Grows, Within
    <2>2. \A a, b \in Nat : a >= b => a \div 2 >= b \div 2 /\ a \div 2 \in Nat /\ b \div 2 \in Nat
      OBVIOUS
    <2> QED
      BY <2>1, <2>2
  <1>3. Completed(raw, id) \in SUBSET Completed(raw, id)'
    BY <1>1, <1>2 DEF Completed
  <1>4. IsFiniteSet(Completed(raw, id)')
    BY CompletedFiniteNext
  <1>5. /\ IsFiniteSet(Completed(raw, id))
        /\ Cardinality(Completed(raw, id)) <= Cardinality(Completed(raw, id)')
    BY <1>3, <1>4, FS_Subset
  <1>6. Cardinality(Completed(raw, id)) \in Nat /\ Cardinality(Completed(raw, id)') \in Nat
    BY <1>4, <1>5, FS_CardinalityType
  <1> QED
    BY <1>5, <1>6

LEMMA FigureGrows ==
  ASSUME runs' \in Seq(RunType), runs \in Seq(RunType), Grows, FigureCounted,
         figures' = figures
  PROVE  FigureCounted'
  <1> SUFFICES ASSUME NEW f \in figures
               PROVE  Cardinality(Completed(NotebookRaw(f[1]), f[2])') >= Expected
    BY DEF FigureCounted
  <1>1. Cardinality(Completed(NotebookRaw(f[1]), f[2])) >= Expected
    BY DEF FigureCounted
  <1>2. Cardinality(Completed(NotebookRaw(f[1]), f[2])')
          >= Cardinality(Completed(NotebookRaw(f[1]), f[2]))
    BY CompletedGrows
  <1>3. /\ Cardinality(Completed(NotebookRaw(f[1]), f[2])) \in Nat
        /\ Cardinality(Completed(NotebookRaw(f[1]), f[2])') \in Nat
    BY CompletedFinite, CompletedFiniteNext, FS_CardinalityType
  <1> QED
    BY <1>1, <1>2, <1>3, NumberAssumption

-----------------------------------------------------------------------------
(* Type correctness and the steps of a run                                 *)

LEMMA JoinedPath ==
  ASSUME NEW p \in Paths, NEW q \in Paths
  PROVE  p \o q \in Paths /\ Len(p \o q) = Len(p) + Len(q) /\ Len(p) \in Nat
  BY DEF Paths

LEMMA ShortPath ==
  ASSUME NEW x \in FileNames, NEW y \in FileNames
  PROVE  /\ <<x>> \in Paths /\ Len(<<x>>) = 1
         /\ <<x, y>> \in Paths /\ Len(<<x, y>>) = 2
  BY DEF Paths

LEMMA Names ==
  /\ <<"results">> \in Paths /\ Len(<<"results">>) = 1
  /\ <<"raw">> \in Paths /\ Len(<<"raw">>) = 1
  /\ <<"results", "raw">> \in Paths /\ Len(<<"results", "raw">>) = 2
  BY ShortPath, PathAssumption

LEMMA PathFacts ==
  /\ mount \in Mounts => ResourcePath \in Paths /\ DefaultBase = ResourcePath
  /\ \A p \in Paths :
       /\ RawDir(p) \in Paths /\ Len(RawDir(p)) = Len(p) + 2
       /\ NotebookRaw(p) \in Paths /\ Len(NotebookRaw(p)) = Len(p) + 1
       /\ Len(p) \in Nat
  <1>1. mount \in Mounts => ResourcePath \in Paths /\ DefaultBase = ResourcePath
    BY PathAssumption, JoinedPath, Names DEF ResourcePath, DefaultBase
  <1>2. ASSUME NEW p \in Paths
        PROVE  /\ RawDir(p) \in Paths /\ Len(RawDir(p)) = Len(p) + 2
               /\ NotebookRaw(p) \in Paths /\ Len(NotebookRaw(p)) = Len(p) + 1
               /\ Len(p) \in Nat
    BY JoinedPath, Names DEF RawDir, NotebookRaw
  <1> QED
    BY <1>1, <1>2

LEMMA InitInv == Init => Inv
  <1> SUFFICES ASSUME Init PROVE Inv
    OBVIOUS
  <1>1. runs = <<>> /\ DOMAIN runs = {}
    BY DEF Init
  <1>2. TypeOK
    BY <1>1 DEF Init, TypeOK, Idle, NoRun, Paths
  <1> QED
    BY <1>1, <1>2 DEF Init, Inv, JobInv, JobGateExact, FigureCounted

\* A run takes its id.
LEMMA TakeIdStep ==
  ASSUME Inv, NEW kind \in {"job", "cli"}, NEW base \in Paths, NEW hash \in Hashes,
         NEW count \in Nat, TakeId(kind, base, hash, count),
         kind = "job" => base = ResourcePath /\ count = Expected
  PROVE  Inv'
  <1> DEFINE e == [kind |-> kind, raw |-> RawDir(base),
                   id |-> [second |-> second, hash |-> hash],
                   count |-> count, state |-> "named", written |-> 0, read |-> {}]
             n == Len(runs) + 1
  <1>1. runs \in Seq(RunType) /\ second \in Nat
    BY DEF Inv, TypeOK
  <1>2. e \in RunType
    BY <1>1, PathFacts, NumberAssumption DEF RunType
  <1>3. runs' = Append(runs, e) /\ UNCHANGED <<second, mount, nb, figures>>
    BY DEF TakeId
  <1>4. /\ runs' \in Seq(RunType) /\ DOMAIN runs' = DOMAIN runs \cup {n}
        /\ runs'[n] = e /\ \A r \in DOMAIN runs : runs'[r] = runs[r] /\ r # n
    <2> HIDE DEF e
    <2> QED
      BY <1>1, <1>2, <1>3
  <1>5. Grows
    BY <1>1, <1>4, RunFacts DEF Grows
  <1>6. TypeOK'
    BY <1>3, <1>4 DEF Inv, TypeOK
  <1>7. JobInv'
    <2> SUFFICES ASSUME NEW r \in DOMAIN runs', runs'[r].kind = "job"
                 PROVE  runs'[r].raw = RawDir(ResourcePath) /\ runs'[r].count = Expected
      BY <1>3 DEF JobInv, ResourcePath
    <2>1. CASE r = n
      BY <1>4, <2>1
    <2>2. CASE r \in DOMAIN runs
      BY <1>4, <2>2 DEF Inv, JobInv
    <2> QED
      BY <1>4, <2>1, <2>2
  <1>8. JobGateExact'
    <2> SUFFICES ASSUME NEW r \in DOMAIN runs'
                 PROVE  /\ runs'[r].state = "passed" => runs'[r].read = LinesOf(r)'
                        /\ runs'[r].state = "rejected" => Sharing(r)' # {r}
      BY DEF JobGateExact
    <2>1. CASE r = n
      BY <1>4, <2>1
    <2>2. CASE r \in DOMAIN runs
      <3>1. Sharing(r) \subseteq Sharing(r)' /\ r \in Sharing(r)
        BY <1>4, <2>2 DEF Sharing, Within
      <3>2. LinesOf(r)' = LinesOf(r)
        BY <1>4, <2>2 DEF LinesOf
      <3> QED
        BY <1>4, <2>2, <3>1, <3>2 DEF Inv, JobGateExact
    <2> QED
      BY <1>4, <2>1, <2>2
  <1>9. FigureCounted'
    BY <1>1, <1>3, <1>4, <1>5, FigureGrows DEF Inv
  <1> QED
    BY <1>6, <1>7, <1>8, <1>9 DEF Inv

\* A run goes on: it keeps what it is and its lines, and if it is the job that is judged
\* the verdict is right.
LEMMA RunStep ==
  ASSUME Inv, NEW r \in DOMAIN runs, NEW e \in RunType,
         runs' = [runs EXCEPT ![r] = e], UNCHANGED <<second, mount, nb, figures>>,
         e.kind = runs[r].kind, e.raw = runs[r].raw, e.id = runs[r].id,
         e.count = runs[r].count, e.written >= runs[r].written,
         e.written <= 2 * e.count,
         e.state \in {"done", "passed", "rejected"} => e.written = 2 * e.count,
         e.state = "passed" => e.read = {r} \X (1 .. e.written),
         e.state = "rejected" => Sharing(r) # {r}
  PROVE  Inv'
  <1>1. runs \in Seq(RunType)
    BY DEF Inv, TypeOK
  <1>2. /\ runs' \in Seq(RunType) /\ DOMAIN runs' = DOMAIN runs /\ runs'[r] = e
        /\ \A q \in DOMAIN runs : q # r => runs'[q] = runs[q]
    BY <1>1
  <1>3. Grows
    <2>1. e.written \in Nat
      BY DEF RunType
    <2> QED
      BY <1>1, <1>2, <2>1, RunFacts DEF Grows
  <1>4. TypeOK'
    BY <1>2 DEF Inv, TypeOK
  <1>5. JobInv'
    BY <1>2 DEF Inv, JobInv, ResourcePath
  <1>6. JobGateExact'
    <2> SUFFICES ASSUME NEW q \in DOMAIN runs
                 PROVE  /\ runs'[q].state = "passed" => runs'[q].read = LinesOf(q)'
                        /\ runs'[q].state = "rejected" => Sharing(q)' # {q}
      BY <1>2 DEF JobGateExact
    <2>1. Sharing(q)' = Sharing(q)
      BY <1>2 DEF Sharing, Within
    <2>2. CASE q = r
      BY <1>2, <2>1, <2>2 DEF LinesOf
    <2>3. CASE q # r
      BY <1>2, <2>1, <2>3 DEF LinesOf, Inv, JobGateExact
    <2> QED
      BY <2>2, <2>3
  <1>7. FigureCounted'
    BY <1>1, <1>2, <1>3, FigureGrows DEF Inv
  <1> QED
    BY <1>4, <1>5, <1>6, <1>7 DEF Inv

-----------------------------------------------------------------------------
(* The verdicts                                                            *)

\* Alone in its directory, a job that has returned has written what its gate asks for.
LEMMA AloneAccepted ==
  ASSUME Inv, NEW r \in DOMAIN runs, runs[r].state = "done", runs[r].count = Expected,
         Sharing(r) = {r}
  PROVE  /\ ~Torn(runs[r].raw, runs[r].id)
         /\ EventsComplete(Lines(runs[r].raw, runs[r].id))
  <1>1. ~Torn(runs[r].raw, runs[r].id)
    BY DEF Torn, Sharing
  <1>2. runs[r].written = 2 * Expected /\ Expected \in Nat
    BY NumberAssumption DEF Inv, TypeOK
  <1>3. Lines(runs[r].raw, runs[r].id) = {r} \X (1 .. 2 * Expected)
    BY <1>2 DEF Lines, LinesOf, Sharing
  <1>4. Cardinality({r} \X (1 .. 2 * Expected)) = 2 * Expected
    <2>1. 2 * Expected \in Nat
      BY <1>2
    <2> QED
      BY <2>1, PairsCardinality
  <1>5. ASSUME NEW l \in {r} \X (1 .. 2 * Expected)
        PROVE  {Submission(TaskOf(l)), Completion(TaskOf(l))} \subseteq {r} \X (1 .. 2 * Expected)
    <2>1. /\ l[1] = r /\ l[2] \in 1 .. 2 * Expected
          /\ l[2] \in Nat /\ l[2] >= 1 /\ l[2] <= 2 * Expected
      BY <1>2
    <2>2. \A i, x \in Nat : i >= 1 /\ i <= 2 * x =>
            /\ 2 * ((i + 1) \div 2) \in 1 .. 2 * x
            /\ 2 * ((i + 1) \div 2) - 1 \in 1 .. 2 * x
      OBVIOUS
    <2> QED
      BY <1>2, <2>1, <2>2 DEF TaskOf, Submission, Completion
  <1> QED
    BY <1>1, <1>3, <1>4, <1>5 DEF EventsComplete

\* If the gate of a job passes, the lines it has read are those of the job.
LEMMA PassedOwn ==
  ASSUME Inv, NEW r \in DOMAIN runs, runs[r].state = "done", runs[r].count = Expected,
         EventsComplete(Lines(runs[r].raw, runs[r].id))
  PROVE  Lines(runs[r].raw, runs[r].id) = {r} \X (1 .. runs[r].written)
  <1> DEFINE W == Sharing(r)
             g == [q \in W |-> runs[q].written]
             lines == Lines(runs[r].raw, runs[r].id)
             own == {r} \X (1 .. runs[r].written)
  <1>1. runs[r].written = 2 * Expected /\ Expected \in Nat /\ runs \in Seq(RunType)
    BY NumberAssumption DEF Inv, TypeOK
  <1>2. W \in SUBSET (1 .. Len(runs)) /\ Len(runs) \in Nat
    BY <1>1 DEF Sharing, Within
  <1>3. \A q \in W : runs[q].written \in Nat
    BY <1>1, RunFacts DEF Sharing, Within
  <1>4. g \in [W -> Nat]
    BY <1>3
  <1>5. IsFiniteSet(UNION {{q} \X (1 .. g[q]) : q \in W})
    BY <1>2, <1>4, PartsFinite
  <1>6. lines = UNION {{q} \X (1 .. g[q]) : q \in W}
    BY DEF Lines, LinesOf, Sharing
  <1>7. IsFiniteSet(lines)
    BY <1>5, <1>6
  <1>8. own \in SUBSET lines
    BY DEF Lines, LinesOf, Within
  <1>9. Cardinality(own) = 2 * Expected
    <2>1. runs[r].written \in Nat
      BY <1>1
    <2> QED
      BY <1>1, <2>1, PairsCardinality
  <1>10. Cardinality(lines) = 2 * Expected
    BY DEF EventsComplete
  <1> QED
    BY <1>7, <1>8, <1>9, <1>10, FS_Subset

LEMMA AssertResultsStep ==
  ASSUME Inv, NEW r \in DOMAIN runs, AssertResults(r)
  PROVE  Inv'
  <1> DEFINE lines == Lines(runs[r].raw, runs[r].id)
             ok == /\ runs[r].count = Expected
                   /\ ~Torn(runs[r].raw, runs[r].id)
                   /\ EventsComplete(lines)
             e == [runs[r] EXCEPT !.state = IF ok THEN "passed" ELSE "rejected", !.read = lines]
  <1>1. /\ runs \in Seq(RunType) /\ runs[r].kind = "job" /\ runs[r].state = "done"
        /\ runs[r].written = 2 * runs[r].count /\ runs[r].count = Expected
        /\ runs' = [runs EXCEPT ![r].state = IF ok THEN "passed" ELSE "rejected",
                                ![r].read = lines]
        /\ UNCHANGED <<second, mount, nb, figures>>
    BY DEF AssertResults, Inv, TypeOK, JobInv
  <1>2. lines \subseteq Nat \X Nat
    <2> SUFFICES ASSUME NEW l \in lines PROVE l \in Nat \X Nat
      OBVIOUS
    <2>1. PICK q \in DOMAIN runs : l \in {q} \X (1 .. runs[q].written)
      BY DEF Lines, LinesOf, Within
    <2>2. q \in Nat /\ runs[q].written \in Nat
      BY <1>1, RunFacts
    <2> QED
      BY <2>1, <2>2
  <1>3. runs[r] \in RunType
    BY <1>1, RunFacts
  <1>4. /\ e \in RunType
        /\ e.kind = runs[r].kind /\ e.raw = runs[r].raw /\ e.id = runs[r].id
        /\ e.count = runs[r].count /\ e.written = runs[r].written
        /\ e.state = IF ok THEN "passed" ELSE "rejected"
        /\ e.read = lines
    <2> HIDE DEF lines, ok
    <2> QED
      BY <1>2, <1>3 DEF RunType
  <1>5. runs' = [runs EXCEPT ![r] = e]
    <2> HIDE DEF lines, ok
    <2> QED
      BY <1>1, <1>3
  <1>6. e.state = "passed" => e.read = {r} \X (1 .. e.written)
    BY <1>1, <1>4, PassedOwn
  <1>7. e.state = "rejected" => Sharing(r) # {r}
    BY <1>1, <1>4, AloneAccepted
  <1>8. runs[r].written \in Nat /\ runs[r].count \in Nat
    BY <1>1, RunFacts
  <1>9. /\ e.written >= runs[r].written /\ e.written <= 2 * e.count
        /\ e.written = 2 * e.count
    BY <1>1, <1>4, <1>8
  <1>10. UNCHANGED <<second, mount, nb, figures>>
    BY <1>1
  <1> HIDE DEF e, ok, lines
  <1> QED
    BY <1>4, <1>5, <1>6, <1>7, <1>9, <1>10, RunStep

LEMMA StepStep ==
  ASSUME Inv, NEW r \in DOMAIN runs, Step(r)
  PROVE  Inv'
  <1>1. /\ runs \in Seq(RunType) /\ runs[r] \in RunType
        /\ runs[r].written \in Nat /\ runs[r].count \in Nat
        /\ runs[r].written <= 2 * runs[r].count
    BY RunFacts DEF Inv, TypeOK
  <1>2. CASE MakeDir(r)
    <2> DEFINE e == [runs[r] EXCEPT !.state = "running"]
    <2>1. runs' = [runs EXCEPT ![r] = e] /\ UNCHANGED <<second, mount, nb, figures>>
      BY <1>1, <1>2 DEF MakeDir
    <2>2. /\ e \in RunType /\ e.state = "running" /\ e.kind = runs[r].kind
          /\ e.raw = runs[r].raw /\ e.id = runs[r].id /\ e.count = runs[r].count
          /\ e.written = runs[r].written
      BY <1>1 DEF RunType
    <2>3. e.written >= runs[r].written /\ e.written <= 2 * e.count
      BY <1>1, <2>2
    <2> HIDE DEF e
    <2> QED
      BY <2>1, <2>2, <2>3, RunStep
  <1>3. CASE WriteLine(r)
    <2> DEFINE e == [runs[r] EXCEPT !.written = runs[r].written + 1]
    <2>1. /\ runs' = [runs EXCEPT ![r] = e] /\ UNCHANGED <<second, mount, nb, figures>>
          /\ runs[r].written < 2 * runs[r].count /\ runs[r].state = "running"
      BY <1>1, <1>3 DEF WriteLine
    <2>2. /\ e \in RunType /\ e.state = "running" /\ e.kind = runs[r].kind
          /\ e.raw = runs[r].raw /\ e.id = runs[r].id /\ e.count = runs[r].count
          /\ e.written = runs[r].written + 1
      <3>1. runs[r].written + 1 \in Nat
        BY <1>1
      <3> QED
        BY <1>1, <2>1, <3>1 DEF RunType
    <2>3. e.written >= runs[r].written /\ e.written <= 2 * e.count
      BY <1>1, <2>1, <2>2
    <2> HIDE DEF e
    <2> QED
      BY <1>1, <2>1, <2>2, <2>3, RunStep
  <1>4. CASE Finish(r)
    <2> DEFINE e == [runs[r] EXCEPT !.state = "done"]
    <2>1. /\ runs' = [runs EXCEPT ![r] = e] /\ UNCHANGED <<second, mount, nb, figures>>
          /\ runs[r].written = 2 * runs[r].count
      BY <1>1, <1>4 DEF Finish
    <2>2. /\ e \in RunType /\ e.state = "done" /\ e.kind = runs[r].kind
          /\ e.raw = runs[r].raw /\ e.id = runs[r].id /\ e.count = runs[r].count
          /\ e.written = runs[r].written
      BY <1>1 DEF RunType
    <2> HIDE DEF e
    <2> QED
      BY <1>1, <2>1, <2>2, RunStep
  <1>5. ASSUME NEW end \in {"gone", "stopped", "torn"}, Stop(r, end) PROVE Inv'
    <2> DEFINE e == [runs[r] EXCEPT !.state = end]
    <2>1. runs' = [runs EXCEPT ![r] = e] /\ UNCHANGED <<second, mount, nb, figures>>
      BY <1>1, <1>5 DEF Stop
    <2>2. /\ e \in RunType /\ e.state = end /\ e.kind = runs[r].kind
          /\ e.raw = runs[r].raw /\ e.id = runs[r].id /\ e.count = runs[r].count
          /\ e.written = runs[r].written
      BY <1>1, <1>5 DEF RunType
    <2>3. e.written >= runs[r].written /\ e.written <= 2 * e.count
      BY <1>1, <2>2
    <2>4. e.state \notin {"done", "passed", "rejected"}
      BY <1>5, <2>2
    <2> HIDE DEF e
    <2> QED
      BY <2>1, <2>2, <2>3, <2>4, RunStep
  <1> QED
    BY <1>2, <1>3, <1>4, <1>5, AssertResultsStep DEF Step

-----------------------------------------------------------------------------
(* The notebook                                                            *)

\* What passes the assertions are tasks with both lines.
LEMMA ReportedCompleted ==
  ASSUME Inv, NEW raw, NEW id, AllStamps(Lines(raw, id))
  PROVE  {TaskOf(l) : l \in Lines(raw, id)} \subseteq Completed(raw, id)
  <1> SUFFICES ASSUME NEW l \in Lines(raw, id)
               PROVE  TaskOf(l) \in Completed(raw, id)
    OBVIOUS
  <1>1. PICK r \in Within(raw, id) : l \in {r} \X (1 .. runs[r].written)
    BY DEF Lines, LinesOf
  <1>2. runs[r].written \in Nat /\ l[1] = r /\ l[2] \in Nat /\ l[2] >= 1
    BY <1>1, RunFacts DEF Inv, TypeOK, Within
  <1>3. Completion(TaskOf(l)) \in Lines(raw, id)
    BY DEF AllStamps
  <1>4. 2 * ((l[2] + 1) \div 2) \in 1 .. runs[r].written
    BY <1>2, <1>3 DEF Completion, TaskOf, Lines, LinesOf
  <1>5. (l[2] + 1) \div 2 \in 1 .. runs[r].written \div 2
    <2>1. \A i, w \in Nat : i >= 1 /\ 2 * ((i + 1) \div 2) <= w =>
            (i + 1) \div 2 \in 1 .. w \div 2
      OBVIOUS
    <2> QED
      BY <1>2, <1>4, <2>1
  <1> QED
    BY <1>1, <1>2, <1>5 DEF TaskOf, Completed

\* The notebook does not touch the runs.
LEMMA NotebookStep ==
  ASSUME Inv, Notebook
  PROVE  Inv'
  <1>1. UNCHANGED <<second, mount, runs>>
    BY DEF Notebook, NbSetup, NbFind, NbReport, NbAgain
  <1>2. JobInv' /\ JobGateExact'
    BY <1>1 DEF Inv, JobInv, JobGateExact, ResourcePath, LinesOf, Sharing, Within
  <1>3. ASSUME NEW f, NEW raw, NEW id
        PROVE  Completed(raw, id)' = Completed(raw, id)
    BY <1>1 DEF Completed, Within
  <1>4. TypeOK' /\ FigureCounted'
    <2>1. ASSUME NEW path \in Injected, NbSetup(path) PROVE TypeOK' /\ figures' = figures
      <3>1. path \in Paths /\ DefaultBase \in Paths
        BY PathAssumption, PathFacts DEF Inv, TypeOK
      <3> QED
        BY <1>1, <2>1, <3>1 DEF NbSetup, NbFail, Inv, TypeOK
    <2>2. ASSUME NEW id \in Ids, NEW given \in BOOLEAN, NbFind(id, given)
          PROVE  TypeOK' /\ figures' = figures
      <3>1. id \in [second : Nat, hash : Nat]
        <4>1. /\ id = [second |-> id.second, hash |-> id.hash]
              /\ id.second \in 0 .. LastSecond /\ id.hash \in Hashes
          BY DEF Ids
        <4>2. id.second \in Nat /\ id.hash \in Nat
          BY <4>1, NumberAssumption
        <4> QED
          BY <4>1, <4>2
      <3> QED
        BY <1>1, <2>2, <3>1 DEF NbFind, NbFail, Inv, TypeOK
    <2>3. CASE NbAgain
      <3>1. TypeOK' /\ figures' = figures
        BY <1>1, <2>3 DEF NbAgain, Idle, NoRun, Inv, TypeOK, Paths
      <3> QED
        BY <1>3, <3>1 DEF Inv, FigureCounted
    <2>4. CASE NbReport
      <3> DEFINE lines == Lines(NotebookRaw(nb.base), nb.id)
      <3>1. TypeOK'
        BY <1>1, <2>4 DEF NbReport, NbFail, Inv, TypeOK
      <3>2. CASE figures' = figures
        BY <1>3, <3>1, <3>2 DEF Inv, FigureCounted
      <3>3. CASE /\ figures' = figures \cup {<<nb.base, nb.id>>}
                 /\ Cardinality({TaskOf(l) : l \in lines}) = Expected
                 /\ AllStamps(lines)
        <4> DEFINE all == Completed(NotebookRaw(nb.base), nb.id)
                   told == {TaskOf(l) : l \in lines}
        <4>1. told \in SUBSET all
          BY <3>3, ReportedCompleted
        <4>2. IsFiniteSet(all)
          BY CompletedFinite DEF Inv, TypeOK
        <4>3. Cardinality(all) >= Expected
          <5>1. Cardinality(told) <= Cardinality(all)
            BY <4>1, <4>2, FS_Subset
          <5>2. Cardinality(all) \in Nat
            BY <4>2, FS_CardinalityType
          <5> HIDE DEF all, told, lines
          <5>3. Cardinality(told) = Expected
            BY <3>3 DEF told
          <5> QED
            BY <5>1, <5>2, <5>3, NumberAssumption
        <4> QED
          BY <1>3, <3>1, <3>3, <4>3 DEF Inv, FigureCounted
      <3> QED
        BY <2>4, <3>2, <3>3 DEF NbReport
    <2>5. figures' = figures => FigureCounted'
      BY <1>3 DEF Inv, FigureCounted
    <2> QED
      BY <2>1, <2>2, <2>3, <2>4, <2>5 DEF Notebook
  <1> QED
    BY <1>2, <1>4 DEF Inv

LEMMA NextInv == Inv /\ [Next]_vars => Inv'
  <1> SUFFICES ASSUME Inv, [Next]_vars PROVE Inv'
    OBVIOUS
  <1>1. CASE Tick
    <2>1. UNCHANGED <<mount, runs, nb, figures>> /\ second' \in Nat
      BY <1>1 DEF Tick, Inv, TypeOK
    <2> QED
      BY <2>1 DEF Inv, TypeOK, JobInv, ResourcePath, JobGateExact, LinesOf, Sharing, Within,
                  FigureCounted, Completed
  <1>2. CASE Start
    <2>1. CASE StartJob
      <3>1. ResourcePath \in Paths /\ SmokeHash \in Hashes /\ Expected \in Nat
        BY PathFacts, NumberAssumption DEF Inv, TypeOK
      <3> QED
        BY <2>1, <3>1, TakeIdStep DEF StartJob
    <2>2. ASSUME NEW out \in Outs, NEW hash \in Hashes, NEW count \in Counts,
                 StartCli(out, hash, count)
          PROVE  Inv'
      <3>1. out \in Paths /\ count \in Nat
        BY PathAssumption, NumberAssumption
      <3> QED
        BY <2>2, <3>1, TakeIdStep DEF StartCli
    <2> QED
      BY <1>2, <2>1, <2>2 DEF Start
  <1>3. CASE Notebook
    BY <1>3, NotebookStep
  <1>4. ASSUME NEW r \in DOMAIN runs, Step(r) PROVE Inv'
    BY <1>4, StepStep
  <1>5. CASE UNCHANGED vars
    BY <1>5 DEF vars, Inv, TypeOK, JobInv, ResourcePath, JobGateExact, LinesOf, Sharing,
                Within, FigureCounted, Completed
  <1> QED
    BY <1>1, <1>2, <1>3, <1>4, <1>5 DEF Next

\* The inductive invariant holds in every reachable state.
THEOREM InvariantCorrect == Spec => []Inv
  BY InitInv, NextInv, PTL DEF Spec

\* Every variable keeps its shape, for any number of runs.
THEOREM TypeCorrect == Spec => []TypeOK
  <1>1. Inv => TypeOK
    BY DEF Inv
  <1> QED
    BY <1>1, InvariantCorrect, PTL

\* The verdict of assert_smoke_results is about the run of its own job.
THEOREM JobGateCorrect == Spec => []JobGateExact
  <1>1. Inv => JobGateExact
    BY DEF Inv
  <1> QED
    BY <1>1, InvariantCorrect, PTL

\* Where the counted tasks are all of one run that was to make no more, they are all
\* that it was to make.
LEMMA AloneComplete ==
  ASSUME Inv, NEW f \in figures, NEW r \in DOMAIN runs,
         Within(NotebookRaw(f[1]), f[2]) = {r}, runs[r].count <= Expected
  PROVE  runs[r].count = Expected /\ runs[r].written = 2 * Expected
<1> DEFINE n == runs[r].written \div 2
<1>1. /\ runs[r].written \in Nat /\ runs[r].count \in Nat /\ Expected \in Nat
      /\ runs[r].written <= 2 * runs[r].count
  BY RunFacts, NumberAssumption DEF Inv, TypeOK
<1>2. n \in Nat
  BY <1>1
<1>3. Completed(NotebookRaw(f[1]), f[2]) = {r} \X (1 .. n)
  BY DEF Completed
<1>4. Cardinality({r} \X (1 .. n)) = n
  BY <1>2, PairsCardinality
<1>5. n >= Expected
  BY <1>3, <1>4 DEF Inv, FigureCounted
<1> QED
  BY <1>1, <1>5

\* A histogram of a directory that is one run's alone is never about a run that is still
\* writing, was killed or failed, unless it was to make more tasks than are expected.
THEOREM FigureCorrect == Spec => []FigureComplete
  <1>1. Inv => FigureComplete
    BY AloneComplete DEF FigureComplete
  <1> QED
    BY <1>1, InvariantCorrect, PTL

-----------------------------------------------------------------------------
(* Every run keeps the log of a run of the producer                        *)

\* How far a run is, in the words of RunLog: the verdict of a gate, and where in a line
\* a run was cut, are not its own affair.
LogState(state) ==
  IF state \in {"done", "passed", "rejected"} THEN "done"
  ELSE IF state \in {"gone", "stopped", "torn"} THEN "stopped" ELSE state

Log(r) == INSTANCE RunLog
  WITH count <- runs[r].count, state <- LogState(runs[r].state), written <- runs[r].written

\* A new run begins a log and the others are left alone.
LEMMA TakeIdLog ==
  ASSUME Inv, NEW kind, NEW base, NEW hash, NEW n \in Nat, TakeId(kind, base, hash, n)
  PROVE  /\ \A r \in DOMAIN runs : [Log(r)!Next]_(Log(r)!lvars)
         /\ \A r \in DOMAIN runs' \ DOMAIN runs : Log(r)!Init'
  <1> DEFINE e == [kind |-> kind, raw |-> RawDir(base),
                   id |-> [second |-> second, hash |-> hash],
                   count |-> n, state |-> "named", written |-> 0, read |-> {}]
  <1>1. runs \in Seq(RunType) /\ runs' = Append(runs, e)
    BY DEF Inv, TypeOK, TakeId
  <1>2. /\ DOMAIN runs' = DOMAIN runs \cup {Len(runs) + 1} /\ runs'[Len(runs) + 1] = e
        /\ \A r \in DOMAIN runs : runs'[r] = runs[r]
    <2> HIDE DEF e
    <2> QED
      BY <1>1
  <1>3. ASSUME NEW r \in DOMAIN runs PROVE UNCHANGED Log(r)!lvars
    BY <1>2, <1>3 DEF Log!lvars
  <1>4. ASSUME NEW r \in DOMAIN runs' \ DOMAIN runs PROVE Log(r)!Init'
    <2>1. runs'[r] = e
      BY <1>2
    <2> QED
      BY <2>1 DEF Log!Init, LogState
  <1> QED
    BY <1>3, <1>4

\* The step of one run is a step of its log, or one of the gates reads it.
LEMMA StepLog ==
  ASSUME Inv, NEW r \in DOMAIN runs, Step(r)
  PROVE  /\ \A q \in DOMAIN runs : [Log(q)!Next]_(Log(q)!lvars)
         /\ DOMAIN runs' = DOMAIN runs
  <1>1. runs \in Seq(RunType) /\ r \in DOMAIN runs /\ runs[r] \in RunType
    BY RunFacts DEF Inv, TypeOK
  <1>2. ASSUME NEW e, runs' = [runs EXCEPT ![r] = e]
        PROVE  /\ DOMAIN runs' = DOMAIN runs /\ runs'[r] = e
               /\ \A q \in DOMAIN runs : q # r => runs'[q] = runs[q]
    BY <1>1, <1>2
  <1>3. ASSUME NEW e, runs' = [runs EXCEPT ![r] = e],
               \/ /\ e.count = runs[r].count /\ e.written = runs[r].written
                  /\ LogState(e.state) = LogState(runs[r].state)
               \/ /\ e.count = runs[r].count /\ e.written = runs[r].written
                  /\ runs[r].state = "named" /\ LogState(e.state) \in {"running", "stopped"}
               \/ /\ e.count = runs[r].count /\ e.written = runs[r].written
                  /\ runs[r].state = "running"
                  /\ \/ LogState(e.state) = "stopped"
                     \/ LogState(e.state) = "done" /\ e.written = 2 * e.count
               \/ /\ e.count = runs[r].count /\ e.written = runs[r].written + 1
                  /\ runs[r].state = "running" /\ e.state = "running"
                  /\ runs[r].written < 2 * runs[r].count
        PROVE  /\ \A q \in DOMAIN runs : [Log(q)!Next]_(Log(q)!lvars)
               /\ DOMAIN runs' = DOMAIN runs
    <2>1. runs'[r] = e /\ DOMAIN runs' = DOMAIN runs
      BY <1>2, <1>3
    <2>2. [Log(r)!Next]_(Log(r)!lvars)
      BY <1>3, <2>1 DEF Log!Next, Log!MakeDir, Log!WriteLine, Log!Finish, Log!Stop, Log!Goto,
         Log!lvars, LogState
    <2>3. ASSUME NEW q \in DOMAIN runs, q # r PROVE UNCHANGED Log(q)!lvars
      BY <1>2, <1>3, <2>3 DEF Log!lvars
    <2> QED
      BY <2>1, <2>2, <2>3
  <1>4. CASE MakeDir(r)
    <2>1. runs' = [runs EXCEPT ![r] = [runs[r] EXCEPT !.state = "running"]]
      BY <1>4 DEF MakeDir
    <2> QED
      BY <1>1, <1>3, <1>4, <2>1 DEF MakeDir, RunType, LogState
  <1>5. CASE WriteLine(r)
    <2>1. runs' = [runs EXCEPT ![r] = [runs[r] EXCEPT !.written = @ + 1]]
      BY <1>5 DEF WriteLine
    <2> QED
      BY <1>1, <1>3, <1>5, <2>1 DEF WriteLine, RunType, LogState
  <1>6. CASE Finish(r)
    <2>1. runs' = [runs EXCEPT ![r] = [runs[r] EXCEPT !.state = "done"]]
      BY <1>6 DEF Finish
    <2> QED
      BY <1>1, <1>3, <1>6, <2>1 DEF Finish, RunType, LogState
  <1>7. ASSUME NEW end \in {"gone", "stopped", "torn"}, Stop(r, end)
        PROVE  /\ \A q \in DOMAIN runs : [Log(q)!Next]_(Log(q)!lvars)
               /\ DOMAIN runs' = DOMAIN runs
    <2>1. runs' = [runs EXCEPT ![r] = [runs[r] EXCEPT !.state = end]]
      BY <1>7 DEF Stop
    <2> QED
      BY <1>1, <1>3, <1>7, <2>1 DEF Stop, RunType, LogState
  <1>8. CASE AssertResults(r)
    <2>1. PICK verdict \in {"passed", "rejected"} :
            \E lines : runs' = [runs EXCEPT ![r] =
                                  [runs[r] EXCEPT !.state = verdict, !.read = lines]]
      BY <1>8 DEF AssertResults
    <2> QED
      BY <1>1, <1>3, <1>8, <2>1 DEF AssertResults, RunType, LogState
  <1> QED
    BY <1>4, <1>5, <1>6, <1>7, <1>8 DEF Step

\* The runs that the gates look at are runs as RunLog has them, whatever else happens
\* around them: each begins a log and every step leaves it alone or takes it further.
\* That a run of the producer in process keeps such a log is shown in ProducerProgress.
THEOREM RunsKeepLog ==
  Spec => [][ /\ \A r \in DOMAIN runs : [Log(r)!Next]_(Log(r)!lvars)
              /\ \A r \in DOMAIN runs' \ DOMAIN runs : Log(r)!Init' ]_vars
  <1> DEFINE Keeps == /\ \A r \in DOMAIN runs : [Log(r)!Next]_(Log(r)!lvars)
                      /\ \A r \in DOMAIN runs' \ DOMAIN runs : Log(r)!Init'
  <1>1. Inv /\ [Next]_vars => [Keeps]_vars
    <2> SUFFICES ASSUME Inv, Next PROVE Keeps
      OBVIOUS
    <2>1. ASSUME UNCHANGED runs PROVE Keeps
      BY <2>1 DEF Log!lvars
    <2>2. CASE Tick
      BY <2>1, <2>2 DEF Tick
    <2>3. CASE Notebook
      BY <2>1, <2>3 DEF Notebook, NbSetup, NbFind, NbReport, NbAgain
    <2>4. CASE StartJob
      BY <2>4, TakeIdLog, NumberAssumption DEF StartJob
    <2>5. ASSUME NEW out \in Outs, NEW hash \in Hashes, NEW n \in Counts,
                 StartCli(out, hash, n)
          PROVE  Keeps
      <3>1. n \in Nat
        BY NumberAssumption
      <3> QED
        BY <2>5, <3>1, TakeIdLog DEF StartCli
    <2>6. ASSUME NEW r \in DOMAIN runs, Step(r) PROVE Keeps
      BY <2>6, StepLog
    <2> QED
      BY <2>2, <2>3, <2>4, <2>5, <2>6 DEF Next, Start
  <1> HIDE DEF Keeps
  <1>2. Spec => [][Keeps]_vars
    BY <1>1, InvariantCorrect, PTL DEF Spec
  <1> QED
    BY <1>2 DEF Keeps
=============================================================================
