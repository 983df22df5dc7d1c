--------------------------- MODULE ProducerProgress ---------------------------
(***************************************************************************)
(* Proofs about how far a run of Producer has got: every step of the       *)
(* producer brings its end nearer by at least one of a number of steps     *)
(* known when it begins, there is always a step it can take, and a run in  *)
(* process writes the log that the gates over a smoke run take for granted.*)
(***************************************************************************)
EXTENDS ProducerProofs

\* Passes the loop may make in all.
Passes == IF spec.mode \in Timed THEN MaxTasks ELSE count

\* More than the steps to the next pass, or through _collect, from here.
Weight ==
  CASE pc = "construct"  -> 4
    [] pc = "enter"      -> 3
    [] pc = "submit"     -> 2
    [] pc = "publishing" -> 12
    [] pc = "drain"      -> 1
    [] pc = "collect"    -> 8
    [] pc = "get"        -> 7
    [] pc = "e2e"        -> 6
    [] pc = "verdict"    -> 5
    [] OTHER             -> 0

\* A bound on the steps the producer has still to make.
Effort == 16 * (Passes - attempts) + 8 * Len(pending) + Weight

\* The producer can go on: the disjunction of the guards of ProducerStep.
Ready ==
  \/ pc \in {"construct", "enter", "publishing", "collect", "e2e", "verdict"}
  \/ pc = "submit" /\ (attempts < Passes \/ spec.mode \in Timed \/ attempts >= count)
  \/ pc = "get" /\ (~always_eager \/ Ignored \/ backend[cur] \in Finals)
  \/ pc = "drain"

\* No loop makes more passes than it may.
PassesBounded == attempts <= Passes

\* Every task an eager run holds was run when it was submitted, and its result stays:
\* only a backend outside the process forgets.
EagerStored ==
  /\ pc \in {"construct", "enter"} => attempts = 0 /\ ~always_eager
  /\ always_eager =>
       spec.memory /\ \A t \in Tasks : outcome[t] = "submitted" => backend[t] \in Finals

-----------------------------------------------------------------------------
(* Every step of the producer spends effort                                *)

LEMMA EffortFacts ==
  ASSUME TypeOK, PassesBounded
  PROVE  /\ Passes \in Nat /\ attempts \in Nat /\ Len(pending) \in Nat /\ Weight \in 0 .. 12
         /\ Effort \in Nat
<1>1. Passes \in Nat /\ attempts \in Nat
  BY BoundsAssumption DEF TypeOK, ControlOK, Passes
<1>2. Len(pending) \in Nat
  BY LenProperties DEF TypeOK, ControlOK
<1>3. Weight \in 0 .. 12
  BY DEF Weight
<1>. QED BY <1>1, <1>2, <1>3 DEF Effort, PassesBounded

LEMMA EffortStep ==
  ASSUME TypeOK, CurInHand, PassesBounded, [Next]_vars
  PROVE  /\ PassesBounded'
         /\ Effort' < Effort \/ (Effort' = Effort /\ UNCHANGED producer)
<1>0. /\ Passes \in Nat /\ attempts \in Nat /\ Len(pending) \in Nat /\ Weight \in 0 .. 12
      /\ pending \in Seq(Tasks) /\ attempts <= Passes
  BY EffortFacts DEF TypeOK, ControlOK, PassesBounded
<1>s. UNCHANGED <<spec, count>> => Passes' = Passes
  BY DEF Passes
<1>1. CASE UNCHANGED producer
  BY <1>1, <1>0 DEF producer, config, locals, Effort, PassesBounded, Passes, Weight
<1>2. ASSUME UNCHANGED <<spec, count, attempts, pending>>, Weight' \in Nat, Weight' < Weight
      PROVE  PassesBounded' /\ Effort' < Effort
  BY <1>2, <1>0, <1>s DEF Effort, PassesBounded
<1>3. CASE Construct \/ Enter \/ EndSubmit \/ Report
  BY <1>3, <1>2 DEF Construct, Enter, EndSubmit, Report, ExitOf, config, locals, Weight
<1>4. CASE PublishError \/ RecordPublish \/ GetReturns \/ GetFails \/ RecordE2e \/ Verdict
  BY <1>4, <1>2 DEF PublishError, RecordPublish, GetReturns, GetFails, RecordE2e, Verdict,
     config, locals, Weight
<1>5. CASE Abort \/ Kill
  <2>1. UNCHANGED <<spec, count, attempts, pending>> /\ Weight' = 0
    BY <1>5 DEF Abort, Kill, config, locals, Weight
  <2>2. Weight # 0
    BY <1>5 DEF Abort, Kill, Weight, TypeOK, ControlOK, InHand, Stopped
  <2>. QED BY <1>0, <1>2, <2>1, <2>2
<1>6. CASE SubmitBegin
  <2>1. attempts < Passes /\ attempts' = attempts + 1 /\ UNCHANGED <<spec, count, pending>>
    BY <1>6 DEF SubmitBegin, Passes, config
  <2>2. Weight = 2 /\ Weight' = 12
    BY <1>6 DEF SubmitBegin, Weight
  <2>. QED BY <1>0, <1>s, <2>1, <2>2 DEF Effort, PassesBounded
<1>7. CASE PublishOk
  <2>1. UNCHANGED <<spec, count, attempts>> /\ Weight = 12
    BY <1>7 DEF PublishOk, config, Weight
  <2>2. CASE spec.mode = "closed_loop"
    <3>1. UNCHANGED pending /\ Weight' = 8
      BY <1>7, <2>2 DEF PublishOk, Weight
    <3>. QED BY <1>2, <2>1, <3>1
  <2>3. CASE spec.mode # "closed_loop"
    <3>1. pending' = Append(pending, attempts) /\ Weight' = 2
      BY <1>7, <2>3 DEF PublishOk, Weight
    <3>2. attempts \in Tasks
      BY <1>7 DEF PublishOk, CurInHand
    <3>3. Len(pending') = Len(pending) + 1
      BY <1>0, <3>1, <3>2, AppendProperties
    <3>. QED BY <1>0, <1>s, <2>1, <3>1, <3>3 DEF Effort, PassesBounded
  <2>. QED BY <2>2, <2>3
<1>8. CASE TakeNext
  <2>1. UNCHANGED <<spec, count, attempts>> /\ Weight = 1 /\ Weight' = 8
    BY <1>8 DEF TakeNext, config, Weight
  <2>2. Len(pending') = Len(pending) - 1
    BY <1>0, <1>8, HeadTailProperties DEF TakeNext
  <2>. QED BY <1>0, <1>s, <2>1, <2>2 DEF Effort, PassesBounded
<1>9. CASE Environment
  BY <1>9, <1>1, EnvironmentFrame DEF producer, config, locals, tally
<1>10. CASE UNCHANGED vars
  BY <1>10, <1>1 DEF vars, producer
<1>. QED
  BY <1>3, <1>4, <1>5, <1>6, <1>7, <1>8, <1>9, <1>10 DEF Next, ProducerStep

\* A run makes at most 16 steps for every pass and four more, however it is interleaved
\* with the broker, the workers and the backend: Effort begins there, is never less
\* than zero, every step of the producer lowers it and no other raises it.
THEOREM RunIsBounded ==
  Spec => /\ [](Effort \in 0 .. 16 * Passes + 4)
          /\ [][Effort' < Effort \/ (Effort' = Effort /\ UNCHANGED producer)]_vars
<1> DEFINE Below == Effort <= 16 * Passes + 4
<1>1. Init => PassesBounded /\ Below
  <2> SUFFICES ASSUME Init PROVE PassesBounded /\ Below
    OBVIOUS
  <2>1. attempts = 0 /\ Len(pending) = 0 /\ Weight = 4 /\ Passes \in Nat
    BY BoundsAssumption DEF Init, Weight, Passes
  <2>. QED BY <2>1 DEF Effort, PassesBounded
<1>2. TypeOK /\ CurInHand /\ PassesBounded /\ Below /\ [Next]_vars => (PassesBounded /\ Below)'
  <2> SUFFICES ASSUME TypeOK, CurInHand, PassesBounded, Below, [Next]_vars
               PROVE  PassesBounded' /\ Below'
    OBVIOUS
  <2>1. UNCHANGED <<spec, count>>
    BY EnvironmentFrame DEF Next, ProducerStep, Construct, Enter, SubmitBegin, PublishOk,
       PublishError, EndSubmit, TakeNext, RecordPublish, GetReturns, GetFails, RecordE2e,
       Verdict, Report, Abort, Kill, vars, config
  <2>2. Passes' = Passes
    BY <2>1 DEF Passes
  <2>3. TypeOK'
    BY NextControlOK, NextBooksOK, NextCeleryOK DEF TypeOK
  <2>4. PassesBounded'
    BY EffortStep
  <2>5. Effort \in Nat /\ Passes \in Nat
    BY EffortFacts
  <2>6. Effort' \in Nat
    <3>1. attempts' \in Nat /\ Len(pending') \in Nat
      BY <2>3, LenProperties DEF TypeOK, ControlOK
    <3>2. Weight' \in 0 .. 12
      BY DEF Weight
    <3>3. attempts' <= Passes' /\ Passes' \in Nat
      BY <2>2, <2>4, <2>5 DEF PassesBounded
    <3>. QED BY ONLY <3>1, <3>2, <3>3 DEF Effort
  <2>7. Effort' <= Effort
    BY <2>5, <2>6, EffortStep
  <2>. QED BY <2>2, <2>4, <2>5, <2>6, <2>7
<1>3. TypeOK /\ PassesBounded /\ Below => Effort \in 0 .. 16 * Passes + 4
  BY EffortFacts
<1>4. TypeOK /\ CurInHand /\ PassesBounded /\ [Next]_vars =>
        [Effort' < Effort \/ (Effort' = Effort /\ UNCHANGED producer)]_vars
  BY EffortStep
<1> HIDE DEF Below
<1>. QED BY <1>1, <1>2, <1>3, <1>4, TypeCorrect, PTL DEF Spec
-----------------------------------------------------------------------------
(* There is always a step to take                                          *)

LEMMA NextEagerStored ==
  ASSUME IInv, EagerStored, [Next]_vars
  PROVE  EagerStored'
<1>0. /\ backend \in [Tasks -> Finals \cup {"PENDING"}]
      /\ outcome \in [Tasks -> {"new", "submitted", "rejected", "ok", "bad"}]
  BY DEF IInv, TypeOK, CeleryOK, BooksOK
<1>1. CASE Construct
  BY <1>1 DEF Construct, EagerStored, locals, tally, celery, config
<1>2. CASE Enter
  <2>1. \A t \in Tasks : outcome[t] # "submitted"
    BY <1>2, <1>0 DEF Enter, EagerStored, IInv, HeldOnce, Tasks
  <2>. QED BY <1>2, <2>1 DEF Enter, EagerStored, tally, config
<1>3. CASE SubmitBegin \/ EndSubmit \/ TakeNext \/ RecordPublish \/ RecordE2e
  BY <1>3 DEF SubmitBegin, EndSubmit, TakeNext, RecordPublish, RecordE2e, EagerStored, tally,
     celery, config
<1>4. CASE PublishOk
  <2>1. /\ attempts \in Tasks /\ UNCHANGED <<spec, always_eager>>
        /\ outcome' = [outcome EXCEPT ![attempts] = "submitted"]
        /\ pc' \notin {"construct", "enter"}
    BY <1>4 DEF PublishOk, IInv, CurInHand, config
  <2>2. CASE always_eager
    <3>1. PICK r \in EagerResults(spec.task) : backend' = [backend EXCEPT ![attempts] = r]
      BY <1>4, <2>2 DEF PublishOk
    <3>2. r \in Finals
      BY DEF EagerResults, Results, Finals
    <3>. QED BY <1>0, <2>1, <3>1, <3>2 DEF EagerStored
  <2>3. CASE ~always_eager BY <2>1, <2>3 DEF EagerStored
  <2>. QED BY <2>2, <2>3
<1>5. CASE PublishError
  BY <1>5 DEF PublishError, EagerStored
<1>6. CASE GetReturns \/ GetFails
  BY <1>6 DEF GetReturns, GetFails, EagerStored, tally, celery, config
<1>7. CASE Verdict
  <2>1. \E v \in {"ok", "bad"} : outcome' = [outcome EXCEPT ![cur] = v]
    BY <1>7, VerdictCounts DEF IInv
  <2>2. UNCHANGED <<spec, always_eager, backend>> /\ pc' \notin {"construct", "enter"}
    BY <1>7 DEF Verdict, config, celery
  <2>. QED BY <1>0, <2>1, <2>2 DEF EagerStored
<1>8. CASE Report \/ Abort \/ Kill
  BY <1>8 DEF Report, ExitOf, Abort, Kill, EagerStored, Stopped
<1>9. CASE Environment
  <2>1. UNCHANGED <<spec, pc, always_eager, attempts, outcome>>
    BY <1>9, EnvironmentFrame
  <2>2. ASSUME always_eager, NEW t \in Tasks, backend[t] \in Finals PROVE backend'[t] \in Finals
    <3>1. CASE Enqueue \/ \E u \in Tasks : Deliver(u) \/ LoseMessage(u)
      BY <2>2, <3>1 DEF Enqueue, Deliver, LoseMessage
    <3>2. ASSUME NEW u \in Tasks, Expire(u) PROVE FALSE
      BY <2>2, <3>2 DEF Expire, EagerStored
    <3>3. ASSUME NEW u \in Tasks, NEW r \in Results(spec.task), StoreResult(u, r)
          PROVE  backend'[t] \in Finals
      <4>1. r \in Finals
        BY DEF Results, Finals
      <4>2. backend' = backend \/ backend' = [backend EXCEPT ![u] = r]
        BY <3>3 DEF StoreResult
      <4>. QED BY <1>0, <2>2, <4>1, <4>2
    <3>. QED BY <1>9, <3>1, <3>2, <3>3 DEF Environment
  <2>. QED BY <2>1, <2>2 DEF EagerStored
<1>10. CASE UNCHANGED vars
  BY <1>10 DEF vars, EagerStored, config, locals, tally, celery
<1>. QED
  BY <1>1, <1>2, <1>3, <1>4, <1>5, <1>6, <1>7, <1>8, <1>9, <1>10 DEF Next, ProducerStep

\* The producer is never stuck, though an eager ar.get has no timeout to fall back on:
\* until it has stopped the guard of one of its steps holds.
THEOREM NeverStuck == Spec => [](pc \notin Stopped => Ready)
<1>1. Init => EagerStored
  BY DEF Init, EagerStored
<1>2. IInv /\ EagerStored /\ [Next]_vars => EagerStored'
  BY NextEagerStored
<1>3. IInv /\ EagerStored => (pc \notin Stopped => Ready)
  <2> SUFFICES ASSUME IInv, EagerStored, pc \notin Stopped PROVE Ready
    OBVIOUS
  <2>1. CASE pc = "submit"
    BY <2>1, BoundsAssumption DEF Ready, Passes, IInv, TypeOK, ControlOK
  <2>2. CASE pc = "get"
    <3>1. cur \in Tasks /\ outcome[cur] = "submitted"
      BY <2>2 DEF IInv, TypeOK, ControlOK, CurInHand, InHand, HeldOnce, Held
    <3>. QED BY <2>2, <3>1 DEF Ready, EagerStored
  <2>3. CASE pc \notin {"submit", "get"}
    BY <2>3 DEF Ready, IInv, TypeOK, ControlOK, InHand, Stopped
  <2>. QED BY <2>1, <2>2, <2>3
<1>. QED BY <1>1, <1>2, <1>3, InvariantCorrect, PTL DEF Spec
-----------------------------------------------------------------------------
(* A run in process writes the log the gates rely on                       *)

LogState ==
  IF pc \in {"exit0", "exit1"} THEN "done"
  ELSE IF pc \in {"aborted", "killed"} THEN "stopped" ELSE "running"
Log == INSTANCE RunLog WITH state <- LogState, written <- Len(events)
LogSpec == Log!Spec

LEMMA LogInit == Init => Log!Init
BY BoundsAssumption DEF Init, Log!Init, LogState

\* Every step is a step of the log or leaves it alone.
LEMMA LogStep ==
  ASSUME IInv, Eager, AllSubmitted, InProcess, [Next]_vars
  PROVE  [Log!Next]_(Log!lvars)
<1> USE DEF Log!lvars
<1>0. /\ submitted \in Nat /\ succeeded \in Nat /\ failed \in Nat /\ count \in Nat
      /\ attempts \in Nat /\ Len(pending) \in Nat
      /\ events \in Seq([task : Tasks, points : {"T0T1", "T6"}])
  BY LenProperties, BoundsAssumption DEF IInv, TypeOK, BooksOK, ControlOK
<1>1. CASE UNCHANGED <<count, events, LogState>>
  BY <1>1
<1>2. ASSUME pc \in InHand
      PROVE  succeeded + failed + 1 <= submitted /\ submitted <= count
  <2>1. cur # NoTask
    BY <1>2 DEF IInv, CurInHand
  <2>2. succeeded + failed + 1 <= submitted
    BY <1>0, <2>1 DEF IInv, Accounting
  <2>3. submitted = attempts /\ attempts <= count
    BY <1>2 DEF AllSubmitted, InHand
  <2>. QED BY <2>2, <2>3
<1>3. ASSUME pc \in {"collect", "e2e"}, pc' \in {"get", "verdict"}, UNCHANGED count,
             NEW e, events' = Append(events, e),
             e \in [task : Tasks, points : {"T0T1", "T6"}]
      PROVE  Log!WriteLine
  <2>1. Len(events') = Len(events) + 1
    BY <1>0, <1>3, AppendProperties
  <2>2. Len(events) < 2 * count
    <3>1. Len(events) <= 2 * (succeeded + failed) + 1
      BY <1>0, <1>3 DEF IInv, LogInv, LogPosition
    <3>. QED BY <1>0, <1>2, <1>3, <3>1 DEF InHand
  <2>. QED BY <1>3, <2>1, <2>2 DEF Log!WriteLine, LogState
<1>4. CASE RecordPublish
  <2>1. [task |-> cur, points |-> "T0T1"] \in [task : Tasks, points : {"T0T1", "T6"}]
    BY <1>4 DEF RecordPublish, IInv, TypeOK, ControlOK, CurInHand, InHand
  <2>. QED BY <1>3, <1>4, <2>1 DEF RecordPublish, config, Log!Next
<1>5. CASE RecordE2e
  <2>1. [task |-> cur, points |-> "T6"] \in [task : Tasks, points : {"T0T1", "T6"}]
    BY <1>5 DEF RecordE2e, IInv, TypeOK, ControlOK, CurInHand, InHand
  <2>. QED BY <1>3, <1>5, <2>1 DEF RecordE2e, config, Log!Next
<1>6. CASE Report
  <2>1. /\ pc = "drain" /\ pc' \in {"exit0", "exit1", "aborted"}
        /\ UNCHANGED <<count, events>> /\ pending = <<>> /\ cur = NoTask
    BY <1>6 DEF Report, ExitOf, config, IInv, CurInHand, InHand
  <2>2. CASE pc' = "aborted"
    BY <2>1, <2>2 DEF Log!Next, Log!Stop, Log!Goto, LogState
  <2>3. CASE pc' # "aborted"
    <3>1. submitted = count
      BY <2>1 DEF AllSubmitted
    <3>2. submitted = succeeded + failed
      BY <1>0, <2>1 DEF IInv, Accounting
    <3>3. Len(events) = 2 * count
      BY <2>1, <3>1, <3>2 DEF IInv, LogInv, LogPosition
    <3>. QED BY <2>1, <2>3, <3>3 DEF Log!Next, Log!Finish, Log!Goto, LogState
  <2>. QED BY <2>2, <2>3
<1>7. CASE Abort \/ Kill
  BY <1>7 DEF Abort, Kill, config, IInv, TypeOK, ControlOK, InHand, Stopped, LogState,
     Log!Next, Log!Stop, Log!Goto
<1>8. CASE Construct \/ Enter
  BY <1>8, <1>1 DEF Construct, Enter, config, InProcess, LogState,
     Log!Next, Log!Stop, Log!Goto
<1>9. CASE SubmitBegin \/ PublishOk \/ PublishError \/ EndSubmit \/ TakeNext
  BY <1>9, <1>1 DEF SubmitBegin, PublishOk, PublishError, EndSubmit, TakeNext, config, LogState
<1>10. CASE GetReturns \/ GetFails \/ Verdict
  BY <1>10, <1>1 DEF GetReturns, GetFails, Verdict, config, LogState
<1>11. CASE Environment
  BY <1>11, <1>1, EnvironmentFrame DEF LogState
<1>12. CASE UNCHANGED vars
  BY <1>12, <1>1 DEF vars, config, LogState
<1>. QED
  BY <1>4, <1>5, <1>6, <1>7, <1>8, <1>9, <1>10, <1>11, <1>12 DEF Next, ProducerStep

\* The run that the gates of SmokeHarness find on disk: in process, for any number of
\* tasks and in either counted mode, the log has no more than two lines for each task,
\* all of them when the producer returns, and none is added after it was stopped.
THEOREM RunLogCorrect == Spec /\ InProcess => LogSpec
<1> DEFINE J == Eager /\ AllSubmitted
<1>1. Init => J
  BY BoundsAssumption DEF Init, Eager, AllSubmitted, InProcess, InHand
<1>2. IInv /\ J /\ [Next]_vars => J'
  BY NextEager, NextAllSubmitted DEF IInv
<1>3. IInv /\ InProcess /\ [Next]_vars => InProcess'
  BY EnvironmentFrame DEF InProcess, Next, ProducerStep, Construct, Enter, SubmitBegin,
     PublishOk, PublishError, EndSubmit, TakeNext, RecordPublish, GetReturns, GetFails,
     RecordE2e, Verdict, Report, Abort, Kill, vars, config
<1>4. IInv /\ J /\ InProcess /\ [Next]_vars => [Log!Next]_(Log!lvars)
  BY LogStep
<1> HIDE DEF J
<1>. QED BY LogInit, <1>1, <1>2, <1>3, <1>4, InvariantCorrect, PTL DEF Spec, LogSpec, Log!Spec
=============================================================================
