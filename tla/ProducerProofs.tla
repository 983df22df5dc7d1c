---------------------------- MODULE ProducerProofs ----------------------------
(***************************************************************************)
(* Proofs about Producer, for every number of tasks and deliveries and for *)
(* every set of mode and task names.                                       *)
(*                                                                         *)
(* No property is inductive by itself: each is strengthened by what the    *)
(* producer's place in the code (pc) says of its locals.  IInv is the      *)
(* conjunction; every conjunct is shown preserved in a lemma of its own.   *)
(***************************************************************************)
EXTENDS Producer, SequenceTheorems, TLAPS

\* _collect has a task exactly while control is inside it; a run cut short by an
\* exception or a kill may leave one behind.
CurInHand ==
  /\ pc = "publishing" => attempts \in Tasks
  /\ pc \in InHand => cur # NoTask
  /\ pc \notin InHand \cup {"aborted", "killed"} => cur = NoTask

\* ok is still True after the try block only if t6 was read after ar.get returned.
FrameMeasured == pc \in {"e2e", "verdict"} /\ frame.ok => frame.t6 = "get"

\* A final state in the backend was stored there, and so was the one ar has cached.
StateWitnessed ==
  /\ \A t \in Tasks : backend[t] \in Finals => backend[t] \in stored[t]
  /\ pc \in {"e2e", "verdict"} /\ frame.ok /\ ~Ignored =>
       frame.state \in Finals /\ frame.state \in stored[cur]

\* Where the log stands: two lines per verdict, and inside _collect the lines
\* written so far for the task in hand.
LogPosition ==
  LET judged == succeeded + failed IN
  /\ pc \notin {"get", "e2e", "verdict", "aborted", "killed"} => Len(events) = 2 * judged
  /\ pc \in {"get", "e2e"} =>
       /\ Len(events) = 2 * judged + 1
       /\ events[Len(events)] = [task |-> cur, points |-> "T0T1"]
  /\ pc = "verdict" => Len(events) = 2 * judged + 2
  /\ pc \in {"aborted", "killed"} =>
       2 * judged <= Len(events) /\ Len(events) <= 2 * judged + 2

\* Exactly the tasks that await their verdict are held by the run, in one place
\* each; the closed loop never holds one between two passes; attempts not yet made
\* have no entry.
Held(t) == t = cur \/ \E i \in 1 .. Len(pending) : pending[i] = t
HeldOnce ==
  /\ \A t \in Tasks : outcome[t] = "submitted" <=> Held(t)
  /\ \A i, j \in 1 .. Len(pending) : pending[i] = pending[j] => i = j
  /\ \A i \in 1 .. Len(pending) : pending[i] # cur
  /\ spec.mode = "closed_loop" => pending = <<>>
  /\ \A t \in Tasks : t > attempts => outcome[t] = "new"
  /\ pc = "publishing" => outcome[attempts] = "new"

\* A task has lines in the log only from its collection on.
LoggedFromCollection ==
  \A i \in 1 .. Len(events) :
    IF events[i].task = cur
    THEN /\ pc \in {"get", "e2e", "verdict", "aborted", "killed"}
         /\ pc \in {"get", "e2e"} => events[i].points = "T0T1"
    ELSE outcome[events[i].task] \in {"ok", "bad"}

-----------------------------------------------------------------------------
(* Type correctness                                                        *)

LEMMA InitTypeOK == Init => TypeOK /\ CurInHand
<1> SUFFICES ASSUME Init PROVE TypeOK /\ CurInHand
  OBVIOUS
<1>1. ControlOK /\ CurInHand
  <2>1. pending \in Seq(Tasks) /\ attempts \in 0 .. MaxTasks
    BY EmptySeq, BoundsAssumption DEF BoundsAssumption, Init
  <2>2. spec \in [mode : ModeNames, task : TaskNames, memory : BOOLEAN, cli : Clis]
    BY DEF Init
  <2>. QED BY <2>1, <2>2 DEF Init, ControlOK, CurInHand, InHand
<1>2. BooksOK
  <2>1. frame \in [ok : BOOLEAN, t6 : {"t1", "get"}, state : Finals \cup {"PENDING"}]
    BY DEF Init, Fresh
  <2>2. outcome \in [Tasks -> {"new", "submitted", "rejected", "ok", "bad"}]
    BY DEF Init
  <2>3. /\ e2e_times \in Seq({"t1", "get"})
        /\ events \in Seq([task : Tasks, points : {"T0T1", "T6"}])
    BY EmptySeq DEF Init
  <2>. QED BY <2>1, <2>2, <2>3 DEF Init, BooksOK
<1>3. CeleryOK
  BY BoundsAssumption DEF BoundsAssumption, Init, CeleryOK
<1>. QED BY <1>1, <1>2, <1>3 DEF TypeOK

LEMMA NextControlOK ==
  ASSUME ControlOK, CurInHand, [Next]_vars
  PROVE  ControlOK' /\ CurInHand'
<1> USE DEF ControlOK, CurInHand, InHand, Stopped, NoTask, config, locals
<1>1. CASE Construct BY <1>1 DEF Construct
<1>2. CASE Enter BY <1>2 DEF Enter
<1>3. CASE SubmitBegin
  <2>1. attempts' \in Tasks
    BY <1>3, BoundsAssumption DEF BoundsAssumption, SubmitBegin, Tasks
  <2>. QED BY <1>3, <2>1 DEF SubmitBegin, Tasks
<1>4. CASE PublishOk
  <2>1. attempts \in Tasks /\ attempts # 0
    BY <1>4 DEF PublishOk, Tasks
  <2>2. Append(pending, attempts) \in Seq(Tasks)
    BY <2>1, AppendProperties
  <2>3. CASE spec.mode = "closed_loop" BY <1>4, <2>1, <2>3 DEF PublishOk
  <2>4. CASE spec.mode # "closed_loop" BY <1>4, <2>2, <2>4 DEF PublishOk
  <2>. QED BY <2>3, <2>4
<1>5. CASE PublishError BY <1>5 DEF PublishError
<1>6. CASE EndSubmit BY <1>6 DEF EndSubmit
<1>7. CASE TakeNext
  <2>1. Head(pending) \in Tasks /\ Tail(pending) \in Seq(Tasks)
    BY <1>7, HeadTailProperties DEF TakeNext
  <2>2. Head(pending) # 0
    BY <2>1 DEF Tasks
  <2>. QED BY <1>7, <2>1, <2>2 DEF TakeNext
<1>8. CASE RecordPublish BY <1>8 DEF RecordPublish
<1>9. CASE GetReturns BY <1>9 DEF GetReturns
<1>10. CASE GetFails BY <1>10 DEF GetFails
<1>11. CASE RecordE2e BY <1>11 DEF RecordE2e
<1>12. CASE Verdict BY <1>12 DEF Verdict
<1>13. CASE Report BY <1>13 DEF Report, ExitOf
<1>14. CASE Abort BY <1>14 DEF Abort
<1>15. CASE Kill BY <1>15 DEF Kill
<1>16. CASE Environment
  BY <1>16 DEF Environment, Enqueue, Deliver, LoseMessage, Expire, StoreResult, producer
<1>17. CASE UNCHANGED vars BY <1>17 DEF vars
<1> HIDE DEF ControlOK, CurInHand
<1>. QED
  BY <1>1, <1>2, <1>3, <1>4, <1>5, <1>6, <1>7, <1>8, <1>9, <1>10, <1>11, <1>12,
     <1>13, <1>14, <1>15, <1>16, <1>17 DEF Next, ProducerStep

LEMMA NextBooksOK ==
  ASSUME TypeOK, CurInHand, [Next]_vars
  PROVE  BooksOK'
<1> USE DEF TypeOK, ControlOK, BooksOK, CurInHand, InHand, NoTask, tally, locals
<1>1. CASE PublishOk BY <1>1 DEF PublishOk
<1>2. CASE PublishError BY <1>2 DEF PublishError
<1>3. CASE RecordPublish
  <2>1. [task |-> cur, points |-> "T0T1"] \in [task : Tasks, points : {"T0T1", "T6"}]
    BY <1>3 DEF RecordPublish
  <2>2. events' \in Seq([task : Tasks, points : {"T0T1", "T6"}])
    BY <1>3, <2>1, AppendProperties DEF RecordPublish
  <2>. QED BY <1>3, <2>2 DEF RecordPublish, Fresh
<1>4. CASE GetReturns BY <1>4 DEF GetReturns, CeleryOK
<1>5. CASE GetFails BY <1>5 DEF GetFails, Fresh
<1>6. CASE RecordE2e
  <2>1. [task |-> cur, points |-> "T6"] \in [task : Tasks, points : {"T0T1", "T6"}]
    BY <1>6 DEF RecordE2e
  <2>2. events' \in Seq([task : Tasks, points : {"T0T1", "T6"}])
    BY <1>6, <2>1, AppendProperties DEF RecordE2e
  <2>. QED BY <1>6, <2>2 DEF RecordE2e
<1>7. CASE Verdict
  <2>1. Append(e2e_times, frame.t6) \in Seq({"t1", "get"})
    BY AppendProperties
  <2>2. /\ succeeded' \in Nat /\ failed' \in Nat
        /\ e2e_times' \in Seq({"t1", "get"})
    <3>1. e2e_times' \in {e2e_times, Append(e2e_times, frame.t6)}
      BY <1>7 DEF Verdict
    <3>2. succeeded' \in {succeeded, succeeded + 1} /\ failed' \in {failed, failed + 1}
      BY <1>7 DEF Verdict
    <3>3. e2e_times \in Seq({"t1", "get"}) /\ succeeded \in Nat /\ failed \in Nat
      OBVIOUS
    <3>. QED BY ONLY <2>1, <3>1, <3>2, <3>3
  <2>3. outcome' \in [Tasks -> {"new", "submitted", "rejected", "ok", "bad"}]
    <3>1. \/ outcome' = [outcome EXCEPT ![cur] = "ok"]
          \/ outcome' = [outcome EXCEPT ![cur] = "bad"]
      BY ONLY <1>7, Zenon DEF Verdict
    <3>. QED BY <3>1
  <2>4. frame' = frame /\ submitted' = submitted /\ events' = events
    BY <1>7 DEF Verdict
  <2>. QED BY <2>2, <2>3, <2>4
<1>8. CASE Construct \/ Enter \/ EndSubmit \/ Report \/ Abort \/ Kill
  BY <1>8 DEF Construct, Enter, EndSubmit, Report, ExitOf, Abort, Kill
<1>9. CASE SubmitBegin \/ TakeNext
  BY <1>9 DEF SubmitBegin, TakeNext
<1>10. CASE Environment
  BY <1>10 DEF Environment, Enqueue, Deliver, LoseMessage, Expire, StoreResult, producer
<1>11. CASE UNCHANGED vars BY <1>11 DEF vars
<1> HIDE DEF BooksOK
<1>. QED
  BY <1>1, <1>2, <1>3, <1>4, <1>5, <1>6, <1>7, <1>8, <1>9, <1>10, <1>11
     DEF Next, ProducerStep

LEMMA NextCeleryOK ==
  ASSUME TypeOK, [Next]_vars
  PROVE  CeleryOK'
<1> USE DEF TypeOK, CeleryOK, celery
<1>1. CASE PublishOk
  <2>1. CASE always_eager
    <3>1. PICK r \in EagerResults(spec.task) :
            /\ backend' = [backend EXCEPT ![attempts] = r]
            /\ stored' = [stored EXCEPT ![attempts] = {r}]
      BY <1>1, <2>1 DEF PublishOk
    <3>2. r \in Finals
      BY DEF EagerResults, Results, Finals
    <3>. QED BY <1>1, <2>1, <3>1, <3>2 DEF PublishOk
  <2>2. CASE ~always_eager BY <1>1, <2>2 DEF PublishOk
  <2>. QED BY <2>1, <2>2
<1>2. CASE ProducerStep /\ ~PublishOk
  BY <1>2 DEF ProducerStep, Construct, Enter, SubmitBegin, PublishError, EndSubmit,
     TakeNext, RecordPublish, GetReturns, GetFails, RecordE2e, Verdict, Report, ExitOf
<1>3. CASE Abort \/ Kill BY <1>3 DEF Abort, Kill
<1>4. CASE Enqueue BY <1>4 DEF Enqueue
<1>5. ASSUME NEW t \in Tasks, Deliver(t) PROVE CeleryOK'
  BY <1>5, BoundsAssumption DEF BoundsAssumption, Deliver
<1>6. ASSUME NEW t \in Tasks, LoseMessage(t) PROVE CeleryOK'
  BY <1>6 DEF LoseMessage
<1>7. ASSUME NEW t \in Tasks, Expire(t) PROVE CeleryOK'
  BY <1>7 DEF Expire
<1>8. ASSUME NEW t \in Tasks, NEW r \in Results(spec.task), StoreResult(t, r)
      PROVE  CeleryOK'
  <2>1. r \in Finals
    BY DEF Results, Finals
  <2>2. PICK m \in {"gone", "queued"} : msg' = [msg EXCEPT ![t] = m]
    BY <1>8 DEF StoreResult
  <2>3. CASE Ignored BY <1>8, <2>2, <2>3 DEF StoreResult
  <2>4. CASE ~Ignored BY <1>8, <2>1, <2>2, <2>4 DEF StoreResult
  <2>. QED BY <2>3, <2>4
<1>9. CASE UNCHANGED vars BY <1>9 DEF vars
<1> HIDE DEF CeleryOK
<1>. QED
  BY <1>1, <1>2, <1>3, <1>4, <1>5, <1>6, <1>7, <1>8, <1>9 DEF Next, Environment

\* Type correctness of the specification, for every bound.
THEOREM TypeCorrect == Spec => [](TypeOK /\ CurInHand)
<1>1. TypeOK /\ CurInHand /\ [Next]_vars => (TypeOK /\ CurInHand)'
  BY NextControlOK, NextBooksOK, NextCeleryOK DEF TypeOK
<1>. QED BY InitTypeOK, <1>1, PTL DEF Spec

-----------------------------------------------------------------------------
(* The counters: every submitted task is in exactly one of them            *)

\* What the environment does is invisible to the producer's variables.
LEMMA EnvironmentFrame ==
  Environment => /\ UNCHANGED <<spec, count, pc, always_eager, attempts, pending, cur, frame>>
                 /\ UNCHANGED <<submitted, succeeded, failed, e2e_times, outcome, events>>
BY DEF Environment, Enqueue, Deliver, LoseMessage, Expire, StoreResult, producer,
   config, locals, tally

\* A pass through _collect's caller adds the task to one counter.
LEMMA VerdictCounts ==
  ASSUME TypeOK, Verdict
  PROVE  \/ /\ succeeded' = succeeded + 1 /\ failed' = failed
            /\ e2e_times' = Append(e2e_times, frame.t6)
            /\ outcome' = [outcome EXCEPT ![cur] = "ok"]
            /\ frame.ok /\ ResultState # "FAILURE"
         \/ /\ failed' = failed + 1 /\ succeeded' = succeeded
            /\ e2e_times' = e2e_times
            /\ outcome' = [outcome EXCEPT ![cur] = "bad"]
<1>1. CASE frame.ok /\ ResultState # "FAILURE" BY ONLY <1>1, Verdict, Zenon DEF Verdict
<1>2. CASE ~(frame.ok /\ ResultState # "FAILURE") BY ONLY <1>2, Verdict, Zenon DEF Verdict
<1>. QED BY <1>1, <1>2

LEMMA NextAccounting ==
  ASSUME TypeOK, CurInHand, Accounting, [Next]_vars
  PROVE  Accounting'
<1>. DEFINE inHand == IF cur = NoTask THEN 0 ELSE 1
<1>0. /\ submitted \in Nat /\ succeeded \in Nat /\ failed \in Nat
      /\ pending \in Seq(Tasks) /\ Len(pending) \in Nat
  BY LenProperties DEF TypeOK, ControlOK, BooksOK
<1>1. CASE PublishOk
  <2>1. cur = NoTask /\ attempts \in Tasks /\ attempts # NoTask
    BY <1>1 DEF PublishOk, CurInHand, InHand, Tasks, NoTask
  <2>2. Len(Append(pending, attempts)) = Len(pending) + 1
    BY <1>0, <2>1, AppendProperties
  <2>3. submitted' = submitted + 1 /\ succeeded' = succeeded /\ failed' = failed
    BY <1>1 DEF PublishOk
  <2>4. CASE spec.mode = "closed_loop"
    <3>1. cur' = attempts /\ pending' = pending
      BY <1>1, <2>4 DEF PublishOk
    <3>. QED BY <1>0, <2>1, <2>3, <3>1 DEF Accounting
  <2>5. CASE spec.mode # "closed_loop"
    <3>1. cur' = cur /\ pending' = Append(pending, attempts)
      BY <1>1, <2>5 DEF PublishOk
    <3>. QED BY <1>0, <2>1, <2>2, <2>3, <3>1 DEF Accounting
  <2>. QED BY <2>4, <2>5
<1>2. CASE TakeNext
  <2>1. cur = NoTask
    BY <1>2 DEF TakeNext, CurInHand, InHand
  <2>2. Head(pending) \in Tasks /\ Len(Tail(pending)) = Len(pending) - 1
    BY <1>0, <1>2, HeadTailProperties DEF TakeNext
  <2>3. Head(pending) # NoTask
    BY <2>2 DEF Tasks, NoTask
  <2>4. submitted' = submitted /\ succeeded' = succeeded /\ failed' = failed
    BY <1>2 DEF TakeNext, tally
  <2>. QED BY <1>0, <1>2, <2>1, <2>2, <2>3, <2>4 DEF Accounting, TakeNext
<1>3. CASE Verdict
  <2>1. cur # NoTask /\ cur' = NoTask /\ pending' = pending /\ submitted' = submitted
    BY <1>3 DEF Verdict, CurInHand, InHand
  <2>. QED BY <1>0, <1>3, <2>1, VerdictCounts DEF Accounting
<1>4. CASE UNCHANGED <<submitted, succeeded, failed, pending, cur>>
  BY <1>4 DEF Accounting
<1>5. CASE Construct \/ Enter \/ SubmitBegin \/ PublishError \/ EndSubmit
  BY <1>4, <1>5 DEF Construct, Enter, SubmitBegin, PublishError, EndSubmit, tally, locals
<1>6. CASE RecordPublish \/ GetReturns \/ GetFails \/ RecordE2e \/ Report \/ Abort \/ Kill
  BY <1>4, <1>6 DEF RecordPublish, GetReturns, GetFails, RecordE2e, Report, ExitOf, Abort, Kill,
     tally, locals
<1>7. CASE Environment BY <1>4, <1>7, EnvironmentFrame
<1>8. CASE UNCHANGED vars BY <1>4, <1>8 DEF vars, tally, locals
<1>. QED
  BY <1>1, <1>2, <1>3, <1>5, <1>6, <1>7, <1>8 DEF Next, ProducerStep

\* Accounting holds in every run of any length: no task is lost by the counters,
\* whatever the environment does and wherever the run is cut short.
THEOREM AccountingCorrect == Spec => []Accounting
<1>1. Init => Accounting
  BY DEF Init, Accounting, NoTask
<1>2. TypeOK /\ CurInHand /\ Accounting /\ [Next]_vars => Accounting'
  BY NextAccounting
<1>. QED BY <1>1, <1>2, TypeCorrect, PTL DEF Spec

-----------------------------------------------------------------------------
(* The latency samples and the successes                                   *)

LEMMA NextFrameMeasured ==
  ASSUME TypeOK, FrameMeasured, [Next]_vars
  PROVE  FrameMeasured'
<1>1. CASE GetReturns BY <1>1 DEF GetReturns, FrameMeasured
<1>2. CASE GetFails
  <2>1. frame'.ok = FALSE
    BY <1>2 DEF GetFails, Fresh
  <2>. QED BY <2>1 DEF FrameMeasured
<1>3. CASE RecordE2e BY <1>3 DEF RecordE2e, FrameMeasured, locals
<1>4. CASE pc' \notin {"e2e", "verdict"}
  BY <1>4 DEF FrameMeasured
<1>5. CASE Construct \/ Enter \/ SubmitBegin \/ PublishOk \/ PublishError \/ EndSubmit
  BY <1>4, <1>5 DEF Construct, Enter, SubmitBegin, PublishOk, PublishError, EndSubmit
<1>6. CASE TakeNext \/ RecordPublish \/ Verdict \/ Report \/ Abort \/ Kill
  BY <1>4, <1>6 DEF TakeNext, RecordPublish, Verdict, Report, ExitOf, Abort, Kill
<1>7. CASE Environment BY <1>7, EnvironmentFrame DEF FrameMeasured
<1>8. CASE UNCHANGED vars BY <1>8 DEF vars, locals, FrameMeasured
<1>. QED
  BY <1>1, <1>2, <1>3, <1>5, <1>6, <1>7, <1>8 DEF Next, ProducerStep

LEMMA NextSamplesMeasured ==
  ASSUME TypeOK, FrameMeasured, SamplesMeasured, [Next]_vars
  PROVE  SamplesMeasured'
<1>0. e2e_times \in Seq({"t1", "get"}) /\ succeeded \in Nat
  BY DEF TypeOK, BooksOK
<1>1. CASE Verdict
  <2>1. CASE e2e_times' = e2e_times /\ succeeded' = succeeded
    BY <2>1 DEF SamplesMeasured
  <2>2. CASE /\ succeeded' = succeeded + 1
             /\ e2e_times' = Append(e2e_times, frame.t6)
             /\ frame.ok
    <3>1. frame.t6 = "get"
      BY <1>1, <2>2 DEF Verdict, FrameMeasured
    <3>2. /\ Len(e2e_times') = Len(e2e_times) + 1
          /\ \A i \in 1 .. Len(e2e_times) : e2e_times'[i] = e2e_times[i]
          /\ e2e_times'[Len(e2e_times) + 1] = "get"
      BY <1>0, <2>2, <3>1, AppendProperties
    <3>3. Len(e2e_times) \in Nat
      BY <1>0, LenProperties
    <3>. QED BY <1>0, <2>2, <3>2, <3>3 DEF SamplesMeasured
  <2>. QED BY <1>1, <2>1, <2>2, VerdictCounts
<1>2. CASE UNCHANGED <<succeeded, e2e_times>> BY <1>2 DEF SamplesMeasured
<1>3. CASE Construct \/ Enter \/ SubmitBegin \/ PublishOk \/ PublishError \/ EndSubmit
  BY <1>2, <1>3 DEF Construct, Enter, SubmitBegin, PublishOk, PublishError, EndSubmit, tally
<1>4. CASE \/ TakeNext \/ RecordPublish \/ GetReturns \/ GetFails \/ RecordE2e
           \/ Report \/ Abort \/ Kill
  BY <1>2, <1>4 DEF TakeNext, RecordPublish, GetReturns, GetFails, RecordE2e, Report, ExitOf,
     Abort, Kill, tally
<1>5. CASE Environment BY <1>2, <1>5, EnvironmentFrame
<1>6. CASE UNCHANGED vars BY <1>2, <1>6 DEF vars, tally
<1>. QED
  BY <1>1, <1>3, <1>4, <1>5, <1>6 DEF Next, ProducerStep

\* No fallback timestamp ever becomes a latency sample, and there are as many
\* samples as successes.
THEOREM SamplesMeasuredCorrect == Spec => []SamplesMeasured
<1>1. Init => FrameMeasured /\ SamplesMeasured
  BY DEF Init, FrameMeasured, SamplesMeasured
<1>2. /\ TypeOK /\ CurInHand
      /\ FrameMeasured /\ SamplesMeasured /\ [Next]_vars
      => (FrameMeasured /\ SamplesMeasured)'
  BY NextFrameMeasured, NextSamplesMeasured
<1>. QED BY <1>1, <1>2, TypeCorrect, PTL DEF Spec

\* Ignored depends on the configuration only, which no step changes.
LEMMA IgnoredConstant ==
  ASSUME [Next]_vars
  PROVE  spec' = spec /\ (Ignored' <=> Ignored)
<1>1. spec' = spec
  <2>1. CASE ProducerStep
    BY <2>1 DEF ProducerStep, Construct, Enter, SubmitBegin, PublishOk, PublishError,
       EndSubmit, TakeNext, RecordPublish, GetReturns, GetFails, RecordE2e, Verdict,
       Report, ExitOf, config
  <2>2. CASE Abort \/ Kill \/ UNCHANGED vars
    BY <2>2 DEF Abort, Kill, vars, config
  <2>3. CASE Environment BY <2>3, EnvironmentFrame
  <2>. QED BY <2>1, <2>2, <2>3 DEF Next
<1>. QED BY <1>1 DEF Ignored

LEMMA NextStored ==
  ASSUME TypeOK, CurInHand, StateWitnessed, [Next]_vars
  PROVE  /\ \A t \in Tasks : backend'[t] \in Finals => backend'[t] \in stored'[t]
         /\ \A t \in Tasks : t # attempts \/ pc # "publishing" => stored[t] \subseteq stored'[t]
<1> DEFINE Goal ==
      /\ \A t \in Tasks : backend'[t] \in Finals => backend'[t] \in stored'[t]
      /\ \A t \in Tasks : t # attempts \/ pc # "publishing" => stored[t] \subseteq stored'[t]
<1> SUFFICES Goal OBVIOUS
<1>0. /\ backend \in [Tasks -> Finals \cup {"PENDING"}] /\ stored \in [Tasks -> SUBSET Finals]
      /\ \A t \in Tasks : backend[t] \in Finals => backend[t] \in stored[t]
  BY DEF TypeOK, CeleryOK, StateWitnessed
<1>1. CASE UNCHANGED <<backend, stored>> BY <1>0, <1>1
<1>2. CASE PublishOk
  <2>1. CASE always_eager
    <3>1. PICK r \in EagerResults(spec.task) :
            /\ backend' = [backend EXCEPT ![attempts] = r]
            /\ stored' = [stored EXCEPT ![attempts] = {r}]
      BY <1>2, <2>1 DEF PublishOk
    <3>. QED BY <1>0, <1>2, <3>1 DEF PublishOk
  <2>2. CASE ~always_eager BY <1>1, <1>2, <2>2 DEF PublishOk, celery
  <2>. QED BY <2>1, <2>2
<1>3. CASE ProducerStep /\ ~PublishOk
  BY <1>1, <1>3 DEF ProducerStep, Construct, Enter, SubmitBegin, PublishError, EndSubmit,
     TakeNext, RecordPublish, GetReturns, GetFails, RecordE2e, Verdict, Report, ExitOf, celery
<1>4. CASE Abort \/ Kill \/ UNCHANGED vars
  BY <1>1, <1>4 DEF Abort, Kill, vars, celery
<1>5. CASE Enqueue BY <1>1, <1>5 DEF Enqueue
<1>6. ASSUME NEW u \in Tasks, Deliver(u) \/ LoseMessage(u) PROVE Goal
  BY <1>1, <1>6 DEF Deliver, LoseMessage
<1>7. ASSUME NEW u \in Tasks, Expire(u) PROVE Goal
  BY <1>0, <1>7 DEF Expire, Finals
<1>8. ASSUME NEW u \in Tasks, NEW r \in Results(spec.task), StoreResult(u, r) PROVE Goal
  <2>1. CASE Ignored BY <1>1, <1>8, <2>1 DEF StoreResult
  <2>2. CASE ~Ignored BY <1>0, <1>8, <2>2 DEF StoreResult
  <2>. QED BY <2>1, <2>2
<1> HIDE DEF Goal
<1>. QED
  BY <1>2, <1>3, <1>4, <1>5, <1>6, <1>7, <1>8 DEF Next, Environment

LEMMA NextStateWitnessed ==
  ASSUME TypeOK, CurInHand, StateWitnessed, [Next]_vars
  PROVE  StateWitnessed'
<1> DEFINE Cached == frame.state \in Finals /\ frame.state \in stored[cur]
<1> DEFINE Goal == pc \in {"e2e", "verdict"} /\ frame.ok /\ ~Ignored => Cached
<1>1. SUFFICES Goal'
  BY <1>1, NextStored DEF StateWitnessed
<1>2. CASE pc' \notin {"e2e", "verdict"}
  BY <1>2
<1>3. CASE GetReturns
  <2>1. cur \in Tasks
    BY <1>3 DEF GetReturns, TypeOK, ControlOK, CurInHand, InHand
  <2>2. cur' = cur /\ stored' = stored /\ (Ignored' <=> Ignored)
    BY <1>3, IgnoredConstant DEF GetReturns, celery
  <2>3. CASE Ignored BY <2>2, <2>3
  <2>4. CASE ~Ignored
    <3>1. backend[cur] \in Finals /\ frame'.state = backend[cur]
      BY <1>3, <2>4 DEF GetReturns
    <3>2. frame'.state \in Finals /\ frame'.state \in stored[cur]
      BY <2>1, <3>1 DEF StateWitnessed
    <3>. QED BY <2>2, <3>2
  <2>. QED BY <2>3, <2>4
<1>4. CASE GetFails
  <2>1. frame'.ok = FALSE
    BY <1>4 DEF GetFails, Fresh
  <2>. QED BY <2>1
<1>5. CASE RecordE2e
  BY <1>5, IgnoredConstant DEF RecordE2e, locals, celery, StateWitnessed
<1>6. CASE Construct \/ Enter \/ SubmitBegin \/ PublishOk \/ PublishError \/ EndSubmit
  BY <1>2, <1>6 DEF Construct, Enter, SubmitBegin, PublishOk, PublishError, EndSubmit
<1>7. CASE TakeNext \/ RecordPublish \/ Verdict \/ Report \/ Abort \/ Kill
  BY <1>2, <1>7 DEF TakeNext, RecordPublish, Verdict, Report, ExitOf, Abort, Kill
<1>8. CASE Environment
  <2>1. UNCHANGED <<pc, frame, cur>> /\ (Ignored' <=> Ignored)
    BY <1>8, EnvironmentFrame, IgnoredConstant
  <2>2. CASE pc \in {"e2e", "verdict"}
    <3>1. cur \in Tasks /\ pc # "publishing"
      BY <2>2 DEF TypeOK, ControlOK, CurInHand, InHand
    <3>2. stored[cur] \subseteq stored'[cur]
      BY <3>1, NextStored
    <3>. QED BY <2>1, <3>2 DEF StateWitnessed
  <2>. QED BY <2>1, <2>2
<1>9. CASE UNCHANGED vars
  BY <1>9, IgnoredConstant DEF vars, locals, celery, StateWitnessed
<1> HIDE DEF Goal
<1>. QED
  BY <1>3, <1>4, <1>5, <1>6, <1>7, <1>8, <1>9 DEF Next, ProducerStep

LEMMA NextSuccessWitnessed ==
  ASSUME TypeOK, CurInHand, StateWitnessed, HeldOnce, SuccessWitnessed, [Next]_vars
  PROVE  SuccessWitnessed'
<1> SUFFICES ASSUME NEW t \in Tasks, outcome'[t] = "ok", ~Ignored
             PROVE  "SUCCESS" \in stored'[t]
  BY IgnoredConstant DEF SuccessWitnessed
<1>0. /\ outcome \in [Tasks -> {"new", "submitted", "rejected", "ok", "bad"}]
      /\ frame.state \in Finals \cup {"PENDING"}
  BY DEF TypeOK, BooksOK
<1>1. CASE outcome[t] = "ok"
  <2>1. "SUCCESS" \in stored[t]
    BY <1>1 DEF SuccessWitnessed
  <2>2. t # attempts \/ pc # "publishing"
    BY <1>1 DEF HeldOnce
  <2>. QED BY <2>1, <2>2, NextStored
<1>2. CASE outcome[t] # "ok"
  <2>1. CASE Verdict
    <3>1. /\ t = cur /\ frame.ok /\ ResultState # "FAILURE" /\ stored' = stored
          /\ frame.state \in Finals /\ frame.state \in stored[cur]
      BY <1>0, <1>2, <2>1, VerdictCounts DEF Verdict, StateWitnessed, celery
    <3>2. frame.state = "SUCCESS"
      BY <3>1 DEF ResultState, Finals
    <3>. QED BY <3>1, <3>2
  <2>2. CASE PublishOk BY <1>0, <1>2, <2>2 DEF PublishOk
  <2>3. CASE PublishError BY <1>0, <1>2, <2>3 DEF PublishError
  <2>4. CASE outcome' = outcome BY <1>2, <2>4
  <2>5. CASE Construct \/ Enter \/ SubmitBegin \/ EndSubmit \/ TakeNext \/ RecordPublish
    BY <2>4, <2>5 DEF Construct, Enter, SubmitBegin, EndSubmit, TakeNext, RecordPublish, tally
  <2>6. CASE GetReturns \/ GetFails \/ RecordE2e \/ Report \/ Abort \/ Kill
    BY <2>4, <2>6 DEF GetReturns, GetFails, RecordE2e, Report, ExitOf, Abort, Kill, tally
  <2>7. CASE Environment BY <2>4, <2>7, EnvironmentFrame
  <2>8. CASE UNCHANGED vars BY <2>4, <2>8 DEF vars, tally
  <2>. QED
    BY <2>1, <2>2, <2>3, <2>5, <2>6, <2>7, <2>8 DEF Next, ProducerStep
<1>. QED BY <1>1, <1>2

-----------------------------------------------------------------------------
(* Each task awaiting its verdict is held in one place                     *)

LEMMA NextHeldOnce ==
  ASSUME TypeOK, CurInHand, HeldOnce, [Next]_vars
  PROVE  HeldOnce'
<1>0. /\ pending \in Seq(Tasks) /\ Len(pending) \in Nat
      /\ attempts \in 0 .. MaxTasks /\ cur \in Tasks \cup {NoTask}
      /\ \A t \in Tasks : t \in Nat /\ t # NoTask
      /\ outcome \in [Tasks -> {"new", "submitted", "rejected", "ok", "bad"}]
      /\ \A i \in 1 .. Len(pending) : pending[i] \in Tasks
      /\ spec' = spec
  BY LenProperties, ElementOfSeq, BoundsAssumption, IgnoredConstant
     DEF BoundsAssumption, TypeOK, ControlOK, BooksOK, Tasks, NoTask
<1>1. CASE UNCHANGED <<pending, cur, outcome, attempts>> /\ pc' # "publishing"
  BY <1>0, <1>1 DEF HeldOnce, Held
<1>2. CASE UNCHANGED <<pending, cur, outcome, attempts, pc>>
  BY <1>0, <1>2 DEF HeldOnce, Held
<1>3. CASE SubmitBegin
  <2>1. /\ UNCHANGED <<pending, cur, outcome>> /\ attempts' = attempts + 1
        /\ attempts' \in Tasks
    BY <1>0, <1>3, NextControlOK DEF SubmitBegin, tally, TypeOK, CurInHand
  <2>. QED BY <1>0, <1>3, <2>1 DEF HeldOnce, Held
<1>4. CASE PublishOk
  <2>1. /\ cur = NoTask /\ attempts \in Tasks /\ outcome[attempts] = "new"
        /\ attempts' = attempts
        /\ outcome' = [outcome EXCEPT ![attempts] = "submitted"]
    BY <1>4 DEF PublishOk, CurInHand, InHand, HeldOnce
  <2>2. ~Held(attempts)
    BY <2>1 DEF HeldOnce
  <2>3. CASE spec.mode = "closed_loop"
    <3>1. cur' = attempts /\ pending' = pending /\ pending = <<>> /\ pc' = "collect"
      BY <1>4, <2>3 DEF PublishOk, HeldOnce
    <3>. QED BY <1>0, <2>1, <2>2, <3>1 DEF HeldOnce, Held
  <2>4. CASE spec.mode # "closed_loop"
    <3>1. cur' = cur /\ pending' = Append(pending, attempts) /\ pc' = "submit"
      BY <1>4, <2>4 DEF PublishOk
    <3>2. /\ Len(pending') = Len(pending) + 1
          /\ \A i \in 1 .. Len(pending) : pending'[i] = pending[i]
          /\ pending'[Len(pending) + 1] = attempts
      BY <1>0, <2>1, <3>1, AppendProperties
    <3>3. \A i \in 1 .. Len(pending) : pending[i] # attempts
      BY <2>2 DEF Held
    <3>4. \A t \in Tasks : Held(t)' <=> Held(t) \/ t = attempts
      BY <1>0, <3>1, <3>2 DEF Held
    <3>5. \A t \in Tasks : outcome'[t] = "submitted" <=> Held(t)'
      <4> SUFFICES ASSUME NEW t \in Tasks PROVE outcome'[t] = "submitted" <=> Held(t)'
        OBVIOUS
      <4>1. CASE t = attempts BY <1>0, <2>1, <3>4, <4>1
      <4>2. CASE t # attempts BY <1>0, <2>1, <3>4, <4>2 DEF HeldOnce
      <4>. QED BY <4>1, <4>2
    <3>6. \A i, j \in 1 .. Len(pending') : pending'[i] = pending'[j] => i = j
      BY <1>0, <3>2, <3>3 DEF HeldOnce
    <3>7. \A i \in 1 .. Len(pending') : pending'[i] # cur'
      BY <1>0, <2>1, <3>1, <3>2 DEF HeldOnce
    <3>. QED BY <1>0, <2>1, <2>4, <3>1, <3>5, <3>6, <3>7 DEF HeldOnce
  <2>. QED BY <2>3, <2>4
<1>5. CASE PublishError
  <2>1. /\ UNCHANGED <<pending, cur, attempts>> /\ pc' = "submit"
        /\ attempts \in Tasks /\ outcome[attempts] = "new"
        /\ outcome' = [outcome EXCEPT ![attempts] = "rejected"]
    BY <1>5 DEF PublishError, locals, CurInHand, HeldOnce
  <2>. QED BY <1>0, <2>1 DEF HeldOnce, Held
<1>6. CASE TakeNext
  <2>1. /\ cur = NoTask /\ UNCHANGED <<outcome, attempts>> /\ pc' = "collect"
        /\ cur' = Head(pending) /\ pending' = Tail(pending) /\ pending # <<>>
    BY <1>6 DEF TakeNext, CurInHand, InHand, tally
  <2>2. /\ Len(pending') = Len(pending) - 1 /\ Len(pending) > 0
        /\ \A i \in 1 .. Len(pending) - 1 : pending'[i] = pending[i + 1]
        /\ cur' = pending[1]
    BY <1>0, <2>1, HeadTailProperties
  <2>3. \A t \in Tasks : Held(t)' <=> Held(t)
    <3> SUFFICES ASSUME NEW t \in Tasks PROVE Held(t)' <=> Held(t)
      OBVIOUS
    <3>1. ASSUME NEW i \in 1 .. Len(pending), pending[i] = t PROVE Held(t)'
      <4>1. CASE i = 1 BY <2>2, <3>1, <4>1 DEF Held
      <4>2. CASE i # 1
        <5>1. i - 1 \in 1 .. Len(pending') /\ pending'[i - 1] = t
          BY <1>0, <2>2, <3>1, <4>2
        <5>. QED BY <5>1 DEF Held
      <4>. QED BY <4>1, <4>2
    <3>2. ASSUME NEW i \in 1 .. Len(pending'), pending'[i] = t PROVE Held(t)
      <4>0. i \in 1 .. Len(pending) - 1
        BY <2>2
      <4>1. pending'[i] = pending[i + 1]
        BY <2>2, <4>0
      <4>2. i + 1 \in 1 .. Len(pending)
        BY <1>0, <4>0
      <4>3. pending[i + 1] = t
        BY <3>2, <4>1
      <4>. QED BY <4>2, <4>3 DEF Held
    <3>3. ASSUME cur' = t PROVE Held(t)
      <4>1. 1 \in 1 .. Len(pending) /\ pending[1] = t
        BY <1>0, <2>2, <3>3
      <4>. QED BY <4>1 DEF Held
    <3>. QED BY <1>0, <2>1, <3>1, <3>2, <3>3 DEF Held
  <2>. QED BY <1>0, <2>1, <2>2, <2>3 DEF HeldOnce
<1>7. CASE Verdict
  <2>1. /\ UNCHANGED <<pending, attempts>> /\ cur' = NoTask /\ cur \in Tasks
        /\ pc' # "publishing"
    BY <1>0, <1>7 DEF Verdict, CurInHand, InHand
  <2>2. outcome' \in {[outcome EXCEPT ![cur] = "ok"], [outcome EXCEPT ![cur] = "bad"]}
    BY <1>7, VerdictCounts
  <2>3. outcome[cur] = "submitted" /\ cur <= attempts
    BY <1>0, <2>1 DEF HeldOnce, Held
  <2>. QED BY <1>0, <2>1, <2>2, <2>3 DEF HeldOnce, Held
<1>8. CASE Construct \/ Enter \/ EndSubmit \/ Report \/ Abort \/ Kill
  BY <1>1, <1>8 DEF Construct, Enter, EndSubmit, Report, ExitOf, Abort, Kill, tally, locals
<1>9. CASE RecordPublish \/ GetReturns \/ GetFails \/ RecordE2e
  BY <1>1, <1>9 DEF RecordPublish, GetReturns, GetFails, RecordE2e, tally, locals
<1>10. CASE Environment BY <1>2, <1>10, EnvironmentFrame
<1>11. CASE UNCHANGED vars BY <1>2, <1>11 DEF vars, tally, locals
<1>. QED
  BY <1>3, <1>4, <1>5, <1>6, <1>7, <1>8, <1>9, <1>10, <1>11 DEF Next, ProducerStep

-----------------------------------------------------------------------------
(* The log                                                                 *)

\* The five conjuncts of the log, preserved together.
LogInv == LogPosition /\ EventsAlternate /\ LoggedFromCollection /\ NoDoubleRecord

\* What writing one more line does to the log.
LEMMA AppendLine ==
  ASSUME NEW S, NEW s \in Seq(S), NEW e \in S
  PROVE  /\ Len(s) \in Nat
         /\ Append(s, e) \in Seq(S)
         /\ Len(Append(s, e)) = Len(s) + 1
         /\ \A i \in 1 .. Len(s) : Append(s, e)[i] = s[i]
         /\ Append(s, e)[Len(s) + 1] = e
BY AppendProperties, LenProperties

LEMMA Parity == \A j \in Nat : (2 * j + 1) % 2 = 1 /\ (2 * j + 2) % 2 # 1
OBVIOUS

LEMMA NextLogInv ==
  ASSUME TypeOK, CurInHand, HeldOnce, LogInv, [Next]_vars
  PROVE  LogInv'
<1> DEFINE judged == succeeded + failed
<1> DEFINE Line == [task : Tasks, points : {"T0T1", "T6"}]
<1>0. /\ events \in Seq(Line) /\ Len(events) \in Nat
      /\ \A i \in 1 .. Len(events) : events[i] \in Line
      /\ judged \in Nat /\ cur \in Tasks \cup {NoTask}
      /\ \A t \in Tasks : t \in Nat /\ t # NoTask
      /\ outcome \in [Tasks -> {"new", "submitted", "rejected", "ok", "bad"}]
  <2>1. events \in Seq(Line)
    BY DEF TypeOK, BooksOK
  <2>2. Len(events) \in Nat /\ \A i \in 1 .. Len(events) : events[i] \in Line
    BY ONLY <2>1, LenProperties, ElementOfSeq
  <2>. QED BY <2>1, <2>2 DEF TypeOK, BooksOK, ControlOK, Tasks, NoTask
<1> HIDE DEF Line
<1>1. CASE UNCHANGED <<events, outcome, succeeded, failed, cur, pc>>
  BY <1>1 DEF LogInv, LogPosition, EventsAlternate, LoggedFromCollection, NoDoubleRecord
<1>2. CASE /\ UNCHANGED <<events, succeeded, failed, cur>>
           /\ \A t \in Tasks : outcome[t] \in {"ok", "bad"} => outcome'[t] = outcome[t]
           /\ {pc, pc'} \cap {"get", "e2e", "verdict", "aborted", "killed"} = {}
  BY <1>0, <1>2 DEF LogInv, LogPosition, EventsAlternate, LoggedFromCollection,
     NoDoubleRecord, Line
<1>3. CASE RecordPublish
  <2>1. /\ cur \in Tasks /\ pc = "collect" /\ pc' = "get" /\ cur' = cur
        /\ UNCHANGED <<outcome, succeeded, failed>>
        /\ events' = Append(events, [task |-> cur, points |-> "T0T1"])
        /\ [task |-> cur, points |-> "T0T1"] \in Line
    BY <1>0, <1>3 DEF RecordPublish, CurInHand, InHand, tally, Line
  <2>2. /\ Len(events') = Len(events) + 1
        /\ \A i \in 1 .. Len(events) : events'[i] = events[i]
        /\ events'[Len(events) + 1] = [task |-> cur, points |-> "T0T1"]
    BY <1>0, <2>1, AppendLine
  <2>3. Len(events) = 2 * judged /\ LogPosition'
    BY <1>0, <2>1, <2>2 DEF LogInv, LogPosition
  <2>4. \A i \in 1 .. Len(events) : events[i].task # cur
    BY <2>1 DEF LogInv, LoggedFromCollection
  <2>5. EventsAlternate'
    <3>1. \A i \in 1 .. Len(events) : i > 1 => i - 1 \in 1 .. Len(events)
      BY <1>0
    <3>2. (Len(events) + 1) % 2 = 1
      BY <1>0, <2>3, Parity
    <3>. QED BY <1>0, <2>2, <3>1, <3>2 DEF LogInv, EventsAlternate
  <2>6. LoggedFromCollection'
    BY <1>0, <2>1, <2>2, <2>4 DEF LogInv, LoggedFromCollection
  <2>7. NoDoubleRecord'
    BY <1>0, <2>2, <2>4 DEF LogInv, NoDoubleRecord
  <2>. QED BY <2>3, <2>5, <2>6, <2>7 DEF LogInv
<1>4. CASE RecordE2e
  <2>1. /\ cur \in Tasks /\ pc = "e2e" /\ pc' = "verdict" /\ cur' = cur
        /\ UNCHANGED <<outcome, succeeded, failed>>
        /\ events' = Append(events, [task |-> cur, points |-> "T6"])
        /\ [task |-> cur, points |-> "T6"] \in Line
    BY <1>0, <1>4 DEF RecordE2e, CurInHand, InHand, locals, tally, Line
  <2>2. /\ Len(events') = Len(events) + 1
        /\ \A i \in 1 .. Len(events) : events'[i] = events[i]
        /\ events'[Len(events) + 1] = [task |-> cur, points |-> "T6"]
    BY <1>0, <2>1, AppendLine
  <2>3. /\ Len(events) = 2 * judged + 1 /\ LogPosition'
        /\ events[Len(events)] = [task |-> cur, points |-> "T0T1"]
    <3>1. /\ Len(events) = 2 * judged + 1
          /\ events[Len(events)] = [task |-> cur, points |-> "T0T1"]
      BY <2>1 DEF LogInv, LogPosition
    <3>2. Len(events') = 2 * judged + 2 /\ judged' = judged
      BY <1>0, <2>1, <2>2, <3>1
    <3>. QED BY <2>1, <3>1, <3>2 DEF LogPosition
  <2>4. \A i \in 1 .. Len(events) : events[i] # [task |-> cur, points |-> "T6"]
    BY <2>1 DEF LogInv, LoggedFromCollection
  <2>5. EventsAlternate'
    <3>1. \A i \in 1 .. Len(events) : i > 1 => i - 1 \in 1 .. Len(events)
      BY <1>0
    <3>2. (Len(events) + 1) % 2 # 1 /\ Len(events) \in 1 .. Len(events)
      BY <1>0, <2>3, Parity
    <3>3. events'[Len(events)].task = cur
      BY <2>2, <2>3, <3>2
    <3>. QED BY <1>0, <2>2, <3>1, <3>2, <3>3 DEF LogInv, EventsAlternate
  <2>6. LoggedFromCollection'
    BY <1>0, <2>1, <2>2 DEF LogInv, LoggedFromCollection
  <2>7. NoDoubleRecord'
    BY <1>0, <2>2, <2>4 DEF LogInv, NoDoubleRecord
  <2>. QED BY <2>3, <2>5, <2>6, <2>7 DEF LogInv
<1>5. CASE GetReturns \/ GetFails
  <2>1. UNCHANGED <<events, outcome, succeeded, failed, cur>> /\ pc = "get" /\ pc' = "e2e"
    BY <1>5 DEF GetReturns, GetFails, tally
  <2>. QED BY <2>1 DEF LogInv, LogPosition, EventsAlternate, LoggedFromCollection, NoDoubleRecord
<1>6. CASE Verdict
  <2>1. /\ pc = "verdict" /\ pc' \in {"submit", "drain"} /\ cur' = NoTask /\ cur \in Tasks
        /\ events' = events
    BY <1>0, <1>6 DEF Verdict, CurInHand, InHand
  <2>2. /\ judged' = judged + 1
        /\ outcome' \in {[outcome EXCEPT ![cur] = "ok"], [outcome EXCEPT ![cur] = "bad"]}
    BY <1>6, VerdictCounts DEF TypeOK, BooksOK
  <2>3. LogPosition'
    BY <1>0, <2>1, <2>2 DEF LogInv, LogPosition
  <2>4. EventsAlternate' /\ NoDoubleRecord'
    BY <2>1 DEF LogInv, EventsAlternate, NoDoubleRecord
  <2>5. LoggedFromCollection'
    BY <1>0, <2>1, <2>2 DEF LogInv, LoggedFromCollection, Line
  <2>. QED BY <2>3, <2>4, <2>5 DEF LogInv
<1>7. CASE TakeNext
  <2>1. /\ pc = "drain" /\ pc' = "collect" /\ cur = NoTask /\ cur' = Head(pending)
        /\ UNCHANGED <<events, outcome, succeeded, failed>>
        /\ pending \in Seq(Tasks) /\ pending # <<>>
    BY <1>7 DEF TakeNext, CurInHand, InHand, tally, TypeOK, ControlOK
  <2>2. cur' \in Tasks /\ outcome[cur'] = "submitted"
    BY <2>1, HeadTailProperties, LenProperties DEF HeldOnce, Held
  <2>3. \A i \in 1 .. Len(events) : events[i].task # cur' /\ outcome[events[i].task] \in {"ok", "bad"}
    BY <1>0, <2>1, <2>2 DEF LogInv, LoggedFromCollection
  <2>. QED
    BY <2>1, <2>3 DEF LogInv, LogPosition, EventsAlternate, LoggedFromCollection, NoDoubleRecord
<1>8. CASE PublishOk
  <2>1. /\ pc = "publishing" /\ pc' \in {"collect", "submit"} /\ cur = NoTask
        /\ cur' \in {NoTask, attempts} /\ attempts \in Tasks
        /\ UNCHANGED <<events, succeeded, failed>>
        /\ outcome[attempts] = "new" /\ outcome' = [outcome EXCEPT ![attempts] = "submitted"]
    BY <1>8 DEF PublishOk, CurInHand, InHand, HeldOnce
  <2>2. \A i \in 1 .. Len(events) :
          events[i].task # attempts /\ outcome'[events[i].task] \in {"ok", "bad"}
    BY <1>0, <2>1 DEF LogInv, LoggedFromCollection, Line
  <2>3. LoggedFromCollection'
    BY <1>0, <2>1, <2>2 DEF LoggedFromCollection, Line
  <2>. QED BY <2>1, <2>3 DEF LogInv, LogPosition, EventsAlternate, NoDoubleRecord
<1>9. CASE PublishError
  <2>1. outcome[attempts] = "new" /\ attempts \in Tasks
    BY <1>9 DEF PublishError, HeldOnce, CurInHand
  <2>. QED BY <1>0, <1>2, <1>9, <2>1 DEF PublishError, locals
<1>10. CASE Construct \/ Enter
  <2>1. /\ UNCHANGED <<events, outcome, succeeded, failed, cur>>
        /\ pc \in {"construct", "enter"} /\ pc' \in {"enter", "submit", "aborted"}
    BY <1>10 DEF Construct, Enter, tally, locals
  <2>2. cur = NoTask /\ Len(events) = 2 * judged
    BY <2>1 DEF CurInHand, InHand, LogInv, LogPosition
  <2>3. LogPosition'
    BY <1>0, <2>1, <2>2 DEF LogPosition
  <2>4. LoggedFromCollection'
    BY <1>0, <2>1, <2>2 DEF LogInv, LoggedFromCollection, Line
  <2>. QED BY <2>1, <2>3, <2>4 DEF LogInv, EventsAlternate, NoDoubleRecord
<1>11. CASE SubmitBegin \/ EndSubmit \/ Report
  BY <1>2, <1>11 DEF SubmitBegin, EndSubmit, Report, ExitOf, tally, locals
<1>12. CASE Abort \/ Kill
  <2>1. UNCHANGED <<events, outcome, succeeded, failed, cur>> /\ pc' \in {"aborted", "killed"}
    BY <1>12 DEF Abort, Kill, tally, locals
  <2>2. 2 * judged <= Len(events) /\ Len(events) <= 2 * judged + 2
    BY <1>0 DEF LogInv, LogPosition
  <2>. QED
    BY <2>1, <2>2 DEF LogInv, LogPosition, EventsAlternate, LoggedFromCollection, NoDoubleRecord
<1>13. CASE Environment BY <1>1, <1>13, EnvironmentFrame
<1>14. CASE UNCHANGED vars BY <1>1, <1>14 DEF vars, tally, locals
<1>. QED
  BY <1>3, <1>4, <1>5, <1>6, <1>7, <1>8, <1>9, <1>10, <1>11, <1>12, <1>13, <1>14
     DEF Next, ProducerStep

-----------------------------------------------------------------------------
(* The end of a run, and the safety theorems                               *)

\* A run that reports has collected everything, and exit code 0 means no failure.
Closing ==
  /\ pc \in {"exit0", "exit1"} => pending = <<>>
  /\ pc = "exit0" => failed = 0
  /\ failed = 0 => \A t \in Tasks : outcome[t] # "bad"

LEMMA NextClosing ==
  ASSUME TypeOK, CurInHand, Closing, [Next]_vars
  PROVE  Closing'
<1>0. /\ failed \in Nat /\ cur \in Tasks \cup {NoTask}
      /\ outcome \in [Tasks -> {"new", "submitted", "rejected", "ok", "bad"}]
  BY DEF TypeOK, BooksOK, ControlOK
<1>1. CASE UNCHANGED <<failed, outcome>> /\ pc' \notin {"exit0", "exit1"}
  BY <1>1 DEF Closing
<1>2. CASE UNCHANGED <<failed, outcome, pending, pc>>
  BY <1>2 DEF Closing
<1>3. CASE Report BY <1>3 DEF Report, ExitOf, tally, locals, Closing
<1>4. CASE Verdict
  <2>1. pc' \notin {"exit0", "exit1"} /\ cur \in Tasks
    BY <1>0, <1>4 DEF Verdict, CurInHand, InHand
  <2>2. \/ failed' = failed /\ outcome' = [outcome EXCEPT ![cur] = "ok"]
        \/ failed' = failed + 1
    BY <1>4, VerdictCounts
  <2>. QED BY <1>0, <2>1, <2>2 DEF Closing
<1>5. CASE PublishOk BY <1>0, <1>5 DEF PublishOk, Closing
<1>6. CASE PublishError BY <1>0, <1>6 DEF PublishError, Closing
<1>7. CASE Construct \/ Enter \/ SubmitBegin \/ EndSubmit \/ TakeNext \/ Abort \/ Kill
  BY <1>1, <1>7 DEF Construct, Enter, SubmitBegin, EndSubmit, TakeNext, Abort, Kill, tally
<1>8. CASE RecordPublish \/ GetReturns \/ GetFails \/ RecordE2e
  BY <1>1, <1>8 DEF RecordPublish, GetReturns, GetFails, RecordE2e, tally
<1>9. CASE Environment BY <1>2, <1>9, EnvironmentFrame
<1>10. CASE UNCHANGED vars BY <1>2, <1>10 DEF vars, tally, locals
<1>. QED
  BY <1>3, <1>4, <1>5, <1>6, <1>7, <1>8, <1>9, <1>10 DEF Next, ProducerStep

\* The inductive invariant.
IInv ==
  /\ TypeOK /\ CurInHand /\ Accounting
  /\ StateWitnessed /\ HeldOnce /\ SuccessWitnessed /\ LogInv /\ Closing

LEMMA InitIInv == Init => IInv
<1> SUFFICES ASSUME Init PROVE IInv
  OBVIOUS
<1>1. /\ outcome = [t \in Tasks |-> "new"] /\ pending = <<>> /\ cur = NoTask /\ events = <<>>
      /\ backend = [t \in Tasks |-> "PENDING"] /\ pc = "construct" /\ attempts = 0
      /\ submitted = 0 /\ succeeded = 0 /\ failed = 0
      /\ Len(pending) = 0 /\ Len(events) = 0
      /\ \A t \in Tasks : t # NoTask
  BY DEF Init, Tasks, NoTask
<1>2. HeldOnce BY <1>1 DEF HeldOnce, Held
<1>3. LogInv
  BY <1>1 DEF LogInv, LogPosition, EventsAlternate, LoggedFromCollection, NoDoubleRecord
<1>4. StateWitnessed /\ SuccessWitnessed /\ Closing /\ Accounting
  BY <1>1 DEF StateWitnessed, SuccessWitnessed, Closing, Accounting, Finals
<1>. QED BY <1>2, <1>3, <1>4, InitTypeOK DEF IInv

\* IInv holds in every reachable state.
THEOREM InvariantCorrect == Spec => []IInv
<1>1. IInv /\ [Next]_vars => IInv'
  BY NextControlOK, NextBooksOK, NextCeleryOK, NextAccounting, NextStateWitnessed,
     NextHeldOnce, NextSuccessWitnessed, NextLogInv, NextClosing DEF IInv, TypeOK
<1>. QED BY InitIInv, <1>1, PTL DEF Spec

\* A task counted as succeeded was run to SUCCESS and its result stored, unless
\* its result is one nobody stores.
THEOREM SuccessWitnessedCorrect == Spec => []SuccessWitnessed
<1>1. IInv => SuccessWitnessed
  BY DEF IInv
<1>. QED BY <1>1, InvariantCorrect, PTL

\* The log consists of T0/T1 and T6 lines in pairs, one pair per task.
THEOREM LogCorrect == Spec => [](EventsAlternate /\ NoDoubleRecord)
<1>1. IInv => EventsAlternate /\ NoDoubleRecord
  BY DEF IInv, LogInv
<1>. QED BY <1>1, InvariantCorrect, PTL

\* No task has two pairs of event lines: none is collected twice.
THEOREM NoDoubleRecordCorrect == Spec => []NoDoubleRecord
<1>. QED BY LogCorrect, PTL

\* The log has two lines per verdict and exactly two per task of a reported run.
THEOREM EventsMatchTallyCorrect == Spec => []EventsMatchTally
<1>1. IInv => EventsMatchTally
  <2> SUFFICES ASSUME IInv PROVE EventsMatchTally
    OBVIOUS
  <2>1. succeeded \in Nat /\ failed \in Nat /\ submitted \in Nat
    BY DEF IInv, TypeOK, BooksOK
  <2>2. /\ 2 * (succeeded + failed) <= Len(events)
        /\ Len(events) <= 2 * (succeeded + failed) + 2
    BY <2>1 DEF IInv, LogInv, LogPosition
  <2>3. ASSUME pc \in {"exit0", "exit1"} PROVE Len(events) = 2 * submitted
    <3>1. cur = NoTask /\ Len(pending) = 0
      BY <2>3 DEF IInv, CurInHand, InHand, Closing
    <3>2. submitted = succeeded + failed
      BY <2>1, <3>1 DEF IInv, Accounting
    <3>. QED BY <2>3, <3>2 DEF IInv, LogInv, LogPosition
  <2>. QED BY <2>2, <2>3 DEF EventsMatchTally
<1>. QED BY <1>1, InvariantCorrect, PTL

\* Exit code 0 leaves no accepted task without a verdict and none judged failed.
THEOREM CleanExitCorrect == Spec => []CleanExit
<1>1. IInv => CleanExit
  <2> SUFFICES ASSUME IInv, pc = "exit0", NEW t \in Tasks
               PROVE  outcome[t] \in {"new", "rejected", "ok"}
    BY DEF CleanExit
  <2>1. cur = NoTask /\ pending = <<>> /\ outcome[t] # "bad" /\ t # NoTask
    BY DEF IInv, CurInHand, InHand, Closing, Tasks, NoTask
  <2>2. outcome[t] # "submitted"
    BY <2>1 DEF IInv, HeldOnce, Held
  <2>. QED BY <2>1, <2>2 DEF IInv, TypeOK, BooksOK
<1>. QED BY <1>1, InvariantCorrect, PTL

\* The closed loop makes no attempt while an accepted task awaits its verdict.
THEOREM ClosedLoopSerialCorrect == Spec => ClosedLoopSerial
<1>1. IInv /\ [Next]_vars =>
        [(spec.mode = "closed_loop" /\ attempts' # attempts) =>
            \A t \in Tasks : outcome[t] # "submitted"]_vars
  <2> SUFFICES ASSUME IInv, [Next]_vars, spec.mode = "closed_loop", attempts' # attempts,
                      NEW t \in Tasks
               PROVE  outcome[t] # "submitted"
    OBVIOUS
  <2>1. SubmitBegin
    <3>1. CASE ProducerStep
      BY <3>1 DEF ProducerStep, Construct, Enter, PublishOk, PublishError, EndSubmit,
         TakeNext, RecordPublish, GetReturns, GetFails, RecordE2e, Verdict, Report, ExitOf, locals
    <3>2. CASE Abort \/ Kill \/ UNCHANGED vars
      BY <3>2 DEF Abort, Kill, vars, locals
    <3>3. CASE Environment BY <3>3, EnvironmentFrame
    <3>. QED BY <3>1, <3>2, <3>3 DEF Next
  <2>2. cur = NoTask /\ pending = <<>> /\ t # NoTask
    BY <2>1 DEF SubmitBegin, IInv, CurInHand, InHand, HeldOnce, Tasks, NoTask
  <2>. QED BY <2>2 DEF IInv, HeldOnce, Held
<1>. QED BY <1>1, InvariantCorrect, PTL DEF Spec, ClosedLoopSerial

-----------------------------------------------------------------------------
(* The run implements the ledger                                           *)

LEMMA LedgerInit == Init => Ledger!Init
BY DEF Init, Ledger!Init

\* Every step is a step of the ledger or leaves it alone.
LEMMA LedgerStep ==
  ASSUME IInv, [Next]_vars
  PROVE  [Ledger!Next]_(Ledger!lvars)
<1> USE DEF Ledger!lvars
<1>0. /\ outcome \in [Tasks -> {"new", "submitted", "rejected", "ok", "bad"}]
      /\ cur \in Tasks \cup {NoTask}
  BY DEF IInv, TypeOK, BooksOK, ControlOK
<1>1. CASE /\ UNCHANGED outcome
           /\ (pc' \in {"exit0", "exit1"}) = (pc \in {"exit0", "exit1"})
  BY <1>1
<1>2. CASE PublishOk
  <2>1. attempts \in Tasks /\ outcome[attempts] = "new"
    BY <1>2 DEF PublishOk, IInv, CurInHand, HeldOnce
  <2>2. Ledger!Accept(attempts)
    BY <1>2, <2>1 DEF PublishOk, Ledger!Accept, Ledger!Move
  <2>. QED BY <2>1, <2>2 DEF Ledger!Next
<1>3. CASE PublishError
  <2>1. attempts \in Tasks /\ outcome[attempts] = "new"
    BY <1>3 DEF PublishError, IInv, CurInHand, HeldOnce
  <2>2. Ledger!Reject(attempts)
    BY <1>3, <2>1 DEF PublishError, Ledger!Reject, Ledger!Move
  <2>. QED BY <2>1, <2>2 DEF Ledger!Next
<1>4. CASE Verdict
  <2>1. /\ cur \in Tasks /\ outcome[cur] = "submitted"
        /\ pc = "verdict" /\ pc' \in {"submit", "drain"}
    BY <1>0, <1>4 DEF Verdict, IInv, CurInHand, InHand, HeldOnce, Held
  <2>2. PICK v \in {"ok", "bad"} : outcome' = [outcome EXCEPT ![cur] = v]
    BY <1>4, VerdictCounts DEF IInv
  <2>3. Ledger!Judge(cur)
    <3>1. (pc' \in {"exit0", "exit1"}) = (pc \in {"exit0", "exit1"})
      BY <2>1
    <3>2. Ledger!Move(cur, "submitted", v)
      BY <2>1, <2>2, <3>1 DEF Ledger!Move
    <3>. QED BY <3>2, Zenon DEF Ledger!Judge
  <2>. QED BY <2>1, <2>3 DEF Ledger!Next
<1>5. CASE Report
  <2>1. /\ pc = "drain" /\ pc' \in {"exit0", "exit1", "aborted"} /\ UNCHANGED outcome
        /\ cur = NoTask /\ pending = <<>>
    BY <1>5 DEF Report, ExitOf, tally, IInv, CurInHand, InHand
  <2>2. \A t \in Tasks : outcome[t] # "submitted"
    BY <2>1 DEF IInv, HeldOnce, Held, Tasks, NoTask
  <2>3. CASE pc' = "aborted" BY <1>1, <2>1, <2>3
  <2>4. CASE pc' # "aborted"
    <3>1. Ledger!Close
      BY <2>1, <2>2, <2>4 DEF Ledger!Close
    <3>. QED BY <3>1 DEF Ledger!Next
  <2>. QED BY <2>3, <2>4
<1>6. CASE Construct \/ Enter \/ SubmitBegin \/ EndSubmit \/ TakeNext \/ Abort
  BY <1>1, <1>6 DEF Construct, Enter, SubmitBegin, EndSubmit, TakeNext, Abort, tally
<1>7. CASE RecordPublish \/ GetReturns \/ GetFails \/ RecordE2e
  BY <1>1, <1>7 DEF RecordPublish, GetReturns, GetFails, RecordE2e, tally
<1>8. CASE Kill BY <1>1, <1>8 DEF Kill, tally, Stopped
<1>9. CASE Environment BY <1>1, <1>9, EnvironmentFrame
<1>10. CASE UNCHANGED vars BY <1>1, <1>10 DEF vars, tally
<1>. QED
  BY <1>2, <1>3, <1>4, <1>5, <1>6, <1>7, <1>8, <1>9, <1>10 DEF Next, ProducerStep

\* BenchmarkProducer keeps the ledger: one verdict per accepted task, never
\* revised, and no report while a verdict is missing.
THEOREM LedgerCorrect == Spec => LedgerSpec
<1>1. IInv /\ [Next]_vars => [Ledger!Next]_(Ledger!lvars)
  BY LedgerStep
<1>. QED BY LedgerInit, <1>1, InvariantCorrect, PTL DEF Spec, LedgerSpec, Ledger!Spec

-----------------------------------------------------------------------------
(* The smoke gate                                                          *)

InProcess == spec.memory /\ spec.mode \in Counted

\* An in-process run is eager as long as it lasts: nothing is published.
Eager ==
  InProcess =>
    /\ pc \in {"submit", "publishing", "drain"} \cup InHand => always_eager
    /\ \A t \in Tasks : msg[t] = "none"

\* Every attempt is submitted, and all of them are made.
AllSubmitted ==
  InProcess =>
    /\ attempts <= count
    /\ pc \notin {"aborted", "killed"} =>
         submitted = IF pc = "publishing" THEN attempts - 1 ELSE attempts
    /\ (pc \in {"drain", "exit0", "exit1"} \/ (pc \in InHand /\ spec.mode # "closed_loop")) =>
         attempts = count

\* A body that cannot raise gives no FAILURE, and get returns what it gave.
AllGood ==
  (InProcess /\ spec.task \in Harmless) =>
    /\ failed = 0 /\ \A t \in Tasks : backend[t] \in {"PENDING", "SUCCESS"}
    /\ pc \in {"e2e", "verdict"} => frame.ok /\ frame.state = "SUCCESS"

LEMMA NextEager ==
  ASSUME TypeOK, Eager, [Next]_vars
  PROVE  Eager'
<1>1. CASE Construct \/ Enter \/ SubmitBegin \/ EndSubmit
  BY <1>1 DEF Construct, Enter, SubmitBegin, EndSubmit, Eager, InProcess, config, celery, InHand
<1>2. CASE PublishOk \/ PublishError
  BY <1>2 DEF PublishOk, PublishError, Eager, InProcess, config, celery, InHand
<1>3. CASE TakeNext \/ RecordPublish \/ GetReturns \/ GetFails \/ RecordE2e \/ Verdict
  BY <1>3 DEF TakeNext, RecordPublish, GetReturns, GetFails, RecordE2e, Verdict, Eager, InProcess,
     config, celery, InHand
<1>4. CASE Report \/ Abort \/ Kill
  BY <1>4 DEF Report, ExitOf, Abort, Kill, Eager, InProcess, config, celery, InHand
<1>5. CASE Environment
  <2>1. UNCHANGED <<spec, pc, always_eager>>
    BY <1>5, EnvironmentFrame
  <2>2. ASSUME InProcess, NEW t \in Tasks PROVE msg'[t] = "none"
    <3>1. \A u \in Tasks : msg[u] = "none"
      BY <2>2 DEF Eager
    <3>2. ~Enqueue
      BY <2>2 DEF Enqueue, Eager
    <3>3. ASSUME NEW u \in Tasks, Deliver(u) \/ LoseMessage(u) PROVE FALSE
      BY <3>1, <3>3 DEF Deliver, LoseMessage
    <3>4. ASSUME NEW u \in Tasks, NEW r \in Results(spec.task), StoreResult(u, r) PROVE FALSE
      BY <3>1, <3>4 DEF StoreResult
    <3>5. PICK u \in Tasks : Expire(u)
      BY <1>5, <3>2, <3>3, <3>4 DEF Environment
    <3>. QED BY <3>1, <3>5 DEF Expire
  <2>. QED BY <2>1, <2>2 DEF Eager, InProcess
<1>6. CASE UNCHANGED vars
  BY <1>6 DEF vars, config, celery, Eager, InProcess
<1>. QED BY <1>1, <1>2, <1>3, <1>4, <1>5, <1>6 DEF Next, ProducerStep

LEMMA NextAllSubmitted ==
  ASSUME TypeOK, CurInHand, Eager, AllSubmitted, [Next]_vars
  PROVE  AllSubmitted'
<1>0. attempts \in Nat /\ count \in Nat /\ submitted \in Nat
  BY BoundsAssumption DEF TypeOK, ControlOK, BooksOK
<1> USE <1>0
<1>1. CASE Construct \/ Enter
  BY <1>1 DEF Construct, Enter, AllSubmitted, InProcess, config, locals, tally, InHand
<1>2. CASE SubmitBegin \/ EndSubmit
  BY <1>2 DEF SubmitBegin, EndSubmit, AllSubmitted, InProcess, config, locals, tally, InHand,
     Counted, Timed
<1>3. CASE PublishOk
  <2>1. /\ pc = "publishing" /\ submitted' = submitted + 1 /\ UNCHANGED <<spec, count, attempts>>
        /\ IF spec.mode = "closed_loop" THEN pc' = "collect" ELSE pc' = "submit"
    BY <1>3 DEF PublishOk, config
  <2>. QED BY <2>1 DEF AllSubmitted, InProcess, InHand
<1>4. CASE PublishError
  BY <1>4 DEF PublishError, AllSubmitted, Eager, InProcess, config
<1>5. CASE TakeNext \/ RecordPublish \/ GetReturns \/ GetFails \/ RecordE2e
  BY <1>5 DEF TakeNext, RecordPublish, GetReturns, GetFails, RecordE2e, AllSubmitted, InProcess,
     config, locals, tally, InHand
<1>6. CASE Verdict
  <2>1. /\ pc = "verdict" /\ UNCHANGED <<spec, count, attempts, submitted>>
        /\ pc' = IF spec.mode = "closed_loop" THEN "submit" ELSE "drain"
    BY <1>6 DEF Verdict, config
  <2>. QED BY <2>1 DEF AllSubmitted, InProcess, InHand
<1>7. CASE Report \/ Abort \/ Kill
  BY <1>7 DEF Report, ExitOf, Abort, Kill, AllSubmitted, InProcess, config, locals, tally, InHand
<1>8. CASE Environment
  BY <1>8, EnvironmentFrame DEF AllSubmitted, InProcess
<1>9. CASE UNCHANGED vars
  BY <1>9 DEF vars, config, locals, tally, AllSubmitted, InProcess
<1>. QED BY <1>1, <1>2, <1>3, <1>4, <1>5, <1>6, <1>7, <1>8, <1>9 DEF Next, ProducerStep

LEMMA NextAllGood ==
  ASSUME TypeOK, CurInHand, Eager, AllGood, [Next]_vars
  PROVE  AllGood'
<1>0. /\ backend \in [Tasks -> Finals \cup {"PENDING"}] /\ failed \in Nat
      /\ pc = "publishing" => attempts \in Tasks
  BY DEF TypeOK, BooksOK, CeleryOK, CurInHand
<1>1. CASE Construct \/ Enter \/ SubmitBegin \/ EndSubmit
  BY <1>1 DEF Construct, Enter, SubmitBegin, EndSubmit, AllGood, InProcess, config, tally, locals, celery
<1>2. CASE PublishOk
  <2> SUFFICES ASSUME InProcess, spec.task \in Harmless PROVE AllGood'
    BY <1>2 DEF PublishOk, AllGood, InProcess, config
  <2>1. always_eager /\ pc = "publishing"
    BY <1>2 DEF PublishOk, Eager
  <2>2. backend' = [backend EXCEPT ![attempts] = "SUCCESS"]
    BY <1>2, <2>1 DEF PublishOk, EagerResults
  <2>3. UNCHANGED <<failed, frame>> /\ pc' \notin {"e2e", "verdict"}
    BY <1>2 DEF PublishOk
  <2>. QED BY <1>0, <2>2, <2>3 DEF AllGood
<1>3. CASE PublishError
  BY <1>3 DEF PublishError, AllGood, InProcess, config, locals, celery
<1>4. CASE TakeNext \/ RecordPublish \/ RecordE2e
  BY <1>4 DEF TakeNext, RecordPublish, RecordE2e, AllGood, InProcess, config, tally, locals, celery
<1>5. CASE GetReturns
  <2> SUFFICES ASSUME InProcess, spec.task \in Harmless PROVE AllGood'
    BY <1>5 DEF GetReturns, AllGood, InProcess, config
  <2>1. cur \in Tasks
    BY <1>5 DEF GetReturns, CurInHand, InHand, TypeOK, ControlOK
  <2>2. backend[cur] = "SUCCESS" /\ ~Ignored
    BY <1>5, <2>1 DEF GetReturns, AllGood, Ignored, InProcess, Finals
  <2>3. frame'.ok /\ frame'.state = "SUCCESS" /\ UNCHANGED <<failed, backend>>
    BY <1>5, <2>2 DEF GetReturns, tally, celery
  <2>. QED BY <2>3 DEF AllGood
<1>6. CASE GetFails
  BY <1>6 DEF GetFails, Eager, AllGood, InProcess, config, InHand
<1>7. CASE Verdict
  <2> SUFFICES ASSUME InProcess, spec.task \in Harmless PROVE AllGood'
    BY <1>7 DEF Verdict, AllGood, InProcess, config
  <2>1. frame.ok /\ frame.state = "SUCCESS"
    BY <1>7 DEF Verdict, AllGood
  <2>2. ResultState # "FAILURE"
    BY <2>1 DEF ResultState, Finals
  <2>3. UNCHANGED failed /\ UNCHANGED backend /\ pc' \notin {"e2e", "verdict"}
    BY <1>7, <2>1, <2>2 DEF Verdict, celery
  <2>. QED BY <2>3 DEF AllGood
<1>8. CASE Report \/ Abort \/ Kill
  BY <1>8 DEF Report, ExitOf, Abort, Kill, AllGood, InProcess, config, tally, celery
<1>9. CASE Environment
  <2>1. UNCHANGED <<spec, pc, failed, frame>>
    BY <1>9, EnvironmentFrame
  <2>2. ASSUME InProcess PROVE UNCHANGED backend
    <3>1. \A u \in Tasks : msg[u] = "none"
      BY <2>2 DEF Eager
    <3>2. ASSUME NEW u \in Tasks, NEW r \in Results(spec.task), StoreResult(u, r) PROVE FALSE
      BY <3>1, <3>2 DEF StoreResult
    <3>3. ASSUME NEW u \in Tasks, Expire(u) PROVE FALSE
      BY <2>2, <3>3 DEF Expire, InProcess
    <3>. QED BY <1>9, <3>2, <3>3 DEF Environment, Enqueue, Deliver, LoseMessage
  <2>. QED BY <2>1, <2>2 DEF AllGood, InProcess
<1>10. CASE UNCHANGED vars
  BY <1>10 DEF vars, config, tally, locals, celery, AllGood, InProcess
<1>. QED
  BY <1>1, <1>2, <1>3, <1>4, <1>5, <1>6, <1>7, <1>8, <1>9, <1>10 DEF Next, ProducerStep

\* An in-process run that reports has submitted all it was asked to, with two event
\* lines each, and every one succeeded unless its body may raise: for any count.
THEOREM SmokeGateCorrect == Spec => []SmokeGate
<1> DEFINE J == Eager /\ AllSubmitted /\ AllGood
<1>1. Init => J
  BY BoundsAssumption DEF Init, Eager, AllSubmitted, AllGood, InProcess, InHand
<1>2. IInv /\ J /\ [Next]_vars => J'
  BY NextEager, NextAllSubmitted, NextAllGood DEF IInv
<1>3. IInv /\ J => SmokeGate
  <2> SUFFICES ASSUME IInv, J, spec.memory, spec.mode \in Counted, pc \in {"exit0", "exit1"}
               PROVE  /\ submitted = count /\ Len(events) = 2 * count
                      /\ spec.task \in Harmless => succeeded = count
    BY DEF SmokeGate
  <2>1. submitted = count /\ (spec.task \in Harmless => failed = 0)
    BY DEF AllSubmitted, AllGood, InProcess
  <2>2. /\ submitted \in Nat /\ succeeded \in Nat /\ failed \in Nat
        /\ cur = NoTask /\ pending = <<>> /\ Len(pending) = 0
    BY DEF IInv, TypeOK, BooksOK, CurInHand, InHand, Closing
  <2>3. submitted = succeeded + failed
    BY <2>2 DEF IInv, Accounting
  <2>4. Len(events) = 2 * (succeeded + failed)
    BY DEF IInv, LogInv, LogPosition
  <2>. QED BY <2>1, <2>2, <2>3, <2>4
<1>. QED BY <1>1, <1>2, <1>3, InvariantCorrect, PTL DEF Spec
=============================================================================
