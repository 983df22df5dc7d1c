--------------------------- MODULE SignalHooksProofs ---------------------------
(***************************************************************************)
(* Proofs about SignalHooks, for every set of task ids and of child        *)
(* processes and every number of deliveries.                               *)
(***************************************************************************)
EXTENDS SignalHooks, TLAPS

\* A solo worker has one attempt in flight.
SoloSerial ==
  pool = "solo" =>
    \A a, b \in Attempts : stage[a] \in InFlight /\ stage[b] \in InFlight => a = b

\* Attempts that no other attempt's handlers can disturb: all of a solo worker, and
\* the only deliveries of their task where threads share the dict.
Alone(a) == pool = "solo" \/ (pool = "threads" /\ Siblings(a) = {a})

\* While such an attempt is in flight, and has not failed, the dict has its stamps.
KeptOwn ==
  \A a \in Attempts :
    (Alone(a) /\ stage[a] \in InFlight /\ outcome[a] # "fail") =>
      /\ state["main"][task[a]].T2 = a
      /\ stage[a] \in InBody => state["main"][task[a]].T3 = a

\* Where an attempt is executed, and what numbers and stages go with it.
Placed ==
  \A a \in Attempts :
    /\ pool # "prefork" => proc[a] = "main"
    /\ stage[a] \in InBody => proc[a] \in Executors
    /\ stage[a] # "none" <=> task[a] # "none"
    /\ stage[a] \in {"none", "queued", "received", "running"} => outcome[a] = "none"

-----------------------------------------------------------------------------
\* What the proofs use of the types.
Entries == [T2 : 0 .. MaxAttempts, T3 : 0 .. MaxAttempts, T4 : 0 .. MaxAttempts]

LEMMA InitTypeOK == Init => TypeOK /\ Placed
<1> SUFFICES ASSUME Init PROVE TypeOK /\ Placed
  OBVIOUS
<1> USE AttemptsAssumption DEF AttemptsAssumption, Init
<1>1. Empty \in Entries /\ NoSpan \in [t2 : 0 .. MaxAttempts, t3 : 0 .. MaxAttempts, done : BOOLEAN]
  BY DEF Empty, Entries, NoSpan, None
<1>2. state \in [Procs -> [Tasks -> Entries]]
  BY <1>1
<1>3. span \in [Attempts -> [t2 : 0 .. MaxAttempts, t3 : 0 .. MaxAttempts, done : BOOLEAN]]
  BY <1>1
<1>4. /\ stage \in [Attempts -> {"none", "queued", "done"} \cup InFlight]
      /\ proc \in [Attempts -> Procs]
      /\ outcome \in [Attempts -> {"none", "ok", "fail", "retry"}]
  BY DEF Procs
<1>5. Placed
  BY DEF Placed, InBody
<1>. QED BY <1>2, <1>3, <1>4, <1>5 DEF TypeOK, Entries

LEMMA EntryUpdate ==
  ASSUME NEW e \in Entries, NEW a \in 0 .. MaxAttempts
  PROVE  [e EXCEPT !.T3 = a] \in Entries /\ [e EXCEPT !.T4 = a] \in Entries
BY DEF Entries

LEMMA NextStateType ==
  ASSUME TypeOK, Placed, [Next]_vars
  PROVE  state' \in [Procs -> [Tasks -> Entries]]
<1>0. /\ state \in [Procs -> [Tasks -> Entries]]
      /\ proc \in [Attempts -> Procs] /\ "main" \in Procs /\ Executors \subseteq Procs
      /\ \A a \in Attempts : task[a] # "none" => task[a] \in Tasks
      /\ \A a \in Attempts : stage[a] # "none" => task[a] \in Tasks
      /\ \A a \in Attempts : a \in 0 .. MaxAttempts
      /\ Empty \in Entries
  <2>1. \A a \in Attempts : a \in 0 .. MaxAttempts
    BY AttemptsAssumption DEF AttemptsAssumption, Attempts
  <2>2. Empty \in Entries
    BY AttemptsAssumption DEF AttemptsAssumption, Entries, Empty, None
  <2>3. state \in [Procs -> [Tasks -> Entries]] /\ proc \in [Attempts -> Procs]
    BY DEF TypeOK, Entries
  <2>4. "main" \in Procs /\ Executors \subseteq Procs
    BY DEF Procs, Executors
  <2>5. \A a \in Attempts : task[a] # "none" => task[a] \in Tasks
    BY DEF TypeOK
  <2>6. \A a \in Attempts : stage[a] # "none" => task[a] \in Tasks
    BY <2>5 DEF Placed
  <2>. QED BY <2>1, <2>2, <2>3, <2>4, <2>5, <2>6
<1>1. CASE UNCHANGED state BY <1>0, <1>1
<1>2. ASSUME NEW a \in Attempts, Receive(a) PROVE state' \in [Procs -> [Tasks -> Entries]]
  <2>1. [Empty EXCEPT !.T2 = a] \in Entries /\ task[a] \in Tasks
    BY <1>0, <1>2 DEF Receive, Entries
  <2>. QED BY <1>0, <1>2, <2>1 DEF Receive
<1>3. ASSUME NEW a \in Attempts, NEW p \in Executors, Prerun(a, p)
      PROVE  state' \in [Procs -> [Tasks -> Entries]]
  <2>1. /\ p \in Procs /\ task[a] \in Tasks
        /\ state' = [state EXCEPT ![p][task[a]].T3 = a]
    BY <1>0, <1>3 DEF Prerun
  <2>2. [state[p][task[a]] EXCEPT !.T3 = a] \in Entries
    BY <1>0, <2>1, EntryUpdate
  <2>. QED BY <1>0, <2>1, <2>2
<1>4. ASSUME NEW a \in Attempts, PostrunStamp(a)
      PROVE  state' \in [Procs -> [Tasks -> Entries]]
  <2>1. /\ proc[a] \in Procs /\ task[a] \in Tasks
        /\ state' = [state EXCEPT ![proc[a]][task[a]].T4 = a]
    BY <1>0, <1>4 DEF PostrunStamp
  <2>2. [state[proc[a]][task[a]] EXCEPT !.T4 = a] \in Entries
    BY <1>0, <2>1, EntryUpdate
  <2>. QED BY <1>0, <2>1, <2>2
<1>5. ASSUME NEW a \in Attempts, Fail(a) \/ PostrunSpan(a)
      PROVE  state' \in [Procs -> [Tasks -> Entries]]
  <2>1. task[a] \in Tasks /\ state' = [state EXCEPT ![proc[a]][task[a]] = Empty]
    BY <1>0, <1>5 DEF Fail, End, PostrunSpan, Pop
  <2>. QED BY <1>0, <2>1
<1>6. ASSUME NEW a \in Attempts, Succeed(a) PROVE UNCHANGED state
  BY <1>6 DEF Succeed, traces
<1>7. ASSUME NEW a \in Attempts, NEW b \in Attempts, Retry(a, b) \/ Redeliver(a, b)
      PROVE  UNCHANGED state
  BY <1>7 DEF Retry, Redeliver, traces
<1>8. CASE UNCHANGED vars BY <1>1, <1>8 DEF vars, traces
<1>. QED
  BY <1>1, <1>2, <1>3, <1>4, <1>5, <1>6, <1>7, <1>8 DEF Next

LEMMA NextTypeOK ==
  ASSUME TypeOK, Placed, [Next]_vars
  PROVE  TypeOK'
<1> DEFINE Stages == {"none", "queued", "done"} \cup InFlight
<1> DEFINE Outcomes == {"none", "ok", "fail", "retry"}
<1> DEFINE Spans == [t2 : 0 .. MaxAttempts, t3 : 0 .. MaxAttempts, done : BOOLEAN]
<1> DEFINE Points == Attempts \X {"T2", "T3", "T4", "T5"}
<1> DEFINE WorkerOK == /\ task \in [Attempts -> Tasks \cup {"none"}]
                       /\ stage \in [Attempts -> Stages]
                       /\ proc \in [Attempts -> Procs]
                       /\ outcome \in [Attempts -> Outcomes]
<1> DEFINE TraceOK == /\ full \in BOOLEAN /\ logged \subseteq Points
                      /\ span \in [Attempts -> Spans] /\ broken \subseteq Attempts
<1>0. WorkerOK /\ TraceOK /\ Executors \subseteq Procs
  BY DEF TypeOK, Executors, Procs
<1>1. SUFFICES WorkerOK' /\ TraceOK' /\ pool' = pool
  BY <1>1, NextStateType DEF TypeOK, Entries
<1> HIDE DEF Outcomes, Spans, Points
<1>2. ASSUME NEW a \in Attempts, Receive(a) PROVE WorkerOK' /\ TraceOK' /\ pool' = pool
  <2>1. logged' \subseteq Points
    BY <1>0, <1>2 DEF Receive, Append, Points
  <2>. QED BY <1>0, <1>2, <2>1 DEF Receive, InFlight
<1>3. ASSUME NEW a \in Attempts, NEW p \in Executors, Prerun(a, p)
      PROVE  WorkerOK' /\ TraceOK' /\ pool' = pool
  <2>1. logged' \subseteq Points
    BY <1>0, <1>3 DEF Prerun, Append, Points
  <2>. QED BY <1>0, <1>3, <2>1 DEF Prerun, InFlight, InBody
<1>4. ASSUME NEW a \in Attempts, Succeed(a) \/ Fail(a)
      PROVE  WorkerOK' /\ TraceOK' /\ pool' = pool
  <2>1. stage' \in [Attempts -> Stages] /\ outcome' \in [Attempts -> Outcomes]
    BY <1>0, <1>4 DEF Succeed, Fail, End, InFlight, InBody, Outcomes
  <2>. QED BY <1>0, <1>4, <2>1 DEF Succeed, Fail, traces
<1>5. ASSUME NEW a \in Attempts, NEW b \in Attempts, Retry(a, b) \/ Redeliver(a, b)
      PROVE  WorkerOK' /\ TraceOK' /\ pool' = pool
  <2>1. /\ stage' \in [Attempts -> Stages] /\ outcome' \in [Attempts -> Outcomes]
        /\ task' \in [Attempts -> Tasks \cup {"none"}]
    BY <1>0, <1>5 DEF Retry, Redeliver, Publish, InFlight, InBody, Outcomes
  <2>. QED BY <1>0, <1>5, <2>1 DEF Retry, Redeliver, traces
<1>6. ASSUME NEW a \in Attempts, PostrunStamp(a) PROVE WorkerOK' /\ TraceOK' /\ pool' = pool
  <2>1. logged' \subseteq Points
    BY <1>0, <1>6 DEF PostrunStamp, Append, Points
  <2>2. stage' \in [Attempts -> Stages] /\ full' \in BOOLEAN /\ broken' \subseteq Attempts
    BY <1>0, <1>6 DEF PostrunStamp, InFlight, InBody
  <2>. QED BY <1>0, <1>6, <2>1, <2>2 DEF PostrunStamp
<1>7. ASSUME NEW a \in Attempts, PostrunSpan(a) PROVE WorkerOK' /\ TraceOK' /\ pool' = pool
  <2>1. state[proc[a]][task[a]] \in Entries
    BY <1>0, <1>7 DEF TypeOK, Entries, PostrunSpan, Placed
  <2>2. [t2 |-> state[proc[a]][task[a]].T2, t3 |-> state[proc[a]][task[a]].T3,
         done |-> TRUE] \in Spans
    BY <2>1 DEF Entries, Spans
  <2>3. span' \in [Attempts -> Spans]
    BY <1>0, <1>7, <2>2 DEF PostrunSpan
  <2>. QED BY <1>0, <1>7, <2>3 DEF PostrunSpan, InFlight
<1>8. CASE UNCHANGED vars BY <1>0, <1>8 DEF vars, worker, traces
<1>. QED
  BY <1>2, <1>3, <1>4, <1>5, <1>6, <1>7, <1>8 DEF Next

LEMMA NextPlaced ==
  ASSUME TypeOK, Placed, [Next]_vars
  PROVE  Placed'
<1>0. /\ pool' = pool /\ (Executors' = Executors)
      /\ \A a \in Attempts : stage[a] = "none" <=> task[a] = "none"
      /\ "none" \notin Tasks
  <2>1. pool' = pool
    BY DEF Next, vars, worker, traces, Receive, Prerun, Succeed, Fail, Retry, Redeliver,
       PostrunStamp, PostrunSpan
  <2>. QED BY <2>1, NamesAssumption DEF NamesAssumption, Executors, Placed
<1> USE <1>0 DEF Placed, InBody, InFlight, TypeOK
<1>1. ASSUME NEW a \in Attempts, Receive(a) PROVE Placed'
  BY <1>1 DEF Receive
<1>2. ASSUME NEW a \in Attempts, NEW p \in Executors, Prerun(a, p) PROVE Placed'
  BY <1>2 DEF Prerun, Executors
<1>3. ASSUME NEW a \in Attempts, Succeed(a) \/ Fail(a) PROVE Placed'
  BY <1>3 DEF Succeed, Fail, End
<1>4. ASSUME NEW a \in Attempts, NEW b \in Attempts, Retry(a, b) PROVE Placed'
  BY <1>4 DEF Retry, Publish
<1>5. ASSUME NEW a \in Attempts, NEW b \in Attempts, Redeliver(a, b) PROVE Placed'
  BY <1>5 DEF Redeliver, Publish
<1>6. ASSUME NEW a \in Attempts, PostrunStamp(a) PROVE Placed'
  BY <1>6 DEF PostrunStamp
<1>7. ASSUME NEW a \in Attempts, PostrunSpan(a) PROVE Placed'
  BY <1>7 DEF PostrunSpan
<1>8. CASE UNCHANGED vars BY <1>8 DEF vars, worker
<1> HIDE DEF Placed
<1>. QED
  BY <1>1, <1>2, <1>3, <1>4, <1>5, <1>6, <1>7, <1>8 DEF Next

\* Type correctness.
THEOREM TypeCorrect == Spec => [](TypeOK /\ Placed)
<1>1. TypeOK /\ Placed /\ [Next]_vars => (TypeOK /\ Placed)'
  BY NextTypeOK, NextPlaced
<1>. QED BY InitTypeOK, <1>1, PTL DEF Spec

-----------------------------------------------------------------------------
(* Exact spans                                                             *)

LEMMA PoolConstant == [Next]_vars => pool' = pool
BY DEF Next, vars, worker, traces, Receive, Prerun, Succeed, Fail, Retry, Redeliver,
   PostrunStamp, PostrunSpan

LEMMA NextSoloSerial ==
  ASSUME TypeOK, Placed, SoloSerial, [Next]_vars
  PROVE  SoloSerial'
<1> USE PoolConstant DEF SoloSerial, InFlight, InBody, TypeOK
<1>1. ASSUME NEW a \in Attempts, Receive(a) PROVE SoloSerial'
  BY <1>1 DEF Receive
<1>2. ASSUME NEW a \in Attempts, NEW p \in Executors, Prerun(a, p) PROVE SoloSerial'
  BY <1>2 DEF Prerun
<1>3. ASSUME NEW a \in Attempts, Succeed(a) \/ Fail(a) PROVE SoloSerial'
  BY <1>3 DEF Succeed, Fail, End
<1>4. ASSUME NEW a \in Attempts, NEW b \in Attempts, Retry(a, b) \/ Redeliver(a, b)
      PROVE  SoloSerial'
  <2>1. \A c \in Attempts : stage'[c] \in InFlight => stage[c] \in InFlight
    <3>1. CASE Retry(a, b) BY <3>1 DEF Retry
    <3>2. CASE Redeliver(a, b) BY <3>2 DEF Redeliver
    <3>. QED BY <1>4, <3>1, <3>2
  <2>. QED BY <2>1
<1>5. ASSUME NEW a \in Attempts, PostrunStamp(a) \/ PostrunSpan(a) PROVE SoloSerial'
  BY <1>5 DEF PostrunStamp, PostrunSpan
<1>6. CASE UNCHANGED vars BY <1>6 DEF vars, worker
<1> HIDE DEF SoloSerial
<1>. QED BY <1>1, <1>2, <1>3, <1>4, <1>5, <1>6 DEF Next

\* An attempt in flight that was alone after a step was alone before it.
LEMMA AloneBefore ==
  ASSUME TypeOK, Placed, [Next]_vars,
         NEW c \in Attempts, Alone(c)', task[c] # "none"
  PROVE  Alone(c) /\ task'[c] = task[c]
<1>1. \A d \in Attempts : task[d] # "none" => task'[d] = task[d]
  BY DEF Next, vars, worker, traces, Receive, Prerun, Succeed, Fail, Retry, Redeliver,
     Publish, PostrunStamp, PostrunSpan, TypeOK
<1>2. Siblings(c) \subseteq Siblings(c)' /\ c \in Siblings(c)
  BY <1>1 DEF Siblings
<1>. QED BY <1>1, <1>2, PoolConstant DEF Alone

\* The handlers of another attempt do not touch what is kept for an attempt in
\* flight that is alone.
LEMMA NotDisturbed ==
  ASSUME TypeOK, Placed, SoloSerial,
         NEW a \in Attempts, NEW c \in Attempts, a # c,
         stage[a] # "none", stage[a] \in InFlight \/ pool # "solo",
         Alone(c), stage[c] \in InFlight
  PROVE  task[a] # task[c]
BY DEF Alone, SoloSerial, Siblings

LEMMA NextKeptOwn ==
  ASSUME TypeOK, Placed, SoloSerial, KeptOwn, [Next]_vars
  PROVE  KeptOwn'
<1>0. /\ state \in [Procs -> [Tasks -> Entries]] /\ "main" \in Procs
      /\ \A a \in Attempts : stage[a] # "none" => task[a] \in Tasks /\ task[a] # "none"
      /\ \A a \in Attempts : pool # "prefork" => proc[a] = "main"
      /\ stage \in [Attempts -> {"none", "queued", "done"} \cup InFlight]
  BY DEF TypeOK, Entries, Procs, Placed
<1> DEFINE Kept(c) == /\ state["main"][task[c]].T2 = c
                      /\ stage[c] \in InBody => state["main"][task[c]].T3 = c
<1> SUFFICES ASSUME NEW c \in Attempts, Alone(c)', stage'[c] \in InFlight, outcome'[c] # "fail"
             PROVE  Kept(c)'
  BY DEF KeptOwn
<1>1. pool # "prefork"
  BY PoolConstant DEF Alone
<1>2. CASE UNCHANGED <<state, stage, outcome>> /\ stage[c] # "none"
  <2>1. Alone(c) /\ task'[c] = task[c]
    BY <1>0, <1>2, AloneBefore
  <2>. QED BY <1>2, <2>1 DEF KeptOwn
<1>3. ASSUME NEW a \in Attempts, Receive(a) PROVE Kept(c)'
  <2>1. /\ stage[a] = "queued" /\ stage' = [stage EXCEPT ![a] = "received"]
        /\ state' = [state EXCEPT !["main"][task[a]] = [Empty EXCEPT !.T2 = a]]
        /\ task' = task /\ outcome' = outcome
        /\ pool = "solo" => stage[c] \notin InFlight
    BY <1>3 DEF Receive
  <2>2. CASE c = a
    BY <1>0, <2>1, <2>2 DEF Empty, InBody
  <2>3. CASE c # a
    <3>1. stage[c] \in InFlight /\ Alone(c) /\ pool # "solo"
      BY <1>0, <2>1, <2>3, AloneBefore DEF InFlight, InBody
    <3>2. task[a] # task[c]
      BY <1>0, <2>1, <2>3, <3>1, NotDisturbed
    <3>. QED BY <1>0, <2>1, <2>3, <3>1, <3>2 DEF KeptOwn
  <2>. QED BY <2>2, <2>3
<1>4. ASSUME NEW a \in Attempts, NEW p \in Executors, Prerun(a, p) PROVE Kept(c)'
  <2>1. /\ stage[a] = "received" /\ stage' = [stage EXCEPT ![a] = "running"]
        /\ p = "main" /\ state' = [state EXCEPT !["main"][task[a]].T3 = a]
        /\ task' = task /\ outcome' = outcome /\ task[a] \in Tasks
    BY <1>0, <1>1, <1>4 DEF Prerun, Executors
  <2>2. stage[c] \in InFlight /\ Alone(c)
    BY <1>0, <2>1, AloneBefore DEF InFlight, InBody
  <2>3. state["main"][task[c]].T2 = c /\ task[c] \in Tasks
    BY <1>0, <2>1, <2>2 DEF KeptOwn, InFlight, InBody
  <2>4. CASE c = a
    <3>1. state'["main"][task[a]] = [state["main"][task[a]] EXCEPT !.T3 = a]
      BY <1>0, <2>1
    <3>2. state["main"][task[a]] \in Entries
      BY <1>0, <2>1
    <3>. QED BY <2>1, <2>3, <2>4, <3>1, <3>2 DEF Entries
  <2>5. CASE c # a
    <3>1. task[a] # task[c]
      BY <1>0, <2>1, <2>2, <2>5, NotDisturbed DEF InFlight
    <3>2. state'["main"][task[c]] = state["main"][task[c]] /\ stage'[c] = stage[c]
      BY <1>0, <2>1, <2>3, <2>5, <3>1
    <3>. QED BY <2>1, <2>2, <3>2 DEF KeptOwn
  <2>. QED BY <2>4, <2>5
<1>5. ASSUME NEW a \in Attempts, Fail(a) PROVE Kept(c)'
  <2>1. /\ stage[a] = "running" /\ stage' = [stage EXCEPT ![a] = "ended"]
        /\ outcome' = [outcome EXCEPT ![a] = "fail"] /\ outcome[a] = "none"
        /\ state' = [state EXCEPT !["main"][task[a]] = Empty] /\ task' = task
    BY <1>0, <1>1, <1>5 DEF Fail, End, Pop, Placed
  <2>2. c # a /\ stage[c] \in InFlight /\ outcome[c] # "fail" /\ stage'[c] = stage[c]
    BY <1>0, <2>1 DEF TypeOK
  <2>3. Alone(c) /\ task[a] # task[c]
    BY <1>0, <2>1, <2>2, AloneBefore, NotDisturbed DEF InFlight, InBody
  <2>. QED BY <1>0, <2>1, <2>2, <2>3 DEF KeptOwn, InFlight, InBody
<1>6. ASSUME NEW a \in Attempts, PostrunStamp(a) PROVE Kept(c)'
  <2>1. /\ stage[a] = "ended" /\ task' = task /\ outcome' = outcome
        /\ stage' \in {[stage EXCEPT ![a] = "post"], [stage EXCEPT ![a] = "done"]}
        /\ state' = [state EXCEPT !["main"][task[a]].T4 = a] /\ task[a] \in Tasks
    BY <1>0, <1>1, <1>6 DEF PostrunStamp
  <2>2. stage[c] \in InFlight /\ (stage'[c] \in InBody => stage[c] \in InBody) /\ Alone(c)
    BY <1>0, <2>1, AloneBefore DEF InFlight, InBody
  <2>3. /\ state["main"][task[c]].T2 = c /\ task[c] \in Tasks
        /\ stage'[c] \in InBody => state["main"][task[c]].T3 = c
    BY <1>0, <2>1, <2>2 DEF KeptOwn, InFlight, InBody
  <2>4. state'["main"][task[c]] \in {state["main"][task[c]], [state["main"][task[c]] EXCEPT !.T4 = a]}
    BY <1>0, <2>1, <2>3
  <2>5. state["main"][task[c]] \in Entries
    BY <1>0, <2>3
  <2>. QED BY <2>1, <2>3, <2>4, <2>5 DEF Entries
<1>7. ASSUME NEW a \in Attempts, PostrunSpan(a) PROVE Kept(c)'
  <2>1. /\ stage[a] = "post" /\ task' = task /\ outcome' = outcome
        /\ stage' = [stage EXCEPT ![a] = "done"]
        /\ state' = [state EXCEPT !["main"][task[a]] = Empty]
    BY <1>0, <1>1, <1>7 DEF PostrunSpan, Pop
  <2>2. c # a /\ stage'[c] = stage[c] /\ stage[c] \in InFlight
    BY <1>0, <2>1 DEF InFlight, InBody
  <2>3. Alone(c) /\ task[a] # task[c]
    BY <1>0, <2>1, <2>2, AloneBefore, NotDisturbed DEF InFlight, InBody
  <2>. QED BY <1>0, <2>1, <2>2, <2>3 DEF KeptOwn, InFlight, InBody
<1>8. ASSUME NEW a \in Attempts, Succeed(a) PROVE Kept(c)'
  <2>1. /\ stage[a] = "running" /\ stage' = [stage EXCEPT ![a] = "ended"]
        /\ outcome' = [outcome EXCEPT ![a] = "ok"] /\ outcome[a] = "none"
        /\ state' = state /\ task' = task
    BY <1>0, <1>8 DEF Succeed, End, traces, Placed
  <2>2. /\ stage[c] \in InFlight /\ (stage'[c] \in InBody => stage[c] \in InBody) /\ Alone(c)
        /\ outcome[c] # "fail"
    BY <1>0, <2>1, AloneBefore DEF InFlight, InBody, TypeOK
  <2>. QED BY <2>1, <2>2 DEF KeptOwn
<1>9. ASSUME NEW a \in Attempts, NEW b \in Attempts, Retry(a, b) PROVE Kept(c)'
  <2>1. /\ stage[a] = "running" /\ stage' = [stage EXCEPT ![a] = "ended", ![b] = "queued"]
        /\ outcome' = [outcome EXCEPT ![a] = "retry"] /\ outcome[a] = "none"
        /\ state' = state /\ task[b] = "none"
    BY <1>0, <1>9 DEF Retry, Publish, traces, Placed
  <2>2. /\ stage[c] \in InFlight /\ (stage'[c] \in InBody => stage[c] \in InBody)
        /\ outcome[c] # "fail" /\ c # b
    BY <1>0, <2>1 DEF InFlight, InBody, TypeOK
  <2>3. Alone(c) /\ task'[c] = task[c]
    BY <1>0, <2>2, AloneBefore DEF InFlight, InBody
  <2>. QED BY <2>1, <2>2, <2>3 DEF KeptOwn
<1>10. ASSUME NEW a \in Attempts, NEW b \in Attempts, Redeliver(a, b) PROVE Kept(c)'
  <2>1. /\ stage' = [stage EXCEPT ![b] = "queued"] /\ outcome' = outcome /\ state' = state
    BY <1>10 DEF Redeliver, traces
  <2>2. stage[c] \in InFlight /\ stage'[c] = stage[c]
    BY <1>0, <2>1 DEF InFlight, InBody
  <2>3. Alone(c) /\ task'[c] = task[c]
    BY <1>0, <2>2, AloneBefore DEF InFlight, InBody
  <2>. QED BY <2>1, <2>2, <2>3 DEF KeptOwn
<1>11. CASE UNCHANGED vars
  <2>1. stage[c] # "none"
    BY <1>11 DEF vars, worker, InFlight, InBody
  <2>. QED BY <1>2, <1>11, <2>1 DEF vars, worker, traces
<1> HIDE DEF Kept
<1>. QED
  BY <1>3, <1>4, <1>5, <1>6, <1>7, <1>8, <1>9, <1>10, <1>11 DEF Next

\* What is known of an attempt that is over, and of one between the two locks.
Finished ==
  \A a \in Attempts :
    /\ span[a].done => stage[a] = "done" /\ a \notin broken
    /\ a \in broken => stage[a] = "done"
    /\ stage[a] = "done" => span[a].done \/ a \in broken
    /\ stage[a] = "post" \/ span[a].done => {<<a, "T4">>, <<a, "T5">>} \subseteq logged

LEMMA FinishedSuffices == ASSUME TypeOK, Finished PROVE SpanOrBroken
BY DEF TypeOK, Finished, SpanOrBroken

LEMMA NextFinished ==
  ASSUME TypeOK, Placed, Finished, [Next]_vars
  PROVE  Finished'
<1>0. /\ stage \in [Attempts -> {"none", "queued", "done"} \cup InFlight]
      /\ span \in [Attempts -> [t2 : 0 .. MaxAttempts, t3 : 0 .. MaxAttempts, done : BOOLEAN]]
      /\ \A a \in Attempts : task[a] = "none" => stage[a] = "none"
  BY DEF TypeOK, Placed
<1> USE <1>0 DEF Finished
<1>1. ASSUME NEW a \in Attempts, Receive(a) PROVE Finished'
  <2>1. /\ stage[a] = "queued" /\ stage' = [stage EXCEPT ![a] = "received"]
        /\ logged \subseteq logged' /\ span' = span /\ broken' = broken
    BY <1>1 DEF Receive, Append
  <2>2. \A c \in Attempts : stage'[c] = stage[c] \/ (c = a /\ stage'[c] = "received")
    BY <2>1
  <2>3. a \notin broken /\ ~span[a].done
    BY <2>1
  <2>. QED BY <2>1, <2>2, <2>3
<1>2. ASSUME NEW a \in Attempts, NEW p \in Executors, Prerun(a, p) PROVE Finished'
  BY <1>2 DEF Prerun, Append
<1>3. ASSUME NEW a \in Attempts, Succeed(a) \/ Fail(a) PROVE Finished'
  BY <1>3 DEF Succeed, Fail, End, traces
<1>4. ASSUME NEW a \in Attempts, NEW b \in Attempts, Retry(a, b) \/ Redeliver(a, b)
      PROVE  Finished'
  <2>1. /\ \A c \in Attempts : stage'[c] = stage[c]
                              \/ (stage[c] \notin {"done", "post"} /\ stage'[c] \notin {"done", "post"})
        /\ UNCHANGED <<span, broken, logged>>
    <3>1. CASE Retry(a, b) BY <3>1 DEF Retry, Publish, traces
    <3>2. CASE Redeliver(a, b) BY <3>2 DEF Redeliver, Publish, traces
    <3>. QED BY <1>4, <3>1, <3>2
  <2>. QED BY <2>1
<1>5. ASSUME NEW a \in Attempts, PostrunStamp(a) PROVE Finished'
  <2>1. stage[a] = "ended" /\ ~span[a].done /\ logged \subseteq logged' /\ span' = span
    BY <1>5 DEF PostrunStamp, Append
  <2>2. \/ /\ stage' = [stage EXCEPT ![a] = "post"] /\ broken' = broken
           /\ {<<a, "T4">>, <<a, "T5">>} \subseteq logged'
        \/ stage' = [stage EXCEPT ![a] = "done"] /\ broken' = broken \cup {a}
    BY <1>5 DEF PostrunStamp
  <2>3. CASE /\ stage' = [stage EXCEPT ![a] = "post"] /\ broken' = broken
             /\ {<<a, "T4">>, <<a, "T5">>} \subseteq logged'
    BY <2>1, <2>3
  <2>4. CASE stage' = [stage EXCEPT ![a] = "done"] /\ broken' = broken \cup {a}
    <3>1. \A c \in Attempts : c # a => stage'[c] = stage[c] /\ (c \in broken' <=> c \in broken)
      BY <2>4
    <3>2. stage'[a] = "done" /\ a \in broken' /\ ~span'[a].done
      BY <2>1, <2>4
    <3>. QED BY <2>1, <3>1, <3>2
  <2>. QED BY <2>2, <2>3, <2>4
<1>6. ASSUME NEW a \in Attempts, PostrunSpan(a) PROVE Finished'
  <2>1. /\ stage[a] = "post" /\ stage' = [stage EXCEPT ![a] = "done"]
        /\ UNCHANGED <<logged, broken>>
        /\ span'[a].done /\ \A c \in Attempts : c # a => span'[c] = span[c]
    BY <1>6 DEF PostrunSpan
  <2>. QED BY <2>1
<1>7. CASE UNCHANGED vars BY <1>7 DEF vars, worker, traces
<1> HIDE DEF Finished
<1>. QED BY <1>1, <1>2, <1>3, <1>4, <1>5, <1>6, <1>7 DEF Next

\* SpanExact and SoloExact in one.
ExactAlone ==
  \A a \in Attempts :
    (Alone(a) /\ span[a].done /\ outcome[a] # "fail") => span[a] = Own(a)

LEMMA ExactSuffices == ASSUME TypeOK, ExactAlone PROVE SpanExact /\ SoloExact
BY DEF TypeOK, ExactAlone, SpanExact, SoloExact, Alone

\* A span gets the stamps that are kept for its attempt.
LEMMA NextExactAlone ==
  ASSUME TypeOK, Placed, KeptOwn, Finished, ExactAlone, [Next]_vars
  PROVE  ExactAlone'
<1>0. stage \in [Attempts -> {"none", "queued", "done"} \cup InFlight]
  BY DEF TypeOK
<1> SUFFICES ASSUME NEW c \in Attempts, span'[c].done, Alone(c)', outcome'[c] # "fail"
             PROVE  span'[c] = Own(c)
  BY DEF ExactAlone
<1>1. CASE span'[c] = span[c]
  <2>1. stage[c] = "done" /\ Alone(c)
    BY <1>1, AloneBefore DEF Finished, Placed
  <2>2. outcome'[c] = outcome[c]
    BY <1>0, <2>1 DEF Next, vars, worker, traces, Receive, Prerun, Succeed, Fail, End, Retry,
       Redeliver, Publish, PostrunStamp, PostrunSpan, TypeOK
  <2>. QED BY <1>1, <2>1, <2>2 DEF ExactAlone
<1>2. CASE span'[c] # span[c]
  <2>1. PICK a \in Attempts : PostrunSpan(a)
    BY <1>2 DEF Next, vars, traces, Receive, Prerun, Succeed, Fail, Retry, Redeliver, PostrunStamp
  <2>2. /\ c = a /\ stage[c] = "post" /\ outcome[c] # "fail"
        /\ span'[c] = [t2 |-> state[proc[c]][task[c]].T2,
                       t3 |-> state[proc[c]][task[c]].T3, done |-> TRUE]
    BY <1>2, <2>1 DEF PostrunSpan, TypeOK
  <2>3. Alone(c) /\ proc[c] = "main"
    BY <2>2, AloneBefore DEF Placed, Alone
  <2>. QED BY <2>2, <2>3 DEF KeptOwn, Own, InFlight, InBody
<1>. QED BY <1>1, <1>2

-----------------------------------------------------------------------------
(* The dicts do not grow                                                   *)

LEMMA NextNoLeak ==
  ASSUME TypeOK, Placed, Finished, NoLeak, [Next]_vars
  PROVE  NoLeak'
<1>0. /\ state \in [Procs -> [Tasks -> Entries]] /\ Executors \subseteq Procs
      /\ proc \in [Attempts -> Procs]
      /\ stage \in [Attempts -> {"none", "queued", "done"} \cup InFlight]
      /\ Executors' = Executors /\ (pool # "prefork" => Executors = {"main"})
      /\ (pool = "prefork" => "main" \notin Executors)
      /\ \A a \in Attempts : stage[a] = "none" <=> task[a] = "none"
      /\ \A a \in Attempts : stage[a] \in InBody => proc[a] \in Executors
      /\ \A a \in Attempts : a \in broken => stage[a] = "done"
      /\ "none" \notin Tasks
  <2>1. /\ state \in [Procs -> [Tasks -> Entries]] /\ Executors \subseteq Procs
        /\ proc \in [Attempts -> Procs]
        /\ stage \in [Attempts -> {"none", "queued", "done"} \cup InFlight]
    BY DEF TypeOK, Entries, Procs, Executors
  <2>2. Executors' = Executors
    BY PoolConstant DEF Executors
  <2>. QED BY <2>1, <2>2, NamesAssumption DEF NamesAssumption, Executors, Placed, Finished
<1> SUFFICES ASSUME NEW p \in Executors, NEW t \in Tasks, state'[p][t] # Empty
             PROVE  \E a \in Attempts : Due(a, p, t)'
  BY <1>0 DEF NoLeak
<1>1. ASSUME state'[p][t] = state[p][t],
             \A a \in Attempts : Due(a, p, t) => Due(a, p, t)'
      PROVE  \E a \in Attempts : Due(a, p, t)'
  BY <1>1 DEF NoLeak
<1>2. ASSUME NEW a \in Attempts, Receive(a) PROVE \E d \in Attempts : Due(d, p, t)'
  <2>1. \A d \in Attempts : Due(d, p, t) => Due(d, p, t)'
    BY <1>0, <1>2 DEF Receive, InFlight, InBody, Due
  <2>2. CASE t = task[a] /\ p = "main"
    BY <1>0, <1>2, <2>2 DEF Receive, Due
  <2>3. CASE ~(t = task[a] /\ p = "main")
    BY <1>0, <1>1, <1>2, <2>1, <2>3 DEF Receive
  <2>. QED BY <2>2, <2>3
<1>3. ASSUME NEW a \in Attempts, NEW q \in Executors, Prerun(a, q)
      PROVE  \E d \in Attempts : Due(d, p, t)'
  <2>1. \A d \in Attempts : Due(d, p, t) => Due(d, p, t)'
    BY <1>0, <1>3 DEF Prerun, InFlight, InBody, Due
  <2>2. CASE t = task[a] /\ p = q
    BY <1>0, <1>3, <2>2 DEF Prerun, InBody, Due
  <2>3. CASE ~(t = task[a] /\ p = q)
    BY <1>0, <1>1, <1>3, <2>1, <2>3 DEF Prerun
  <2>. QED BY <2>2, <2>3
<1>4. ASSUME NEW a \in Attempts, Succeed(a) \/ Fail(a)
      PROVE  \E d \in Attempts : Due(d, p, t)'
  <2>1. \A d \in Attempts : Due(d, p, t) => Due(d, p, t)'
    BY <1>0, <1>4 DEF Succeed, Fail, End, InFlight, InBody, traces, Due
  <2>2. state'[p][t] \in {state[p][t], Empty}
    BY <1>0, <1>4 DEF Succeed, Fail, End, Pop, traces
  <2>. QED BY <1>1, <2>1, <2>2
<1>5. ASSUME NEW a \in Attempts, NEW b \in Attempts, Retry(a, b) \/ Redeliver(a, b)
      PROVE  \E d \in Attempts : Due(d, p, t)'
  <2>1. \A d \in Attempts : Due(d, p, t) => Due(d, p, t)'
    <3>1. CASE Retry(a, b)
      BY <1>0, <3>1 DEF Retry, Publish, InFlight, InBody, traces, TypeOK, Due
    <3>2. CASE Redeliver(a, b)
      BY <1>0, <3>2 DEF Redeliver, Publish, InFlight, InBody, traces, TypeOK, Due
    <3>. QED BY <1>5, <3>1, <3>2
  <2>. QED BY <1>1, <1>5, <2>1 DEF Retry, Redeliver, traces
<1>6. ASSUME NEW a \in Attempts, PostrunStamp(a)
      PROVE  \E d \in Attempts : Due(d, p, t)'
  <2>1. /\ stage[a] = "ended" /\ task' = task /\ proc' = proc
        /\ state' = [state EXCEPT ![proc[a]][task[a]].T4 = a]
        /\ \/ stage' = [stage EXCEPT ![a] = "post"] /\ broken' = broken
           \/ stage' = [stage EXCEPT ![a] = "done"] /\ broken' = broken \cup {a}
    BY <1>6 DEF PostrunStamp
  <2>2. /\ \A d \in Attempts : Due(d, p, t) => Due(d, p, t)'
        /\ t = task[a] /\ p = proc[a] => Due(a, p, t)'
    BY <1>0, <2>1 DEF InFlight, InBody, Due
  <2>3. CASE ~(t = task[a] /\ p = proc[a])
    BY <1>0, <1>1, <2>1, <2>2, <2>3
  <2>. QED BY <2>2, <2>3
<1>7. ASSUME NEW a \in Attempts, PostrunSpan(a)
      PROVE  \E d \in Attempts : Due(d, p, t)'
  <2>1. /\ stage[a] = "post" /\ task' = task /\ stage' = [stage EXCEPT ![a] = "done"]
        /\ state' = [state EXCEPT ![proc[a]][task[a]] = Empty]
        /\ broken' = broken /\ proc' = proc
        /\ proc[a] \in Executors /\ task[a] \in Tasks \cup {"none"}
    BY <1>0, <1>7 DEF PostrunSpan, Pop, InBody, TypeOK
  <2>2. ~(p = proc[a] /\ t = task[a])
    BY <1>0, <2>1
  <2>3. state'[p][t] = state[p][t]
    BY <1>0, <2>1, <2>2
  <2>4. \A d \in Attempts : Due(d, p, t) => Due(d, p, t)'
    BY <1>0, <2>1, <2>2 DEF Due, InBody
  <2>. QED BY <1>1, <2>3, <2>4
<1>8. CASE UNCHANGED vars
  BY <1>1, <1>8 DEF vars, worker, traces, Due
<1>. QED BY <1>2, <1>3, <1>4, <1>5, <1>6, <1>7, <1>8 DEF Next

-----------------------------------------------------------------------------
(* The inductive invariant and what follows from it                        *)

IInv == /\ TypeOK /\ Placed /\ SoloSerial /\ KeptOwn
        /\ Finished /\ ExactAlone /\ NoLeak

LEMMA InitIInv == Init => IInv
<1> SUFFICES ASSUME Init PROVE IInv
  OBVIOUS
<1>1. TypeOK /\ Placed
  BY InitTypeOK
<1>2. \A a \in Attempts : stage[a] \in {"none", "queued"} /\ ~span[a].done
  BY DEF Init, NoSpan
<1>3. SoloSerial /\ KeptOwn
  BY <1>2 DEF SoloSerial, KeptOwn, InFlight, InBody
<1>4. Finished
  BY <1>2 DEF Finished, Init
<1>5. ExactAlone
  BY <1>2 DEF ExactAlone
<1>6. NoLeak
  BY DEF NoLeak, Init, Executors, Procs
<1>. QED BY <1>1, <1>3, <1>4, <1>5, <1>6 DEF IInv

\* The inductive invariant holds in every reachable state.
THEOREM InvariantCorrect == Spec => []IInv
<1>1. IInv /\ [Next]_vars => IInv'
  BY NextTypeOK, NextPlaced, NextSoloSerial, NextKeptOwn, NextFinished, NextExactAlone,
     NextNoLeak DEF IInv
<1>. QED BY InitIInv, <1>1, PTL DEF Spec

\* The stamps of different tasks, and on a solo worker of different attempts, are
\* never mixed, whatever the interleaving of the handlers.
THEOREM ExactCorrect == Spec => [](SpanExact /\ SoloExact)
<1>1. IInv => SpanExact /\ SoloExact
  BY ExactSuffices DEF IInv
<1>. QED BY InvariantCorrect, <1>1, PTL

\* The dict of an executing process keeps nothing longer than needed.
THEOREM NoLeakCorrect == Spec => []NoLeak
<1>1. IInv => NoLeak
  BY DEF IInv
<1>. QED BY InvariantCorrect, <1>1, PTL

\* Every executed attempt has a span, or the handler that makes it raised.
THEOREM SpanOrBrokenCorrect == Spec => []SpanOrBroken
<1>1. IInv => SpanOrBroken
  BY FinishedSuffices DEF IInv
<1>. QED BY InvariantCorrect, <1>1, PTL

\* A solo worker keeps the attempts of one task apart, retried or redelivered.
THEOREM SoloExactCorrect == Spec => []SoloExact
<1>. QED BY ExactCorrect, PTL

-----------------------------------------------------------------------------
(* Whose stamps they are                                                   *)

\* What is kept under a task id are stamps of attempts at that task.
KeptOfTask ==
  \A p \in Procs, t \in Tasks : \A s \in {state[p][t].T2, state[p][t].T3} :
    s # None => s \in Attempts /\ task[s] = t

SpanOfTask ==
  \A a \in Attempts : \A s \in {span[a].t2, span[a].t3} :
    s # None => s \in Attempts /\ task[a] \in Tasks /\ task[s] = task[a]

\* The task of an attempt never changes.
LEMMA TaskStays ==
  ASSUME TypeOK, Placed, [Next]_vars, NEW a \in Attempts, task[a] # "none"
  PROVE  task'[a] = task[a]
<1>1. ASSUME NEW b \in Attempts, NEW c \in Attempts, Retry(b, c) \/ Redeliver(b, c)
      PROVE  task'[a] = task[a]
  BY <1>1 DEF Retry, Redeliver, Publish, TypeOK
<1>2. ASSUME NEW b \in Attempts,
             Receive(b) \/ Succeed(b) \/ Fail(b) \/ PostrunStamp(b) \/ PostrunSpan(b)
      PROVE  task'[a] = task[a]
  BY <1>2 DEF Receive, Succeed, Fail, PostrunStamp, PostrunSpan
<1>3. ASSUME NEW b \in Attempts, NEW p \in Executors, Prerun(b, p)
      PROVE  task'[a] = task[a]
  BY <1>3 DEF Prerun
<1>4. CASE UNCHANGED vars
  BY <1>4 DEF vars, worker
<1>. QED BY <1>1, <1>2, <1>3, <1>4 DEF Next

LEMMA NextKeptOfTask ==
  ASSUME TypeOK, Placed, KeptOfTask, [Next]_vars
  PROVE  KeptOfTask'
<1> DEFINE Fine(e, t) == \A s \in {e.T2, e.T3} : s # None => s \in Attempts /\ task'[s] = t
<1>0. /\ state \in [Procs -> [Tasks -> Entries]] /\ proc \in [Attempts -> Procs]
      /\ "main" \in Procs /\ Executors \subseteq Procs /\ None \notin Attempts
      /\ \A a \in Attempts : task[a] # "none" => task[a] \in Tasks
      /\ \A a \in Attempts : stage[a] # "none" => task[a] # "none"
  BY AttemptsAssumption DEF TypeOK, Entries, Procs, Executors, None, Attempts,
     AttemptsAssumption, Placed
<1>1. ASSUME NEW p \in Procs, NEW t \in Tasks PROVE Fine(state[p][t], t)
  <2>1. ASSUME NEW s \in {state[p][t].T2, state[p][t].T3}, s # None
        PROVE  s \in Attempts /\ task'[s] = t
    <3>1. s \in Attempts /\ task[s] = t
      BY <2>1 DEF KeptOfTask
    <3>2. task[s] # "none"
      BY <3>1, NamesAssumption
    <3>. QED BY <3>1, <3>2, TaskStays
  <2>. QED BY <2>1
<1>2. Fine(Empty, "none") /\ \A t \in Tasks : Fine(Empty, t)
  BY DEF Empty, None
<1>3. ASSUME NEW a \in Attempts, task[a] # "none" PROVE task'[a] = task[a] /\ task[a] \in Tasks
  BY <1>0, <1>3, TaskStays
<1>s. SUFFICES ASSUME NEW p \in Procs, NEW t \in Tasks PROVE Fine(state'[p][t], t)
  BY DEF KeptOfTask
<1>4. ASSUME NEW a \in Attempts, Receive(a) PROVE Fine(state'[p][t], t)
  <2>1. /\ state' = [state EXCEPT !["main"][task[a]] = [Empty EXCEPT !.T2 = a]]
        /\ task[a] # "none"
    BY <1>4, <1>0 DEF Receive
  <2>2. Fine([Empty EXCEPT !.T2 = a], task[a])
    BY <2>1, <1>3 DEF Empty, None
  <2>3. \/ state'[p][t] = state[p][t]
        \/ state'[p][t] = [Empty EXCEPT !.T2 = a] /\ t = task[a]
    BY <1>0, <1>3, <2>1
  <2> HIDE DEF Fine
  <2>. QED BY <1>1, <2>2, <2>3
<1>5. ASSUME NEW a \in Attempts, NEW q \in Executors, Prerun(a, q) PROVE Fine(state'[p][t], t)
  <2>1. state' = [state EXCEPT ![q][task[a]].T3 = a] /\ task[a] # "none"
    BY <1>5, <1>0 DEF Prerun
  <2>2. Fine([state[q][task[a]] EXCEPT !.T3 = a], task[a])
    BY <2>1, <1>0, <1>1, <1>3 DEF Entries
  <2>3. \/ state'[p][t] = state[p][t]
        \/ state'[p][t] = [state[q][task[a]] EXCEPT !.T3 = a] /\ t = task[a]
    BY <1>0, <1>3, <2>1
  <2> HIDE DEF Fine
  <2>. QED BY <1>1, <2>2, <2>3
<1>6. ASSUME NEW a \in Attempts, PostrunStamp(a) PROVE Fine(state'[p][t], t)
  <2>1. state' = [state EXCEPT ![proc[a]][task[a]].T4 = a] /\ task[a] # "none"
    BY <1>6, <1>0 DEF PostrunStamp
  <2>2. Fine([state[proc[a]][task[a]] EXCEPT !.T4 = a], task[a])
    BY <2>1, <1>0, <1>1, <1>3 DEF Entries
  <2>3. \/ state'[p][t] = state[p][t]
        \/ state'[p][t] = [state[proc[a]][task[a]] EXCEPT !.T4 = a] /\ t = task[a]
    BY <1>0, <1>3, <2>1
  <2> HIDE DEF Fine
  <2>. QED BY <1>1, <2>2, <2>3
<1>7. ASSUME NEW a \in Attempts, Fail(a) \/ PostrunSpan(a) PROVE Fine(state'[p][t], t)
  <2>1. state' = [state EXCEPT ![proc[a]][task[a]] = Empty] /\ task[a] # "none"
    BY <1>7, <1>0 DEF Fail, End, PostrunSpan, Pop
  <2>2. state'[p][t] = state[p][t] \/ state'[p][t] = Empty
    BY <1>0, <1>3, <2>1
  <2> HIDE DEF Fine
  <2>. QED BY <1>1, <1>2, <2>2
<1>8. ASSUME NEW a \in Attempts, NEW b \in Attempts,
             Succeed(a) \/ Retry(a, b) \/ Redeliver(a, b)
      PROVE  Fine(state'[p][t], t)
  <2>1. UNCHANGED state
    BY <1>8 DEF Succeed, Retry, Redeliver, traces
  <2>. QED BY <2>1, <1>1
<1>9. CASE UNCHANGED vars
  BY <1>9, <1>1 DEF vars, traces
<1>. QED BY <1>4, <1>5, <1>6, <1>7, <1>8, <1>9 DEF Next

LEMMA NextSpanOfTask ==
  ASSUME TypeOK, Placed, KeptOfTask, SpanOfTask, [Next]_vars
  PROVE  SpanOfTask'
<1> DEFINE Fine(e, a) == \A s \in {e.t2, e.t3} :
                           s # None => s \in Attempts /\ task'[a] \in Tasks /\ task'[s] = task'[a]
<1>0. ASSUME NEW a \in Attempts, task[a] \in Tasks PROVE task'[a] = task[a]
  BY <1>0, TaskStays, NamesAssumption
<1>1. ASSUME NEW a \in Attempts PROVE Fine(span[a], a)
  BY <1>0 DEF SpanOfTask
<1>2. ASSUME NEW a \in Attempts, PostrunSpan(a), NEW b \in Attempts PROVE Fine(span'[b], b)
  <2> DEFINE kept == state[proc[a]][task[a]]
             made == [t2 |-> kept.T2, t3 |-> kept.T3, done |-> TRUE]
  <2>1. /\ proc[a] \in Procs /\ task[a] \in Tasks /\ span' = [span EXCEPT ![a] = made]
        /\ span \in [Attempts -> [t2 : 0 .. MaxAttempts, t3 : 0 .. MaxAttempts, done : BOOLEAN]]
    BY <1>2 DEF PostrunSpan, TypeOK, Placed
  <2>2. \A s \in {kept.T2, kept.T3} : s # None => s \in Attempts /\ task[s] = task[a]
    BY <2>1 DEF KeptOfTask
  <2>3. Fine(made, a)
    BY <2>1, <2>2, <1>0
  <2>4. span'[b] = span[b] \/ (b = a /\ span'[b] = made)
    BY <2>1
  <2> HIDE DEF Fine, made
  <2>. QED BY <1>1, <2>3, <2>4
<1>3. CASE UNCHANGED span
  <2>1. ASSUME NEW a \in Attempts PROVE Fine(span'[a], a)
    BY <1>1, <1>3
  <2>. QED BY <2>1 DEF SpanOfTask
<1>4. UNCHANGED span \/ \E a \in Attempts : PostrunSpan(a)
  BY DEF Next, Receive, Succeed, Fail, PostrunStamp, Prerun, Retry, Redeliver, vars, traces
<1>. QED BY <1>2, <1>3, <1>4 DEF SpanOfTask

\* No span has a stamp that a handler took for another task id, in any pool, with
\* retries, redeliveries and failures.
THEOREM SameTaskCorrect == Spec => []SameTask
<1> DEFINE J == KeptOfTask /\ SpanOfTask
<1>1. Init => J
  BY DEF Init, KeptOfTask, SpanOfTask, Empty, NoSpan
<1>2. IInv /\ J /\ [Next]_vars => J'
  BY NextKeptOfTask, NextSpanOfTask DEF IInv
<1>3. J => SameTask
  BY DEF SameTask, SpanOfTask
<1>. QED BY <1>1, <1>2, <1>3, InvariantCorrect, PTL DEF Spec
=============================================================================
