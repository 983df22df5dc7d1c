---------------------------- MODULE NatsBenchProofs ----------------------------
(***************************************************************************)
(* NatsBench, for any number of calls, any sizes, any number of leftover   *)
(* and redelivered messages.  The inductive invariant follows a call       *)
(* through the queue: a message of step k exists only when the steps       *)
(* before k were executed, so a stored result has all its steps behind it, *)
(* and main goes on to the next round only when a round is stored.         *)
(***************************************************************************)
EXTENDS NatsBench, TLAPS

TaskNames == Registered \cup {"add_kv", "chord_add", "hybrid_echo"}
Names == {"throughput", "chain", "process_payload", "retry", "kv", "chord", "hybrid/small",
          "hybrid/large"} \cup Sizes
ScenarioType == [name : Names, task : TaskNames, rounds : Nat, width : Nat, steps : Nat \ {0}]
MessageType == [scenario : Nat, round : Nat, call : Nat, step : Nat]

\* A scenario of a task the worker does not know has a call to wait for.
Waits(sc) == sc.task \notin Registered => sc.rounds >= 1 /\ sc.width >= 1

PlanInv == plan \in Seq(ScenarioType) /\ \A s \in DOMAIN plan : Waits(plan[s])

\* The steps of a call that come before step k are among those that ran.
StepsDone(s, r, i, k, ran) == \A step \in 1 .. k - 1 : Message(s, r, i, step) \in ran

\* A message of this run is of a call of the plan, and in its turn.
InTurn(m, ran) ==
  /\ m.scenario \in DOMAIN plan
  /\ m.round \in 1 .. plan[m.scenario].rounds
  /\ m.step <= plan[m.scenario].steps
  /\ StepsDone(m.scenario, m.round, m.call, m.step, ran)

QueueInv ==
  /\ queue \in Seq(MessageType)
  /\ \A n \in DOMAIN queue : queue[n] # Leftover => InTurn(queue[n], executed)

StoredInv ==
  \A c \in stored :
    /\ c[1] \in DOMAIN plan /\ c[2] \in 1 .. plan[c[1]].rounds
    /\ plan[c[1]].task \in Registered
    /\ StepsDone(c[1], c[2], c[3], plan[c[1]].steps + 1, executed)

RoundStored(s, r) == \A i \in 1 .. plan[s].width : <<s, r, i>> \in stored

ProgressInv ==
  /\ results \in Seq(Names) /\ round \in Nat /\ Len(results) <= Len(plan)
  /\ \A s \in Done : results[s] = plan[s].name /\ \A r \in 1 .. plan[s].rounds : RoundStored(s, r)
  /\ IF Current <= Len(plan)
     THEN round <= plan[Current].rounds /\ \A r \in 1 .. round : RoundStored(Current, r)
     ELSE round = 0
  /\ pc = "get" => Current <= Len(plan) /\ round < plan[Current].rounds

\* Where main gets without an exception it has been through the plan.
EndInv ==
  /\ pc \in {"finally", "join"} /\ ~raised => Len(results) = Len(plan)
  /\ pc = "report" => Len(results) = Len(plan)
  /\ report # <<>> => /\ report = <<results>> /\ Len(results) = Len(plan)
                      /\ pc \in {"exiting", "reap", "exited", "killed"}

ShapeInv ==
  /\ pc \in {"spawn", "wait", "call", "get", "finally", "join", "report", "exiting", "reap",
             "exited", "killed"}
  /\ worker \in {"none", "booting", "up", "dead"}
  /\ raised \in BOOLEAN /\ ready \in BOOLEAN /\ signalled \in BOOLEAN
  /\ redelivered \in Nat

Inv == ShapeInv /\ PlanInv /\ QueueInv /\ StoredInv /\ ProgressInv /\ EndInv

-----------------------------------------------------------------------------
(* The plan                                                                *)

LEMMA OnePlan ==
  ASSUME NEW sc \in ScenarioType, Waits(sc)
  PROVE  <<sc>> \in Seq(ScenarioType) /\ \A s \in DOMAIN <<sc>> : Waits(<<sc>>[s])
  OBVIOUS

LEMMA Joined ==
  ASSUME NEW p \in Seq(ScenarioType), NEW q \in Seq(ScenarioType),
         \A s \in DOMAIN p : Waits(p[s]), \A s \in DOMAIN q : Waits(q[s])
  PROVE  p \o q \in Seq(ScenarioType) /\ \A s \in DOMAIN (p \o q) : Waits((p \o q)[s])
  <1>1. ASSUME NEW s \in DOMAIN (p \o q) PROVE Waits((p \o q)[s])
    <2>1. CASE s <= Len(p)
      BY <2>1
    <2>2. CASE s > Len(p)
      <3>1. s - Len(p) \in DOMAIN q /\ (p \o q)[s] = q[s - Len(p)]
        BY <2>2
      <3> QED
        BY <3>1
    <2> QED
      BY <2>1, <2>2
  <1> QED
    BY <1>1

LEMMA GroupType ==
  ASSUME NEW n \in Names, NEW t \in TaskNames, NEW c \in Nat, t \in Registered \/ c >= 1
  PROVE  Group(n, t, c) \in ScenarioType /\ Waits(Group(n, t, c))
  BY DEF Group, Scenario, ScenarioType, Waits

LEMMA OneByOneType ==
  ASSUME NEW n \in Names, NEW t \in TaskNames, NEW c \in Nat, NEW k \in Nat \ {0},
         t \in Registered \/ c >= 1
  PROVE  OneByOne(n, t, c, k) \in ScenarioType /\ Waits(OneByOne(n, t, c, k))
  BY DEF OneByOne, Scenario, ScenarioType, Waits

LEMMA PlanType ==
  ASSUME NEW count \in TaskCounts, NEW chains \in ChainCounts, NEW retries \in RetryCounts,
         NEW sizes \in SizeLists, NEW chain \in BOOLEAN, NEW retry \in BOOLEAN, NEW kv \in BOOLEAN
  PROVE  LET p == PlanOf(count, chain, chains, sizes, retry, retries, kv)
         IN  p \in Seq(ScenarioType) /\ \A s \in DOMAIN p : Waits(p[s])
  <1> DEFINE Good(p) == p \in Seq(ScenarioType) /\ \A s \in DOMAIN p : Waits(p[s])
             orElse(n, default) == IF n = 0 THEN default ELSE n
             part(n) == Larger(1, count \div n)
             one   == <<Group("throughput", "add", count)>>
             two   == IF chain THEN <<OneByOne("chain", "add", orElse(chains, count), 3)>> ELSE <<>>
             three == [i \in 1 .. Len(sizes) |-> Group(sizes[i], "process_payload", count)]
             four  == IF retry
                      THEN <<OneByOne("retry", "flaky", orElse(retries, part(5)), FailCount + 1)>>
                      ELSE <<>>
             a == Group("kv", "add_kv", part(2))
             b == OneByOne("chord", "chord_add", part(10), 2)
             c == Group("hybrid/small", "hybrid_echo", part(5))
             d == Group("hybrid/large", "hybrid_echo", part(20))
             five  == IF kv THEN <<a, b, c, d>> ELSE <<>>
  <1>1. /\ count \in Nat /\ chains \in Nat /\ retries \in Nat /\ sizes \in Seq(Sizes)
        /\ FailCount \in Nat
    BY ArgsAssumption, RetryAssumption
  <1>2. /\ part(2) \in Nat /\ part(2) >= 1 /\ part(5) \in Nat /\ part(5) >= 1
        /\ part(10) \in Nat /\ part(10) >= 1 /\ part(20) \in Nat /\ part(20) >= 1
    BY <1>1 DEF Larger
  <1>3. /\ orElse(chains, count) \in Nat /\ orElse(retries, part(5)) \in Nat
        /\ FailCount + 1 \in Nat \ {0}
        /\ 3 \in Nat \ {0}
    BY <1>1, <1>2
  <1>n. /\ {"throughput", "chain", "retry", "kv", "chord", "hybrid/small", "hybrid/large"} \subseteq Names
        /\ {"add", "process_payload", "flaky"} = Registered /\ Sizes \subseteq Names
        /\ Registered \subseteq TaskNames
        /\ {"add_kv", "chord_add", "hybrid_echo"} \subseteq TaskNames
    BY DEF Names, TaskNames, Registered
  <1> HIDE DEF part, orElse
  <1>4. Good(one)
    BY <1>1, <1>n, GroupType, OnePlan
  <1>5. Good(two)
    <2> DEFINE x == OneByOne("chain", "add", orElse(chains, count), 3)
    <2>1. x \in ScenarioType /\ Waits(x)
      BY <1>3, <1>n, OneByOneType
    <2> HIDE DEF x
    <2>2. Good(<<x>>) /\ Good(<<>>)
      BY <2>1, OnePlan
    <2> QED
      BY <2>2 DEF x
  <1>6. Good(three)
    <2>1. ASSUME NEW i \in 1 .. Len(sizes)
          PROVE  three[i] \in ScenarioType /\ Waits(three[i])
      <3>1. sizes[i] \in Names
        BY <1>1, <1>n
      <3> QED
        BY <3>1, <1>1, <1>n, GroupType
    <2>2. DOMAIN three = 1 .. Len(sizes) /\ Len(sizes) \in Nat
      BY <1>1
    <2> HIDE DEF three
    <2>3. three \in [1 .. Len(sizes) -> ScenarioType]
      <3>1. three = [i \in 1 .. Len(sizes) |-> three[i]]
        BY DEF three
      <3> QED BY <2>1, <3>1
    <2> QED
      BY <2>1, <2>2, <2>3
  <1>7. Good(four)
    <2> DEFINE x == OneByOne("retry", "flaky", orElse(retries, part(5)), FailCount + 1)
    <2>1. x \in ScenarioType /\ Waits(x)
      BY <1>3, <1>n, OneByOneType
    <2> HIDE DEF x
    <2>2. Good(<<x>>) /\ Good(<<>>)
      BY <2>1, OnePlan
    <2> QED
      BY <2>2 DEF x
  <1>8. Good(five)
    <2>1. a \in ScenarioType /\ Waits(a) /\ c \in ScenarioType /\ Waits(c)
          /\ d \in ScenarioType /\ Waits(d)
      BY <1>2, <1>n, GroupType
    <2>2. b \in ScenarioType /\ Waits(b)
      BY <1>2, <1>n, OneByOneType
    <2> HIDE DEF a, b, c, d
    <2> QED
      BY <2>1, <2>2
  <1> HIDE DEF one, two, three, four, five, Good
  <1>9. ASSUME NEW p, NEW q, Good(p), Good(q) PROVE Good(p \o q)
    BY <1>9, Joined DEF Good
  <1>10. Good(one \o two \o three \o four \o five)
    BY <1>4, <1>5, <1>6, <1>7, <1>8, <1>9
  <1> QED
    BY <1>10 DEF PlanOf, Good, one, two, three, four, five, part, orElse, a, b, c, d

-----------------------------------------------------------------------------
(* The invariant                                                           *)

LEMMA PlanShape ==
  ASSUME PlanInv
  PROVE  /\ Len(plan) \in Nat /\ DOMAIN plan = 1 .. Len(plan)
         /\ \A s \in DOMAIN plan :
              /\ plan[s].name \in Names /\ plan[s].task \in TaskNames
              /\ plan[s].rounds \in Nat /\ plan[s].width \in Nat /\ plan[s].steps \in Nat \ {0}
  <1>1. plan \in Seq(ScenarioType)
    BY DEF PlanInv
  <1>2. ASSUME NEW s \in DOMAIN plan PROVE plan[s] \in ScenarioType
    BY <1>1
  <1> QED
    BY <1>1, <1>2 DEF ScenarioType

LEMMA InitInv == Init => Inv
  <1> SUFFICES ASSUME Init PROVE Inv
    OBVIOUS
  <1>1. PlanInv
    <2>1. PICK count \in TaskCounts, chains \in ChainCounts, retries \in RetryCounts,
               sizes \in SizeLists, chain \in BOOLEAN, retry \in BOOLEAN, kv \in BOOLEAN :
                 plan = PlanOf(count, chain, chains, sizes, retry, retries, kv)
      BY DEF Init
    <2> QED
      BY <2>1, PlanType DEF PlanInv
  <1>2. QueueInv
    <2>1. Leftover \in MessageType
      BY DEF Leftover, Message, MessageType
    <2>2. PICK n \in 0 .. Leftovers : queue = [i \in 1 .. n |-> Leftover]
      BY DEF Init
    <2>3. n \in Nat
      BY <2>2, ArgsAssumption
    <2> HIDE DEF Leftover
    <2>4. queue \in Seq(MessageType) /\ \A i \in DOMAIN queue : queue[i] = Leftover
      BY <2>1, <2>2, <2>3
    <2> QED
      BY <2>4 DEF QueueInv
  <1>3. StoredInv /\ EndInv /\ ShapeInv
    BY DEF Init, StoredInv, EndInv, ShapeInv
  <1>4. ProgressInv
    <2>1. Len(plan) \in Nat /\ DOMAIN plan = 1 .. Len(plan) /\ \A s \in DOMAIN plan : plan[s].rounds \in Nat
      BY <1>1, PlanShape
    <2> QED
      BY <2>1 DEF Init, ProgressInv, Done, Current
  <1> QED
    BY <1>1, <1>2, <1>3, <1>4 DEF Inv

LEMMA ShapeStep == Inv /\ [Next]_vars => ShapeInv'
  <1> SUFFICES ASSUME ShapeInv, [Next]_vars PROVE ShapeInv'
    BY DEF Inv
  <1>1. CASE Spawn \/ WorkerIsReady \/ WorkerIsNotReady \/ Raise \/ Kill \/ Cleanup
    BY <1>1 DEF ShapeInv, Spawn, WorkerIsReady, WorkerIsNotReady, Raise, Kill, Cleanup, Terminate,
       Join, Report, AtExit, Exit, workerVars
  <1>2. CASE Scenarios
    BY <1>2 DEF ShapeInv, Scenarios, Call, GetReturns, GetTimesOut, EndScenario, EndScenarios,
       workerVars
  <1>3. CASE OnReady \/ Die \/ Discard
    BY <1>3 DEF ShapeInv, OnReady, Die, Discard, mainVars
  <1>4. CASE Execute
    <2>1. UNCHANGED <<pc, raised, worker, ready, signalled>>
      BY <1>4 DEF Execute, mainVars
    <2>2. redelivered' \in Nat
      BY <1>4 DEF Execute, Taken, ShapeInv
    <2> QED
      BY <2>1, <2>2 DEF ShapeInv
  <1>5. CASE UNCHANGED vars
    BY <1>5 DEF ShapeInv, vars, mainVars, workerVars
  <1> QED
    BY <1>1, <1>2, <1>3, <1>4, <1>5 DEF Next, Main, Worker

LEMMA PlanStep == Inv /\ [Next]_vars => UNCHANGED plan /\ PlanInv'
  BY DEF Inv, PlanInv, Next, Main, Worker, Scenarios, Cleanup, Spawn, WorkerIsReady,
     WorkerIsNotReady, Call, GetReturns, GetTimesOut, EndScenario, EndScenarios, Terminate, Join,
     Report, AtExit, Exit, Raise, Kill, OnReady, Die, Execute, Discard, vars, mainVars, workerVars

\* The message at the head of the queue, and what is left.
LEMMA HeadOfQueue ==
  ASSUME QueueInv, queue # <<>>
  PROVE  /\ Head(queue) \in MessageType /\ (Head(queue) # Leftover => InTurn(Head(queue), executed))
         /\ Tail(queue) \in Seq(MessageType)
         /\ \A n \in DOMAIN Tail(queue) : Tail(queue)[n] # Leftover => InTurn(Tail(queue)[n], executed)
  <1>1. queue \in Seq(MessageType) /\ Len(queue) \in Nat /\ 1 \in DOMAIN queue
    BY DEF QueueInv
  <1>2. Head(queue) = queue[1] /\ Head(queue) \in MessageType
    BY <1>1
  <1>3. ASSUME NEW n \in DOMAIN Tail(queue)
        PROVE  n + 1 \in DOMAIN queue /\ Tail(queue)[n] = queue[n + 1]
    BY <1>1
  <1> QED
    BY <1>1, <1>2, <1>3 DEF QueueInv

LEMMA OneMoreStep ==
  ASSUME NEW s, NEW r, NEW i, NEW k \in Nat, NEW ran, StepsDone(s, r, i, k, ran),
         Message(s, r, i, k) \in ran
  PROVE  StepsDone(s, r, i, k + 1, ran)
  <1>1. ASSUME NEW step \in 1 .. k PROVE Message(s, r, i, step) \in ran
    <2>1. CASE step = k
      BY <2>1
    <2>2. CASE step # k
      <3>1. step \in 1 .. k - 1
        BY <2>2
      <3> QED
        BY <3>1 DEF StepsDone
    <2> QED
      BY <2>1, <2>2
  <1>2. (k + 1) - 1 = k
    OBVIOUS
  <1> QED
    BY <1>1, <1>2 DEF StepsDone

\* A message that is in turn stays so as executed grows.
LEMMA InTurnStays ==
  ASSUME NEW m, NEW ran, NEW more, InTurn(m, ran), ran \subseteq more
  PROVE  InTurn(m, more)
  BY DEF InTurn, StepsDone

LEMMA ExecuteFacts ==
  ASSUME Inv, Execute
  PROVE  LET m == Head(queue) IN
         /\ m \in MessageType /\ InTurn(m, executed) /\ plan[m.scenario].task \in Registered
         /\ executed' = executed \cup {m}
         /\ \/ /\ m.step < plan[m.scenario].steps /\ UNCHANGED stored
               /\ \E rest \in {Tail(queue), Append(Tail(queue), m)} :
                    queue' = Append(rest, [m EXCEPT !.step = @ + 1])
            \/ /\ m.step = plan[m.scenario].steps /\ stored' = stored \cup {CallOf(m)}
               /\ queue' \in {Tail(queue), Append(Tail(queue), m)}
  <1> DEFINE m == Head(queue)
  <1>1. queue # <<>> /\ m # Leftover /\ plan[m.scenario].task \in Registered
    BY DEF Execute, Known
  <1>2. m \in MessageType /\ InTurn(m, executed)
    BY <1>1, HeadOfQueue DEF Inv
  <1>3. m.step \in Nat /\ plan[m.scenario].steps \in Nat
    BY <1>2, PlanShape DEF MessageType, InTurn, Inv
  <1>4. m.step <= plan[m.scenario].steps
    BY <1>2 DEF InTurn
  <1>5. executed' = executed \cup {m}
    BY DEF Execute
  <1>6. PICK rest \in {Tail(queue), Append(Tail(queue), m)} :
          IF m.step < plan[m.scenario].steps
          THEN queue' = Append(rest, [m EXCEPT !.step = @ + 1]) /\ UNCHANGED stored
          ELSE queue' = rest /\ stored' = stored \cup {CallOf(m)}
    BY DEF Execute
  <1> HIDE DEF m
  <1>7. \/ /\ m.step < plan[m.scenario].steps /\ UNCHANGED stored
           /\ \E r \in {Tail(queue), Append(Tail(queue), m)} :
                queue' = Append(r, [m EXCEPT !.step = @ + 1])
        \/ /\ m.step = plan[m.scenario].steps /\ stored' = stored \cup {CallOf(m)}
           /\ queue' \in {Tail(queue), Append(Tail(queue), m)}
    <2>1. CASE m.step < plan[m.scenario].steps
      BY <2>1, <1>6
    <2>2. CASE ~(m.step < plan[m.scenario].steps)
      <3>1. m.step = plan[m.scenario].steps
        BY <2>2, <1>3, <1>4
      <3> QED
        BY <3>1, <2>2, <1>6
    <2> QED
      BY <2>1, <2>2
  <1> QED
    BY <1>1, <1>2, <1>5, <1>7 DEF m

\* Only a task that is executed adds to the history; only main and the worker's two ways
\* to take a message change the queue.
LEMMA HistoryGrows ==
  ASSUME Inv, [Next]_vars
  PROVE  executed \subseteq executed' /\ stored \subseteq stored'
  <1>1. CASE Main \/ Raise \/ Kill \/ OnReady \/ Die \/ Discard \/ UNCHANGED vars
    BY <1>1 DEF Main, Scenarios, Cleanup, Spawn, WorkerIsReady, WorkerIsNotReady, Call, GetReturns,
       GetTimesOut, EndScenario, EndScenarios, Terminate, Join, Report, AtExit, Exit, Raise, Kill,
       OnReady, Die, Discard, vars, workerVars
  <1>2. CASE Execute
    BY <1>2, ExecuteFacts
  <1> QED
    BY <1>1, <1>2 DEF Next, Worker

LEMMA QueueStep == Inv /\ [Next]_vars => QueueInv'
  <1> SUFFICES ASSUME Inv, [Next]_vars PROVE QueueInv'
    OBVIOUS
  <1>0. UNCHANGED plan /\ executed \subseteq executed'
    BY PlanStep, HistoryGrows
  <1>q. queue \in Seq(MessageType) /\ \A n \in DOMAIN queue : queue[n] # Leftover => InTurn(queue[n], executed')
    <2>1. queue \in Seq(MessageType) /\ \A n \in DOMAIN queue : queue[n] # Leftover => InTurn(queue[n], executed)
      BY DEF Inv, QueueInv
    <2> QED
      BY <2>1, <1>0, InTurnStays
  <1>1. CASE Call
    <2> DEFINE sent == [i \in 1 .. plan[Current].width |-> Message(Current, round + 1, i, 1)]
    <2>1. /\ Current \in DOMAIN plan /\ round + 1 \in 1 .. plan[Current].rounds
          /\ plan[Current].width \in Nat /\ Current \in Nat /\ round \in Nat
          /\ plan[Current].steps \in Nat \ {0}
      <3>1. Current \in Nat /\ Current >= 1 /\ round \in Nat
        BY DEF Inv, ProgressInv, Current
      <3>2. Current \in DOMAIN plan
        BY <1>1, <3>1, PlanShape DEF Call, Inv
      <3>3. round < plan[Current].rounds
        BY <1>1 DEF Call
      <3> QED
        BY <3>1, <3>2, <3>3, PlanShape DEF Inv
    <2>2. ASSUME NEW i \in 1 .. plan[Current].width
          PROVE  LET m == Message(Current, round + 1, i, 1) IN m \in MessageType /\ InTurn(m, executed')
      <3>1. Message(Current, round + 1, i, 1) \in MessageType
        BY <2>1 DEF Message, MessageType
      <3>2. InTurn(Message(Current, round + 1, i, 1), executed)
        <4> DEFINE m == Message(Current, round + 1, i, 1)
        <4>1. /\ m.scenario = Current /\ m.round = round + 1 /\ m.call = i /\ m.step = 1
          BY DEF Message
        <4>2. StepsDone(Current, round + 1, i, 1, executed)
          BY DEF StepsDone
        <4> HIDE DEF m
        <4>3. InTurn(m, executed)
          BY <4>1, <4>2, <2>1 DEF InTurn
        <4> QED
          BY <4>3 DEF m
      <3> QED
        BY <3>1, <3>2, <1>0, InTurnStays
    <2>3. sent \in Seq(MessageType) /\ \A i \in DOMAIN sent : InTurn(sent[i], executed')
      <3>1. DOMAIN sent = 1 .. plan[Current].width
        OBVIOUS
      <3>2. ASSUME NEW i \in 1 .. plan[Current].width PROVE sent[i] \in MessageType /\ InTurn(sent[i], executed')
        BY <2>2
      <3>3. sent \in [1 .. plan[Current].width -> MessageType]
        <4>1. sent = [i \in 1 .. plan[Current].width |-> sent[i]]
          OBVIOUS
        <4> HIDE DEF sent
        <4> QED
          BY <3>2, <4>1
      <3> HIDE DEF sent
      <3> QED
        BY <3>1, <3>2, <3>3, <2>1
    <2>4. queue' = queue \o sent
      BY <1>1 DEF Call
    <2> HIDE DEF sent
    <2>5. ASSUME NEW n \in DOMAIN queue' PROVE queue'[n] # Leftover => InTurn(queue'[n], executed')
      <3>1. CASE n <= Len(queue)
        BY <3>1, <2>3, <2>4, <1>q
      <3>2. CASE n > Len(queue)
        <4>1. n - Len(queue) \in DOMAIN sent /\ queue'[n] = sent[n - Len(queue)]
          BY <3>2, <2>3, <2>4, <1>q
        <4> QED
          BY <4>1, <2>3
      <3>3. Len(queue) \in Nat /\ n \in Nat
        BY <1>q, <2>3, <2>4
      <3> QED
        BY <3>1, <3>2, <3>3
    <2>6. queue' \in Seq(MessageType)
      BY <2>3, <2>4, <1>q
    <2> QED
      BY <2>5, <2>6, <1>0 DEF QueueInv, InTurn
  <1>2. CASE Execute
    <2> DEFINE m == Head(queue)
               next == [m EXCEPT !.step = @ + 1]
               OK(q) == q \in Seq(MessageType) /\ \A n \in DOMAIN q : q[n] # Leftover => InTurn(q[n], executed')
    <2>0. queue # <<>>
      BY <1>2 DEF Execute
    <2>1. m \in MessageType /\ InTurn(m, executed') /\ InTurn(m, executed) /\ m \in executed'
      BY <1>0, <1>2, ExecuteFacts, InTurnStays
    <2>2. OK(Tail(queue))
      BY <2>0, <1>0, HeadOfQueue, InTurnStays DEF Inv
    <2>3. m.step < plan[m.scenario].steps => next \in MessageType /\ InTurn(next, executed')
      <3> SUFFICES ASSUME m.step < plan[m.scenario].steps PROVE next \in MessageType /\ InTurn(next, executed')
        OBVIOUS
      <3>1. /\ next \in MessageType /\ next.scenario = m.scenario /\ next.round = m.round
            /\ next.call = m.call /\ next.step = m.step + 1 /\ m.step \in Nat
            /\ m = Message(m.scenario, m.round, m.call, m.step)
        BY <2>1 DEF MessageType, Message
      <3>2. plan[m.scenario].steps \in Nat
        BY <2>1, PlanShape DEF Inv, InTurn
      <3> HIDE DEF m, next
      <3>3. StepsDone(m.scenario, m.round, m.call, m.step + 1, executed')
        <4>1. StepsDone(m.scenario, m.round, m.call, m.step, executed')
          BY <2>1 DEF InTurn
        <4> QED
          BY <4>1, <3>1, <2>1, OneMoreStep
      <3> QED
        BY <3>1, <3>2, <3>3, <2>1, <1>0 DEF InTurn
    <2>4. ASSUME NEW q, OK(q), NEW x \in MessageType, InTurn(x, executed') PROVE OK(Append(q, x))
      <3>1. ASSUME NEW n \in DOMAIN Append(q, x), n # Len(q) + 1
            PROVE  n \in DOMAIN q /\ Append(q, x)[n] = q[n]
        BY <2>4, <3>1
      <3>2. Append(q, x)[Len(q) + 1] = x /\ Append(q, x) \in Seq(MessageType)
        BY <2>4
      <3> QED
        BY <3>1, <3>2, <2>4
    <2>5. OK(Append(Tail(queue), m))
      BY <2>1, <2>2, <2>4
    <2>6. \A rest \in {Tail(queue), Append(Tail(queue), m)} : OK(rest)
      BY <2>2, <2>5
    <2> HIDE DEF m, next, OK
    <2>7. OK(queue')
      <3>1. CASE /\ m.step < plan[m.scenario].steps
                 /\ \E rest \in {Tail(queue), Append(Tail(queue), m)} : queue' = Append(rest, next)
        BY <3>1, <2>3, <2>4, <2>6
      <3>2. CASE queue' \in {Tail(queue), Append(Tail(queue), m)}
        BY <3>2, <2>6
      <3> QED
        BY <3>1, <3>2, <1>2, ExecuteFacts DEF m, next
    <2> QED
      BY <2>7, <1>0 DEF OK, QueueInv, InTurn
  <1>3. CASE Discard
    <2>1. queue # <<>> /\ queue' = Tail(queue)
      BY <1>3 DEF Discard
    <2>2. Tail(queue) \in Seq(MessageType)
          /\ \A n \in DOMAIN Tail(queue) : Tail(queue)[n] # Leftover => InTurn(Tail(queue)[n], executed')
      BY <2>1, <1>0, HeadOfQueue, InTurnStays DEF Inv
    <2> QED
      BY <2>1, <2>2, <1>0 DEF QueueInv, InTurn
  <1>4. CASE UNCHANGED queue
    <2> QED
      BY <1>4, <1>q, <1>0 DEF QueueInv, InTurn
  <1>5. Call \/ Execute \/ Discard \/ UNCHANGED queue
    BY DEF Next, Main, Worker, Scenarios, Cleanup, Spawn, WorkerIsReady, WorkerIsNotReady,
       GetReturns, GetTimesOut, EndScenario, EndScenarios, Terminate, Join, Report, AtExit, Exit,
       Raise, Kill, OnReady, Die, vars, workerVars
  <1> QED
    BY <1>1, <1>2, <1>3, <1>4, <1>5

LEMMA StoredStep == Inv /\ [Next]_vars => StoredInv'
  <1> SUFFICES ASSUME Inv, [Next]_vars PROVE StoredInv'
    OBVIOUS
  <1>0. UNCHANGED plan /\ executed \subseteq executed'
    BY PlanStep, HistoryGrows
  <1> DEFINE Backed(c, ran) == /\ c[1] \in DOMAIN plan /\ c[2] \in 1 .. plan[c[1]].rounds
                               /\ plan[c[1]].task \in Registered
                               /\ StepsDone(c[1], c[2], c[3], plan[c[1]].steps + 1, ran)
  <1>1. ASSUME NEW c \in stored PROVE Backed(c, executed')
    <2>1. Backed(c, executed)
      BY DEF Inv, StoredInv
    <2> QED
      BY <2>1, <1>0 DEF StepsDone
  <1>2. CASE UNCHANGED stored
    BY <1>0, <1>1, <1>2 DEF StoredInv
  <1>3. CASE Execute /\ stored' # stored
    <2> DEFINE m == Head(queue)
    <2>1. /\ m \in MessageType /\ InTurn(m, executed) /\ plan[m.scenario].task \in Registered
          /\ executed' = executed \cup {m} /\ m.step = plan[m.scenario].steps
          /\ stored' = stored \cup {CallOf(m)}
      BY <1>3, ExecuteFacts
    <2> HIDE DEF m
    <2>2. /\ m.step \in Nat /\ m = Message(m.scenario, m.round, m.call, m.step)
      BY <2>1 DEF MessageType, Message
    <2>3. StepsDone(m.scenario, m.round, m.call, m.step + 1, executed')
      <3>1. StepsDone(m.scenario, m.round, m.call, m.step, executed')
        BY <2>1 DEF InTurn, StepsDone
      <3> QED
        BY <3>1, <2>1, <2>2, OneMoreStep
    <2>4. Backed(CallOf(m), executed')
      BY <2>1, <2>3 DEF CallOf, InTurn
    <2> HIDE DEF Backed
    <2>5. \A c \in stored' : Backed(c, executed')
      BY <2>1, <2>4, <1>1
    <2> QED
      BY <2>5, <1>0 DEF Backed, StoredInv
  <1>4. UNCHANGED stored \/ Execute
    BY DEF Next, Main, Worker, Scenarios, Cleanup, Spawn, WorkerIsReady, WorkerIsNotReady, Call,
       GetReturns, GetTimesOut, EndScenario, EndScenarios, Terminate, Join, Report, AtExit, Exit,
       Raise, Kill, OnReady, Die, Discard, vars, workerVars
  <1> QED
    BY <1>2, <1>3, <1>4

LEMMA ProgressStep == Inv /\ [Next]_vars => ProgressInv'
  <1> SUFFICES ASSUME Inv, [Next]_vars PROVE ProgressInv'
    OBVIOUS
  <1>0. UNCHANGED plan /\ stored \subseteq stored'
    BY PlanStep, HistoryGrows
  <1>p. /\ results \in Seq(Names) /\ round \in Nat /\ Len(results) \in Nat /\ Len(results) <= Len(plan)
        /\ Len(plan) \in Nat /\ DOMAIN plan = 1 .. Len(plan)
        /\ \A s \in DOMAIN plan : plan[s].name \in Names /\ plan[s].rounds \in Nat /\ plan[s].width \in Nat
    BY PlanShape DEF Inv, ProgressInv
  <1> DEFINE Kept(s, r) == \A i \in 1 .. plan[s].width : <<s, r, i>> \in stored'
  <1>k. \A s, r : RoundStored(s, r) => Kept(s, r)
    BY <1>0 DEF RoundStored
  <1>d. \A s \in Done : results[s] = plan[s].name /\ \A r \in 1 .. plan[s].rounds : Kept(s, r)
    BY <1>k DEF Inv, ProgressInv
  <1>c. Current <= Len(plan) => round <= plan[Current].rounds /\ \A r \in 1 .. round : Kept(Current, r)
    BY <1>k DEF Inv, ProgressInv
  <1>z. Current > Len(plan) => round = 0
    BY <1>p DEF Inv, ProgressInv, Current
  <1>1. CASE UNCHANGED <<results, round>> /\ (pc' = "get" => Current <= Len(plan) /\ round < plan[Current].rounds)
    <2>1. UNCHANGED <<Current, Done>>
      BY <1>1 DEF Current, Done
    <2> QED
      <3>1. (\A s \in Done : results[s] = plan[s].name /\ \A r \in 1 .. plan[s].rounds : RoundStored(s, r))'
        BY <1>0, <1>1, <1>d, <2>1 DEF RoundStored
      <3>2. (IF Current <= Len(plan)
             THEN round <= plan[Current].rounds /\ \A r \in 1 .. round : RoundStored(Current, r)
             ELSE round = 0)'
        <4>1. CASE Current <= Len(plan)
          BY <1>0, <1>1, <1>c, <2>1, <4>1 DEF RoundStored
        <4>2. CASE ~(Current <= Len(plan))
          BY <1>0, <1>1, <2>1, <4>2 DEF Inv, ProgressInv
        <4> QED
          BY <4>1, <4>2
      <3>3. /\ results' \in Seq(Names) /\ round' \in Nat /\ Len(results') <= Len(plan')
            /\ pc' = "get" => Current' <= Len(plan') /\ round' < plan'[Current'].rounds
        BY <1>0, <1>1, <1>p, <2>1
      <3> QED
        BY <3>1, <3>2, <3>3 DEF ProgressInv
  <1>2. CASE GetReturns
    <2>1. /\ Current <= Len(plan) /\ round < plan[Current].rounds /\ round' = round + 1
          /\ UNCHANGED results /\ pc' = "call"
      BY <1>2 DEF GetReturns, Inv, ProgressInv
    <2>2. Kept(Current, round + 1)
      <3>1. CallsOf(Current, round + 1) \subseteq stored'
        BY <1>2, <1>0 DEF GetReturns
      <3> QED
        BY <3>1 DEF CallsOf
    <2>3. \A r \in 1 .. round + 1 : Kept(Current, r)
      BY <2>1, <2>2, <1>c, <1>p
    <2>4. UNCHANGED <<Current, Done>>
      BY <2>1 DEF Current, Done
    <2>5. plan[Current].rounds \in Nat
      BY <2>1, <1>p DEF Current
    <2> QED
      BY <1>0, <1>p, <1>d, <2>1, <2>3, <2>4, <2>5 DEF ProgressInv, RoundStored
  <1>3. CASE EndScenario
    <2>1. /\ Current <= Len(plan) /\ round = plan[Current].rounds /\ round' = 0
          /\ results' = Append(results, plan[Current].name) /\ pc' = "call"
      BY <1>3 DEF EndScenario
    <2>2. Current \in DOMAIN plan /\ Current = Len(results) + 1
      BY <2>1, <1>p DEF Current
    <2>3. /\ results' \in Seq(Names) /\ Len(results') = Current /\ results'[Current] = plan[Current].name
          /\ \A s \in Done : results'[s] = results[s]
      BY <2>1, <2>2, <1>p DEF Done
    <2>4. Done' = Done \cup {Current}
      BY <2>2, <2>3, <1>p DEF Done
    <2>5. \A s \in Done' : results'[s] = plan[s].name /\ \A r \in 1 .. plan[s].rounds : Kept(s, r)
      BY <2>1, <2>3, <2>4, <1>c, <1>d
    <2>6. Current' = Current + 1
      BY <2>2, <2>3 DEF Current
    <2>7. Current + 1 <= Len(plan) => plan[Current + 1].rounds \in Nat
      BY <2>2, <1>p
    <2>8. (\A s \in Done : results[s] = plan[s].name /\ \A r \in 1 .. plan[s].rounds : RoundStored(s, r))'
      <3>1. ASSUME NEW s \in Done', NEW r \in 1 .. plan'[s].rounds PROVE RoundStored(s, r)'
        BY <1>0, <2>5 DEF RoundStored
      <3> QED
        BY <3>1, <1>0, <2>5
    <2>9. (IF Current <= Len(plan)
           THEN round <= plan[Current].rounds /\ \A r \in 1 .. round : RoundStored(Current, r)
           ELSE round = 0)'
      <3>1. 1 .. 0 = {}
        OBVIOUS
      <3>2. Current' <= Len(plan') => 0 <= plan'[Current'].rounds
        BY <1>0, <2>6, <2>7
      <3> QED
        BY <3>1, <3>2, <2>1
    <2>10. results' \in Seq(Names) /\ round' \in Nat /\ Len(results') <= Len(plan') /\ pc' # "get"
      BY <1>0, <2>1, <2>3
    <2> QED
      BY <2>8, <2>9, <2>10 DEF ProgressInv
  <1>4. CASE Call
    BY <1>4, <1>1 DEF Call
  <1>5. CASE Spawn \/ WorkerIsReady \/ WorkerIsNotReady \/ GetTimesOut \/ EndScenarios \/ Raise \/ Kill
    BY <1>5, <1>1 DEF Spawn, WorkerIsReady, WorkerIsNotReady, GetTimesOut, EndScenarios, Raise, Kill
  <1>6. CASE Cleanup
    BY <1>6, <1>1 DEF Cleanup, Terminate, Join, Report, AtExit, Exit
  <1>7. CASE Worker
    BY <1>7, <1>1 DEF Worker, OnReady, Die, Execute, Discard, mainVars, Inv, ProgressInv
  <1>8. CASE UNCHANGED vars
    BY <1>8, <1>1 DEF vars, mainVars, Inv, ProgressInv
  <1> QED
    BY <1>2, <1>3, <1>4, <1>5, <1>6, <1>7, <1>8 DEF Next, Main, Scenarios

LEMMA EndStep == Inv /\ [Next]_vars => EndInv'
  <1> SUFFICES ASSUME Inv, [Next]_vars PROVE EndInv'
    OBVIOUS
  <1>0. /\ UNCHANGED plan /\ EndInv
        /\ Len(plan) \in Nat /\ Len(results) \in Nat /\ Len(results) <= Len(plan)
    BY PlanStep, PlanShape DEF Inv, ProgressInv
  <1>1. CASE EndScenario \/ EndScenarios
    BY <1>0, <1>1 DEF EndInv, EndScenario, EndScenarios, Current
  <1>2. CASE Spawn \/ WorkerIsReady \/ WorkerIsNotReady \/ GetTimesOut \/ Raise
    BY <1>0, <1>2 DEF EndInv, Spawn, WorkerIsReady, WorkerIsNotReady, GetTimesOut, Raise
  <1>3. CASE Call \/ GetReturns \/ Kill
    BY <1>0, <1>3 DEF EndInv, Call, GetReturns, Kill
  <1>4. CASE Cleanup
    BY <1>0, <1>4 DEF EndInv, Cleanup, Terminate, Join, Report, AtExit, Exit
  <1>5. CASE Worker
    BY <1>0, <1>5 DEF EndInv, Worker, OnReady, Die, Execute, Discard, mainVars
  <1>6. CASE UNCHANGED vars
    BY <1>0, <1>6 DEF EndInv, vars, mainVars
  <1> QED
    BY <1>1, <1>2, <1>3, <1>4, <1>5, <1>6 DEF Next, Main, Scenarios

-----------------------------------------------------------------------------
(* The theorems                                                            *)

\* The invariant holds of the benchmark of benchmarks/nats in every state.
THEOREM InvariantCorrect == Spec => []Inv
  <1>1. Inv /\ [Next]_vars => Inv'
    BY ShapeStep, PlanStep, QueueStep, StoredStep, ProgressStep, EndStep DEF Inv
  <1> QED
    BY InitInv, <1>1, PTL DEF Spec

\* Every variable of NatsBench keeps its shape.
THEOREM TypeCorrect == Spec => []TypeOK
  <1>1. ASSUME Inv PROVE TypeOK
    <2>1. {raised, ready, signalled} \subseteq BOOLEAN /\ redelivered \in Nat
      BY <1>1 DEF Inv, ShapeInv
    <2>2. /\ round \in Nat /\ Len(results) <= Len(plan)
          /\ round <= IF Current <= Len(plan) THEN plan[Current].rounds ELSE 0
      BY <1>1 DEF Inv, ProgressInv
    <2>3. \A c \in stored : c[1] \in DOMAIN plan /\ c[2] \in 1 .. plan[c[1]].rounds
      BY <1>1 DEF Inv, StoredInv
    <2> QED
      BY <1>1, <2>1, <2>2, <2>3 DEF Inv, ShapeInv, TypeOK
  <1> QED
    BY <1>1, InvariantCorrect, PTL

\* What a ScenarioResult counts was executed by the worker, step by step, for any
\* number of calls, retries, leftover and redelivered messages.
THEOREM ResultsBackedCorrect == Spec => []ResultsBacked
  <1>1. ASSUME Inv, NEW s \in Done, NEW r \in 1 .. plan[s].rounds, NEW i \in 1 .. plan[s].width
        PROVE  /\ <<s, r, i>> \in stored
               /\ \A step \in 1 .. plan[s].steps : Message(s, r, i, step) \in executed
    <2>1. <<s, r, i>> \in stored
      BY <1>1 DEF Inv, ProgressInv, RoundStored
    <2>2. StepsDone(s, r, i, plan[s].steps + 1, executed) /\ s \in DOMAIN plan
      BY <1>1, <2>1 DEF Inv, StoredInv
    <2>3. plan[s].steps \in Nat
      BY <1>1, <2>2, PlanShape DEF Inv
    <2>4. (plan[s].steps + 1) - 1 = plan[s].steps
      BY <2>3
    <2> QED
      BY <2>1, <2>2, <2>4 DEF StepsDone
  <1>2. Inv => ResultsBacked
    BY <1>1 DEF ResultsBacked
  <1> QED
    BY <1>2, InvariantCorrect, PTL

\* print_report prints the whole plan or nothing.
THEOREM ReportWholeCorrect == Spec => []ReportWhole
  <1>1. ASSUME Inv, report # <<>> PROVE report[1] = [s \in DOMAIN plan |-> plan[s].name]
    <2>1. report = <<results>> /\ Len(results) = Len(plan)
      BY <1>1 DEF Inv, EndInv
    <2>2. DOMAIN plan = 1 .. Len(plan) /\ results \in Seq(Names)
      BY <1>1, PlanShape DEF Inv, ProgressInv
    <2>3. \A s \in DOMAIN plan : results[s] = plan[s].name
      BY <1>1, <2>1, <2>2 DEF Inv, ProgressInv, Done
    <2>4. results = [s \in DOMAIN plan |-> results[s]]
      BY <2>1, <2>2
    <2> QED
      BY <2>1, <2>3, <2>4
  <1>2. Inv => ReportWhole
    BY <1>1 DEF ReportWhole
  <1> QED
    BY <1>2, InvariantCorrect, PTL

\* Where the counterexample to NoCallLost leads, for every plan: a run with the KV and
\* hybrid scenarios, whose tasks the worker does not know, is never reported, for it has
\* a call whose result is never stored.
THEOREM KvNeverReported ==
  Spec => [](report # <<>> => \A s \in DOMAIN plan : plan[s].task \in Registered)
  <1>1. ASSUME Inv, report # <<>>, NEW s \in DOMAIN plan PROVE plan[s].task \in Registered
    <2>1. s \in Done
      BY <1>1, PlanShape DEF Inv, EndInv, Done
    <2>2. SUFFICES ASSUME plan[s].task \notin Registered PROVE FALSE
      OBVIOUS
    <2>3. plan[s].rounds >= 1 /\ plan[s].width >= 1 /\ plan[s].rounds \in Nat /\ plan[s].width \in Nat
      BY <1>1, <2>2, PlanShape DEF Inv, PlanInv, Waits
    <2>4. <<s, 1, 1>> \in stored
      BY <1>1, <2>1, <2>3 DEF Inv, ProgressInv, RoundStored
    <2> QED
      BY <1>1, <2>2, <2>4 DEF Inv, StoredInv
  <1>2. Inv => (report # <<>> => \A s \in DOMAIN plan : plan[s].task \in Registered)
    BY <1>1
  <1> QED
    BY <1>2, InvariantCorrect, PTL

-----------------------------------------------------------------------------
(* Main comes to an end, and takes the worker with it                      *)

\* From starting the worker to the end: the scenarios are one phase of many steps.
Phase ==
  IF pc = "spawn" THEN 8 ELSE IF pc = "wait" THEN 7 ELSE IF pc \in {"call", "get"} THEN 6
  ELSE IF pc = "finally" THEN 5 ELSE IF pc = "join" THEN 4 ELSE IF pc = "report" THEN 3
  ELSE IF pc = "exiting" THEN 2 ELSE IF pc = "reap" THEN 1 ELSE 0

\* A scenario of at most R rounds takes main two steps for each and one to end it.
PerScenario(R) == 2 * R + 2
ScenarioSteps(R) ==
  IF pc \in {"spawn", "wait", "call", "get"}
  THEN PerScenario(R) * (Len(plan) - Len(results)) - 2 * round - (IF pc = "get" THEN 1 ELSE 0)
  ELSE 0
Effort(R) == Phase + ScenarioSteps(R)

RoundsAtMost(R) == \A s \in DOMAIN plan : plan[s].rounds <= R

LEMMA OneLess ==
  ASSUME NEW d \in Nat, NEW a \in Nat, NEW b \in Nat, b <= a
  PROVE  /\ b < a => d * (a - b) >= d /\ d * (a - (b + 1)) = d * (a - b) - d
         /\ d * (a - b) <= d * a /\ d * a \in Nat /\ d * (a - b) \in Nat
         /\ a = b => d * (a - b) = 0
  OBVIOUS

LEMMA EffortFacts ==
  ASSUME Inv, NEW R \in Nat, RoundsAtMost(R)
  PROVE  /\ Phase \in 0 .. 8 /\ ScenarioSteps(R) \in Nat
         /\ Effort(R) \in 0 .. PerScenario(R) * Len(plan) + 8
         /\ Len(plan) \in Nat /\ Len(results) \in Nat /\ round \in Nat
         /\ PerScenario(R) \in Nat /\ Len(results) <= Len(plan)
  <1>1. /\ Len(plan) \in Nat /\ Len(results) \in Nat /\ round \in Nat
        /\ Len(results) <= Len(plan) /\ DOMAIN plan = 1 .. Len(plan)
        /\ \A s \in DOMAIN plan : plan[s].rounds \in Nat
    BY PlanShape DEF Inv, ProgressInv
  <1>2. PerScenario(R) \in Nat /\ PerScenario(R) = 2 * R + 2
    BY DEF PerScenario
  <1>3. Phase \in 0 .. 8
    BY DEF Phase
  <1> DEFINE left == PerScenario(R) * (Len(plan) - Len(results))
  <1>4. CASE Len(results) < Len(plan)
    <2>1. Current \in DOMAIN plan /\ round <= plan[Current].rounds
      BY <1>1, <1>4 DEF Current, Inv, ProgressInv
    <2>2. round <= R
      BY <1>1, <2>1 DEF RoundsAtMost
    <2>3. left >= PerScenario(R) /\ left <= PerScenario(R) * Len(plan) /\ left \in Nat
      BY <1>1, <1>2, <1>4, OneLess
    <2>4. PerScenario(R) * Len(plan) \in Nat
      BY <1>1, <1>2, OneLess
    <2> HIDE DEF left
    <2>5. left - 2 * round - 1 \in Nat /\ left - 2 * round \in Nat
      BY <1>1, <1>2, <2>2, <2>3
    <2>6. ScenarioSteps(R) \in Nat /\ ScenarioSteps(R) <= PerScenario(R) * Len(plan)
      <3>1. ScenarioSteps(R) \in {left - 2 * round - 1, left - 2 * round, 0}
        BY <2>5 DEF ScenarioSteps, left
      <3>2. 0 <= PerScenario(R) * Len(plan)
        BY <1>2, <2>3, <2>4
      <3> QED
        BY <1>1, <2>3, <2>4, <2>5, <3>1, <3>2
    <2>7. Effort(R) \in 0 .. PerScenario(R) * Len(plan) + 8
      BY ONLY <1>3, <2>4, <2>6 DEF Effort
    <2> QED
      BY <1>1, <1>2, <1>3, <2>6, <2>7
  <1>5. CASE Len(results) = Len(plan)
    <2>1. round = 0 /\ pc # "get"
      BY <1>1, <1>5 DEF Current, Inv, ProgressInv
    <2>2. left = 0
      BY <1>1, <1>2, <1>5, OneLess
    <2>3. ScenarioSteps(R) = 0
      BY <2>1, <2>2 DEF ScenarioSteps
    <2>4. PerScenario(R) * Len(plan) \in Nat
      BY <1>1, <1>2, OneLess
    <2>5. Effort(R) \in 0 .. PerScenario(R) * Len(plan) + 8
      BY ONLY <1>3, <2>3, <2>4 DEF Effort
    <2> QED
      BY <1>1, <1>2, <1>3, <2>3, <2>5
  <1> QED
    BY <1>1, <1>4, <1>5

LEMMA EffortStep ==
  ASSUME Inv, NEW R \in Nat, RoundsAtMost(R), [Next]_vars
  PROVE  Effort(R)' < Effort(R) \/ (Effort(R)' = Effort(R) /\ UNCHANGED mainVars)
  <1>0. /\ UNCHANGED plan /\ Phase \in 0 .. 8 /\ ScenarioSteps(R) \in Nat
        /\ Len(plan) \in Nat /\ Len(results) \in Nat /\ round \in Nat
        /\ PerScenario(R) \in Nat /\ Len(results) <= Len(plan)
    BY PlanStep, EffortFacts
  <1>1. CASE UNCHANGED mainVars
    BY <1>1, <1>0 DEF mainVars, Effort, Phase, ScenarioSteps
  <1>2. CASE Worker \/ UNCHANGED vars
    BY <1>1, <1>2 DEF Worker, OnReady, Die, Execute, Discard, vars
  <1>3. CASE Spawn \/ WorkerIsReady
    <2>1. Phase' < Phase /\ Phase' \in Nat
      BY <1>3 DEF Spawn, WorkerIsReady, Phase
    <2>2. ScenarioSteps(R)' = ScenarioSteps(R)
      BY <1>3 DEF Spawn, WorkerIsReady, ScenarioSteps
    <2> QED
      BY ONLY <1>0, <2>1, <2>2 DEF Effort
  <1>4. CASE WorkerIsNotReady \/ GetTimesOut \/ EndScenarios \/ Raise \/ Cleanup
    <2> USE <1>4 DEF WorkerIsNotReady, GetTimesOut, EndScenarios, Raise, Cleanup, Terminate, Join,
                     Report, AtExit, Exit
    <2>1. Phase' < Phase /\ Phase' \in Nat
      BY DEF Phase
    <2>2. ScenarioSteps(R)' = 0
      BY DEF ScenarioSteps
    <2> QED
      BY ONLY <1>0, <2>1, <2>2 DEF Effort
  <1>5. CASE Kill
    <2>1. Phase' = 0 /\ ScenarioSteps(R)' = 0
      BY <1>5 DEF Kill, Phase, ScenarioSteps
    <2>2. Phase > 0
      BY <1>5 DEF Kill, Phase, Inv, ShapeInv
    <2> QED
      BY <1>0, <2>1, <2>2 DEF Effort
  <1> DEFINE left == PerScenario(R) * (Len(plan) - Len(results))
  <1>6. left \in Nat
    BY <1>0, OneLess
  <1>7. CASE Call \/ GetReturns
    <2>1. /\ UNCHANGED <<plan, results>> /\ Phase = 6 /\ Phase' = 6
          /\ \/ pc = "call" /\ pc' = "get" /\ round' = round
             \/ pc = "get" /\ pc' = "call" /\ round' = round + 1
      BY <1>7 DEF Call, GetReturns, Phase
    <2>2. left' = left
      BY <2>1
    <2>3. /\ ScenarioSteps(R) = left - 2 * round - (IF pc = "get" THEN 1 ELSE 0)
          /\ ScenarioSteps(R)' = left' - 2 * round' - (IF pc' = "get" THEN 1 ELSE 0)
      BY <2>1 DEF ScenarioSteps
    <2> HIDE DEF left
    <2> QED
      BY <1>0, <1>6, <2>1, <2>2, <2>3 DEF Effort
  <1>8. CASE EndScenario
    <2>1. /\ pc = "call" /\ pc' = "call" /\ round' = 0 /\ Phase = 6 /\ Phase' = 6
          /\ Current \in DOMAIN plan /\ round = plan[Current].rounds
          /\ Len(results') = Len(results) + 1
      <3>1. results \in Seq(Names) /\ DOMAIN plan = 1 .. Len(plan)
        BY PlanShape DEF Inv, ProgressInv
      <3> QED
        BY <1>8, <1>0, <3>1 DEF EndScenario, Phase, Current
    <2>2. round <= R
      BY <2>1 DEF RoundsAtMost
    <2>3. left' = left - PerScenario(R) /\ left >= PerScenario(R)
      <3>1. Len(results) < Len(plan)
        BY <1>0, <2>1, PlanShape DEF Current, Inv
      <3>2. left' = PerScenario(R) * (Len(plan) - (Len(results) + 1))
        BY <1>0, <2>1 DEF PerScenario
      <3> QED
        BY <1>0, <3>1, <3>2, OneLess
    <2> HIDE DEF left
    <2>4. ScenarioSteps(R) = left - 2 * round /\ ScenarioSteps(R)' = left'
      <3>1. ScenarioSteps(R) = left - 2 * round - 0
        BY <2>1 DEF ScenarioSteps, left
      <3>2. ScenarioSteps(R)' = left' - 2 * 0 - 0
        BY <2>1 DEF ScenarioSteps, left
      <3> QED
        BY <1>0, <1>6, <2>3, <3>1, <3>2
    <2>5. PerScenario(R) = 2 * R + 2
      BY DEF PerScenario
    <2> QED
      <3>1. Effort(R) = 6 + (left - 2 * round) /\ Effort(R)' = 6 + left'
        BY <2>1, <2>4 DEF Effort
      <3>2. round \in Nat /\ R \in Nat
        BY <1>0
      <3>3. Effort(R)' < Effort(R)
        BY ONLY <1>6, <2>2, <2>3, <2>5, <3>1, <3>2
      <3> QED
        BY <3>3
  <1> QED
    BY <1>2, <1>3, <1>4, <1>5, <1>7, <1>8 DEF Next, Main, Scenarios

\* Main is through after 2R + 2 steps for each scenario and eight more, if none of them
\* has more than R rounds, whatever the worker does: no wait is repeated, and what the
\* worker does is no step of main.
THEOREM MainIsBounded ==
  ASSUME NEW R \in Nat
  PROVE  Spec /\ RoundsAtMost(R) =>
           /\ [](Effort(R) \in 0 .. PerScenario(R) * Len(plan) + 8)
           /\ [][Effort(R)' < Effort(R) \/ (Effort(R)' = Effort(R) /\ UNCHANGED mainVars)]_vars
  <1>1. Inv /\ RoundsAtMost(R) /\ [Next]_vars => RoundsAtMost(R)'
    BY PlanStep DEF RoundsAtMost
  <1>2. Inv /\ RoundsAtMost(R) => Effort(R) \in 0 .. PerScenario(R) * Len(plan) + 8
    BY EffortFacts
  <1>3. Inv /\ RoundsAtMost(R) /\ [Next]_vars =>
          [Effort(R)' < Effort(R) \/ (Effort(R)' = Effort(R) /\ UNCHANGED mainVars)]_vars
    BY EffortStep
  <1> QED
    BY <1>1, <1>2, <1>3, InvariantCorrect, PTL DEF Spec

\* The arguments of main bound the rounds of its scenarios.
LEMMA RoundsOfPlan ==
  ASSUME NEW R \in Nat \ {0}, \A n \in TaskCounts \cup ChainCounts \cup RetryCounts : n <= R
  PROVE  Init => RoundsAtMost(R)
  <1> SUFFICES ASSUME NEW count \in TaskCounts, NEW chains \in ChainCounts, NEW retries \in RetryCounts,
                      NEW sizes \in SizeLists, NEW chain \in BOOLEAN, NEW retry \in BOOLEAN,
                      NEW kv \in BOOLEAN
               PROVE  LET p == PlanOf(count, chain, chains, sizes, retry, retries, kv)
                      IN  \A s \in DOMAIN p : p[s].rounds <= R
    BY DEF Init, RoundsAtMost
  <1> DEFINE orElse(n, default) == IF n = 0 THEN default ELSE n
             part(n) == Larger(1, count \div n)
             Short == [name : Names, task : TaskNames, rounds : 0 .. R, width : Nat, steps : Nat]
             one   == <<Group("throughput", "add", count)>>
             two   == IF chain THEN <<OneByOne("chain", "add", orElse(chains, count), 3)>> ELSE <<>>
             three == [i \in 1 .. Len(sizes) |-> Group(sizes[i], "process_payload", count)]
             four  == IF retry
                      THEN <<OneByOne("retry", "flaky", orElse(retries, part(5)), FailCount + 1)>>
                      ELSE <<>>
             a == Group("kv", "add_kv", part(2))
             b == OneByOne("chord", "chord_add", part(10), 2)
             c == Group("hybrid/small", "hybrid_echo", part(5))
             d == Group("hybrid/large", "hybrid_echo", part(20))
             five  == IF kv THEN <<a, b, c, d>> ELSE <<>>
  <1>1. /\ count \in 0 .. R /\ chains \in 0 .. R /\ retries \in 0 .. R /\ sizes \in Seq(Sizes)
        /\ FailCount + 1 \in Nat
    BY ArgsAssumption, RetryAssumption
  <1>2. part(2) \in 0 .. R /\ part(5) \in 0 .. R /\ part(10) \in 0 .. R /\ part(20) \in 0 .. R
    BY <1>1 DEF Larger
  <1>3. orElse(chains, count) \in 0 .. R /\ orElse(retries, part(5)) \in 0 .. R
    BY <1>1, <1>2
  <1>n. /\ {"throughput", "chain", "retry", "kv", "chord", "hybrid/small", "hybrid/large"} \subseteq Names
        /\ Sizes \subseteq Names
        /\ {"add", "process_payload", "flaky", "add_kv", "chord_add", "hybrid_echo"} \subseteq TaskNames
    BY DEF Names, TaskNames, Registered
  <1> HIDE DEF part, orElse
  <1>g. ASSUME NEW n \in Names, NEW t \in TaskNames, NEW w \in 0 .. R
        PROVE  Group(n, t, w) \in Short
    BY <1>g DEF Group, Scenario
  <1>o. ASSUME NEW n \in Names, NEW t \in TaskNames, NEW w \in 0 .. R, NEW k \in Nat
        PROVE  OneByOne(n, t, w, k) \in Short
    BY <1>o DEF OneByOne, Scenario
  <1>4. Group("throughput", "add", count) \in Short /\ a \in Short /\ c \in Short /\ d \in Short
    BY <1>1, <1>2, <1>n, <1>g
  <1>5. /\ OneByOne("chain", "add", orElse(chains, count), 3) \in Short /\ b \in Short
        /\ OneByOne("retry", "flaky", orElse(retries, part(5)), FailCount + 1) \in Short
    BY <1>1, <1>2, <1>3, <1>n, <1>o
  <1>6. \A i \in 1 .. Len(sizes) : three[i] \in Short
    <2>1. \A i \in 1 .. Len(sizes) : sizes[i] \in Names
      BY <1>1, <1>n
    <2> QED
      BY <2>1, <1>1, <1>n, <1>g
  <1> HIDE DEF a, b, c, d, Short
  <1>7. one \in Seq(Short) /\ two \in Seq(Short) /\ four \in Seq(Short) /\ five \in Seq(Short)
    BY <1>4, <1>5
  <1>8. three \in Seq(Short)
    <2>1. three \in [1 .. Len(sizes) -> Short] /\ Len(sizes) \in Nat
      BY <1>1, <1>6
    <2> HIDE DEF three
    <2> QED
      BY <2>1
  <1> HIDE DEF one, two, three, four, five
  <1>9. one \o two \o three \o four \o five \in Seq(Short)
    BY <1>7, <1>8
  <1>10. PlanOf(count, chain, chains, sizes, retry, retries, kv) \in Seq(Short)
    BY <1>9 DEF PlanOf, one, two, three, four, five, part, orElse, a, b, c, d
  <1>11. ASSUME NEW p \in Seq(Short), NEW s \in DOMAIN p PROVE p[s].rounds <= R
    <2>1. p[s] \in Short
      BY <1>11
    <2> QED
      BY <2>1 DEF Short
  <1> QED
    BY <1>10, <1>11

\* So the arguments bound the length of a benchmark, of a plan of any scenarios.
COROLLARY BenchmarkIsBounded ==
  ASSUME NEW R \in Nat \ {0}, \A n \in TaskCounts \cup ChainCounts \cup RetryCounts : n <= R
  PROVE  Spec => [](Effort(R) \in 0 .. PerScenario(R) * Len(plan) + 8)
  <1>1. Init => RoundsAtMost(R)
    BY RoundsOfPlan
  <1>2. R \in Nat
    OBVIOUS
  <1>3. Spec /\ RoundsAtMost(R) =>
          /\ [](Effort(R) \in 0 .. PerScenario(R) * Len(plan) + 8)
          /\ [][Effort(R)' < Effort(R) \/ (Effort(R)' = Effort(R) /\ UNCHANGED mainVars)]_vars
    BY <1>2, MainIsBounded
  <1> QED
    BY <1>1, <1>3, PTL DEF Spec

-----------------------------------------------------------------------------
(* The end of the worker                                                   *)

\* The guards of Main, and of the Shutdown that Exit waits for.
MainReady ==
  \/ pc \in {"spawn", "wait", "get", "finally", "join", "report", "exiting"}
  \/ pc = "call" /\ (Current > Len(plan) \/ round <= plan[Current].rounds)
  \/ pc = "reap" /\ worker = "dead"
ShutdownReady == signalled /\ worker \in {"booting", "up"}

\* There is a worker to be joined, and it has been told to stop before main waits for it.
WorkerInv ==
  /\ pc \notin {"spawn", "killed"} => worker # "none"
  /\ pc \in {"reap", "exited"} => signalled
  /\ pc = "exited" => worker = "dead"

LEMMA WorkerStep == WorkerInv /\ [Next]_vars => WorkerInv'
  <1> SUFFICES ASSUME WorkerInv, [Next]_vars PROVE WorkerInv'
    OBVIOUS
  <1>1. CASE Spawn \/ WorkerIsReady \/ WorkerIsNotReady \/ Raise \/ Kill \/ Cleanup
    BY <1>1 DEF WorkerInv, Spawn, WorkerIsReady, WorkerIsNotReady, Raise, Kill, Cleanup, Terminate,
       Join, Report, AtExit, Exit, workerVars
  <1>2. CASE Scenarios
    BY <1>2 DEF WorkerInv, Scenarios, Call, GetReturns, GetTimesOut, EndScenario, EndScenarios,
       workerVars
  <1>3. CASE Worker
    BY <1>3 DEF WorkerInv, Worker, OnReady, Die, Execute, Discard, mainVars
  <1>4. CASE UNCHANGED vars
    BY <1>4 DEF WorkerInv, vars, mainVars, workerVars
  <1> QED
    BY <1>1, <1>2, <1>3, <1>4 DEF Next, Main

\* Nobody waits for ever: until main has ended it can go on, or waits for a worker that
\* was told to stop and can; and a main that has exited leaves no worker behind.
THEOREM NeverStuck ==
  Spec => [] /\ pc \notin {"exited", "killed"} => MainReady \/ (pc = "reap" /\ ShutdownReady)
             /\ pc = "exited" => worker = "dead"
  <1>1. Init => WorkerInv
    BY DEF Init, WorkerInv
  <1>2. ASSUME Inv, WorkerInv
        PROVE  /\ pc \notin {"exited", "killed"} => MainReady \/ (pc = "reap" /\ ShutdownReady)
               /\ pc = "exited" => worker = "dead"
    <2>1. CASE pc = "call"
      <3>1. Len(plan) \in Nat /\ Len(results) \in Nat
        BY <1>2, PlanShape DEF Inv, ProgressInv
      <3>2. Current > Len(plan) \/ round <= plan[Current].rounds
        BY <1>2, <3>1 DEF Inv, ProgressInv, Current
      <3> QED
        BY <2>1, <3>2 DEF MainReady
    <2>2. CASE pc = "reap"
      BY <1>2, <2>2 DEF MainReady, ShutdownReady, WorkerInv, Inv, ShapeInv
    <2>3. CASE pc \notin {"call", "reap"}
      BY <1>2, <2>3 DEF MainReady, WorkerInv, Inv, ShapeInv
    <2> QED
      BY <2>1, <2>2, <2>3
  <1> QED
    BY <1>1, <1>2, WorkerStep, InvariantCorrect, PTL DEF Spec
=============================================================================
