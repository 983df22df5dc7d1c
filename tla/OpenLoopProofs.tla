----------------------------- MODULE OpenLoopProofs -----------------------------
(***************************************************************************)
(* Proofs about OpenLoop, for every rate, duration and way in which the    *)
(* calls of the loop take time.                                            *)
(***************************************************************************)
EXTENDS OpenLoop, StatsProofs

Windowed == {"collect", "reported", "done"}       \* the submission window is over
InPass   == {"publishing", "pause"}

\* When the next pass begins, at the earliest.
NextStart == IF pc = "pause" THEN Due ELSE now

\* Where the loop is decides which passes there have been.
LoopInv ==
  /\ pc = "run" => starts = <<>> /\ now = 0
  /\ pc \in InPass => starts # <<>> /\ now >= starts[Len(starts)]
  /\ pc = "publishing" => now = starts[Len(starts)] /\ Len(pending) < Len(starts)
  /\ pc \in Windowed => now >= duration
  /\ pc \notin Windowed => collected = <<>> /\ lost = {}

\* Every pass begins within the window, an interval or more after the one before.
StartsInv ==
  /\ \A i \in 1 .. Len(starts) :
       starts[i] < duration /\ starts[i] >= (i - 1) * interval
  /\ \A i, j \in 1 .. Len(starts) : i < j => starts[j] - starts[i] >= (j - i) * interval
  /\ pc = "loop" =>
       /\ \A i \in 1 .. Len(starts) : now - starts[i] >= (Len(starts) + 1 - i) * interval
       /\ now >= Len(starts) * interval

\* A handle is an interval or more older than the one after it, and than the next.
PendingInv ==
  /\ \A k \in 1 .. Len(pending) :
       pending[k].t0 + (Len(pending) - k) * interval < duration
  /\ pc \in InPass \cup {"loop"} =>
       \A k \in 1 .. Len(pending) :
         pending[k].t0 + (Len(pending) + 1 - k) * interval <= NextStart

\* While every pass was prompt, passes begin exactly at the multiples of the interval.
PromptInv ==
  prompt =>
    /\ pc = "loop" => now = Len(starts) * interval
    /\ pc \in InPass => starts[Len(starts)] = (Len(starts) - 1) * interval
    /\ pc \in Windowed => Len(starts) * interval >= duration

\* What was seen when a handle was collected.
CollectedInv ==
  /\ \A i \in 1 .. Len(collected) : collected[i].ok => collected[i].t6 >= duration
  /\ ExpiryDecides

Inv == TypeOK /\ LoopInv /\ StartsInv /\ PendingInv /\ PromptInv /\ CollectedInv

-----------------------------------------------------------------------------
(* Lemmas about products and sequences                                     *)

LEMMA OneMore ==
  \A a, b \in Int : (a + 1) * b = a * b + b
  OBVIOUS

LEMMA ProductNat ==
  \A a, b \in Nat : a * b \in Nat
  OBVIOUS

LEMMA ProductInt ==
  \A a, b \in Int : a * b \in Int
  OBVIOUS

LEMMA Chained ==
  \A a, p, x, y \in Int : a + p <= x /\ x <= y => a + p <= y
  OBVIOUS

LEMMA Shifted ==
  \A a, p, q, x, b, y \in Int :
    q = p + b /\ a + p <= x /\ x < y => a + p < y /\ a + q <= x + b
  OBVIOUS

LEMMA AppendFacts ==
  ASSUME NEW S, NEW s \in Seq(S), NEW e \in S
  PROVE  /\ Append(s, e) \in Seq(S)
         /\ Len(Append(s, e)) = Len(s) + 1
         /\ Append(s, e)[Len(s) + 1] = e
         /\ \A i \in 1 .. Len(s) : Append(s, e)[i] = s[i]
         /\ Append(s, e) # <<>>
  OBVIOUS

LEMMA ElementFact ==
  ASSUME NEW S, NEW s \in Seq(S), NEW i \in 1 .. Len(s)
  PROVE  s[i] \in S
  OBVIOUS

LEMMA FiniteBelow ==
  ASSUME NEW n \in Nat, NEW S \in SUBSET (1 .. n)
  PROVE  IsFiniteSet(S) /\ Cardinality(S) \in Nat
  <1>1. IsFiniteSet(1 .. n)
    BY FS_Interval
  <1>2. IsFiniteSet(S)
    BY <1>1, FS_Subset
  <1> QED
    BY <1>2, FS_CardinalityType

-----------------------------------------------------------------------------
(* Type correctness                                                        *)

LEMMA InitInv == Init => Inv
  <1> SUFFICES ASSUME Init PROVE Inv
    OBVIOUS
  <1>1. Len(<<>>) = 0 /\ 1 .. 0 = {}
    OBVIOUS
  <1>2. TypeOK
    BY <1>1 DEF Init, TypeOK, Sources
  <1>3. LoopInv
    BY DEF Init, LoopInv, InPass, Windowed
  <1>4. StartsInv /\ PendingInv /\ PromptInv
    BY <1>1 DEF Init, StartsInv, PendingInv, PromptInv, InPass, Windowed
  <1>5. CollectedInv
    BY <1>1 DEF Init, CollectedInv, ExpiryDecides, Succeeded
  <1> QED
    BY <1>2, <1>3, <1>4, <1>5 DEF Inv

LEMMA RunType ==
  ASSUME TypeOK, NEW mode \in Modes, NEW prefetch \in Prefetches, NEW d \in Durations,
         NEW from \in Sources, Run(mode, prefetch, d, from)
  PROVE  TypeOK'
  <1> DEFINE rate == IF prefetch = 0 THEN DefaultRate ELSE prefetch
  <1>1. rate \in Nat /\ rate > 0 /\ Unit \in Nat
    BY RateAssumption
  <1>2. Unit \div rate \in Nat
    BY <1>1
  <1>3. interval' \in Nat
    BY <1>2 DEF Run
  <1>4. duration' \in Nat
    BY DurationAssumption DEF Run
  <1> QED
    BY <1>3, <1>4 DEF TypeOK, Run, history

\* The last pass, once there is one, and when the next is due.
LEMMA LastPass ==
  ASSUME TypeOK, LoopInv, pc \in InPass
  PROVE  /\ Len(starts) \in Nat \ {0} /\ Len(starts) \in 1 .. Len(starts)
         /\ starts[Len(starts)] \in Nat /\ Due \in Nat
         /\ Due = starts[Len(starts)] + interval /\ now >= starts[Len(starts)]
  BY DEF TypeOK, LoopInv, Due

\* The actions of the loop and of the pause.
LEMMA LoopType ==
  ASSUME TypeOK, LoopInv, Loop
  PROVE  TypeOK'
  <1>1. CASE NextPass
    BY <1>1, AppendFacts DEF TypeOK, NextPass, history
  <1>2. CASE EndLoop
    BY <1>2 DEF TypeOK, EndLoop, history
  <1>3. CASE NoSleep
    BY <1>3 DEF TypeOK, NoSleep
  <1>4. ASSUME NEW late \in Lateness, Sleep(late) PROVE TypeOK'
    <2>1. late \in Nat
      BY TimeAssumption
    <2>2. Due \in Nat
      BY <1>4, LastPass DEF Sleep, InPass
    <2>3. Due + late \in Nat
      BY <2>1, <2>2
    <2> QED
      BY <1>4, <2>3 DEF TypeOK, Sleep
  <1> QED
    BY <1>1, <1>2, <1>3, <1>4 DEF Loop

\* A handle is taken only while there is a pass for it: LoopInv and the lengths.
LEMMA PublishType ==
  ASSUME TypeOK, Len(pending) < Len(starts), Publish
  PROVE  TypeOK'
  <1>1. ASSUME NEW d \in PublishTimes, Published(d) PROVE TypeOK'
    <2>1. d \in Nat /\ now + d \in Nat
      BY TimeAssumption DEF TypeOK
    <2>2. [t0 |-> now, t1 |-> now + d] \in [t0 : Nat, t1 : Nat]
      BY <2>1 DEF TypeOK
    <2>3. pending' \in Seq([t0 : Nat, t1 : Nat]) /\ Len(pending') = Len(pending) + 1
      BY <1>1, <2>2, AppendFacts DEF Published, TypeOK
    <2>4. Len(pending') <= Len(starts') /\ Len(collected') <= Len(pending')
      <3>1. Len(pending) \in Nat /\ Len(starts) \in Nat /\ Len(collected) \in Nat
        BY DEF TypeOK
      <3>2. starts' = starts /\ collected' = collected
        BY <1>1 DEF Published
      <3> QED
        BY <2>3, <3>1, <3>2 DEF TypeOK
    <2> QED
      BY <1>1, <2>1, <2>3, <2>4 DEF TypeOK, Published, history
  <1>2. ASSUME NEW d \in PublishTimes, PublishFailed(d) PROVE TypeOK'
    <2>1. d \in Nat /\ now + d \in Nat
      BY TimeAssumption DEF TypeOK
    <2> QED
      BY <1>2, <2>1 DEF TypeOK, PublishFailed, history
  <1> QED
    BY <1>1, <1>2 DEF Publish

\* The actions after the window: they leave the submissions alone.
AfterWindow == Collect \/ Report \/ \E limits \in Limits : Evaluate(limits)

LEMMA SeenFacts ==
  ASSUME now \in Nat, NEW ready \in Nat
  PROVE  Seen(ready) \in Nat /\ Seen(ready) >= now /\ Seen(ready) >= ready
         /\ (ready <= now => Seen(ready) = now)
  BY DEF Seen, Later

LEMMA TurnFacts ==
  ASSUME TypeOK, Turn <= Len(pending)
  PROVE  /\ Turn \in 1 .. Len(pending) /\ Turn = Len(collected) + 1
         /\ pending[Turn].t0 \in Nat /\ pending[Turn].t1 \in Nat
         /\ Len(collected) \in Nat /\ Len(pending) \in Nat
  <1>1. Turn \in 1 .. Len(pending) /\ Turn = Len(collected) + 1
    BY DEF TypeOK, Turn
  <1>2. pending[Turn] \in [t0 : Nat, t1 : Nat]
    <2>1. pending \in Seq([t0 : Nat, t1 : Nat])
      BY DEF TypeOK
    <2> QED
      BY <1>1, <2>1, ElementFact
  <1> QED
    BY <1>1, <1>2 DEF TypeOK

\* One more handle is collected.
LEMMA CollectType ==
  ASSUME TypeOK, Turn <= Len(pending), NEW t \in Nat, NEW ok \in BOOLEAN,
         collected' = Append(collected, [t6 |-> t, ok |-> ok])
  PROVE  /\ collected' \in Seq([t6 : Nat, ok : BOOLEAN])
         /\ Len(collected') = Turn /\ Len(collected') = Len(collected) + 1
         /\ collected'[Turn] = [t6 |-> t, ok |-> ok]
         /\ \A i \in 1 .. Len(collected) : collected'[i] = collected[i]
  BY TurnFacts, AppendFacts DEF TypeOK

LEMMA GiveUpType ==
  ASSUME TypeOK, GiveUp, lost' \subseteq lost \cup {Turn}
  PROVE  TypeOK'
  <1>1. now' \in Nat
    BY TimeAssumption DEF GiveUp, TypeOK
  <1>2. Turn <= Len(pending)
    BY DEF GiveUp
  <1>3. /\ collected' \in Seq([t6 : Nat, ok : BOOLEAN])
        /\ Len(collected') = Turn /\ Len(collected') = Len(collected) + 1
    BY <1>2, CollectType, TurnFacts DEF GiveUp
  <1>4. Len(collected') <= Len(pending)
    BY <1>2, <1>3
  <1>5. lost' \subseteq 1 .. Len(collected')
    <2>1. 1 .. Len(collected') = (1 .. Len(collected)) \cup {Turn}
      BY <1>2, <1>3, TurnFacts
    <2> QED
      BY <2>1 DEF TypeOK
  <1> QED
    BY <1>1, <1>3, <1>4, <1>5 DEF GiveUp, TypeOK

LEMMA TailType ==
  ASSUME TypeOK, AfterWindow
  PROVE  TypeOK'
  <1>1. ASSUME NEW service \in ServiceTimes, NEW ok \in BOOLEAN, GetReturns(service, ok)
        PROVE  TypeOK'
    <2> DEFINE ready == pending[Turn].t0 + service
    <2>1. Turn <= Len(pending) /\ pc' = pc /\ now' = Seen(ready)
      BY <1>1 DEF GetReturns
    <2>2. ready \in Nat /\ now \in Nat
      <3>1. service \in Nat /\ now \in Nat
        BY TimeAssumption DEF TypeOK
      <3>2. pending[Turn].t0 \in Nat
        BY <2>1, TurnFacts
      <3> QED
        BY <3>1, <3>2
    <2>3. Seen(ready) \in Nat
      BY <2>2, SeenFacts
    <2>4. collected' = Append(collected, [t6 |-> Seen(ready), ok |-> ok])
      BY <1>1 DEF GetReturns
    <2>5. /\ collected' \in Seq([t6 : Nat, ok : BOOLEAN])
          /\ Len(collected') = Turn /\ Len(collected') = Len(collected) + 1
      BY <2>1, <2>3, <2>4, CollectType
    <2>6. Len(collected') <= Len(pending) /\ lost \subseteq 1 .. Len(collected')
      BY <2>1, <2>5, TurnFacts DEF TypeOK
    <2> QED
      BY <1>1, <2>1, <2>3, <2>5, <2>6 DEF GetReturns, TypeOK, history
  <1>2. ASSUME NEW service \in ServiceTimes, NEW ok \in BOOLEAN, GetTimesOut(service, ok)
        PROVE  TypeOK'
    BY <1>2, GiveUpType DEF GetTimesOut
  <1>3. CASE GetNothing
    BY <1>3, GiveUpType DEF GetNothing
  <1>6. ASSUME NEW ok \in BOOLEAN, GetAtOnce(ok) PROVE TypeOK'
    <2>1. Turn <= Len(pending) /\ now \in Nat /\ lost' = lost
          /\ collected' = Append(collected, [t6 |-> now, ok |-> ok])
      BY <1>6 DEF GetAtOnce, TypeOK, history
    <2>2. /\ collected' \in Seq([t6 : Nat, ok : BOOLEAN])
          /\ Len(collected') = Turn /\ Len(collected') = Len(collected) + 1
      BY <2>1, CollectType
    <2>3. Len(collected') <= Len(pending) /\ lost \subseteq 1 .. Len(collected')
      BY <2>1, <2>2, TurnFacts DEF TypeOK
    <2> QED
      BY <1>6, <2>1, <2>2, <2>3 DEF GetAtOnce, TypeOK, history
  <1>4. CASE Report
    BY <1>4 DEF Report, TypeOK, history
  <1>5. ASSUME NEW limits \in Limits, Evaluate(limits) PROVE TypeOK'
    BY <1>5 DEF Evaluate, TypeOK, history
  <1> QED
    BY <1>1, <1>2, <1>3, <1>4, <1>5, <1>6 DEF AfterWindow, Collect

LEMMA TypeStep ==
  ASSUME TypeOK, LoopInv, [Next]_vars
  PROVE  TypeOK'
  <1>1. ASSUME NEW mode \in Modes, NEW prefetch \in Prefetches, NEW d \in Durations,
               NEW from \in Sources, Run(mode, prefetch, d, from)
        PROVE  TypeOK'
    BY <1>1, RunType
  <1>2. CASE Loop
    BY <1>2, LoopType
  <1>3. CASE Publish
    <2>1. pc = "publishing"
      BY <1>3 DEF Publish, Published, PublishFailed
    <2> QED
      BY <1>3, <2>1, PublishType DEF LoopInv
  <1>4. CASE AfterWindow
    BY <1>4, TailType
  <1>5. CASE UNCHANGED vars
    BY <1>5 DEF vars, history, TypeOK
  <1> QED
    BY <1>1, <1>2, <1>3, <1>4, <1>5 DEF Next, AfterWindow
-----------------------------------------------------------------------------
(* The loop                                                                *)

\* What the actions after the window leave alone.
LEMMA TailFrame ==
  ASSUME TypeOK, AfterWindow
  PROVE  /\ pc \in Windowed /\ pc' \in Windowed
         /\ UNCHANGED <<interval, duration, source, starts, pending, prompt>>
         /\ now' \in Nat /\ now' >= now
  <1>1. ASSUME NEW service \in ServiceTimes, NEW ok \in BOOLEAN, GetReturns(service, ok)
        PROVE  now' >= now
    <2>1. Turn <= Len(pending) /\ now' = Seen(pending[Turn].t0 + service)
      BY <1>1 DEF GetReturns
    <2>2. service \in Nat /\ now \in Nat
      BY TimeAssumption DEF TypeOK
    <2>3. pending[Turn].t0 + service \in Nat
      BY <2>1, <2>2, TurnFacts
    <2> QED
      BY <2>1, <2>2, <2>3, SeenFacts
  <1>2. ASSUME GiveUp PROVE now' >= now
    BY <1>2, TimeAssumption DEF GiveUp, TypeOK
  <1>3. now' >= now
    <2>1. CASE Collect
      <3>1. ASSUME NEW ok \in BOOLEAN, GetAtOnce(ok) PROVE now' >= now
        BY <3>1 DEF GetAtOnce, TypeOK
      <3>2. GetNothing => GiveUp
        BY DEF GetNothing
      <3>3. ASSUME NEW service \in ServiceTimes, NEW ok \in BOOLEAN, GetTimesOut(service, ok)
            PROVE  GiveUp
        BY <3>3 DEF GetTimesOut
      <3> QED
        BY <1>1, <1>2, <2>1, <3>1, <3>2, <3>3 DEF Collect
    <2>2. CASE Report \/ \E limits \in Limits : Evaluate(limits)
      BY <2>2 DEF Report, Evaluate, TypeOK
    <2> QED
      BY <2>1, <2>2 DEF AfterWindow
  <1>4. /\ pc \in Windowed /\ pc' \in Windowed
        /\ UNCHANGED <<interval, duration, source, starts, pending, prompt>>
    <2>1. ASSUME Collect
          PROVE  /\ pc \in Windowed /\ pc' \in Windowed
                 /\ UNCHANGED <<interval, duration, source, starts, pending, prompt>>
      BY <2>1 DEF Collect, GetReturns, GetAtOnce, GetTimesOut, GetNothing, GiveUp, history, Windowed
    <2>2. ASSUME Report
          PROVE  /\ pc \in Windowed /\ pc' \in Windowed
                 /\ UNCHANGED <<interval, duration, source, starts, pending, prompt>>
      BY <2>2 DEF Report, history, Windowed
    <2>3. ASSUME NEW limits \in Limits, Evaluate(limits)
          PROVE  /\ pc \in Windowed /\ pc' \in Windowed
                 /\ UNCHANGED <<interval, duration, source, starts, pending, prompt>>
      BY <2>3 DEF Evaluate, history, Windowed
    <2> QED
      BY <2>1, <2>2, <2>3 DEF AfterWindow
  <1> QED
    BY <1>3, <1>4, TailType DEF TypeOK

LEMMA LoopStep ==
  ASSUME TypeOK, LoopInv, [Next]_vars
  PROVE  LoopInv'
  <1> USE DEF LoopInv, InPass, Windowed
  <1>0. TypeOK'
    BY TypeStep
  <1>1. ASSUME NEW mode \in Modes, NEW prefetch \in Prefetches, NEW d \in Durations,
               NEW from \in Sources, Run(mode, prefetch, d, from)
        PROVE  LoopInv'
    BY <1>1 DEF Run, history
  <1>2. CASE NextPass
    <2>0. starts \in Seq(Nat) /\ now \in Nat /\ starts' = Append(starts, now)
      BY <1>2 DEF NextPass, TypeOK
    <2>1. /\ starts' # <<>> /\ Len(starts') = Len(starts) + 1
          /\ starts'[Len(starts')] = now
      BY <2>0, AppendFacts
    <2>2. Len(pending) < Len(starts) + 1
      BY DEF TypeOK
    <2> QED
      BY <1>2, <2>1, <2>2 DEF NextPass, history, TypeOK
  <1>3. CASE EndLoop
    BY <1>3 DEF EndLoop, history
  <1>4. CASE NoSleep
    BY <1>4 DEF NoSleep
  <1>5. ASSUME NEW late \in Lateness, Sleep(late) PROVE LoopInv'
    BY <1>5 DEF Sleep
  <1>6. ASSUME NEW d \in PublishTimes, Published(d) \/ PublishFailed(d) PROVE LoopInv'
    <2>1. d \in Nat /\ now \in Nat /\ starts[Len(starts)] = now
      BY <1>6, TimeAssumption DEF TypeOK, Published, PublishFailed
    <2>2. now' >= starts[Len(starts)] /\ starts' = starts /\ pc' = "pause"
      BY <1>6, <2>1 DEF Published, PublishFailed
    <2> QED
      BY <1>6, <2>2 DEF Published, PublishFailed, history
  <1>7. CASE AfterWindow
    <2>1. now >= duration /\ duration \in Nat /\ now \in Nat
      BY <1>7, TailFrame DEF TypeOK
    <2>2. now' >= duration' /\ pc' \in Windowed
      BY <1>7, <2>1, TailFrame
    <2> QED
      BY <2>2
  <1>8. CASE UNCHANGED vars
    BY <1>8 DEF vars, history
  <1> QED
    BY <1>1, <1>2, <1>3, <1>4, <1>5, <1>6, <1>7, <1>8 DEF Next, Loop, Publish, AfterWindow

\* The invariants about submissions hold after the window because nothing they speak
\* of changes.
LEMMA TailKeeps ==
  ASSUME TypeOK, StartsInv, PendingInv, PromptInv, AfterWindow \/ UNCHANGED vars
  PROVE  StartsInv' /\ PendingInv' /\ PromptInv'
  <1>1. CASE AfterWindow
    <2>1. /\ pc \in Windowed /\ pc' \in Windowed
          /\ UNCHANGED <<interval, duration, starts, pending, prompt>>
      BY <1>1, TailFrame
    <2> QED
      BY <2>1 DEF StartsInv, PendingInv, PromptInv, Windowed, InPass
  <1>2. CASE UNCHANGED vars
    BY <1>2 DEF vars, history, StartsInv, PendingInv, PromptInv, NextStart, Due
  <1> QED
    BY <1>1, <1>2
\* The next pass begins within the window and follows the last by an interval.
LEMMA StartsNext ==
  ASSUME TypeOK, StartsInv, NextPass
  PROVE  StartsInv'
  <1> DEFINE n == Len(starts)
  <1>1. /\ n \in Nat /\ now \in Nat /\ interval \in Nat /\ duration \in Nat
        /\ \A i \in 1 .. n : starts[i] \in Nat
    BY ElementFact DEF TypeOK
  <1>2. /\ Len(starts') = n + 1 /\ starts'[n + 1] = now
        /\ \A i \in 1 .. n : starts'[i] = starts[i]
    BY AppendFacts DEF NextPass, TypeOK
  <1>3. pc' = "publishing" /\ interval' = interval /\ duration' = duration
    BY DEF NextPass
  <1>4. /\ now < duration /\ now >= n * interval
        /\ \A i \in 1 .. n : now - starts[i] >= (n + 1 - i) * interval
    BY DEF NextPass, StartsInv
  <1>5. ASSUME NEW i \in 1 .. Len(starts')
        PROVE  starts'[i] < duration /\ starts'[i] >= (i - 1) * interval
    <2>1. CASE i = n + 1
      <3>1. i - 1 = n
        BY <1>1, <2>1
      <3> QED
        BY <1>2, <1>4, <2>1, <3>1
    <2>2. CASE i \in 1 .. n
      BY <1>2, <2>2 DEF StartsInv
    <2> QED
      BY <1>1, <1>2, <2>1, <2>2
  <1>6. ASSUME NEW i \in 1 .. Len(starts'), NEW j \in 1 .. Len(starts'), i < j
        PROVE  starts'[j] - starts'[i] >= (j - i) * interval
    <2>1. i \in 1 .. n
      BY <1>1, <1>2, <1>6
    <2>2. CASE j = n + 1
      BY <1>2, <1>4, <2>1, <2>2
    <2>3. CASE j \in 1 .. n
      BY <1>2, <1>6, <2>1, <2>3 DEF StartsInv
    <2> QED
      BY <1>1, <1>2, <2>2, <2>3
  <1> QED
    BY <1>3, <1>5, <1>6 DEF StartsInv

\* A pause ends no earlier than the next pass is due.
LEMMA StartsPause ==
  ASSUME TypeOK, LoopInv, StartsInv, pc = "pause", pc' = "loop",
         now' \in Nat, now' >= Due, UNCHANGED <<interval, duration, starts>>
  PROVE  StartsInv'
  <1> DEFINE n == Len(starts)
  <1>1. n \in Nat \ {0} /\ n \in 1 .. n /\ starts[n] \in Nat /\ Due = starts[n] + interval
    BY LastPass DEF InPass
  <1>2. interval \in Nat /\ \A i \in 1 .. n : starts[i] \in Nat
    BY ElementFact DEF TypeOK
  <1>3. now' >= n * interval
    <2>1. starts[n] >= (n - 1) * interval
      BY <1>1 DEF StartsInv
    <2>2. ((n - 1) + 1) * interval = (n - 1) * interval + interval
      BY <1>1, <1>2, OneMore
    <2>3. (n - 1) + 1 = n /\ (n - 1) * interval \in Int
      BY <1>1, <1>2, ProductInt
    <2> QED
      BY <1>1, <1>2, <2>1, <2>2, <2>3
  <1>4. ASSUME NEW i \in 1 .. n PROVE now' - starts[i] >= (n + 1 - i) * interval
    <2>1. starts[n] - starts[i] >= (n - i) * interval
      <3>1. CASE i = n
        <4>1. n - i = 0 /\ 0 * interval = 0
          BY <1>1, <1>2, <3>1
        <4> QED
          BY <1>1, <3>1, <4>1
      <3>2. CASE i < n
        BY <1>1, <3>2 DEF StartsInv
      <3> QED
        BY <1>1, <3>1, <3>2
    <2>2. ((n - i) + 1) * interval = (n - i) * interval + interval
      BY <1>1, <1>2, OneMore
    <2>3. (n - i) + 1 = n + 1 - i /\ (n - i) * interval \in Int
      BY <1>1, <1>2, ProductInt
    <2>4. starts[i] \in Nat
      BY <1>2
    <2> QED
      BY <1>1, <1>2, <2>1, <2>2, <2>3, <2>4
  <1> QED
    BY <1>3, <1>4 DEF StartsInv

LEMMA StartsStep ==
  ASSUME TypeOK, LoopInv, StartsInv, PendingInv, PromptInv, [Next]_vars
  PROVE  StartsInv'
  <1>1. ASSUME NEW mode \in Modes, NEW prefetch \in Prefetches, NEW d \in Durations,
               NEW from \in Sources, Run(mode, prefetch, d, from)
        PROVE  StartsInv'
    <2>1. starts' = <<>> /\ now' = 0 /\ Len(<<>>) = 0 /\ 1 .. 0 = {}
      BY <1>1 DEF Run, LoopInv
    <2>2. 0 * interval' = 0
      BY TypeStep DEF TypeOK
    <2> QED
      BY <2>1, <2>2 DEF StartsInv
  <1>2. CASE NextPass
    BY <1>2, StartsNext
  <1>3. CASE EndLoop
    BY <1>3 DEF EndLoop, StartsInv
  <1>4. CASE NoSleep
    BY <1>4, StartsPause DEF NoSleep, TypeOK
  <1>5. ASSUME NEW late \in Lateness, Sleep(late) PROVE StartsInv'
    <2>1. Due \in Nat /\ late \in Nat /\ now' = Due + late
      BY <1>5, LastPass, TimeAssumption DEF Sleep, InPass
    <2> QED
      BY <1>5, <2>1, StartsPause DEF Sleep
  <1>6. ASSUME NEW d \in PublishTimes, Published(d) \/ PublishFailed(d) PROVE StartsInv'
    BY <1>6 DEF Published, PublishFailed, StartsInv
  <1>7. CASE AfterWindow \/ UNCHANGED vars
    BY <1>7, TailKeeps
  <1> QED
    BY <1>1, <1>2, <1>3, <1>4, <1>5, <1>6, <1>7 DEF Next, Loop, Publish, AfterWindow
LEMMA PendingFacts ==
  ASSUME TypeOK
  PROVE  /\ Len(pending) \in Nat /\ interval \in Nat /\ now \in Nat /\ duration \in Nat
         /\ \A k \in 1 .. Len(pending) : pending[k].t0 \in Nat
         /\ \A k \in 1 .. Len(pending) : (Len(pending) + 1 - k) * interval \in Int
  <1>1. pending \in Seq([t0 : Nat, t1 : Nat])
    BY DEF TypeOK
  <1>2. \A k \in 1 .. Len(pending) : pending[k] \in [t0 : Nat, t1 : Nat]
    BY <1>1, ElementFact
  <1>3. /\ Len(pending) \in Nat /\ interval \in Nat /\ now \in Nat /\ duration \in Nat
        /\ \A k \in 1 .. Len(pending) : pending[k].t0 \in Nat
    BY <1>2 DEF TypeOK
  <1>4. \A k \in 1 .. Len(pending) : (Len(pending) + 1 - k) * interval \in Int
    BY <1>3, ProductInt
  <1> QED
    BY <1>3, <1>4

\* A handle is appended in the pass that began when the last one was due.
LEMMA PendingPublished ==
  ASSUME TypeOK, LoopInv, StartsInv, PendingInv, NEW d \in PublishTimes, Published(d)
  PROVE  PendingInv'
  <1> DEFINE m == Len(pending)
  <1>1. /\ m \in Nat /\ interval \in Nat /\ now \in Nat /\ duration \in Nat
        /\ \A k \in 1 .. m : pending[k].t0 \in Nat
    BY PendingFacts
  <1>2. /\ m' = m + 1 /\ pending'[m + 1].t0 = now
        /\ \A k \in 1 .. m : pending'[k] = pending[k]
    <2>1. d \in Nat /\ now + d \in Nat
      BY <1>1, TimeAssumption
    <2>2. [t0 |-> now, t1 |-> now + d] \in [t0 : Nat, t1 : Nat]
      BY <1>1, <2>1
    <2>3. pending \in Seq([t0 : Nat, t1 : Nat])
      BY DEF TypeOK
    <2> QED
      BY <2>2, <2>3, AppendFacts DEF Published
  <1>3. now < duration /\ NextStart' = now + interval /\ duration' = duration
        /\ interval' = interval /\ pc' = "pause"
    <2>1. now = starts[Len(starts)] /\ Len(starts) \in 1 .. Len(starts)
      BY LastPass DEF Published, LoopInv, InPass
    <2>2. now < duration
      BY <2>1 DEF StartsInv
    <2> QED
      BY <2>1, <2>2 DEF Published, NextStart, Due
  <1>4. \A k \in 1 .. m : pending[k].t0 + (m + 1 - k) * interval <= now
    BY DEF PendingInv, Published, InPass, NextStart
  <1>5. ASSUME NEW k \in 1 .. m'
        PROVE  /\ pending'[k].t0 + (m' - k) * interval < duration
               /\ pending'[k].t0 + (m' + 1 - k) * interval <= now + interval
    <2>1. CASE k = m + 1
      <3>1. m' - k = 0 /\ m' + 1 - k = 1 /\ 0 * interval = 0 /\ 1 * interval = interval
        BY <1>1, <1>2, <2>1
      <3> QED
        BY <1>1, <1>2, <1>3, <2>1, <3>1
    <2>2. CASE k \in 1 .. m
      <3>1. pending'[k].t0 = pending[k].t0 /\ m' - k = m + 1 - k
            /\ m' + 1 - k = (m + 1 - k) + 1
        BY <1>1, <1>2, <2>2
      <3>2. ((m + 1 - k) + 1) * interval = (m + 1 - k) * interval + interval
        BY <1>1, <2>2, OneMore
      <3>3. (m + 1 - k) * interval \in Int
        BY <1>1, <2>2, ProductInt
      <3>4. /\ pending[k].t0 + (m + 1 - k) * interval < duration
            /\ pending[k].t0 + ((m + 1 - k) + 1) * interval <= now + interval
        <4>1. ((m + 1 - k) + 1) * interval \in Int /\ pending[k].t0 \in Int
          BY <1>1, <2>2, ProductInt
        <4>2. pending[k].t0 + (m + 1 - k) * interval <= now /\ now < duration
          BY <1>3, <1>4, <2>2
        <4> QED
          BY <1>1, <3>2, <3>3, <4>1, <4>2, Shifted
      <3> QED
        BY <3>1, <3>4
    <2> QED
      BY <1>1, <1>2, <2>1, <2>2
  <1> QED
    BY <1>3, <1>5 DEF PendingInv

LEMMA PendingStep ==
  ASSUME TypeOK, LoopInv, StartsInv, PendingInv, PromptInv, [Next]_vars
  PROVE  PendingInv'
  <1>1. ASSUME NEW mode \in Modes, NEW prefetch \in Prefetches, NEW d \in Durations,
               NEW from \in Sources, Run(mode, prefetch, d, from)
        PROVE  PendingInv'
    <2>1. Len(pending) \in Nat /\ Len(pending) <= 0
      BY <1>1 DEF Run, LoopInv, TypeOK
    <2>2. 1 .. Len(pending') = {}
      BY <1>1, <2>1 DEF Run
    <2> QED
      BY <2>2 DEF PendingInv
  <1>2. CASE NextPass
    BY <1>2 DEF NextPass, PendingInv, NextStart, InPass
  <1>3. CASE EndLoop
    BY <1>3 DEF EndLoop, PendingInv, InPass
  \* A pass that ends moves the clock to the time it was due, or leaves it beyond.
  <1>4. ASSUME pc = "pause", pc' = "loop", now' \in Nat, now' >= Due,
               UNCHANGED <<interval, duration, pending>>
        PROVE  PendingInv'
    <2>1. \A k \in 1 .. Len(pending) :
            pending[k].t0 + (Len(pending) + 1 - k) * interval <= Due
      BY <1>4 DEF PendingInv, NextStart, InPass
    <2>2. ASSUME NEW k \in 1 .. Len(pending)
          PROVE  pending[k].t0 + (Len(pending) + 1 - k) * interval <= now'
      <3>1. Due \in Nat
        BY <1>4, LastPass DEF InPass
      <3> QED
        BY <1>4, <2>1, <3>1, PendingFacts, Chained
    <2> QED
      BY <1>4, <2>2 DEF PendingInv, NextStart
  <1>5. CASE NoSleep
    BY <1>4, <1>5 DEF NoSleep, TypeOK
  <1>6. ASSUME NEW late \in Lateness, Sleep(late) PROVE PendingInv'
    <2>1. Due \in Nat /\ late \in Nat /\ now' = Due + late
      BY <1>6, LastPass, TimeAssumption DEF Sleep, InPass
    <2> QED
      BY <1>4, <1>6, <2>1 DEF Sleep
  <1>7. ASSUME NEW d \in PublishTimes, Published(d) PROVE PendingInv'
    BY <1>7, PendingPublished
  <1>8. ASSUME NEW d \in PublishTimes, PublishFailed(d) PROVE PendingInv'
    <2>1. Due = now + interval /\ now \in Nat /\ interval \in Nat
      BY <1>8 DEF PublishFailed, LoopInv, TypeOK, Due
    <2>2. \A k \in 1 .. Len(pending) :
            pending[k].t0 + (Len(pending) + 1 - k) * interval <= now
      BY <1>8 DEF PendingInv, NextStart, InPass, PublishFailed
    <2>3. ASSUME NEW k \in 1 .. Len(pending)
          PROVE  pending[k].t0 + (Len(pending) + 1 - k) * interval <= Due
      <3>1. now <= Due /\ Due \in Int
        BY <2>1
      <3> QED
        BY <2>1, <2>2, <3>1, PendingFacts, Chained
    <2>4. /\ NextStart' = Due /\ pc' = "pause" /\ pending' = pending
          /\ interval' = interval /\ duration' = duration
      BY <1>8 DEF PublishFailed, NextStart, Due
    <2> QED
      BY <2>3, <2>4 DEF PendingInv
  <1>9. CASE AfterWindow \/ UNCHANGED vars
    BY <1>9, TailKeeps
  <1> QED
    BY <1>1, <1>2, <1>3, <1>5, <1>6, <1>7, <1>8, <1>9 DEF Next, Loop, Publish, AfterWindow
LEMMA PromptStep ==
  ASSUME TypeOK, LoopInv, StartsInv, PendingInv, PromptInv, [Next]_vars
  PROVE  PromptInv'
  <1> USE DEF InPass, Windowed
  <1>1. ASSUME NEW mode \in Modes, NEW prefetch \in Prefetches, NEW d \in Durations,
               NEW from \in Sources, Run(mode, prefetch, d, from)
        PROVE  PromptInv'
    <2>1. Len(starts') = 0 /\ now' = 0 /\ pc' = "loop"
      BY <1>1 DEF Run, LoopInv
    <2>2. 0 * interval' = 0
      BY TypeStep DEF TypeOK
    <2> QED
      BY <2>1, <2>2 DEF PromptInv
  <1>2. CASE NextPass
    <2>1. /\ Len(starts') = Len(starts) + 1 /\ Len(starts) \in Nat
          /\ starts'[Len(starts')] = now
      BY <1>2, AppendFacts DEF NextPass, TypeOK
    <2>2. (Len(starts') - 1) = Len(starts)
      BY <2>1
    <2> QED
      BY <1>2, <2>1, <2>2 DEF NextPass, PromptInv, history
  <1>3. CASE EndLoop
    <2>1. prompt => Len(starts) * interval >= duration
      BY <1>3 DEF EndLoop, PromptInv
    <2> QED
      BY <1>3, <2>1 DEF EndLoop, PromptInv, history
  \* From one due time to the next.
  <1>4. ASSUME pc = "pause", pc' = "loop", prompt' => prompt /\ now' = Due,
               UNCHANGED <<interval, starts>>
        PROVE  PromptInv'
    <2> DEFINE n == Len(starts)
    <2>1. n \in Nat \ {0} /\ starts[n] \in Nat /\ Due = starts[n] + interval
          /\ interval \in Nat
      BY <1>4, LastPass DEF TypeOK
    <2>2. ((n - 1) + 1) * interval = (n - 1) * interval + interval
      BY <2>1, OneMore
    <2>3. (n - 1) + 1 = n
      BY <2>1
    <2>4. prompt => Due = n * interval
      BY <1>4, <2>1, <2>2, <2>3 DEF PromptInv
    <2> QED
      BY <1>4, <2>4 DEF PromptInv
  <1>5. CASE NoSleep
    BY <1>4, <1>5 DEF NoSleep
  <1>6. ASSUME NEW late \in Lateness, Sleep(late) PROVE PromptInv'
    <2>1. Due \in Nat
      BY <1>6, LastPass DEF Sleep
    <2>2. prompt' => prompt /\ late = 0
      BY <1>6 DEF Sleep
    <2>3. prompt' => prompt /\ now' = Due
      BY <1>6, <2>1, <2>2 DEF Sleep
    <2> QED
      BY <1>4, <1>6, <2>3 DEF Sleep
  <1>7. ASSUME NEW d \in PublishTimes, Published(d) \/ PublishFailed(d) PROVE PromptInv'
    BY <1>7 DEF Published, PublishFailed, PromptInv, history
  <1>8. CASE AfterWindow \/ UNCHANGED vars
    BY <1>8, TailKeeps
  <1> QED
    BY <1>1, <1>2, <1>3, <1>5, <1>6, <1>7, <1>8 DEF Next, Loop, Publish, AfterWindow

-----------------------------------------------------------------------------
(* Collection                                                              *)

\* A handle that get returned was seen after the window.
LEMMA ReturnedGood ==
  ASSUME TypeOK, LoopInv, NEW service \in ServiceTimes, NEW ok \in BOOLEAN,
         GetReturns(service, ok)
  PROVE  \E t \in Nat :
           t >= duration /\ collected' = Append(collected, [t6 |-> t, ok |-> ok])
  <1> DEFINE ready == pending[Turn].t0 + service
  <1>1. Turn <= Len(pending) /\ pc = "collect"
        /\ collected' = Append(collected, [t6 |-> Seen(ready), ok |-> ok])
    BY DEF GetReturns
  <1>2. service \in Nat /\ now \in Nat /\ duration \in Nat
    BY TimeAssumption DEF TypeOK
  <1>3. ready \in Nat
    BY <1>1, <1>2, TurnFacts
  <1>4. Seen(ready) \in Nat /\ Seen(ready) >= now
    BY <1>2, <1>3, SeenFacts
  <1>5. now >= duration
    BY <1>1 DEF LoopInv, Windowed
  <1> QED
    BY <1>1, <1>2, <1>4, <1>5

\* One more handle is collected: with a time after the window if it is a success, and
\* with lost as it was, unless the result may have expired and get waited in vain.
LEMMA CollectedOne ==
  ASSUME TypeOK, LoopInv, CollectedInv, Turn <= Len(pending),
         now' \in Nat, now' >= now, now >= duration,
         UNCHANGED <<pending, duration, source>>,
         NEW t \in Nat, NEW ok \in BOOLEAN,
         collected' = Append(collected, [t6 |-> t, ok |-> ok]),
         ok => t >= duration,
         \/ lost' = lost
         \/ /\ lost' = lost \cup {Turn} /\ ~ok /\ source = "backend"
            /\ now' = now + GetTimeout /\ pending[Turn].t0 + Expires <= now
  PROVE  CollectedInv'
  <1>0. /\ GetTimeout \in Nat /\ Expires \in Nat /\ now \in Nat /\ duration \in Nat
        /\ Len(collected) \in Nat /\ lost \in SUBSET (1 .. Len(collected))
    BY TimeAssumption DEF TypeOK
  <1>1. /\ Len(collected') = Turn /\ Turn = Len(collected) + 1
        /\ collected'[Turn] = [t6 |-> t, ok |-> ok]
        /\ \A i \in 1 .. Len(collected) : collected'[i] = collected[i]
    BY CollectType, TurnFacts
  <1>2. \A i \in 1 .. Len(collected') : i \in 1 .. Len(collected) \/ i = Turn
    BY <1>0, <1>1
  <1>3. \A i \in 1 .. Len(collected') : collected'[i].ok => collected'[i].t6 >= duration'
    BY <1>1, <1>2 DEF CollectedInv
  <1>4. ASSUME NEW i \in lost
        PROVE  /\ source' = "backend" /\ ~collected'[i].ok
               /\ pending'[i].t0 + Expires + GetTimeout <= now'
    <2>1. i \in 1 .. Len(collected) /\ i \in 1 .. Len(pending)
      BY DEF TypeOK
    <2>2. source = "backend" /\ ~collected[i].ok /\ pending[i].t0 + Expires + GetTimeout <= now
      BY <2>1 DEF CollectedInv, ExpiryDecides, Succeeded
    <2>3. pending[i].t0 \in Nat
      BY <2>1, PendingFacts
    <2> QED
      BY <1>0, <1>1, <2>1, <2>2, <2>3
  <1>5. CASE lost' = lost
    <2>1. lost # {} => duration + Cardinality(lost) * GetTimeout <= now
      BY DEF CollectedInv, ExpiryDecides
    <2>2. Cardinality(lost) \in Nat
      BY <1>0, FiniteBelow
    <2>3. Cardinality(lost) * GetTimeout \in Nat
      BY <1>0, <2>2, ProductNat
    <2>4. lost' # {} => duration' + Cardinality(lost') * GetTimeout <= now'
      BY <1>0, <1>5, <2>1, <2>3
    <2> QED
      BY <1>3, <1>4, <1>5, <2>4 DEF CollectedInv, ExpiryDecides, Succeeded
  <1>6. CASE /\ lost' = lost \cup {Turn} /\ ~ok /\ source = "backend"
             /\ now' = now + GetTimeout /\ pending[Turn].t0 + Expires <= now
    <2>1. /\ source' = "backend" /\ ~collected'[Turn].ok
          /\ pending'[Turn].t0 + Expires + GetTimeout <= now'
      <3>1. pending[Turn].t0 \in Nat
        BY TurnFacts
      <3> QED
        BY <1>0, <1>1, <1>6, <3>1
    <2>2. Turn \notin lost /\ IsFiniteSet(lost) /\ Cardinality(lost) \in Nat
      <3>1. IsFiniteSet(lost) /\ Cardinality(lost) \in Nat
        BY <1>0, FiniteBelow
      <3>2. Turn \notin 1 .. Len(collected)
        BY <1>0, <1>1
      <3> QED
        BY <1>0, <3>1, <3>2
    <2>3. Cardinality(lost') = Cardinality(lost) + 1
      BY <1>6, <2>2, FS_AddElement
    <2>4. duration + Cardinality(lost) * GetTimeout <= now
      <3>1. CASE lost = {}
        <4>1. Cardinality(lost) = 0 /\ 0 * GetTimeout = 0
          BY <1>0, <3>1, FS_EmptySet
        <4> QED
          BY <1>0, <4>1
      <3>2. CASE lost # {}
        BY <3>2 DEF CollectedInv, ExpiryDecides
      <3> QED
        BY <3>1, <3>2
    <2>5. (Cardinality(lost) + 1) * GetTimeout = Cardinality(lost) * GetTimeout + GetTimeout
      BY <1>0, <2>2, OneMore
    <2>6. Cardinality(lost) * GetTimeout \in Nat
      BY <1>0, <2>2, ProductNat
    <2>7. duration' + Cardinality(lost') * GetTimeout <= now'
      BY <1>0, <1>6, <2>3, <2>4, <2>5, <2>6
    <2>8. \A i \in lost' : /\ source' = "backend" /\ ~collected'[i].ok
                           /\ pending'[i].t0 + Expires + GetTimeout <= now'
      BY <1>4, <1>6, <2>1
    <2> QED
      BY <1>3, <2>7, <2>8 DEF CollectedInv, ExpiryDecides, Succeeded
  <1> QED
    BY <1>5, <1>6

LEMMA CollectedStep ==
  ASSUME TypeOK, LoopInv, CollectedInv, [Next]_vars
  PROVE  CollectedInv'
  <1>1. TypeOK' /\ LoopInv'
    BY TypeStep, LoopStep
  <1>2. CASE pc' \notin Windowed
    <2>1. Len(collected') = 0 /\ lost' = {}
      BY <1>1, <1>2 DEF LoopInv
    <2> QED
      BY <2>1 DEF CollectedInv, ExpiryDecides, Succeeded
  <1>3. ASSUME UNCHANGED <<collected, lost, pending, duration, source>>, now' = now
        PROVE  CollectedInv'
    BY <1>3 DEF CollectedInv, ExpiryDecides, Succeeded
  <1>4. CASE EndLoop \/ Report \/ UNCHANGED vars
    BY <1>3, <1>4 DEF EndLoop, Report, vars, history
  <1>5. ASSUME NEW limits \in Limits, Evaluate(limits) PROVE CollectedInv'
    BY <1>3, <1>5 DEF Evaluate, history
  <1>6. ASSUME Collect
        PROVE  /\ Turn <= Len(pending) /\ now' \in Nat /\ now' >= now /\ now >= duration
               /\ UNCHANGED <<pending, duration, source>>
    <2>1. AfterWindow /\ pc = "collect" /\ Turn <= Len(pending)
      BY <1>6 DEF AfterWindow, Collect, GetReturns, GetAtOnce, GetTimesOut, GetNothing, GiveUp
    <2> QED
      BY <2>1, TailFrame DEF LoopInv, Windowed
  <1>7. ASSUME NEW service \in ServiceTimes, NEW ok \in BOOLEAN, GetReturns(service, ok)
        PROVE  CollectedInv'
    <2>1. Collect /\ lost' = lost
      BY <1>7 DEF Collect, GetReturns, history
    <2>2. PICK t \in Nat :
            t >= duration /\ collected' = Append(collected, [t6 |-> t, ok |-> ok])
      BY <1>7, ReturnedGood
    <2> QED
      BY <1>6, <2>1, <2>2, CollectedOne
  <1>8. ASSUME NEW ok \in BOOLEAN, GetAtOnce(ok) PROVE CollectedInv'
    <2>1. Collect /\ lost' = lost /\ now \in Nat
          /\ collected' = Append(collected, [t6 |-> now, ok |-> ok])
      BY <1>8 DEF Collect, GetAtOnce, history, TypeOK
    <2> QED
      BY <1>6, <2>1, CollectedOne
  <1>9. ASSUME GiveUp, Collect,
               \/ lost' = lost
               \/ lost' = lost \cup {Turn} /\ pending[Turn].t0 + Expires <= now
        PROVE  CollectedInv'
    <2>1. Turn <= Len(pending) /\ now' = now + GetTimeout /\ source = "backend"
          /\ collected' = Append(collected, [t6 |-> pending[Turn].t1, ok |-> FALSE])
      BY <1>9 DEF GiveUp
    <2>2. pending[Turn].t1 \in Nat /\ FALSE \in BOOLEAN
      BY <2>1, TurnFacts
    <2> QED
      BY <1>6, <1>9, <2>1, <2>2, CollectedOne
  <1>10. ASSUME NEW service \in ServiceTimes, NEW ok \in BOOLEAN, GetTimesOut(service, ok)
         PROVE  CollectedInv'
    <2> DEFINE ready == pending[Turn].t0 + service
    <2>1. Turn <= Len(pending) /\ GiveUp /\ Collect
      BY <1>10 DEF GetTimesOut, GiveUp, Collect
    <2>2. service \in Nat /\ now \in Nat /\ Expires \in Nat /\ GetTimeout \in Nat
      BY TimeAssumption DEF TypeOK
    <2>3. pending[Turn].t0 \in Nat /\ ready \in Nat
      BY <2>1, <2>2, TurnFacts
    <2>4. ASSUME ready <= now PROVE pending[Turn].t0 + Expires <= now
      <3>1. Seen(ready) = now
        BY <2>2, <2>3, <2>4, SeenFacts
      <3>2. InTime(ready)
        BY <2>2, <3>1 DEF InTime
      <3>3. MayBeGone(ready)
        BY <1>10, <2>2, <2>3, <2>4, <3>2 DEF GetTimesOut
      <3>4. now >= ready + Expires
        BY <3>1, <3>3 DEF MayBeGone
      <3> QED
        BY <2>2, <2>3, <3>4
    <2>5. lost' = lost \/ (lost' = lost \cup {Turn} /\ ready <= now)
      BY <1>10 DEF GetTimesOut
    <2> QED
      BY <1>9, <2>1, <2>4, <2>5
  <1>11. CASE GetNothing
    BY <1>9, <1>11 DEF GetNothing, Collect
  <1>12. CASE \/ Loop \/ Publish
              \/ \E mode \in Modes, prefetch \in Prefetches, d \in Durations, from \in Sources :
                   Run(mode, prefetch, d, from)
    <2>1. EndLoop \/ pc' \notin Windowed
      BY <1>12 DEF Loop, Publish, Run, NextPass, NoSleep, Sleep, Published, PublishFailed,
                   Windowed
    <2> QED
      BY <1>2, <1>4, <2>1
  <1> QED
    BY <1>4, <1>5, <1>7, <1>8, <1>10, <1>11, <1>12 DEF Next, Collect
-----------------------------------------------------------------------------
(* Theorems                                                                *)

\* Inv is inductive: every reachable state of the open loop satisfies it.
THEOREM InvariantCorrect == Spec => []Inv
  <1>1. ASSUME Inv, [Next]_vars PROVE Inv'
    BY <1>1, TypeStep, LoopStep, StartsStep, PendingStep, PromptStep, CollectedStep DEF Inv
  <1> QED
    BY InitInv, <1>1, PTL DEF Spec

\* Every variable of the open loop keeps its shape.
THEOREM TypeCorrect == Spec => []TypeOK
  <1>1. Inv => TypeOK
    BY DEF Inv
  <1> QED
    BY <1>1, InvariantCorrect, PTL

\* The open loop never submits faster than its rate, in no part of the window.
THEOREM OfferedLoadCorrect == Spec => []OfferedLoad
  <1>1. ASSUME Inv PROVE OfferedLoad
    <2> USE <1>1 DEF Inv
    <2>1. ASSUME starts # <<>> PROVE (Len(starts) - 1) * interval < duration
      <3>1. Len(starts) \in 1 .. Len(starts) /\ Len(starts) \in Nat
        BY <2>1 DEF TypeOK
      <3>2. starts[Len(starts)] < duration
            /\ starts[Len(starts)] >= (Len(starts) - 1) * interval
        BY <3>1 DEF StartsInv
      <3>3. starts[Len(starts)] \in Nat /\ duration \in Nat
            /\ (Len(starts) - 1) * interval \in Int
        BY <3>1, ElementFact, ProductInt DEF TypeOK
      <3> QED
        BY <3>2, <3>3
    <2> QED
      BY <2>1 DEF OfferedLoad, StartsInv
  <1> QED
    BY <1>1, InvariantCorrect, PTL

\* While publishing keeps up, the open loop offers the load it was asked for.
THEOREM RateHeldCorrect == Spec => []RateHeld
  <1>1. Inv => RateHeld
    BY DEF Inv, PromptInv, RateHeld, Windowed
  <1> QED
    BY <1>1, InvariantCorrect, PTL

LEMMA LatencyHasWait ==
  ASSUME Inv, NEW i \in Succeeded
  PROVE  Latency(i) > (Len(pending) - i) * interval
  <1> USE DEF Inv
  <1>1. i \in 1 .. Len(collected) /\ i \in 1 .. Len(pending) /\ collected[i].ok
    BY DEF Succeeded, TypeOK
  <1>2. collected[i].t6 \in Nat
    <2>1. collected \in Seq([t6 : Nat, ok : BOOLEAN])
      BY DEF TypeOK
    <2>2. collected[i] \in [t6 : Nat, ok : BOOLEAN]
      BY <1>1, <2>1, ElementFact
    <2> QED
      BY <2>2
  <1>3. collected[i].t6 >= duration
    BY <1>1 DEF CollectedInv
  <1>4. pending[i].t0 + (Len(pending) - i) * interval < duration
    BY <1>1 DEF PendingInv
  <1>5. pending[i].t0 \in Nat /\ duration \in Nat
        /\ (Len(pending) - i) * interval \in Int
    BY <1>1, PendingFacts, ProductInt
  <1> QED
    BY <1>2, <1>3, <1>4, <1>5 DEF Latency

\* Every latency of the open loop contains the wait for the handles after it.
THEOREM LatencyIncludesWaitCorrect == Spec => []LatencyIncludesWait
  <1>1. Inv => LatencyIncludesWait
    BY LatencyHasWait DEF LatencyIncludesWait
  <1> QED
    BY <1>1, InvariantCorrect, PTL

\* Only a result that may have expired is missed, and each miss costs a whole timeout.
THEOREM ExpiryDecidesCorrect == Spec => []ExpiryDecides
  <1>1. Inv => ExpiryDecides
    BY DEF Inv, CollectedInv
  <1> QED
    BY <1>1, InvariantCorrect, PTL

-----------------------------------------------------------------------------
(* The verdict of evaluate_sla                                             *)

\* What was reported is the summary of what was collected, and the verdict is about it.
ReportInv ==
  /\ pc \in {"reported", "done"} =>
       result = <<Summary(Len(pending), Len(pending) - Size(E2eTimes), duration, E2eTimes)>>
  /\ verdict # <<>> =>
       /\ pc = "done"
       /\ \E limits \in Limits :
            verdict = <<[limits |-> limits, passed |-> Passed(result[1], limits)]>>

LEMMA ReportStep ==
  ASSUME ReportInv, [Next]_vars
  PROVE  ReportInv'
  <1>1. ASSUME UNCHANGED <<collected, pending>> PROVE E2eTimes' = E2eTimes
    BY <1>1 DEF E2eTimes, Succeeded, Latency
  <1>2. CASE Report
    <2>1. E2eTimes' = E2eTimes
      BY <1>1, <1>2 DEF Report
    <2>2. verdict = <<>> /\ verdict' = verdict
      BY <1>2 DEF Report, ReportInv
    <2> QED
      BY <1>2, <2>1, <2>2 DEF Report, ReportInv
  <1>3. ASSUME NEW limits \in Limits, Evaluate(limits) PROVE ReportInv'
    <2>1. E2eTimes' = E2eTimes
      BY <1>1, <1>3 DEF Evaluate
    <2>2. verdict' = <<[limits |-> limits, passed |-> Passed(result'[1], limits)]>>
      BY <1>3 DEF Evaluate
    <2>3. result' = <<Summary(Len(pending'), Len(pending') - Size(E2eTimes'), duration',
                              E2eTimes')>>
      BY <1>3, <2>1 DEF Evaluate, ReportInv
    <2>4. pc' = "done"
      BY <1>3 DEF Evaluate
    <2> QED
      BY <2>2, <2>3, <2>4 DEF ReportInv
  <1>4. CASE UNCHANGED vars
    <2>1. E2eTimes' = E2eTimes
      BY <1>1, <1>4 DEF vars
    <2> QED
      BY <1>4, <2>1 DEF vars, ReportInv
  <1>5. ASSUME pc' \notin {"reported", "done"}, pc # "done", verdict' = verdict
        PROVE  ReportInv'
    BY <1>5 DEF ReportInv
  <1>6. CASE \/ Loop \/ Publish \/ Collect
             \/ \E mode \in Modes, prefetch \in Prefetches, d \in Durations, from \in Sources :
                  Run(mode, prefetch, d, from)
    BY <1>5, <1>6 DEF Run, Loop, NextPass, EndLoop, NoSleep, Sleep, Publish, Published,
                      PublishFailed, Collect, GetReturns, GetAtOnce, GetTimesOut, GetNothing, GiveUp
  <1> QED
    BY <1>2, <1>3, <1>4, <1>6 DEF Next

LEMMA ReportCorrect == Spec => []ReportInv
  <1>1. Init => ReportInv
    BY DEF Init, ReportInv
  <1> QED
    BY <1>1, ReportStep, PTL DEF Spec

\* The latencies of the successes are samples.
LEMMA LatenciesAreSamples ==
  ASSUME Inv
  PROVE  /\ Samples(E2eTimes) /\ DOMAIN E2eTimes = Succeeded
         /\ Succeeded \in SUBSET (1 .. Len(pending)) /\ Len(pending) \in Nat
         /\ \A i \in Succeeded : E2eTimes[i] = Latency(i)
  <1> USE DEF Inv
  <1>1. Succeeded \in SUBSET (1 .. Len(collected)) /\ Succeeded \in SUBSET (1 .. Len(pending))
        /\ Len(pending) \in Nat
    BY DEF Succeeded, TypeOK
  <1>2. IsFiniteSet(Succeeded)
    BY <1>1, FiniteBelow
  <1>3. ASSUME NEW i \in Succeeded PROVE Latency(i) \in Nat
    <2>1. i \in 1 .. Len(pending) /\ i \in 1 .. Len(collected) /\ collected[i].ok
      BY <1>1 DEF Succeeded
    <2>2. collected[i].t6 \in Nat
      <3>1. collected[i] \in [t6 : Nat, ok : BOOLEAN]
        BY <2>1, ElementFact DEF TypeOK
      <3> QED
        BY <3>1
    <2>3. collected[i].t6 >= duration
      BY <2>1 DEF CollectedInv
    <2>4. pending[i].t0 + (Len(pending) - i) * interval < duration
          /\ pending[i].t0 \in Nat /\ duration \in Nat
      BY <2>1, PendingFacts DEF PendingInv, TypeOK
    <2>5. (Len(pending) - i) * interval \in Nat
      <3>1. Len(pending) - i \in Nat /\ interval \in Nat
        BY <1>1, <2>1 DEF TypeOK
      <3> QED
        BY <3>1, ProductNat
    <2> QED
      BY <2>2, <2>3, <2>4, <2>5 DEF Latency
  <1> QED
    BY <1>1, <1>2, <1>3 DEF Samples, E2eTimes

\* A verdict that passed is one of evaluate_sla on the latencies of the successes.
LEMMA PassedVerdict ==
  ASSUME Inv, ReportInv, PassedRun
  PROVE  \E limits \in LimitType :
           /\ verdict[1].limits = limits
           /\ Passed(Summary(Len(pending), Len(pending) - Size(E2eTimes), duration, E2eTimes),
                     limits)
  <1>1. PICK limits \in Limits :
          verdict = <<[limits |-> limits, passed |-> Passed(result[1], limits)]>>
    BY DEF PassedRun, ReportInv
  <1>2. limits \in LimitType
    BY LimitsAssumption DEF LimitType
  <1>3. result[1] = Summary(Len(pending), Len(pending) - Size(E2eTimes), duration, E2eTimes)
    BY DEF PassedRun, ReportInv
  <1>4. verdict[1].limits = limits /\ verdict[1].passed = Passed(result[1], limits)
    BY <1>1
  <1> QED
    BY <1>2, <1>3, <1>4 DEF PassedRun

\* What PassedBoundsTail says of the numbers, for the run they come from.
LEMMA PassedRunFacts ==
  ASSUME Inv, ReportInv, PassedRun, NEW t \in Quantiles(verdict[1].limits)
  PROVE  LET within == {i \in Succeeded : Latency(i) <= t[2]} IN
         /\ t[1] \in Quantile /\ t[2] \in Nat
         /\ Cardinality(within) >= (t[1] * Cardinality(Succeeded)) \div 100
         /\ Succeeded # {} => Cardinality(within) >= Rank(t[1], Cardinality(Succeeded))
  <1> DEFINE values == E2eTimes
  <1>1. PICK limits \in LimitType :
          /\ verdict[1].limits = limits
          /\ Passed(Summary(Len(pending), Len(pending) - Size(values), duration, values),
                    limits)
    BY PassedVerdict
  <1>2. Samples(values) /\ DOMAIN values = Succeeded /\ Len(pending) \in Nat
    BY LatenciesAreSamples
  <1>3. Len(pending) - Size(values) \in Nat /\ duration \in Nat
    <2>1. Succeeded \in SUBSET (1 .. Len(pending)) /\ IsFiniteSet(1 .. Len(pending))
          /\ Cardinality(1 .. Len(pending)) = Len(pending)
      BY LatenciesAreSamples, FS_Interval
    <2>2. Cardinality(Succeeded) <= Len(pending)
      BY <2>1, FS_Subset
    <2>3. Size(values) \in Nat
      BY <1>2, UpToFacts
    <2> QED
      BY <1>2, <2>2, <2>3 DEF Size, Inv, TypeOK
  <1>4. t \in {<<50, limits.p50>>, <<95, limits.p95>>, <<99, limits.p99>>}
    BY <1>1 DEF Quantiles
  <1>5. t[1] \in Quantile /\ t[2] \in Nat
    BY <1>4 DEF Quantile, LimitType
  <1>6. UpTo(values, t[2]) = {i \in Succeeded : Latency(i) <= t[2]}
    BY <1>2, LatenciesAreSamples DEF UpTo
  <1>7. Size(values) = Cardinality(Succeeded)
    BY <1>2 DEF Size
  <1> HIDE DEF values
  <1>8. /\ DOMAIN values # {} => Cardinality(UpTo(values, t[2])) >= Rank(t[1], Size(values))
        /\ Cardinality(UpTo(values, t[2])) >= (t[1] * Size(values)) \div 100
    BY <1>1, <1>2, <1>3, <1>4, PassedBoundsTail
  <1> QED
    BY <1>2, <1>5, <1>6, <1>7, <1>8

\* A passed SLA bounds the latencies of the run's successes, for every run and all limits.
THEOREM SlaBoundsTailCorrect == Spec => []SlaBoundsTail
  <1>1. Inv /\ ReportInv => SlaBoundsTail
    BY PassedRunFacts DEF SlaBoundsTail
  <1> QED
    BY <1>1, InvariantCorrect, ReportCorrect, PTL

\* A run without a success does not pass, unless it was not asked to have any.
THEOREM PassedNeedsSuccessCorrect == Spec => []PassedNeedsSuccess
  <1>1. ASSUME Inv, ReportInv, PassedRun, Succeeded = {}
        PROVE  /\ pending = <<>> \/ verdict[1].limits.failurePct >= 100
               /\ verdict[1].limits.throughput = 0 \/ duration = 0
    <2> DEFINE values == E2eTimes
    <2>1. PICK limits \in LimitType :
            /\ verdict[1].limits = limits
            /\ Passed(Summary(Len(pending), Len(pending) - Size(values), duration, values),
                      limits)
      BY <1>1, PassedVerdict
    <2>2. Samples(values) /\ DOMAIN values = {} /\ Len(pending) \in Nat /\ duration \in Nat
      BY <1>1, LatenciesAreSamples DEF Inv, TypeOK
    <2>3. Size(values) = 0
      BY <2>2, FS_EmptySet DEF Size
    <2>4. limits.failurePct \in Nat /\ limits.throughput \in Nat
      BY DEF LimitType
    <2> HIDE DEF values
    <2>5. Len(pending) = 0 \/ limits.failurePct >= 100
      <3>1. CASE limits.failurePct < 100
        BY <2>1, <2>2, <2>3, <3>1, PassedHasSuccess
      <3>2. CASE ~(limits.failurePct < 100)
        BY <2>4, <3>2
      <3> QED
        BY <3>1, <3>2
    <2>6. pending = <<>> \/ limits.failurePct >= 100
      BY <1>1, <2>5 DEF Inv, TypeOK
    <2>7. limits.throughput = 0 \/ duration = 0
      BY <2>1, <2>2, <2>3, <2>4, PassedHasThroughput
    <2> QED
      BY <2>1, <2>6, <2>7
  <1>2. Inv /\ ReportInv => PassedNeedsSuccess
    BY <1>1 DEF PassedNeedsSuccess
  <1> QED
    BY <1>2, InvariantCorrect, ReportCorrect, PTL

LEMMA TimesGrows ==
  \A a, b, c \in Nat : a <= b => a * c <= b * c
  OBVIOUS

\* No run longer than its limits passes, whatever system it measures.
THEOREM SlaPassesShortRunsCorrect == Spec => []SlaPassesShortRuns
  <1>1. ASSUME Inv, ReportInv, PassedRun, Succeeded # {},
               NEW t \in Quantiles(verdict[1].limits)
        PROVE  (Rank(t[1], Cardinality(Succeeded)) - 1) * interval < t[2]
    <2> DEFINE m == Len(pending)
               r == Rank(t[1], Cardinality(Succeeded))
               within == {i \in Succeeded : Latency(i) <= t[2]}
    <2>1. t[1] \in Quantile /\ t[2] \in Nat /\ Cardinality(within) >= r
      BY <1>1, PassedRunFacts
    <2>2. within \in SUBSET (1 .. m) /\ m \in Nat
      BY <1>1, LatenciesAreSamples
    <2>3. IsFiniteSet(within) /\ Cardinality(within) \in Nat
      BY <2>2, FiniteBelow
    <2>4. r \in Nat \ {0}
      <3>1. Samples(E2eTimes) /\ DOMAIN E2eTimes = Succeeded
        BY <1>1, LatenciesAreSamples
      <3>2. Size(E2eTimes) = Cardinality(Succeeded)
        BY <3>1 DEF Size
      <3>3. r \in 1 .. Cardinality(Succeeded) /\ Cardinality(Succeeded) \in Nat
        BY <1>1, <2>1, <3>1, <3>2, PercentileFacts
      <3> QED
        BY <3>3
    <2>5. within # {}
      BY <2>1, <2>3, <2>4, FS_EmptySet
    \* The earliest of them waited longest.
    <2>6. PICK i \in within : \A j \in within : i <= j
      <3>1. within \in SUBSET Nat
        BY <2>2
      <3> QED
        BY <2>5, <3>1, LeastNumber
    <2>7. r - 1 <= m - i
      <3>1. i \in 1 .. m /\ within \in SUBSET (i .. m)
        BY <2>2, <2>6
      <3>2. IsFiniteSet(i .. m) /\ Cardinality(i .. m) = m - i + 1
        BY <2>2, <3>1, FS_Interval
      <3>3. Cardinality(within) <= m - i + 1
        BY <3>1, <3>2, FS_Subset
      <3> QED
        BY <2>1, <2>2, <2>3, <2>4, <3>1, <3>3
    <2>8. (r - 1) * interval <= (m - i) * interval
      <3>1. r - 1 \in Nat /\ m - i \in Nat /\ interval \in Nat
        BY <1>1, <2>2, <2>4, <2>6 DEF Inv, TypeOK
      <3> QED
        BY <2>7, <3>1, TimesGrows
    <2>9. Latency(i) > (m - i) * interval /\ Latency(i) <= t[2] /\ Latency(i) \in Nat
      <3>1. i \in Succeeded /\ Latency(i) <= t[2]
        BY <2>6
      <3>2. Latency(i) \in Nat
        BY <1>1, <3>1, LatenciesAreSamples DEF Samples
      <3> QED
        BY <1>1, <3>1, <3>2, LatencyHasWait
    <2>10. (r - 1) * interval \in Int /\ (m - i) * interval \in Int
      <3>1. r - 1 \in Int /\ m - i \in Int /\ interval \in Int
        BY <1>1, <2>2, <2>4, <2>6 DEF Inv, TypeOK
      <3> QED
        BY <3>1, ProductInt
    <2> QED
      BY <2>1, <2>8, <2>9, <2>10
  <1>2. Inv /\ ReportInv => SlaPassesShortRuns
    BY <1>1 DEF SlaPassesShortRuns
  <1> QED
    BY <1>2, InvariantCorrect, ReportCorrect, PTL

-----------------------------------------------------------------------------
(* The loop comes to an end                                                *)

\* A bound on the steps still to make once the loop has begun: of each pass there are
\* at most five, with the collection of its handle.
Phase ==
  IF pc = "loop" THEN 3 ELSE IF pc = "publishing" THEN 7 ELSE IF pc = "pause" THEN 4
  ELSE IF pc = "collect" THEN 2 ELSE IF pc = "reported" THEN 1 ELSE 0
Effort == 5 * (duration - Len(starts)) + 2 * (Len(pending) - Len(collected)) + Phase

\* The passes of a window fit in it, for two of them are a tick or more apart.
PassesInv == pc # "run" => interval > 0 /\ Len(starts) <= duration

LEMMA PassesStep ==
  ASSUME Inv, PassesInv, [Next]_vars
  PROVE  PassesInv'
  <1>0. interval \in Nat /\ duration \in Nat /\ now \in Nat /\ Len(starts) \in Nat
    BY DEF Inv, TypeOK
  <1>1. ASSUME NEW mode \in Modes, NEW prefetch \in Prefetches, NEW d \in Durations,
               NEW from \in Sources, Run(mode, prefetch, d, from)
        PROVE  PassesInv'
    <2>1. interval' > 0
      BY <1>1, RateAssumption DEF Run
    <2>2. duration' \in Nat /\ Len(starts') = 0
      BY <1>1, DurationAssumption DEF Run, Inv, LoopInv
    <2> QED
      BY <2>1, <2>2 DEF PassesInv
  <1>2. CASE NextPass
    <2>1. interval > 0 /\ now < duration /\ now >= Len(starts) * interval
      BY <1>2 DEF NextPass, PassesInv, Inv, StartsInv
    <2>2. Len(starts) * interval >= Len(starts)
      BY ONLY <1>0, <2>1
    <2>3. Len(starts) < duration
      <3>1. Len(starts) * interval \in Nat
        BY <1>0, ProductNat
      <3> QED
        BY <1>0, <2>1, <2>2, <3>1
    <2>4. Len(starts') = Len(starts) + 1
      BY <1>0, <1>2, AppendFacts DEF NextPass, Inv, TypeOK
    <2> QED
      BY <1>0, <1>2, <2>1, <2>3, <2>4 DEF NextPass, PassesInv
  <1>3. ASSUME UNCHANGED <<interval, duration, starts>>, pc # "run"
        PROVE  PassesInv'
    BY <1>3 DEF PassesInv
  <1>4. CASE (Loop /\ ~NextPass) \/ Publish
    BY <1>3, <1>4 DEF Loop, EndLoop, NoSleep, Sleep, Publish, Published, PublishFailed
  <1>5. CASE AfterWindow
    BY <1>3, <1>5, TailFrame DEF Inv, Windowed
  <1>6. CASE UNCHANGED vars
    BY <1>6 DEF vars, PassesInv
  <1> QED
    BY <1>1, <1>2, <1>4, <1>5, <1>6 DEF Next, AfterWindow

LEMMA EffortFacts ==
  ASSUME Inv, PassesInv, pc # "run"
  PROVE  /\ duration \in Nat /\ Len(starts) \in Nat /\ Len(pending) \in Nat
         /\ Len(collected) \in Nat /\ Phase \in 0 .. 7
         /\ Effort \in 0 .. 5 * duration + 3
  <1>1. /\ duration \in Nat /\ Len(starts) \in Nat /\ Len(pending) \in Nat
        /\ Len(collected) \in Nat /\ Phase \in 0 .. 7
        /\ Len(pending) <= Len(starts) /\ Len(collected) <= Len(pending)
        /\ Len(starts) <= duration
    BY DEF Inv, TypeOK, PassesInv, Phase
  <1>2. CASE pc \in InPass
    <2>1. Len(starts) >= 1 /\ (pc = "publishing" => Len(pending) < Len(starts))
      BY <1>2 DEF Inv, LoopInv, TypeOK
    <2>2. Phase = IF pc = "publishing" THEN 7 ELSE 4
      BY <1>2 DEF Phase, InPass
    <2> QED
      BY <1>1, <2>1, <2>2 DEF Effort
  <1>3. CASE pc \notin InPass
    <2>1. Phase <= 3
      BY <1>3 DEF Phase, InPass
    <2> QED
      BY <1>1, <2>1 DEF Effort
  <1> QED
    BY <1>1, <1>2, <1>3

LEMMA EffortStep ==
  ASSUME Inv, PassesInv, Next
  PROVE  IF pc = "run" THEN Effort' = 5 * duration' + 3 ELSE Effort' < Effort
  <1>0. /\ duration \in Nat /\ Len(starts) \in Nat /\ Len(pending) \in Nat
        /\ Len(collected) \in Nat
    BY DEF Inv, TypeOK
  <1>1. ASSUME NEW mode \in Modes, NEW prefetch \in Prefetches, NEW d \in Durations,
               NEW from \in Sources, Run(mode, prefetch, d, from)
        PROVE  pc = "run" /\ Effort' = 5 * duration' + 3
    <2>1. pc = "run" /\ starts = <<>> /\ collected = <<>> /\ Len(pending) <= Len(starts)
      BY <1>1 DEF Run, Inv, LoopInv, Windowed, TypeOK
    <2>2. Len(starts') = 0 /\ Len(pending') = 0 /\ Len(collected') = 0
      BY <1>0, <1>1, <2>1 DEF Run
    <2>3. Phase' = 3 /\ duration' \in Nat
      BY <1>1, DurationAssumption DEF Run, Phase
    <2> QED
      BY <2>1, <2>2, <2>3 DEF Effort
  <1>2. ASSUME UNCHANGED <<duration, starts, pending, collected>>, pc # "run",
               Phase \in Nat, Phase' \in Nat, Phase' < Phase
        PROVE  pc # "run" /\ Effort' < Effort
    BY <1>0, <1>2 DEF Effort
  <1>3. CASE NextPass
    <2>1. Len(starts') = Len(starts) + 1
      BY <1>3, AppendFacts DEF NextPass, Inv, TypeOK
    <2>2. Phase = 3 /\ Phase' = 7 /\ UNCHANGED <<duration, pending, collected>> /\ pc # "run"
      BY <1>3 DEF NextPass, Phase
    <2> QED
      BY <1>0, <2>1, <2>2 DEF Effort
  <1>4. CASE Loop /\ ~NextPass
    BY <1>2, <1>4 DEF Loop, EndLoop, NoSleep, Sleep, Phase
  <1>5. ASSUME NEW d \in PublishTimes, Published(d) PROVE pc # "run" /\ Effort' < Effort
    <2>1. Len(pending') = Len(pending) + 1
      BY <1>0, <1>5 DEF Published, Inv, TypeOK
    <2>2. Phase = 7 /\ Phase' = 4 /\ UNCHANGED <<duration, starts, collected>> /\ pc # "run"
      BY <1>5 DEF Published, Phase
    <2> QED
      BY <1>0, <2>1, <2>2 DEF Effort
  <1>6. ASSUME NEW d \in PublishTimes, PublishFailed(d) PROVE pc # "run" /\ Effort' < Effort
    BY <1>2, <1>6 DEF PublishFailed, Phase
  <1>7. CASE Collect
    <2>1. pc = "collect" /\ Turn <= Len(pending) /\ UNCHANGED <<pc, duration, starts, pending>>
      BY <1>7 DEF Collect, GetReturns, GetAtOnce, GetTimesOut, GetNothing, GiveUp
    <2>2. \E c : collected' = Append(collected, c)
      BY <1>7 DEF Collect, GetReturns, GetAtOnce, GetTimesOut, GetNothing, GiveUp
    <2>3. Len(collected') = Len(collected) + 1
      BY <2>2 DEF Inv, TypeOK
    <2>4. Phase = 2 /\ Phase' = 2 /\ pc # "run"
      BY <2>1 DEF Phase
    <2> QED
      BY <1>0, <2>1, <2>3, <2>4 DEF Effort
  <1>8. CASE Report
    BY <1>2, <1>8 DEF Report, Phase
  <1>9. ASSUME NEW limits \in Limits, Evaluate(limits) PROVE pc # "run" /\ Effort' < Effort
    BY <1>2, <1>9 DEF Evaluate, Phase
  <1> QED
    BY <1>1, <1>3, <1>4, <1>5, <1>6, <1>7, <1>8, <1>9 DEF Next, Publish

\* A window of d ticks takes the open loop at most 5 * d + 3 steps, however long the
\* calls take, and every one of them brings its report nearer: a loop that never
\* pauses still makes no more passes than there are ticks.
THEOREM LoopIsBounded ==
  Spec => /\ [](pc # "run" => Effort \in 0 .. 5 * duration + 3)
          /\ [][IF pc = "run" THEN Effort' = 5 * duration' + 3 ELSE Effort' < Effort]_vars
  <1>1. Init => PassesInv
    BY DEF Init, PassesInv
  <1>2. Inv /\ PassesInv /\ [Next]_vars => PassesInv'
    BY PassesStep
  <1>3. Inv /\ PassesInv => (pc # "run" => Effort \in 0 .. 5 * duration + 3)
    BY EffortFacts
  <1>4. Inv /\ PassesInv /\ [Next]_vars =>
          [IF pc = "run" THEN Effort' = 5 * duration' + 3 ELSE Effort' < Effort]_vars
    BY EffortStep
  <1> QED
    BY <1>1, <1>2, <1>3, <1>4, InvariantCorrect, PTL DEF Spec

-----------------------------------------------------------------------------
(* The open loop keeps the ledger, too                                     *)

\* What has become of the k-th handle; a submission that failed has none.
Handles == Nat \ {0}
Entry(k) ==
  IF k <= Len(collected) THEN IF collected[k].ok THEN "ok" ELSE "bad"
  ELSE IF k <= Len(pending) THEN "submitted" ELSE "new"

Ledger == INSTANCE RunLedger
  WITH Tasks <- Handles, outcome <- [k \in Handles |-> Entry(k)],
       closed <- pc \in {"reported", "done"}
LedgerSpec == Ledger!Spec

LEMMA LedgerInit == Init => Ledger!Init
  <1> SUFFICES ASSUME Init PROVE Ledger!Init
    OBVIOUS
  <1>1. \A k \in Handles : Entry(k) = "new"
    BY DEF Init, Handles, Entry
  <1> QED
    BY <1>1 DEF Init, Ledger!Init

\* One entry moves.
LEMMA LedgerMove ==
  ASSUME NEW k \in Handles, NEW from, NEW to,
         pc \notin {"reported", "done"}, pc' \notin {"reported", "done"},
         Entry(k) = from, Entry(k)' = to,
         \A j \in Handles : j # k => Entry(j)' = Entry(j)
  PROVE  Ledger!Move(k, from, to)
  <1>1. [j \in Handles |-> Entry(j)]' = [[j \in Handles |-> Entry(j)] EXCEPT ![k] = to]
    OBVIOUS
  <1> QED
    BY <1>1 DEF Ledger!Move

\* Every step is a step of the ledger or leaves it alone.
LEMMA LedgerStep ==
  ASSUME Inv, [Next]_vars
  PROVE  [Ledger!Next]_(Ledger!lvars)
  <1> USE DEF Ledger!lvars
  <1>0. /\ Len(pending) \in Nat /\ Len(collected) \in Nat /\ Len(collected) <= Len(pending)
    BY DEF Inv, TypeOK
  <1>1. CASE /\ UNCHANGED <<pending, collected>>
             /\ (pc' \in {"reported", "done"}) = (pc \in {"reported", "done"})
    BY <1>1 DEF Entry
  <1>2. ASSUME NEW d \in PublishTimes, Published(d) PROVE Ledger!Next
    <2>1. PICK n \in Handles : n = Len(pending) + 1
      BY <1>0 DEF Handles
    <2>2. /\ Len(pending') = n /\ collected' = collected
          /\ pc \notin {"reported", "done"} /\ pc' \notin {"reported", "done"}
      BY <1>0, <1>2, <2>1 DEF Published, Inv, TypeOK
    <2>3. Entry(n) = "new" /\ Entry(n)' = "submitted"
      BY <1>0, <2>1, <2>2 DEF Entry
    <2>4. \A j \in Handles : j # n => Entry(j)' = Entry(j)
      BY <1>0, <2>1, <2>2 DEF Entry, Handles
    <2>5. Ledger!Accept(n)
      BY <2>2, <2>3, <2>4, LedgerMove DEF Ledger!Accept
    <2> QED
      BY <2>5 DEF Ledger!Next
  <1>3. CASE Collect
    <2>1. /\ pc = "collect" /\ Turn <= Len(pending) /\ UNCHANGED <<pc, pending>>
          /\ \E t, ok : collected' = Append(collected, [t6 |-> t, ok |-> ok])
      BY <1>3 DEF Collect, GetReturns, GetAtOnce, GetTimesOut, GetNothing, GiveUp
    <2>2. PICK t, ok : collected' = Append(collected, [t6 |-> t, ok |-> ok])
      BY <2>1
    <2>3. PICK n \in Handles : n = Len(collected) + 1
      BY <1>0 DEF Handles
    <2>4. /\ Len(collected') = n /\ collected'[n].ok = ok /\ n <= Len(pending)
          /\ \A i \in 1 .. Len(collected) : collected'[i] = collected[i]
      BY <1>0, <2>1, <2>2, <2>3 DEF Turn, Inv, TypeOK
    <2>5. Entry(n) = "submitted" /\ Entry(n)' \in {"ok", "bad"}
      BY <1>0, <2>1, <2>3, <2>4 DEF Entry
    <2>6. \A j \in Handles : j # n => Entry(j)' = Entry(j)
      BY <1>0, <2>1, <2>3, <2>4 DEF Entry, Handles
    <2>7. Ledger!Move(n, "submitted", Entry(n)')
      BY <2>1, <2>5, <2>6, LedgerMove
    <2>8. Ledger!Judge(n)
      BY <2>5, <2>7 DEF Ledger!Judge
    <2> QED
      BY <2>8 DEF Ledger!Next
  <1>4. CASE Report
    <2>1. Turn > Len(pending) /\ pc = "collect" /\ pc' = "reported" /\ UNCHANGED <<pending, collected>>
      BY <1>4 DEF Report
    <2>2. \A k \in Handles : Entry(k) # "submitted"
      BY <1>0, <2>1 DEF Entry, Turn, Handles
    <2>3. [k \in Handles |-> Entry(k)]' = [k \in Handles |-> Entry(k)]
      BY <2>1 DEF Entry
    <2>4. Ledger!Close
      BY <2>1, <2>2, <2>3 DEF Ledger!Close
    <2> QED
      BY <2>4 DEF Ledger!Next
  <1>5. CASE \E mode \in Modes, prefetch \in Prefetches, d \in Durations, from \in Sources :
            Run(mode, prefetch, d, from)
    BY <1>1, <1>5 DEF Run
  <1>6. CASE Loop \/ \E d \in PublishTimes : PublishFailed(d)
    BY <1>1, <1>6 DEF Loop, NextPass, EndLoop, NoSleep, Sleep, PublishFailed
  <1>7. CASE (\E limits \in Limits : Evaluate(limits)) \/ UNCHANGED vars
    BY <1>1, <1>7 DEF Evaluate, vars
  <1> QED
    BY <1>2, <1>3, <1>4, <1>5, <1>6, <1>7 DEF Next, Publish

\* However long the calls take, the open loop keeps the promise of RunLedger: one
\* verdict for every handle, never revised, and no report while one is missing.
THEOREM LedgerCorrect == Spec => LedgerSpec
  <1>1. Inv /\ [Next]_vars => [Ledger!Next]_(Ledger!lvars)
    BY LedgerStep
  <1> QED
    BY LedgerInit, <1>1, InvariantCorrect, PTL DEF Spec, LedgerSpec, Ledger!Spec
=============================================================================
