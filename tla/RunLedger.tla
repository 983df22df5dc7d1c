------------------------------ MODULE RunLedger ------------------------------
(***************************************************************************)
(* What a benchmark run promises about the tasks it attempts, with no word *)
(* of brokers, workers, timeouts or load modes: every attempt is accepted  *)
(* or rejected, every accepted task receives exactly one verdict, a        *)
(* verdict is never revised, and the books close only when no accepted     *)
(* task is left without one.  ProducerResult (benchlib/producer.py) is the *)
(* summary of a closed ledger; module Producer is shown to implement it.   *)
(***************************************************************************)
CONSTANT Tasks      \* the attempts a run may make

VARIABLES outcome,  \* the ledger entry of every attempt
          closed    \* has the run reported its result

lvars == <<outcome, closed>>

Entries == {"new", "submitted", "rejected", "ok", "bad"}

Init ==
  /\ outcome = [t \in Tasks |-> "new"]
  /\ closed  = FALSE

\* The entry of task t moves from one value to another while the books are open.
Move(t, from, to) ==
  /\ ~closed
  /\ outcome[t] = from
  /\ outcome' = [outcome EXCEPT ![t] = to]
  /\ UNCHANGED closed

Accept(t) == Move(t, "new", "submitted")
Reject(t) == Move(t, "new", "rejected")
Judge(t)  == \E v \in {"ok", "bad"} : Move(t, "submitted", v)

Close ==
  /\ ~closed
  /\ \A t \in Tasks : outcome[t] # "submitted"
  /\ closed' = TRUE
  /\ UNCHANGED outcome

Next ==
  \/ \E t \in Tasks : Accept(t) \/ Reject(t) \/ Judge(t)
  \/ Close

Spec == Init /\ [][Next]_lvars
=============================================================================
