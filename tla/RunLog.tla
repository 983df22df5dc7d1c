-------------------------------- MODULE RunLog --------------------------------
(***************************************************************************)
(* What the gates over a smoke run take for granted of a run of the        *)
(* producer in process: two lines of events.jsonl for each of its tasks    *)
(* and no more, all of them before it returns, and none once something has *)
(* ended it.  Producer is shown to keep this promise, and every run of     *)
(* SmokeHarness to be one that keeps it.                                   *)
(***************************************************************************)
EXTENDS Naturals

VARIABLES count,    \* tasks of the run; never changes
          state,    \* before its directory is made, at work, or how it ended
          written   \* lines in events.jsonl

lvars == <<count, state, written>>

Init == count \in Nat /\ state \in {"named", "running"} /\ written = 0

Goto(from, to) == state = from /\ state' = to /\ UNCHANGED <<count, written>>

MakeDir == Goto("named", "running")

WriteLine ==
  /\ state = "running" /\ written < 2 * count
  /\ written' = written + 1
  /\ UNCHANGED <<count, state>>

Finish == written = 2 * count /\ Goto("running", "done")

Stop == Goto("running", "stopped") \/ Goto("named", "stopped")

Next == MakeDir \/ WriteLine \/ Finish \/ Stop

Spec == Init /\ [][Next]_lvars
=============================================================================
