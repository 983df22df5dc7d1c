------------------------------ MODULE AtomicFile ------------------------------
(***************************************************************************)
(* What "Write run metadata atomically" (write_run_json) promises the      *)
(* callers of read_run_json: a reader gets one complete version of the     *)
(* file, the current one when it opened it, or finds no file.  The promise *)
(* is void for a directory once two writers were at work in it at the same *)
(* time.                                                                   *)
(***************************************************************************)
CONSTANTS Dirs,     \* run directories
          Versions, \* what may be written, one version by each writer
          Readers

VARIABLES current,  \* the version of the file in each directory
          void,     \* directories whose writers overlapped
          got       \* what each reader has got, as <<directory, version>>

avars == <<current, void, got>>

NoVersion == "none"
Nothing   == <<>>

Init ==
  /\ current = [d \in Dirs |-> NoVersion]
  /\ void = {}
  /\ got = [r \in Readers |-> Nothing]

\* A version replaces the last one, or is the first.
Publish(d, v) ==
  /\ d \notin void
  /\ current' = [current EXCEPT ![d] = v]
  /\ UNCHANGED <<void, got>>

Read(r, d) ==
  /\ d \notin void /\ current[d] # NoVersion /\ got[r] = Nothing
  /\ got' = [got EXCEPT ![r] = <<d, current[d]>>]
  /\ UNCHANGED <<current, void>>

\* Two writers overlap: nothing is promised of the directory, and of what was read
\* there, from now on.
Spoil(d) ==
  /\ void' = void \cup {d}
  /\ current' = [current EXCEPT ![d] = NoVersion]
  /\ got' = [r \in Readers |-> IF got[r] # Nothing /\ got[r][1] = d
                               THEN Nothing ELSE got[r]]

Next ==
  \/ \E d \in Dirs : Spoil(d) \/ \E v \in Versions : Publish(d, v)
  \/ \E r \in Readers, d \in Dirs : Read(r, d)

Spec == Init /\ [][Next]_avars
=============================================================================
