------------------------------ MODULE ResultFiles ------------------------------
(***************************************************************************)
(* benchlib.results, ResultDir: run.json is written to a temporary name    *)
(* and renamed; events.jsonl is appended to.  (write_parquet makes the     *)
(* same calls under other names and is not in this model.)                 *)
(* A writer is one process that runs a benchmark into the directory        *)
(* its run id names.  Run ids tell seconds apart, so two writers may get   *)
(* the same directory, and with it the same temporary name.                *)
(*                                                                         *)
(* A file's content is two halves, each marked with the writer whose bytes *)
(* they are: enough to tell a whole version from a cut or a mixed one.  A  *)
(* file is known by the writer that created it, as each creates at most    *)
(* one; names are looked up in tmp and dest, open files are kept in fd.    *)
(***************************************************************************)
EXTENDS Naturals, Sequences

CONSTANTS Writers, Readers, Dirs,
          MaxLines      \* bound on the lines of events.jsonl

ASSUME LinesAssumption == MaxLines \in Nat
ASSUME NoneAssumption  == "none" \notin Writers \cup Dirs

None == "none"

VARIABLES
  dir,     \* the directory of every writer
  pc,      \* where every writer is
  fd,      \* the file every writer has open as run.tmp
  tmp,     \* the file that has the name run.tmp in every directory
  dest,    \* the file that has the name run.json
  half,    \* the content of every file
  log,     \* events.jsonl of every directory: what each append left
  rdir, rfd, rpc, read,  \* readers: directory, open file, place, halves read
  mixed    \* history: directories in which two writers were in write_run_json

writing == <<tmp, dest, half, fd, mixed>>
reading == <<rdir, rfd, rpc, read>>
vars    == <<dir, pc, log, writing, reading>>

Blank  == [head |-> None, tail |-> None]
Inside == {"head", "tail", "replace"}   \* pc values inside write_run_json
Over   == {"raised", "stopped"}

Init ==
  /\ dir = [w \in Writers |-> None] /\ pc = [w \in Writers |-> "start"]
  /\ fd = [w \in Writers |-> None]
  /\ tmp = [d \in Dirs |-> None] /\ dest = [d \in Dirs |-> None]
  /\ half = [w \in Writers |-> Blank]
  /\ log = [d \in Dirs |-> <<>>]
  /\ rdir = [r \in Readers |-> None] /\ rfd = [r \in Readers |-> None]
  /\ rpc = [r \in Readers |-> "start"] /\ read = [r \in Readers |-> Blank]
  /\ mixed = {}

-----------------------------------------------------------------------------
(* Writers                                                                 *)

\* Mutant of Start: the run begins without write_run_json.
Start_NoJson(w, d) ==
  /\ pc[w] = "start"
  /\ dir' = [dir EXCEPT ![w] = d]
  /\ pc' = [pc EXCEPT ![w] = "run"]
  /\ UNCHANGED <<log, writing, reading>>

\* run_id takes the second from the clock, ResultDir.__init__ makes the directory
\* or finds it there.
Start(w, d) ==
  /\ pc[w] = "start"
  /\ dir' = [dir EXCEPT ![w] = d]
  /\ pc' = [pc EXCEPT ![w] = "open"]
  /\ UNCHANGED <<log, writing, reading>>

\* Mutant of OpenTmp: the file is written in place if there is one.
OpenTmp_InPlace(w) ==
  /\ pc[w] = "open"
  /\ LET d == dir[w]
         f == IF dest[d] = None THEN w ELSE dest[d]
     IN /\ tmp' = [tmp EXCEPT ![d] = f]
        /\ fd' = [fd EXCEPT ![w] = f]
        /\ half' = [half EXCEPT ![f] = Blank]
  /\ pc' = [pc EXCEPT ![w] = "head"]
  /\ UNCHANGED <<dir, dest, log, mixed, reading>>

\* tmp.write_text opens run.tmp, which creates it or makes the one there empty.
OpenTmp(w) ==
  /\ pc[w] = "open"
  /\ LET d == dir[w]
         f == IF tmp[d] = None THEN w ELSE tmp[d]
     IN /\ tmp' = [tmp EXCEPT ![d] = f]
        /\ fd' = [fd EXCEPT ![w] = f]
        /\ half' = [half EXCEPT ![f] = Blank]
        /\ mixed' = IF \E v \in Writers : v # w /\ dir[v] = d /\ pc[v] \in Inside
                    THEN mixed \cup {d} ELSE mixed
  /\ pc' = [pc EXCEPT ![w] = "head"]
  /\ UNCHANGED <<dir, dest, log, reading>>

\* Mutant of WriteHead: the file is renamed before it is flushed.
WriteHead_NoFlush(w) ==
  /\ pc[w] = "head"
  /\ half' = [half EXCEPT ![fd[w]].head = w]
  /\ pc' = [pc EXCEPT ![w] = "replace"]
  /\ UNCHANGED <<dir, log, tmp, dest, fd, mixed, reading>>

WriteHead(w) ==
  /\ pc[w] = "head"
  /\ half' = [half EXCEPT ![fd[w]].head = w]
  /\ pc' = [pc EXCEPT ![w] = "tail"]
  /\ UNCHANGED <<dir, log, tmp, dest, fd, mixed, reading>>

WriteTail(w) ==
  /\ pc[w] = "tail"
  /\ half' = [half EXCEPT ![fd[w]].tail = w]
  /\ pc' = [pc EXCEPT ![w] = "replace"]
  /\ UNCHANGED <<dir, log, tmp, dest, fd, mixed, reading>>

\* Mutants of Replace: the name of the directory for that of the file; a copy in
\* place of a renaming; the old file removed before the new one is renamed.
Replace_OntoDir(w) ==
  /\ pc[w] = "replace" /\ tmp[dir[w]] # None
  /\ dest' = [dest EXCEPT ![dir[w]] = dir[w]]
  /\ tmp' = [tmp EXCEPT ![dir[w]] = None]
  /\ pc' = [pc EXCEPT ![w] = "run"]
  /\ UNCHANGED <<dir, log, half, fd, mixed, reading>>
Replace_Copies(w) ==
  /\ pc[w] = "replace" /\ tmp[dir[w]] # None
  /\ dest' = [dest EXCEPT ![dir[w]] = tmp[dir[w]]]
  /\ pc' = [pc EXCEPT ![w] = "run"]
  /\ UNCHANGED <<dir, log, tmp, half, fd, mixed, reading>>
Replace_Unlinks(w) ==
  /\ pc[w] = "replace" /\ tmp[dir[w]] # None
  /\ IF dest[dir[w]] # None
     THEN dest' = [dest EXCEPT ![dir[w]] = None] /\ UNCHANGED <<pc, tmp>>
     ELSE /\ dest' = [dest EXCEPT ![dir[w]] = tmp[dir[w]]]
          /\ tmp' = [tmp EXCEPT ![dir[w]] = None]
          /\ pc' = [pc EXCEPT ![w] = "run"]
  /\ UNCHANGED <<dir, log, half, fd, mixed, reading>>

\* os.replace: run.tmp gets the name run.json, or there is no run.tmp any more.
Replace(w) ==
  /\ pc[w] = "replace"
  /\ IF tmp[dir[w]] # None
     THEN /\ dest' = [dest EXCEPT ![dir[w]] = tmp[dir[w]]]
          /\ tmp' = [tmp EXCEPT ![dir[w]] = None]
          /\ pc' = [pc EXCEPT ![w] = "run"]
     ELSE /\ pc' = [pc EXCEPT ![w] = "raised"]
          /\ UNCHANGED <<dest, tmp>>
  /\ UNCHANGED <<dir, log, half, fd, mixed, reading>>

\* A write to run.tmp raises OSError, or the process is killed, or it is finished;
\* run.tmp stays as it is.
Stop(w) ==
  /\ pc[w] \notin Over
  /\ pc' = [pc EXCEPT ![w] = "stopped"]
  /\ UNCHANGED <<dir, log, writing, reading>>

\* Mutant of AppendEvent: the newline is not written.
AppendEvent_NoNewline(w) ==
  /\ pc[w] = "run"
  /\ Len(log[dir[w]]) < MaxLines
  /\ log' = [log EXCEPT ![dir[w]] = Append(@, "bare")]
  /\ UNCHANGED <<dir, pc, writing, reading>>

\* append_event: a line is one write to a file opened for appending, so lines of
\* several threads and processes do not mix (POSIX, assumed here); but the disk may
\* take only a part of it ("part"), or all but the newline ("bare"), and the run ends
\* there: "raised" by OSError, or by the kill that came in the middle of the call.
AppendEvent(w) ==
  /\ pc[w] = "run"
  /\ Len(log[dir[w]]) < MaxLines
  /\ \E form \in {"line", "part", "bare"} :
       /\ log' = [log EXCEPT ![dir[w]] = Append(@, form)]
       /\ pc' = IF form = "line" THEN pc ELSE [pc EXCEPT ![w] = "raised"]
  /\ UNCHANGED <<dir, writing, reading>>

-----------------------------------------------------------------------------
(* Readers: read_run_json, while runs go on                                *)

OpenDest(r, d) ==
  /\ rpc[r] = "start" /\ dest[d] # None
  /\ rdir' = [rdir EXCEPT ![r] = d]
  /\ rfd' = [rfd EXCEPT ![r] = dest[d]]
  /\ rpc' = [rpc EXCEPT ![r] = "head"]
  /\ UNCHANGED <<dir, pc, log, writing, read>>

ReadHead(r) ==
  /\ rpc[r] = "head"
  /\ read' = [read EXCEPT ![r].head = half[rfd[r]].head]
  /\ rpc' = [rpc EXCEPT ![r] = "tail"]
  /\ UNCHANGED <<dir, pc, log, writing, rdir, rfd>>

ReadTail(r) ==
  /\ rpc[r] = "tail"
  /\ read' = [read EXCEPT ![r].tail = half[rfd[r]].tail]
  /\ rpc' = [rpc EXCEPT ![r] = "done"]
  /\ UNCHANGED <<dir, pc, log, writing, rdir, rfd>>

Next ==
  \/ \E w \in Writers : \/ \E d \in Dirs : Start(w, d)
                        \/ OpenTmp(w) \/ WriteHead(w) \/ WriteTail(w)
                        \/ Replace(w) \/ Stop(w) \/ AppendEvent(w)
  \/ \E r \in Readers : \/ \E d \in Dirs : OpenDest(r, d)
                        \/ ReadHead(r) \/ ReadTail(r)

Spec == Init /\ [][Next]_vars

-----------------------------------------------------------------------------
(* Properties                                                              *)

\* Every variable keeps its shape.
TypeOK ==
  /\ dir \in [Writers -> Dirs \cup {None}]
  /\ pc \in [Writers -> {"start", "open", "run"} \cup Inside \cup Over]
  /\ fd \in [Writers -> Writers \cup {None}]
  /\ tmp \in [Dirs -> Writers \cup {None}]
  /\ dest \in [Dirs -> Writers \cup {None}]
  /\ half \in [Writers -> [head : Writers \cup {None}, tail : Writers \cup {None}]]
  /\ log \in [Dirs -> Seq({"line", "part", "bare"})]
  /\ rdir \in [Readers -> Dirs \cup {None}]
  /\ rfd \in [Readers -> Writers \cup {None}]
  /\ rpc \in [Readers -> {"start", "head", "tail", "done"}]
  /\ read \in [Readers -> [head : Writers \cup {None}, tail : Writers \cup {None}]]
  /\ mixed \subseteq Dirs

Whole(content) == content.head # None /\ content.head = content.tail

\* run.json is whole whenever it exists, also after writers that failed or were
\* killed at any point and left a run.tmp to the next one, as long as no two
\* writers were inside write_run_json for the directory at once.
RunJsonWhole ==
  \A d \in Dirs \ mixed : dest[d] # None => Whole(half[dest[d]])

\* A reader that opened run.json before a replacement, and reads on after it, gets
\* one version.
ReadsWhole ==
  \A r \in Readers : rpc[r] = "done" /\ rdir[r] \notin mixed => Whole(read[r])

\* A writer that no other overlapped is never refused the renaming: when write_run_json
\* returns, its own whole run.json is there and no run.tmp, not even one that a writer
\* killed or failed before it left half written (test_run_json_is_atomic).
NoTmpLeft ==
  [][\A w \in Writers :
       (pc[w] = "replace" /\ pc'[w] \notin {"replace", "stopped"} /\ dir[w] \notin mixed) =>
         /\ pc'[w] = "run"
         /\ tmp'[dir[w]] = None
         /\ half'[dest'[dir[w]]] = [head |-> w, tail |-> w]]_vars

\* No event is logged in a directory without run.json, and once there it never goes
\* away, whatever writers overlap or stop.
RunJsonFirst ==
  \A d \in Dirs : log[d] # <<>> => dest[d] # None

\* read_events can parse every line: a line that was cut is not, and one that lost
\* its newline only at the end of the file.
Readable(d) ==
  \A i \in 1 .. Len(log[d]) :
    log[d][i] = "line" \/ (log[d][i] = "bare" /\ i = Len(log[d]))

\* An unreadable log has a writer that failed, or was killed, in the middle of a line;
\* that a later writer appends to the same file does not hide it, and no line is cut
\* by a writer that goes on.
LogReadable ==
  \A d \in Dirs : ~Readable(d) => \E w \in Writers : dir[w] = d /\ pc[w] = "raised"

\* The files implement atomic ones, in the directories whose writers kept apart.
Version(f) == IF f = None THEN None ELSE half[f].head
Files == INSTANCE AtomicFile WITH
  Versions <- Writers,
  current <- [d \in Dirs |-> IF d \in mixed THEN None ELSE Version(dest[d])],
  void <- mixed,
  got <- [r \in Readers |-> IF rpc[r] = "start" \/ rdir[r] \in mixed THEN <<>>
                            ELSE <<rdir[r], Version(rfd[r])>>]
FilesSpec == Files!Spec
=============================================================================
