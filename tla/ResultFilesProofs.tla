--------------------------- MODULE ResultFilesProofs ---------------------------
(***************************************************************************)
(* Proofs about ResultFiles, for all sets of writers, readers and          *)
(* directories and any number of lines.                                    *)
(***************************************************************************)
EXTENDS ResultFiles, SequenceTheorems, TLAPS

\* The writer that a file is known by has opened run.tmp, or stopped before.
Made(f) == pc[f] \notin {"start", "open"}

\* Every name and every open file leads to a file of the same directory; a file has
\* not both names.
Homes ==
  /\ \A w \in Writers : pc[w] \notin {"start", "stopped"} => dir[w] \in Dirs
  /\ \A w \in Writers : pc[w] \in Inside => fd[w] # None
  /\ \A w \in Writers : ~Made(w) => fd[w] = None
  /\ \A w \in Writers : fd[w] # None => dir[fd[w]] = dir[w] /\ Made(fd[w])
  /\ \A d \in Dirs : tmp[d] # None => dir[tmp[d]] = d /\ Made(tmp[d]) /\ tmp[d] # dest[d]
  /\ \A d \in Dirs : dest[d] # None => dir[dest[d]] = d /\ Made(dest[d])

\* A file that is whole and that no writer has open, in a directory whose writers
\* kept apart.
Settled(f) ==
  /\ f \in Writers /\ Made(f)
  /\ dir[f] \in Dirs \ mixed
  /\ f # tmp[dir[f]]
  /\ Whole(half[f])

\* In such a directory one writer is at work, on the file called run.tmp.
Apart ==
  \A w \in Writers :
    (pc[w] \in Inside /\ dir[w] \notin mixed) =>
      /\ \A v \in Writers : dir[v] = dir[w] /\ pc[v] \in Inside => v = w
      /\ fd[w] = tmp[dir[w]]
      /\ pc[w] \in {"tail", "replace"} => half[fd[w]].head = w
      /\ pc[w] = "replace" => half[fd[w]].tail = w

\* What run.json names is settled there.
DestSettled == \A d \in Dirs \ mixed : dest[d] # None => Settled(dest[d])

\* What a reader has open is settled too, and what it read is in it.
ReadersSettled ==
  \A r \in Readers :
    rpc[r] # "start" =>
      /\ rfd[r] \in Writers /\ rdir[r] = dir[rfd[r]] /\ rdir[r] \in Dirs /\ Made(rfd[r])
      /\ rdir[r] \notin mixed =>
           /\ Settled(rfd[r])
           /\ rpc[r] \in {"tail", "done"} => read[r].head = half[rfd[r]].head
           /\ rpc[r] = "done" => read[r].tail = half[rfd[r]].tail

\* A run goes on only when its run.json was there.
RunsNamed == \A w \in Writers : pc[w] = "run" => dest[dir[w]] # None

IInv == TypeOK /\ Homes /\ Apart /\ DestSettled /\ ReadersSettled /\ RunsNamed /\ RunJsonFirst

-----------------------------------------------------------------------------
(* Type correctness                                                        *)

LEMMA InitIInv == Init => IInv
<1> SUFFICES ASSUME Init PROVE IInv
  OBVIOUS
<1>1. TypeOK
  <2>1. log \in [Dirs -> Seq({"line", "part", "bare"})]
    BY EmptySeq DEF Init
  <2>2. Blank \in [head : Writers \cup {None}, tail : Writers \cup {None}]
    BY DEF Blank
  <2>. QED BY <2>1, <2>2 DEF TypeOK, Init
<1>2. Homes
  BY DEF Init, Homes, Inside, Made
<1>3. Apart /\ RunsNamed
  BY DEF Init, Apart, RunsNamed, Inside
<1>4. DestSettled /\ ReadersSettled /\ RunJsonFirst
  BY DEF Init, DestSettled, ReadersSettled, RunJsonFirst
<1>. QED BY <1>1, <1>2, <1>3, <1>4 DEF IInv

LEMMA NextTypeOK ==
  ASSUME TypeOK, Homes, ReadersSettled, [Next]_vars
  PROVE  TypeOK'
<1> DEFINE Halves == [head : Writers \cup {None}, tail : Writers \cup {None}]
<1> DEFINE Places == {"start", "open", "run"} \cup Inside \cup Over
<1> DEFINE WriterOK == /\ dir \in [Writers -> Dirs \cup {None}]
                       /\ pc \in [Writers -> Places]
                       /\ fd \in [Writers -> Writers \cup {None}]
                       /\ tmp \in [Dirs -> Writers \cup {None}]
                       /\ dest \in [Dirs -> Writers \cup {None}]
                       /\ mixed \subseteq Dirs
<1> DEFINE HalfOK == half \in [Writers -> Halves]
<1> DEFINE LogOK == log \in [Dirs -> Seq({"line", "part", "bare"})]
<1> DEFINE ReaderOK == /\ rdir \in [Readers -> Dirs \cup {None}]
                       /\ rfd \in [Readers -> Writers \cup {None}]
                       /\ rpc \in [Readers -> {"start", "head", "tail", "done"}]
                       /\ read \in [Readers -> Halves]
<1>0. WriterOK /\ HalfOK /\ LogOK /\ ReaderOK
  BY DEF TypeOK
<1> SUFFICES WriterOK' /\ HalfOK' /\ LogOK' /\ ReaderOK'
  BY DEF TypeOK
<1>1. ASSUME NEW w \in Writers, NEW d \in Dirs, Start(w, d)
      PROVE  WriterOK' /\ HalfOK' /\ LogOK' /\ ReaderOK'
  BY <1>0, <1>1 DEF Start, writing, reading
<1>2. ASSUME NEW w \in Writers, OpenTmp(w)
      PROVE  WriterOK' /\ HalfOK' /\ LogOK' /\ ReaderOK'
  <2>1. dir[w] \in Dirs /\ Blank \in Halves
    BY <1>2 DEF OpenTmp, Homes, Blank
  <2>2. PICK f \in Writers : /\ tmp' = [tmp EXCEPT ![dir[w]] = f]
                             /\ fd' = [fd EXCEPT ![w] = f]
                             /\ half' = [half EXCEPT ![f] = Blank]
    BY <1>0, <1>2, <2>1 DEF OpenTmp
  <2>3. HalfOK'
    BY <1>0, <2>1, <2>2
  <2>4. mixed' \subseteq Dirs
    BY <1>0, <1>2, <2>1 DEF OpenTmp
  <2>5. pc' \in [Writers -> Places]
    BY <1>0, <1>2 DEF OpenTmp, Inside
  <2>. QED BY <1>0, <1>2, <2>1, <2>2, <2>3, <2>4, <2>5 DEF OpenTmp, reading
<1>3. ASSUME NEW w \in Writers, WriteHead(w) \/ WriteTail(w)
      PROVE  WriterOK' /\ HalfOK' /\ LogOK' /\ ReaderOK'
  <2>1. fd[w] \in Writers /\ half[fd[w]] \in Halves
    BY <1>0, <1>3 DEF WriteHead, WriteTail, Homes, Inside
  <2>2. /\ [half[fd[w]] EXCEPT !.head = w] \in Halves
        /\ [half[fd[w]] EXCEPT !.tail = w] \in Halves
    BY <2>1
  <2>3. HalfOK'
    BY <1>0, <1>3, <2>1, <2>2 DEF WriteHead, WriteTail
  <2>4. pc' \in [Writers -> Places]
    BY <1>0, <1>3 DEF WriteHead, WriteTail, Inside
  <2>. QED BY <1>0, <1>3, <2>3, <2>4 DEF WriteHead, WriteTail, reading
<1>4. ASSUME NEW w \in Writers, Replace(w)
      PROVE  WriterOK' /\ HalfOK' /\ LogOK' /\ ReaderOK'
  <2>1. dir[w] \in Dirs
    BY <1>4 DEF Replace, Homes
  <2>2. /\ dest' \in [Dirs -> Writers \cup {None}] /\ tmp' \in [Dirs -> Writers \cup {None}]
        /\ pc' \in [Writers -> Places]
    BY <1>0, <1>4, <2>1 DEF Replace, Over
  <2>. QED BY <1>0, <1>4, <2>2 DEF Replace, reading
<1>5. ASSUME NEW w \in Writers, Stop(w)
      PROVE  WriterOK' /\ HalfOK' /\ LogOK' /\ ReaderOK'
  <2>1. pc' \in [Writers -> Places]
    BY <1>0, <1>5 DEF Stop, Over
  <2>. QED BY <1>0, <1>5, <2>1 DEF Stop, writing, reading
<1>6. ASSUME NEW w \in Writers, AppendEvent(w)
      PROVE  WriterOK' /\ HalfOK' /\ LogOK' /\ ReaderOK'
  <2>1. PICK form \in {"line", "part", "bare"} :
          /\ log' = [log EXCEPT ![dir[w]] = Append(@, form)]
          /\ pc' = IF form = "line" THEN pc ELSE [pc EXCEPT ![w] = "raised"]
    BY <1>6 DEF AppendEvent
  <2>2. dir[w] \in Dirs
    BY <1>6 DEF AppendEvent, Homes
  <2>3. Append(log[dir[w]], form) \in Seq({"line", "part", "bare"})
    BY <1>0, <2>1, <2>2, AppendProperties
  <2>4. LogOK'
    BY <1>0, <2>1, <2>2, <2>3
  <2>5. pc' \in [Writers -> Places]
    BY <1>0, <2>1 DEF Over
  <2>. QED BY <1>0, <1>6, <2>4, <2>5 DEF AppendEvent, writing, reading
<1>7. ASSUME NEW r \in Readers, NEW d \in Dirs, OpenDest(r, d)
      PROVE  WriterOK' /\ HalfOK' /\ LogOK' /\ ReaderOK'
  BY <1>0, <1>7 DEF OpenDest, writing
<1>8. ASSUME NEW r \in Readers, ReadHead(r) \/ ReadTail(r)
      PROVE  WriterOK' /\ HalfOK' /\ LogOK' /\ ReaderOK'
  <2>1. half[rfd[r]] \in Halves /\ read[r] \in Halves
    BY <1>0, <1>8 DEF ReadHead, ReadTail, ReadersSettled
  <2>2. /\ [read[r] EXCEPT !.head = half[rfd[r]].head] \in Halves
        /\ [read[r] EXCEPT !.tail = half[rfd[r]].tail] \in Halves
    BY <2>1
  <2>3. read' \in [Readers -> Halves]
    BY <1>0, <1>8, <2>2 DEF ReadHead, ReadTail
  <2>4. rpc' \in [Readers -> {"start", "head", "tail", "done"}]
    BY <1>0, <1>8 DEF ReadHead, ReadTail
  <2>. QED BY <1>0, <1>8, <2>3, <2>4 DEF ReadHead, ReadTail, writing
<1>9. CASE UNCHANGED vars
  BY <1>0, <1>9 DEF vars, writing, reading
<1> HIDE DEF WriterOK, HalfOK, LogOK, ReaderOK
<1>. QED
  BY <1>1, <1>2, <1>3, <1>4, <1>5, <1>6, <1>7, <1>8, <1>9 DEF Next

-----------------------------------------------------------------------------
(* Who writes where                                                        *)

\* A file stays made, and in its directory.
LEMMA MadeStays ==
  ASSUME TypeOK, [Next]_vars, NEW f \in Writers, Made(f)
  PROVE  Made(f)' /\ dir'[f] = dir[f]
<1>1. ASSUME NEW w \in Writers, NEW d \in Dirs, Start(w, d) PROVE Made(f)' /\ dir'[f] = dir[f]
  BY <1>1 DEF Start, Made, TypeOK
<1>2. ASSUME NEW w \in Writers,
             OpenTmp(w) \/ WriteHead(w) \/ WriteTail(w) \/ Replace(w) \/ Stop(w) \/ AppendEvent(w)
      PROVE  Made(f)' /\ dir'[f] = dir[f]
  BY <1>2 DEF OpenTmp, WriteHead, WriteTail, Replace, Stop, AppendEvent, Made, TypeOK
<1>3. ASSUME NEW r \in Readers, (\E d \in Dirs : OpenDest(r, d)) \/ ReadHead(r) \/ ReadTail(r)
      PROVE  Made(f)' /\ dir'[f] = dir[f]
  BY <1>3 DEF OpenDest, ReadHead, ReadTail, Made
<1>4. CASE UNCHANGED vars
  BY <1>4 DEF vars, Made
<1>. QED BY <1>1, <1>2, <1>3, <1>4 DEF Next

LEMMA NextHomes ==
  ASSUME TypeOK, Homes, [Next]_vars
  PROVE  Homes'
<1>0. \A f \in Writers : Made(f) => Made(f)' /\ dir'[f] = dir[f]
  BY MadeStays
<1>1. ASSUME NEW w \in Writers, NEW d \in Dirs, Start(w, d) PROVE Homes'
  BY <1>0, <1>1 DEF Start, Homes, TypeOK, Made, Inside, writing
<1>2. ASSUME NEW w \in Writers, OpenTmp(w) PROVE Homes'
  <2>1. dir[w] \in Dirs /\ ~Made(w) /\ pc' = [pc EXCEPT ![w] = "head"] /\ dir' = dir /\ dest' = dest
    BY <1>2 DEF OpenTmp, Homes, Made
  <2>2. PICK f \in Writers : /\ tmp' = [tmp EXCEPT ![dir[w]] = f]
                             /\ fd' = [fd EXCEPT ![w] = f]
                             /\ f = w \/ f = tmp[dir[w]]
    BY <1>2, <2>1 DEF OpenTmp, TypeOK
  <2>3. Made(w)' /\ Made(f)' /\ dir[f] = dir[w] /\ f # dest[dir[w]] /\ f # None
    BY <1>0, <2>1, <2>2, NoneAssumption DEF Homes, Made, TypeOK, None
  <2>. QED BY <1>0, <2>1, <2>2, <2>3 DEF Homes, TypeOK, Inside
<1>3. ASSUME NEW w \in Writers, WriteHead(w) \/ WriteTail(w) \/ Stop(w) \/ AppendEvent(w) PROVE Homes'
  <2>1. /\ UNCHANGED <<dir, fd, tmp, dest>>
        /\ \A v \in Writers \ {w} : pc'[v] = pc[v]
    BY <1>3 DEF WriteHead, WriteTail, Stop, AppendEvent, writing, TypeOK
  <2>2. \/ pc'[w] = pc[w]
        \/ pc[w] \in Inside /\ pc'[w] \in Inside
        \/ pc'[w] = "stopped"
        \/ pc[w] = "run" /\ pc'[w] = "raised"
    BY <1>3 DEF WriteHead, WriteTail, Stop, AppendEvent, TypeOK, Inside
  <2>3. dir[w] \in Dirs \/ pc'[w] \in {"start", "stopped"}
    BY <2>2 DEF Homes, Inside
  <2>4. fd[w] # None \/ pc'[w] \notin Inside
    BY <2>2 DEF Homes, Inside
  <2>5. Made(w)' \/ fd[w] = None
    BY <2>2 DEF Homes, Made, Inside
  <2>6. /\ \A v \in Writers : pc'[v] \notin {"start", "stopped"} => dir'[v] \in Dirs
        /\ \A v \in Writers : pc'[v] \in Inside => fd'[v] # None
        /\ \A v \in Writers : ~Made(v)' => fd'[v] = None
    BY <2>1, <2>3, <2>4, <2>5 DEF Homes, Made
  <2>7. \A v \in Writers : fd'[v] # None => dir'[fd'[v]] = dir'[v] /\ Made(fd[v])'
    BY <1>0, <2>1 DEF Homes, TypeOK
  <2>8. \A d \in Dirs :
          /\ tmp'[d] # None => dir'[tmp'[d]] = d /\ Made(tmp[d])' /\ tmp'[d] # dest'[d]
          /\ dest'[d] # None => dir'[dest'[d]] = d /\ Made(dest[d])'
    BY <1>0, <2>1 DEF Homes, TypeOK
  <2>. QED BY <2>6, <2>7, <2>8 DEF Homes
<1>4. ASSUME NEW w \in Writers, Replace(w) PROVE Homes'
  <2>1. dir[w] \in Dirs /\ dir' = dir /\ fd' = fd
    BY <1>4 DEF Replace, Homes
  <2>2. /\ \A v \in Writers \ {w} : pc'[v] = pc[v]
        /\ pc[w] = "replace" /\ pc'[w] \in {"run", "raised"}
    BY <1>4 DEF Replace, TypeOK
  <2>3. \A d \in Dirs : \/ tmp'[d] = tmp[d] /\ dest'[d] = dest[d]
                        \/ tmp'[d] = None /\ dest'[d] = tmp[d]
    <3>1. CASE tmp[dir[w]] # None
      BY <1>4, <2>1, <3>1 DEF Replace, TypeOK
    <3>2. CASE tmp[dir[w]] = None
      BY <1>4, <3>2 DEF Replace
    <3>. QED BY <3>1, <3>2
  <2>4. /\ \A v \in Writers : pc'[v] \notin {"start", "stopped"} => dir'[v] \in Dirs
        /\ \A v \in Writers : pc'[v] \in Inside => fd'[v] # None
        /\ \A v \in Writers : ~Made(v)' => fd'[v] = None
    BY <1>0, <2>1, <2>2 DEF Homes, Inside
  <2>5. \A v \in Writers : fd'[v] # None => dir'[fd'[v]] = dir'[v] /\ Made(fd[v])'
    BY <1>0, <2>1 DEF Homes, TypeOK
  <2>6. \A d \in Dirs :
          /\ tmp'[d] # None => dir'[tmp'[d]] = d /\ Made(tmp[d])' /\ tmp'[d] # dest'[d]
          /\ dest'[d] # None => dir'[dest'[d]] = d /\ pc'[dest'[d]] \notin {"start", "open"}
    <3> SUFFICES ASSUME NEW d \in Dirs
                 PROVE  /\ tmp'[d] # None => dir'[tmp'[d]] = d /\ Made(tmp[d])' /\ tmp'[d] # dest'[d]
                        /\ dest'[d] # None => dir'[dest'[d]] = d /\ pc'[dest'[d]] \notin {"start", "open"}
      OBVIOUS
    <3>. QED BY <1>0, <2>1, <2>3 DEF Homes, TypeOK, Made
  <2>. QED BY <2>4, <2>5, <2>6 DEF Homes, Made
<1>5. ASSUME NEW r \in Readers, (\E d \in Dirs : OpenDest(r, d)) \/ ReadHead(r) \/ ReadTail(r)
      PROVE  Homes'
  BY <1>5 DEF OpenDest, ReadHead, ReadTail, Homes, Made, writing
<1>6. CASE UNCHANGED vars
  BY <1>6 DEF vars, writing, Homes, Made
<1>. QED BY <1>1, <1>2, <1>3, <1>4, <1>5, <1>6 DEF Next

-----------------------------------------------------------------------------
(* Whole files                                                             *)

\* A settled file stays settled, with its content, unless writers overlap.
LEMMA SettledStays ==
  ASSUME TypeOK, Homes, Apart, [Next]_vars, NEW f, Settled(f), dir[f] \notin mixed'
  PROVE  Settled(f)' /\ half'[f] = half[f]
<1> f \in Writers /\ Made(f) /\ f # None /\ dir[f] \in Dirs
  BY NoneAssumption DEF Settled, None
<1>0. Made(f)' /\ dir'[f] = dir[f]
  BY MadeStays
<1> SUFFICES f # tmp'[dir[f]] /\ half'[f] = half[f]
  BY <1>0 DEF Settled, Whole
<1>1. ASSUME NEW w \in Writers, NEW d \in Dirs, Start(w, d) \/ Stop(w) \/ AppendEvent(w)
      PROVE  f # tmp'[dir[f]] /\ half'[f] = half[f]
  BY <1>1 DEF Start, Stop, AppendEvent, Settled, writing
<1>2. ASSUME NEW w \in Writers, OpenTmp(w)
      PROVE  f # tmp'[dir[f]] /\ half'[f] = half[f]
  <2>1. dir[w] \in Dirs /\ w # f
    BY <1>2 DEF OpenTmp, Homes, Made
  <2> DEFINE g == IF tmp[dir[w]] = None THEN w ELSE tmp[dir[w]]
  <2>2. /\ tmp' = [tmp EXCEPT ![dir[w]] = g]
        /\ half' = [half EXCEPT ![g] = Blank]
    BY <1>2 DEF OpenTmp
  <2>3. g # f
    BY <2>1, <2>2 DEF Settled, Homes
  <2>. QED BY <2>1, <2>2, <2>3 DEF Settled, TypeOK
<1>3. ASSUME NEW w \in Writers, WriteHead(w) \/ WriteTail(w)
      PROVE  f # tmp'[dir[f]] /\ half'[f] = half[f]
  <2>1. fd[w] # None /\ dir[fd[w]] = dir[w] /\ pc[w] \in Inside /\ tmp' = tmp /\ fd[w] \in Writers
    BY <1>3 DEF WriteHead, WriteTail, Homes, Inside, TypeOK
  <2>2. fd[w] # f
    BY <2>1 DEF Settled, Apart
  <2>. QED BY <1>3, <2>1, <2>2 DEF WriteHead, WriteTail, Settled, TypeOK
<1>4. ASSUME NEW w \in Writers, Replace(w)
      PROVE  f # tmp'[dir[f]] /\ half'[f] = half[f]
  BY <1>4 DEF Replace, Settled, Homes, TypeOK
<1>5. ASSUME NEW r \in Readers, (\E d \in Dirs : OpenDest(r, d)) \/ ReadHead(r) \/ ReadTail(r)
      PROVE  f # tmp'[dir[f]] /\ half'[f] = half[f]
  BY <1>5 DEF OpenDest, ReadHead, ReadTail, Settled, writing
<1>6. CASE UNCHANGED vars
  BY <1>6 DEF vars, writing, Settled
<1>. QED BY <1>1, <1>2, <1>3, <1>4, <1>5, <1>6 DEF Next

LEMMA MixedGrows ==
  ASSUME [Next]_vars
  PROVE  mixed \subseteq mixed'
<1>1. ASSUME NEW w \in Writers, OpenTmp(w) PROVE mixed \subseteq mixed'
  BY <1>1 DEF OpenTmp
<1>2. (\A w \in Writers : ~OpenTmp(w)) => mixed' = mixed
  BY DEF Next, vars, writing, Start, WriteHead, WriteTail, Replace, Stop, AppendEvent,
         OpenDest, ReadHead, ReadTail
<1>. QED BY <1>1, <1>2

LEMMA NextDestSettled ==
  ASSUME TypeOK, Homes, Apart, DestSettled, [Next]_vars
  PROVE  DestSettled'
<1> SUFFICES ASSUME NEW d \in Dirs, NEW f, d \notin mixed', f = dest'[d], f # None
             PROVE  Settled(f)'
  BY DEF DestSettled
<1>1. mixed \subseteq mixed'
  BY MixedGrows
<1>2. CASE f = dest[d]
  <2>1. Settled(f) /\ dir[f] = d
    BY <1>1, <1>2 DEF DestSettled, Homes
  <2>. QED BY <2>1, SettledStays
<1>3. CASE f # dest[d]
  <2>1. PICK w \in Writers : Replace(w)
    BY <1>3 DEF Next, vars, writing, Start, OpenTmp, WriteHead, WriteTail, Stop, AppendEvent,
                OpenDest, ReadHead, ReadTail
  <2>2. dir[w] = d /\ tmp[d] = f /\ tmp'[d] = None /\ d \notin mixed
    BY <1>1, <1>3, <2>1 DEF Replace, TypeOK, Homes
  <2>3. fd[w] = f /\ half[f].head = w /\ half[f].tail = w
    BY <2>1, <2>2 DEF Replace, Apart, Inside
  <2>4. f \in Writers /\ Made(f) /\ dir[f] = d
    BY <2>2 DEF Homes, TypeOK
  <2>5. Made(f)' /\ dir'[f] = d
    BY <2>4, MadeStays
  <2>6. half' = half /\ w # None
    BY <2>1, NoneAssumption DEF Replace, None
  <2>. QED BY <2>2, <2>3, <2>4, <2>5, <2>6 DEF Settled, Whole
<1>. QED BY <1>2, <1>3

LEMMA NextReadersSettled ==
  ASSUME TypeOK, Homes, Apart, DestSettled, ReadersSettled, [Next]_vars
  PROVE  ReadersSettled'
<1>0. mixed \subseteq mixed'
  BY MixedGrows
<1> SUFFICES ASSUME NEW r \in Readers, rpc'[r] # "start", NEW f, f = rfd'[r]
             PROVE  /\ f \in Writers /\ rdir'[r] = dir'[f] /\ rdir'[r] \in Dirs /\ Made(f)'
                    /\ rdir'[r] \notin mixed' =>
                         /\ Settled(f)'
                         /\ rpc'[r] \in {"tail", "done"} => read'[r].head = half'[f].head
                         /\ rpc'[r] = "done" => read'[r].tail = half'[f].tail
  BY DEF ReadersSettled, Made
<1>1. CASE rpc[r] = "start"
  <2>1. PICK d \in Dirs : OpenDest(r, d)
    BY <1>1 DEF Next, vars, writing, reading, Start, OpenTmp, WriteHead, WriteTail, Replace,
                Stop, AppendEvent, OpenDest, ReadHead, ReadTail, TypeOK
  <2>2. f = dest[d] /\ f # None /\ rdir'[r] = d /\ rpc'[r] = "head"
    BY <2>1 DEF OpenDest, TypeOK
  <2>3. f \in Writers /\ dir[f] = d /\ Made(f)
    BY <2>2 DEF Homes, TypeOK
  <2>4. dir'[f] = d /\ Made(f)'
    BY <2>3, MadeStays
  <2>5. d \notin mixed' => Settled(f)
    BY <1>0, <2>2 DEF DestSettled
  <2>. QED BY <2>2, <2>3, <2>4, <2>5, SettledStays
<1>2. CASE rpc[r] # "start"
  <2>1. rfd'[r] = rfd[r] /\ rdir'[r] = rdir[r]
    BY <1>2 DEF Next, vars, writing, reading, Start, OpenTmp, WriteHead, WriteTail, Replace,
                Stop, AppendEvent, OpenDest, ReadHead, ReadTail, TypeOK
  <2>2. f \in Writers /\ rdir[r] = dir[f] /\ rdir[r] \in Dirs /\ Made(f)
    BY <1>2, <2>1 DEF ReadersSettled
  <2>3. dir'[f] = dir[f] /\ Made(f)'
    BY <2>2, MadeStays
  <2>4. ASSUME rdir[r] \notin mixed'
        PROVE  /\ Settled(f)'
               /\ rpc'[r] \in {"tail", "done"} => read'[r].head = half'[f].head
               /\ rpc'[r] = "done" => read'[r].tail = half'[f].tail
    <3>1. /\ Settled(f)
          /\ rpc[r] \in {"tail", "done"} => read[r].head = half[f].head
          /\ rpc[r] = "done" => read[r].tail = half[f].tail
      BY <1>0, <1>2, <2>1, <2>4 DEF ReadersSettled
    <3>2. Settled(f)' /\ half'[f] = half[f]
      BY <2>2, <2>4, <3>1, SettledStays
    <3>3. CASE ReadHead(r)
      BY <2>1, <3>1, <3>2, <3>3 DEF ReadHead, TypeOK
    <3>4. CASE ReadTail(r)
      BY <2>1, <3>1, <3>2, <3>4 DEF ReadTail, TypeOK
    <3>5. CASE ~ReadHead(r) /\ ~ReadTail(r)
      <4>1. rpc'[r] = rpc[r] /\ read'[r] = read[r]
        BY <1>2, <3>5 DEF Next, vars, writing, reading, Start, OpenTmp, WriteHead, WriteTail,
                          Replace, Stop, AppendEvent, OpenDest, ReadHead, ReadTail, TypeOK
      <4>. QED BY <3>1, <3>2, <4>1
    <3>. QED BY <3>3, <3>4, <3>5
  <2>. QED BY <2>1, <2>2, <2>3, <2>4
<1>. QED BY <1>1, <1>2

LEMMA NextApart ==
  ASSUME TypeOK, Homes, Apart, [Next]_vars
  PROVE  Apart'
<1>0. mixed \subseteq mixed'
  BY MixedGrows
<1> SUFFICES ASSUME NEW v \in Writers, pc'[v] \in Inside, dir'[v] \notin mixed'
             PROVE  /\ \A u \in Writers : dir'[u] = dir'[v] /\ pc'[u] \in Inside => u = v
                    /\ fd'[v] = tmp'[dir'[v]]
                    /\ pc'[v] \in {"tail", "replace"} => half'[fd'[v]].head = v
                    /\ pc'[v] = "replace" => half'[fd'[v]].tail = v
  BY DEF Apart, Inside
<1> DEFINE Goal == /\ \A u \in Writers : dir'[u] = dir'[v] /\ pc'[u] \in Inside => u = v
                   /\ fd'[v] = tmp'[dir'[v]]
                   /\ pc'[v] \in {"tail", "replace"} => half'[fd'[v]].head = v
                   /\ pc'[v] = "replace" => half'[fd'[v]].tail = v
<1>1. ASSUME pc[v] \in Inside, dir[v] \notin mixed
      PROVE  /\ \A u \in Writers : dir[u] = dir[v] /\ pc[u] \in Inside => u = v
             /\ fd[v] = tmp[dir[v]] /\ dir[v] \in Dirs
             /\ fd[v] \in Writers /\ dir[fd[v]] = dir[v]
             /\ pc[v] \in {"tail", "replace"} => half[fd[v]].head = v
             /\ pc[v] = "replace" => half[fd[v]].tail = v
  BY <1>1 DEF Apart, Homes, TypeOK, Inside
<1>2. ASSUME NEW w \in Writers, NEW d \in Dirs, Start(w, d) PROVE Goal
  BY <1>1, <1>2 DEF Start, TypeOK, Inside, writing
<1>3. ASSUME NEW w \in Writers, OpenTmp(w) PROVE Goal
  <2> DEFINE g == IF tmp[dir[w]] = None THEN w ELSE tmp[dir[w]]
  <2>1. /\ dir[w] \in Dirs /\ dir' = dir /\ pc' = [pc EXCEPT ![w] = "head"]
        /\ tmp' = [tmp EXCEPT ![dir[w]] = g]
        /\ fd' = [fd EXCEPT ![w] = g]
        /\ half' = [half EXCEPT ![g] = Blank]
    BY <1>3 DEF OpenTmp, Homes
  <2>2. dir[g] = dir[w]
    BY <2>1 DEF Homes
  <2>3. CASE v = w
    <3>1. \A u \in Writers : u # w /\ dir[u] = dir[w] => pc[u] \notin Inside
      BY <1>3, <2>1, <2>3 DEF OpenTmp
    <3>. QED BY <2>1, <2>3, <3>1 DEF TypeOK
  <2>4. CASE v # w
    <3>1. pc[v] \in Inside /\ dir[v] \notin mixed /\ pc'[v] = pc[v]
      BY <1>0, <2>1, <2>4 DEF TypeOK
    <3>2. dir[v] # dir[w]
      BY <1>3, <2>1, <2>4, <3>1 DEF OpenTmp
    <3>3. fd[v] # g
      BY <1>1, <2>2, <3>1, <3>2
    <3>4. fd'[v] = fd[v] /\ tmp'[dir[v]] = tmp[dir[v]] /\ half'[fd[v]] = half[fd[v]]
      BY <1>1, <2>1, <2>4, <3>1, <3>2, <3>3 DEF TypeOK
    <3>5. \A u \in Writers : dir[u] = dir[v] /\ pc'[u] \in Inside => u = v
      BY <1>1, <2>1, <3>1, <3>2 DEF TypeOK
    <3>. QED BY <1>1, <2>1, <3>1, <3>4, <3>5
  <2>. QED BY <2>3, <2>4
<1>4. ASSUME NEW w \in Writers, WriteHead(w) \/ WriteTail(w) PROVE Goal
  <2>1. /\ UNCHANGED <<dir, tmp, fd, mixed>> /\ pc[w] \in Inside
        /\ \A u \in Writers \ {w} : pc'[u] = pc[u]
        /\ \A f \in Writers \ {fd[w]} : half'[f] = half[f]
    BY <1>4 DEF WriteHead, WriteTail, Inside, TypeOK
  <2>2. pc[v] \in Inside
    BY <2>1
  <2>3. CASE v = w
    <3>1. CASE WriteHead(w)
      BY <1>1, <2>1, <2>2, <2>3, <3>1 DEF WriteHead, TypeOK
    <3>2. CASE WriteTail(w)
      BY <1>1, <2>1, <2>2, <2>3, <3>2 DEF WriteTail, TypeOK
    <3>. QED BY <1>4, <3>1, <3>2
  <2>4. CASE v # w
    <3>1. dir[w] # dir[v]
      BY <1>1, <2>1, <2>2, <2>4
    <3>2. fd[w] # fd[v]
      BY <1>1, <2>1, <2>2, <3>1 DEF Homes
    <3>. QED BY <1>1, <2>1, <2>2, <2>4, <3>1, <3>2
  <2>. QED BY <2>3, <2>4
<1>5. ASSUME NEW w \in Writers, Replace(w) PROVE Goal
  <2>1. /\ UNCHANGED <<dir, half, fd, mixed>> /\ pc[w] = "replace"
        /\ pc'[w] \notin Inside /\ \A u \in Writers \ {w} : pc'[u] = pc[u]
    BY <1>5 DEF Replace, TypeOK, Inside
  <2>2. v # w /\ pc[v] \in Inside
    BY <2>1
  <2>3. dir[w] # dir[v]
    BY <1>1, <2>1, <2>2 DEF Inside
  <2>4. tmp'[dir[v]] = tmp[dir[v]]
    BY <1>1, <1>5, <2>1, <2>2, <2>3 DEF Replace, TypeOK, Inside
  <2>. QED BY <1>1, <2>1, <2>2, <2>4
<1>6. ASSUME NEW w \in Writers, Stop(w) \/ AppendEvent(w) PROVE Goal
  <2>1. /\ UNCHANGED <<dir, tmp, half, fd, mixed>> /\ pc'[w] \notin Inside
        /\ \A u \in Writers \ {w} : pc'[u] = pc[u]
    <3>1. CASE Stop(w)
      BY <3>1 DEF Stop, TypeOK, Inside, writing
    <3>2. CASE AppendEvent(w)
      <4>1. PICK form : pc' = IF form = "line" THEN pc ELSE [pc EXCEPT ![w] = "raised"]
        BY <3>2 DEF AppendEvent
      <4>. QED BY <3>2, <4>1 DEF AppendEvent, TypeOK, Inside, writing
    <3>. QED BY <1>6, <3>1, <3>2
  <2>. QED BY <1>1, <2>1
<1>7. ASSUME NEW r \in Readers, (\E d \in Dirs : OpenDest(r, d)) \/ ReadHead(r) \/ ReadTail(r)
      PROVE  Goal
  BY <1>1, <1>7 DEF OpenDest, ReadHead, ReadTail, writing
<1>8. CASE UNCHANGED vars
  BY <1>1, <1>8 DEF vars, writing
<1>. QED BY <1>2, <1>3, <1>4, <1>5, <1>6, <1>7, <1>8 DEF Next

\* run.json, once there, is there for good; and a run logs nothing without it.
LEMMA NextRunsNamed ==
  ASSUME TypeOK, Homes, RunsNamed, RunJsonFirst, [Next]_vars
  PROVE  RunsNamed' /\ RunJsonFirst'
<1>1. \A d \in Dirs : dest[d] # None => dest'[d] # None
  <2>1. ASSUME NEW w \in Writers, Replace(w), NEW d \in Dirs, dest[d] # None PROVE dest'[d] # None
    BY <2>1 DEF Replace, TypeOK
  <2>2. (\A w \in Writers : ~Replace(w)) => dest' = dest
    BY DEF Next, vars, writing, Start, OpenTmp, WriteHead, WriteTail, Stop, AppendEvent,
           OpenDest, ReadHead, ReadTail
  <2>. QED BY <2>1, <2>2
<1>2. ASSUME NEW v \in Writers, pc'[v] = "run" PROVE dest'[dir'[v]] # None
  <2>1. CASE pc[v] = "run"
    <3>1. dir'[v] = dir[v] /\ dir[v] \in Dirs /\ dest[dir[v]] # None
      BY <2>1, MadeStays DEF Made, Homes, RunsNamed
    <3>. QED BY <1>1, <3>1
  <2>2. CASE pc[v] # "run"
    <3>1. ASSUME NEW w \in Writers, AppendEvent(w) PROVE pc'[v] # "run"
      BY <2>2, <3>1 DEF AppendEvent, TypeOK
    <3>2. Replace(v)
      BY <1>2, <2>2, <3>1 DEF Next, vars, writing, Start, OpenTmp, WriteHead, WriteTail, Replace,
                              Stop, OpenDest, ReadHead, ReadTail, TypeOK
    <3>3. dir[v] \in Dirs
      BY <3>2 DEF Replace, Homes
    <3>. QED BY <1>2, <3>2, <3>3 DEF Replace, TypeOK
  <2>. QED BY <2>1, <2>2
<1>3. ASSUME NEW d \in Dirs, log'[d] # <<>> PROVE dest'[d] # None
  <2>1. CASE log'[d] = log[d]
    BY <1>1, <1>3, <2>1 DEF RunJsonFirst
  <2>2. CASE log'[d] # log[d]
    <3>1. PICK w \in Writers : AppendEvent(w)
      BY <2>2 DEF Next, vars, writing, Start, OpenTmp, WriteHead, WriteTail, Replace, Stop,
                  OpenDest, ReadHead, ReadTail
    <3>2. dir[w] = d /\ pc[w] = "run"
      BY <2>2, <3>1 DEF AppendEvent, TypeOK
    <3>. QED BY <1>1, <3>2 DEF RunsNamed
  <2>. QED BY <2>1, <2>2
<1>. QED BY <1>2, <1>3 DEF RunsNamed, RunJsonFirst

-----------------------------------------------------------------------------
(* Theorems                                                                *)

LEMMA NextIInv == IInv /\ [Next]_vars => IInv'
BY NextTypeOK, NextHomes, NextApart, NextDestSettled, NextReadersSettled, NextRunsNamed DEF IInv

\* The inductive invariant: in a directory whose writers keep apart, run.tmp is
\* written by its one writer, and what run.json or a reader names is not.
THEOREM InvariantCorrect == Spec => []IInv
<1>. QED BY InitIInv, NextIInv, PTL DEF Spec

\* Files, names and readers of ResultFiles are well typed in every reachable state.
THEOREM TypeCorrect == Spec => []TypeOK
<1>1. IInv => TypeOK
  BY DEF IInv
<1>. QED BY <1>1, InvariantCorrect, PTL

\* run.json is whole whenever it exists, for any number of writers, of which any may
\* have failed anywhere, where no two overlapped.
THEOREM RunJsonWholeCorrect == Spec => []RunJsonWhole
<1>1. IInv => RunJsonWhole
  BY DEF IInv, DestSettled, Settled, RunJsonWhole
<1>. QED BY <1>1, InvariantCorrect, PTL

\* A reader of run.json gets one version, through any number of replacements.
THEOREM ReadsWholeCorrect == Spec => []ReadsWhole
<1>1. ASSUME IInv, NEW r \in Readers, rpc[r] = "done", rdir[r] \notin mixed PROVE Whole(read[r])
  BY <1>1 DEF IInv, ReadersSettled, Settled, Whole
<1>2. IInv => ReadsWhole
  BY <1>1 DEF ReadsWhole
<1>. QED BY <1>2, InvariantCorrect, PTL

\* No event is logged without run.json, whatever writers overlap.
THEOREM RunJsonFirstCorrect == Spec => []RunJsonFirst
<1>1. IInv => RunJsonFirst
  BY DEF IInv
<1>. QED BY <1>1, InvariantCorrect, PTL

-----------------------------------------------------------------------------
(* Refinement                                                              *)

Current == [d \in Dirs |-> IF d \in mixed THEN None ELSE Version(dest[d])]
Got     == [r \in Readers |-> IF rpc[r] = "start" \/ rdir[r] \in mixed THEN <<>>
                              ELSE <<rdir[r], Version(rfd[r])>>]

LEMMA FilesInit == Init => Files!Init
BY DEF Init, Files!Init, Files!NoVersion, Files!Nothing, Version, None

\* What is published or was read in a directory kept apart stays, where no name and
\* no reader is moved.
LEMMA FilesFrame ==
  ASSUME IInv, [Next]_vars
  PROVE  /\ \A d \in Dirs : (d \notin mixed' /\ dest'[d] = dest[d]) => Current'[d] = Current[d]
         /\ \A r \in Readers :
              (rpc[r] # "start" /\ rpc'[r] # "start" /\ rdir'[r] = rdir[r] /\ rfd'[r] = rfd[r]
               /\ rdir[r] \notin mixed') => Got'[r] = Got[r]
<1>0. mixed \subseteq mixed' /\ TypeOK /\ Homes /\ Apart
  BY MixedGrows DEF IInv
<1>1. ASSUME NEW d \in Dirs, d \notin mixed', dest'[d] = dest[d] PROVE Current'[d] = Current[d]
  <2>1. CASE dest[d] = None
    BY <1>0, <1>1, <2>1 DEF Current, Version
  <2>2. CASE dest[d] # None
    <3>1. PICK f : f = dest[d]
      OBVIOUS
    <3>2. Settled(f) /\ dir[f] = d
      BY <1>0, <1>1, <2>2, <3>1 DEF IInv, DestSettled, Homes
    <3>3. half'[f] = half[f]
      BY <1>0, <1>1, <3>2, SettledStays
    <3>. QED BY <1>0, <1>1, <2>2, <3>1, <3>3 DEF Current, Version
  <2>. QED BY <2>1, <2>2
<1>2. ASSUME NEW r \in Readers, rpc[r] # "start", rpc'[r] # "start", rdir'[r] = rdir[r],
             rfd'[r] = rfd[r], rdir[r] \notin mixed'
      PROVE  Got'[r] = Got[r]
  <2>1. PICK f : f = rfd[r]
    OBVIOUS
  <2>2. Settled(f) /\ dir[f] = rdir[r]
    BY <1>0, <1>2, <2>1 DEF IInv, ReadersSettled
  <2>3. half'[f] = half[f]
    BY <1>0, <1>2, <2>2, SettledStays
  <2>. QED BY <1>0, <1>2, <2>1, <2>3 DEF Got, Version
<1>. QED BY <1>1, <1>2

LEMMA FilesStep ==
  ASSUME IInv, [Next]_vars
  PROVE  [Files!Next]_(Files!avars)
<1>0. mixed \subseteq mixed' /\ mixed \subseteq Dirs /\ TypeOK /\ Homes /\ Apart
  BY MixedGrows DEF IInv, TypeOK
<1>1. ASSUME NEW w \in Writers, OpenTmp(w), mixed' # mixed
      PROVE  Files!Next
  <2>1. PICK d \in Dirs : d = dir[w]
    BY <1>0, <1>1 DEF OpenTmp, Homes
  <2>2. mixed' = mixed \cup {d} /\ dest' = dest /\ UNCHANGED reading
    BY <1>1, <2>1 DEF OpenTmp
  <2>3. Current' = [Current EXCEPT ![d] = None]
    <3>1. \A e \in Dirs \ {d} : Current'[e] = Current[e]
      <4>1. ASSUME NEW e \in Dirs \ {d} PROVE Current'[e] = Current[e]
        <5>1. CASE e \in mixed
          BY <2>2, <5>1 DEF Current
        <5>2. CASE e \notin mixed
          BY <2>2, <5>2, FilesFrame
        <5>. QED BY <5>1, <5>2
      <4>. QED BY <4>1
    <3>2. Current'[d] = None
      BY <2>2 DEF Current
    <3>. QED BY <3>1, <3>2 DEF Current
  <2>4. Got' = [r \in Readers |-> IF Got[r] # <<>> /\ Got[r][1] = d THEN <<>> ELSE Got[r]]
    <3>1. ASSUME NEW r \in Readers
          PROVE  Got'[r] = IF Got[r] # <<>> /\ Got[r][1] = d THEN <<>> ELSE Got[r]
      <4>1. CASE rpc[r] = "start" \/ rdir[r] \in mixed
        BY <2>2, <4>1 DEF Got, reading
      <4>2. CASE rpc[r] # "start" /\ rdir[r] = d
        BY <2>2, <4>2 DEF Got, reading
      <4>3. CASE rpc[r] # "start" /\ rdir[r] # d /\ rdir[r] \notin mixed
        <5>1. Got'[r] = Got[r]
          BY <2>2, <4>3, FilesFrame DEF reading
        <5>2. Got[r][1] # d
          BY <4>3 DEF Got
        <5>. QED BY <5>1, <5>2
      <4>. QED BY <4>1, <4>2, <4>3
    <3>. QED BY <3>1 DEF Got
  <2>5. Files!Spoil(d)
    BY <2>2, <2>3, <2>4 DEF Files!Spoil, Files!NoVersion, Files!Nothing, Current, Got, None
  <2>. QED BY <2>5 DEF Files!Next
<1>2. ASSUME NEW w \in Writers, Replace(w), tmp[dir[w]] # None, dir[w] \notin mixed
      PROVE  Files!Next
  <2>1. PICK d \in Dirs : d = dir[w]
    BY <1>0, <1>2 DEF Replace, Homes
  <2>2. UNCHANGED <<mixed, half, reading>> /\ dest' = [dest EXCEPT ![d] = tmp[d]]
    BY <1>2, <2>1 DEF Replace
  <2>3. half[tmp[d]].head = w
    BY <1>0, <1>2, <2>1 DEF Replace, Apart, Inside
  <2>4. Current' = [Current EXCEPT ![d] = w]
    BY <1>0, <1>2, <2>1, <2>2, <2>3 DEF Current, Version, TypeOK
  <2>5. Got' = Got
    BY <2>2 DEF Got, Version, reading
  <2>6. Files!Publish(d, w)
    BY <1>2, <2>1, <2>2, <2>4, <2>5 DEF Files!Publish, Current, Got
  <2>. QED BY <2>6 DEF Files!Next
<1>3. ASSUME NEW r \in Readers, NEW d \in Dirs, OpenDest(r, d), d \notin mixed
      PROVE  Files!Next
  <2>1. UNCHANGED <<mixed, dest, half>> /\ rdir' = [rdir EXCEPT ![r] = d]
        /\ rfd' = [rfd EXCEPT ![r] = dest[d]] /\ rpc' = [rpc EXCEPT ![r] = "head"]
    BY <1>3 DEF OpenDest, writing
  <2>2. Current' = Current
    BY <2>1 DEF Current, Version
  <2>3. Current[d] = Version(dest[d]) /\ Current[d] # None /\ Got[r] = <<>>
    BY <1>3 DEF OpenDest, Current, Got, Version, IInv, DestSettled, Settled, Whole
  <2>4. Got' = [Got EXCEPT ![r] = <<d, Current[d]>>]
    BY <1>0, <1>3, <2>1, <2>3 DEF Got, Version, TypeOK
  <2>5. Files!Read(r, d)
    BY <1>3, <2>1, <2>2, <2>3, <2>4 DEF Files!Read, Files!NoVersion, Files!Nothing, Current, Got, None
  <2>. QED BY <2>5 DEF Files!Next
<1>4. ASSUME mixed' = mixed,
             \A d \in Dirs \ mixed : dest'[d] = dest[d],
             \A r \in Readers :
               \/ rpc'[r] = rpc[r] /\ rdir'[r] = rdir[r] /\ rfd'[r] = rfd[r]
               \/ rpc[r] # "start" /\ rpc'[r] # "start" /\ rdir'[r] = rdir[r] /\ rfd'[r] = rfd[r]
               \/ rpc[r] = "start" /\ rdir'[r] \in mixed
      PROVE  UNCHANGED Files!avars
  <2>1. Current' = Current
    <3>1. \A d \in Dirs : Current'[d] = Current[d]
      BY <1>4, FilesFrame DEF Current
    <3>. QED BY <3>1 DEF Current
  <2>2. Got' = Got
    <3>1. ASSUME NEW r \in Readers PROVE Got'[r] = Got[r]
      <4>1. CASE rpc[r] = "start" /\ rpc'[r] = "start"
        BY <4>1 DEF Got
      <4>2. CASE rpc[r] # "start" /\ rdir[r] \in mixed
        BY <1>4, <4>2 DEF Got
      <4>3. CASE rpc[r] # "start" /\ rdir[r] \notin mixed
        BY <1>4, <4>3, FilesFrame
      <4>4. CASE rpc[r] = "start" /\ rpc'[r] # "start"
        BY <1>4, <4>4 DEF Got
      <4>. QED BY <4>1, <4>2, <4>3, <4>4
    <3>. QED BY <3>1 DEF Got
  <2>. QED BY <1>4, <2>1, <2>2 DEF Files!avars, Current, Got
<1>5. ASSUME NEW w \in Writers, OpenTmp(w), mixed' = mixed PROVE UNCHANGED Files!avars
  BY <1>4, <1>5 DEF OpenTmp, reading
<1>6. ASSUME NEW w \in Writers, Replace(w), tmp[dir[w]] = None \/ dir[w] \in mixed
      PROVE  UNCHANGED Files!avars
  <2>1. \A d \in Dirs \ mixed : dest'[d] = dest[d]
    BY <1>0, <1>6 DEF Replace, TypeOK
  <2>. QED BY <1>4, <1>6, <2>1 DEF Replace, reading
<1>7. ASSUME NEW r \in Readers, NEW d \in Dirs, OpenDest(r, d), d \in mixed
      PROVE  UNCHANGED Files!avars
  BY <1>0, <1>4, <1>7 DEF OpenDest, TypeOK, writing
<1>8. ASSUME NEW w \in Writers,
             \/ \E d \in Dirs : Start(w, d)
             \/ WriteHead(w) \/ WriteTail(w) \/ Stop(w) \/ AppendEvent(w)
      PROVE  UNCHANGED Files!avars
  BY <1>4, <1>8 DEF Start, WriteHead, WriteTail, Stop, AppendEvent, writing, reading
<1>9. ASSUME NEW r \in Readers, ReadHead(r) \/ ReadTail(r) PROVE UNCHANGED Files!avars
  BY <1>0, <1>4, <1>9 DEF ReadHead, ReadTail, TypeOK, writing
<1>10. CASE UNCHANGED vars
  BY <1>4, <1>10 DEF vars, writing, reading
<1>. QED BY <1>1, <1>2, <1>3, <1>5, <1>6, <1>7, <1>8, <1>9, <1>10 DEF Next

\* run.json is an atomic file: each reader gets the version that was current when it
\* opened it, in every directory whose writers kept apart.
THEOREM FilesCorrect == Spec => FilesSpec
<1>1. IInv /\ [Next]_vars => [Files!Next]_(Files!avars)
  BY FilesStep
<1>. QED BY FilesInit, <1>1, InvariantCorrect, PTL DEF Spec, FilesSpec, Files!Spec

-----------------------------------------------------------------------------
(* What is left behind                                                     *)

\* The renaming of a writer that no other overlapped: the name run.tmp is still that
\* of the file it has open, whoever made that file.
LEMMA RenamePublishes ==
  ASSUME IInv, NEW w \in Writers, Replace(w), dir[w] \notin mixed
  PROVE  /\ pc'[w] = "run"
         /\ tmp'[dir[w]] = None
         /\ half'[dest'[dir[w]]] = [head |-> w, tail |-> w]
<1>0. TypeOK /\ Homes /\ Apart /\ pc[w] = "replace" /\ dir[w] \in Dirs
  BY DEF IInv, Replace, Homes
<1>1. /\ fd[w] \in Writers /\ fd[w] = tmp[dir[w]] /\ tmp[dir[w]] # None
      /\ half[fd[w]].head = w /\ half[fd[w]].tail = w
  BY <1>0 DEF Apart, Homes, Inside, TypeOK
<1>2. half[fd[w]] = [head |-> w, tail |-> w]
  BY <1>0, <1>1 DEF TypeOK
<1>3. /\ dest' = [dest EXCEPT ![dir[w]] = tmp[dir[w]]] /\ half' = half
      /\ tmp' = [tmp EXCEPT ![dir[w]] = None]
      /\ pc' = [pc EXCEPT ![w] = "run"]
  BY <1>1 DEF Replace
<1>. QED BY <1>0, <1>1, <1>2, <1>3 DEF TypeOK

\* Nothing but its own renaming, or its end, takes a writer on from there.
LEMMA OnlyReplace ==
  ASSUME TypeOK, [Next]_vars, NEW w \in Writers,
         pc[w] = "replace", pc'[w] \notin {"replace", "stopped"}
  PROVE  Replace(w)
<1>1. ASSUME NEW v \in Writers, NEW d \in Dirs, Start(v, d) PROVE FALSE
  BY <1>1 DEF Start, TypeOK
<1>2. ASSUME NEW v \in Writers,
             \/ OpenTmp(v) \/ WriteHead(v) \/ WriteTail(v) \/ Stop(v) \/ AppendEvent(v)
             \/ v # w /\ Replace(v)
      PROVE  FALSE
  BY <1>2 DEF OpenTmp, WriteHead, WriteTail, Replace, Stop, AppendEvent, TypeOK
<1>3. ASSUME NEW r \in Readers, (\E d \in Dirs : OpenDest(r, d)) \/ ReadHead(r) \/ ReadTail(r)
      PROVE  FALSE
  BY <1>3 DEF OpenDest, ReadHead, ReadTail
<1>. QED BY <1>1, <1>2, <1>3 DEF Next, vars

\* A writer that no other overlapped publishes its own whole run.json and leaves no
\* run.tmp, whatever the writers before it left behind.
THEOREM NoTmpLeftCorrect == Spec => NoTmpLeft
<1>1. ASSUME IInv, [Next]_vars, NEW w \in Writers,
             pc[w] = "replace", pc'[w] \notin {"replace", "stopped"}, dir[w] \notin mixed
      PROVE  /\ pc'[w] = "run"
             /\ tmp'[dir[w]] = None
             /\ half'[dest'[dir[w]]] = [head |-> w, tail |-> w]
  BY <1>1, OnlyReplace, RenamePublishes DEF IInv
<1>2. IInv /\ [Next]_vars =>
        [\A w \in Writers :
           (pc[w] = "replace" /\ pc'[w] \notin {"replace", "stopped"} /\ dir[w] \notin mixed) =>
             /\ pc'[w] = "run"
             /\ tmp'[dir[w]] = None
             /\ half'[dest'[dir[w]]] = [head |-> w, tail |-> w]]_vars
  BY <1>1
<1>. QED BY <1>2, InvariantCorrect, PTL DEF Spec, NoTmpLeft

\* A log with something else than whole lines has a writer that raised.
LogKept ==
  \A d \in Dirs : \/ \A i \in 1 .. Len(log[d]) : log[d][i] = "line"
                  \/ \E w \in Writers : dir[w] = d /\ pc[w] = "raised"

LEMMA NextLogKept ==
  ASSUME IInv, LogKept, [Next]_vars
  PROVE  LogKept'
<1>0. TypeOK
  BY DEF IInv
<1>1. ASSUME NEW w \in Writers, pc[w] = "raised" PROVE pc'[w] = "raised" /\ dir'[w] = dir[w]
  <2>1. ASSUME NEW v \in Writers, NEW d \in Dirs, Start(v, d)
        PROVE  pc'[w] = "raised" /\ dir'[w] = dir[w]
    BY <1>0, <1>1, <2>1 DEF Start, TypeOK
  <2>2. ASSUME NEW v \in Writers,
               OpenTmp(v) \/ WriteHead(v) \/ WriteTail(v) \/ Replace(v) \/ Stop(v) \/ AppendEvent(v)
        PROVE  pc'[w] = "raised" /\ dir'[w] = dir[w]
    BY <1>0, <1>1, <2>2 DEF OpenTmp, WriteHead, WriteTail, Replace, Stop, AppendEvent, TypeOK, Over
  <2>3. ASSUME NEW r \in Readers, (\E d \in Dirs : OpenDest(r, d)) \/ ReadHead(r) \/ ReadTail(r)
        PROVE  pc'[w] = "raised" /\ dir'[w] = dir[w]
    BY <1>1, <2>3 DEF OpenDest, ReadHead, ReadTail
  <2>. QED BY <1>1, <2>1, <2>2, <2>3 DEF Next, vars
<1>2. CASE UNCHANGED log
  BY <1>1, <1>2 DEF LogKept
<1>3. ASSUME NEW w \in Writers, AppendEvent(w) PROVE LogKept'
  <2>1. PICK form \in {"line", "part", "bare"} :
          /\ log' = [log EXCEPT ![dir[w]] = Append(log[dir[w]], form)]
          /\ pc' = IF form = "line" THEN pc ELSE [pc EXCEPT ![w] = "raised"]
    BY <1>3 DEF AppendEvent
  <2>2. UNCHANGED dir /\ pc[w] = "run" /\ dir[w] \in Dirs
    BY <1>0, <1>3 DEF AppendEvent, IInv, Homes, TypeOK
  <2>s. SUFFICES ASSUME NEW d \in Dirs
                 PROVE  \/ \A i \in 1 .. Len(log'[d]) : log'[d][i] = "line"
                        \/ \E v \in Writers : dir'[v] = d /\ pc'[v] = "raised"
    BY DEF LogKept
  <2>3. CASE \E v \in Writers : dir[v] = d /\ pc[v] = "raised"
    BY <2>3, <1>1
  <2>6. CASE d # dir[w]
    <3>1. log'[d] = log[d]
      BY <2>6, <2>1, <2>2, <1>0 DEF TypeOK
    <3>. QED BY <3>1, <2>3 DEF LogKept
  <2>4. CASE d = dir[w] /\ form # "line"
    BY <2>4, <2>1, <2>2, <1>0 DEF TypeOK
  <2>5. CASE /\ d = dir[w] /\ form = "line"
             /\ ~\E v \in Writers : dir[v] = d /\ pc[v] = "raised"
    <3>1. log[d] \in Seq({"line", "part", "bare"}) /\ log'[d] = Append(log[d], form)
      BY <2>5, <2>1, <2>2, <1>0 DEF TypeOK
    <3>2. \A i \in 1 .. Len(log[d]) : log[d][i] = "line"
      BY <2>5 DEF LogKept
    <3>. QED BY <3>1, <3>2, <2>5
  <2>. QED BY <2>1, <2>3, <2>4, <2>5, <2>6
<1>4. UNCHANGED log \/ \E w \in Writers : AppendEvent(w)
  BY DEF Next, Start, OpenTmp, WriteHead, WriteTail, Replace, Stop, OpenDest, ReadHead, ReadTail, vars
<1>. QED BY <1>2, <1>3, <1>4

\* read_events raises only where a writer failed or was killed in the middle of a line,
\* for any number of processes that append to the same events.jsonl.
THEOREM LogReadableCorrect == Spec => []LogReadable
<1>1. Init => LogKept
  BY DEF Init, LogKept
<1>2. IInv /\ LogKept /\ [Next]_vars => LogKept'
  BY NextLogKept
<1>3. LogKept => LogReadable
  BY DEF LogKept, LogReadable, Readable
<1>. QED BY <1>1, <1>2, <1>3, InvariantCorrect, PTL DEF Spec
=============================================================================
