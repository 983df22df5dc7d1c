SPECIFICATION Spec
CONSTANTS
  Writers = {w1, w2, w3}
  Readers = {r1}
  Dirs = {d1, d2}
  MaxLines = 2
  w1 = w1
  w2 = w2
  w3 = w3
  d1 = d1
  d2 = d2
  r1 = r1
INVARIANTS
  TypeOK
  RunJsonWhole
  ReadsWhole
  RunJsonFirst
  LogReadable
PROPERTIES
  FilesSpec
  NoTmpLeft
CHECK_DEADLOCK FALSE
