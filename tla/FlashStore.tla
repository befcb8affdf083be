----------------------------- MODULE FlashStore -----------------------------
(***************************************************************************)
(* What the hybrid file system relies on of the writeable file system      *)
(* below it (SPIFFS or LittleFS, libraries outside this repository): how   *)
(* a file's data and the open handles change.  Data is a sequence of       *)
(* blocks of the size of open()'s copy buffer.  A handle belongs to a      *)
(* file, which it follows when the file is renamed; once the file has      *)
(* been removed all that can be done with the handle is to close it.       *)
(***************************************************************************)
EXTENDS Naturals, Sequences

CONSTANTS
  Gone,         \* in place of the path of a handle whose file was removed
  Closed        \* an entry of a handle table that is not open

Handle(path, flags) ==
  [path |-> path, pos |-> 0, append |-> "Append" \in flags, write |-> "Write" \in flags]

\* A position never lies beyond the end of the data.
Position(f, data) == IF f.append \/ f.pos > Len(data) THEN Len(data) ELSE f.pos

\* The data with a block written at a position.
Put(data, at, block) ==
  [i \in 1..(IF at < Len(data) THEN Len(data) ELSE at + 1) |->
     IF i = at + 1 THEN block ELSE data[i]]

Cut(data, n) == SubSeq(data, 1, n)

\* Every open handle of path gets another path.
Repoint(table, path, to) ==
  [h \in DOMAIN table |->
     IF table[h] # Closed /\ table[h].path = path THEN [table[h] EXCEPT !.path = to]
                                                   ELSE table[h]]

Orphan(table, path) == Repoint(table, path, Gone)

\* path is renamed: a file that had the new name is replaced.
Follow(table, path, to) ==
  IF path = to THEN table ELSE Repoint(Orphan(table, to), path, to)

OrphanAll(table) ==
  [h \in DOMAIN table |->
     IF table[h] # Closed THEN [table[h] EXCEPT !.path = Gone] ELSE Closed]
=============================================================================
