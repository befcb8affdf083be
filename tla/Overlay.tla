------------------------------ MODULE Overlay -------------------------------
(***************************************************************************)
(* What the hybrid file system promises: one store of files, that of the   *)
(* firmware until a file is written to.  Opening a file never changes what *)
(* it holds unless truncation is asked for; only an open with Create makes *)
(* a file appear; removing a file brings the firmware's back; formatting   *)
(* brings all of it back; and a firmware file marked read-only is never    *)
(* anything but what the firmware has.  Layers, copying and the handles of *)
(* the layers are not visible here.                                        *)
(***************************************************************************)
EXTENDS FlashStore, FiniteSets

CONSTANTS
  Paths,        \* the names of files
  Fw,           \* [Paths -> what the firmware holds, or Absent]
  FwReadOnly,   \* the firmware files marked read-only
  Absent,       \* no file
  Handles,      \* handles of files that may be written
  FlagSets,     \* the combinations of open flags in use
  Block,        \* what an application writes
  MaxBlocks     \* bounds the size of a file

VARIABLES
  view,         \* what each path holds
  files         \* the open files

vars == <<view, files>>

Init ==
  /\ view = Fw
  /\ files = [h \in Handles |-> Closed]

Usable(h) == files[h] # Closed /\ files[h].path # Gone

Open(h, p, flags, at) ==
  /\ files[h] = Closed
  /\ p \notin FwReadOnly
  /\ view[p] # Absent \/ "Create" \in flags
  /\ view' = IF view[p] = Absent \/ "Truncate" \in flags THEN [view EXCEPT ![p] = <<>>]
                                                         ELSE view
  /\ files' = [files EXCEPT ![h] = [Handle(p, at.flags) EXCEPT !.pos = at.pos]]

\* Copying up may leave the position at the end of the data, and the flags of the
\* underlying handle have Write added.
OpenAny(h, p) ==
  /\ files[h] = Closed
  /\ files'[h] # Closed
  /\ \E flags \in FlagSets :
       \E at \in [flags : {flags, flags \cup {"Write"}}, pos : 0..MaxBlocks] :
         /\ at.pos > 0 => "Append" \in flags
         /\ Open(h, p, flags, at)

Close(h) ==
  /\ files[h] # Closed
  /\ files' = [files EXCEPT ![h] = Closed]
  /\ UNCHANGED view

Write(h) ==
  /\ Usable(h)
  /\ files[h].write
  /\ LET p  == files[h].path
         at == Position(files[h], view[p])
     IN  /\ view' = [view EXCEPT ![p] = Put(@, at, Block)]
         /\ files' = [files EXCEPT ![h].pos = at + 1]

\* Reading and seeking.
Move(h) ==
  /\ Usable(h)
  /\ \E n \in 0..Len(view[files[h].path]) : files' = [files EXCEPT ![h].pos = n]
  /\ UNCHANGED view

Truncate(h) ==
  /\ Usable(h)
  /\ files[h].write
  /\ \E n \in 0..Len(view[files[h].path]) :
       view' = [view EXCEPT ![files[h].path] = Cut(@, n)]
  /\ UNCHANGED files

Remove(p) ==
  /\ view' = [view EXCEPT ![p] = Fw[p]]
  /\ files' = Orphan(files, p)

Rename(p, q) ==
  /\ p \notin FwReadOnly
  /\ q \notin FwReadOnly
  /\ view[p] # Absent
  /\ view' = IF p = q THEN view ELSE [view EXCEPT ![q] = view[p], ![p] = Fw[p]]
  /\ files' = Follow(files, p, q)

Format ==
  /\ view' = Fw
  /\ files' = OrphanAll(files)

Next ==
  \/ \E h \in Handles :
       \/ \E p \in Paths : OpenAny(h, p)
       \/ Close(h)
       \/ Write(h)
       \/ Move(h)
       \/ Truncate(h)
  \/ \E p \in Paths : Remove(p) \/ \E q \in Paths : Rename(p, q)
  \/ Format

Spec == Init /\ [][Next]_vars
=============================================================================
