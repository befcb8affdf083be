----------------------------- MODULE FwfsImage -----------------------------
(***************************************************************************)
(* A firmware file system image as FWFS::FileSystem reads it: named        *)
(* objects (directories, files, mount points), each with a child table.    *)
(* An entry of a child table is a reference to another named object, a     *)
(* data object (a run of bytes somewhere in the partition), a volume index *)
(* or some other attribute.  A byte is identified with its address, so     *)
(* that a file's content is the sequence of the addresses of its bytes.    *)
(*                                                                         *)
(* The image never changes: everything here is constant.                   *)
(***************************************************************************)
EXTENDS Naturals, Sequences, SequencesExt

CONSTANTS
  Objects,      \* the named objects of the image
  Root,         \* the root directory object
  Image,        \* [Objects -> [type, table]]
  Names,        \* the names used in paths
  MediaSize     \* number of bytes in the partition

Types == {"Directory", "File", "MountPoint"}

Entry == [kind : {"named"}, name : Names, obj : Objects]
           \cup [kind : {"data"}, off : Nat, len : Nat]
           \cup [kind : {"volume"}, index : Nat]
           \cup [kind : {"attr"}]

ASSUME ImageAssumption ==
  /\ Root \in Objects
  /\ MediaSize \in Nat
  /\ DOMAIN Image = Objects
  /\ \A o \in Objects : /\ Image[o].type \in Types
                        /\ Image[o].table \in Seq(Entry)

Type(o)  == Image[o].type
Table(o) == Image[o].table
IsMountPoint(o) == Type(o) = "MountPoint"

(***************************************************************************)
(* A file is made up of its data objects, in child table order: "any       *)
(* number of these ... treated as a single entity".                        *)
(***************************************************************************)
\* The bytes of a run of the partition.
Bytes(off, n) == [i \in 1..n |-> off + i - 1]

DataOf(e) == IF e.kind = "data" THEN Bytes(e.off, e.len) ELSE <<>>

\* What the first n entries of the child table contribute, and how much that is.
ContentUpTo(o, n) == FlattenSeq([i \in 1..n |-> DataOf(Table(o)[i])])
SizeUpTo(o, n)    == Len(ContentUpTo(o, n))

Content(o)  == ContentUpTo(o, Len(Table(o)))
DataSize(o) == SizeUpTo(o, Len(Table(o)))

(***************************************************************************)
(* findChildObject() scans a child table for the first named entry with    *)
(* the given name; findObjectByPath() walks a path with it from the root,  *)
(* stops at a mount point and leaves the rest of the path as the tail.     *)
(***************************************************************************)
FindChild(o, name) ==
  SelectInSeq(Table(o), LAMBDA e : e.kind = "named" /\ e.name = name)

Descend(at, name) ==
  IF ~at.found THEN at
  ELSE IF IsMountPoint(at.obj) THEN [at EXCEPT !.tail = Append(@, name)]
  ELSE LET i == FindChild(at.obj, name)
       IN  IF i = 0 THEN [at EXCEPT !.found = FALSE]
                    ELSE [at EXCEPT !.obj = Table(at.obj)[i].obj]

FindObjectByPath(path) ==
  FoldLeft(Descend, [found |-> TRUE, obj |-> Root, tail |-> <<>>], path)

\* The first volume index entry of a mount point's child table, 0 if it has none.
VolumeEntry(o) == SelectInSeq(Table(o), LAMBDA e : e.kind = "volume")

\* The names of the named entries among the first n, in order.
NameOf(e)       == IF e.kind = "named" THEN <<e.name>> ELSE <<>>
NamesUpTo(o, n) == FlattenSeq([i \in 1..n |-> NameOf(Table(o)[i])])
=============================================================================
