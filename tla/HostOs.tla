------------------------------- MODULE HostOs -------------------------------
(***************************************************************************)
(* What the operating system behind Host::FileSystem does: not part of     *)
(* the library, and modelled from how the library uses it.  A call of the  *)
(* host is an operator that gives the set of its outcomes: the state `os'  *)
(* after it, what it returns (a negated errno, if negative), and whether   *)
(* it failed for a reason that lies in the media.                          *)
(*                                                                         *)
(* A name leads to a file or directory, by its number; a file that is      *)
(* removed while it is open lives on until it is closed.  The content of a *)
(* file is a sequence of blocks.                                           *)
(***************************************************************************)
EXTENDS Integers, Sequences, FiniteSets, SequencesExt, FiniteSetsExt

CONSTANTS
  Names,        \* the names of files and directories, in the order the host lists them
  Paths,        \* sequences of names, closed under prefixes; <<>> is the top
  Nodes,        \* numbers of files and directories
  Fds,          \* file descriptors
  Streams,      \* DIR pointers
  TagOrder,     \* the extended attributes in use, in the order the host lists them
  Blocks,       \* what a block may hold
  Zero,         \* the content of a block that was never written
  Absent,       \* no attribute
  MaxBlocks,    \* bounds the size of a file
  Unreliable    \* the calls of the host that may fail for reasons of the media

ASSUME HostAssumption ==
  /\ Nodes \subseteq Nat \ {0} /\ Fds \subseteq Nat /\ Streams \subseteq Nat \ {0}
  /\ MaxBlocks \in Nat /\ Zero \in Blocks
  /\ <<>> \in Paths

VARIABLE os     \* names, nodes, fds, streams

ENOENT == 2   EIO == 5       EBADF == 9    EACCES == 13   EEXIST == 17   ENOTDIR == 20
EISDIR == 21  EINVAL == 22   EMFILE == 24  EFBIG == 27   ENOSPC == 28   ERANGE == 34   ENOTEMPTY == 39
ENODATA == 61

Tags  == Range(TagOrder)
Unset == [t \in Tags |-> Absent]
Free  == [kind |-> "Free", data |-> <<>>, writable |-> TRUE, mtime |-> "Now", attrs |-> Unset]
New(kind) == [Free EXCEPT !.kind = kind]

ClosedFd == [node |-> 0, pos |-> 0, read |-> FALSE, write |-> FALSE, append |-> FALSE]
NoStream == [path |-> <<>>, dir |-> 0, left |-> <<>>]

Out(s, r) == [os |-> s, ret |-> r, fault |-> FALSE]
Faulty(s, c, e) == IF c \in Unreliable THEN {[os |-> s, ret |-> -e, fault |-> TRUE]} ELSE {}
If(c, e) == IF c THEN {e} ELSE {}

\* An outcome with the data that were read, or the name of an entry.
WithData(o, data) == [os |-> o.os, ret |-> o.ret, fault |-> o.fault, data |-> data]
WithName(o, name) == [os |-> o.os, ret |-> o.ret, fault |-> o.fault, name |-> name]

\* The outcomes of a call with the given reasons to fail, or else those of success.
Outcomes(s, errors, success) ==
  IF errors # {} THEN {Out(s, -e) : e \in errors} ELSE success

Node(s, p)   == IF p \in Paths THEN s.names[p] ELSE 0
Kind(s, p)   == IF Node(s, p) = 0 THEN "Free" ELSE s.nodes[Node(s, p)].kind
Under(p, q)  == Len(p) > Len(q) /\ SubSeq(p, 1, Len(q)) = q
Children(s, p) == {x \in Paths : Under(x, p) /\ Node(s, x) # 0}
Listing(s, p)  == SelectSeq(Names, LAMBDA n : Node(s, p \o <<n>>) # 0)

Part(data, from, to) == SubSeq(data, from, Min({to, Len(data)}))

\* Where a directory is, wherever it has moved to; nothing is in one that was removed.
Entry(s, dir, name) ==
  IF \E p \in Paths : s.names[p] = dir
  THEN Node(s, (CHOOSE p \in Paths : s.names[p] = dir) \o <<name>>) ELSE 0
Entries(s, dir) == SelectSeq(Names, LAMBDA n : Entry(s, dir, n) # 0)

\* Why a name cannot be made: there is no directory to put it in, or it is out of bounds.
NoParent(s, p) ==
  IF p = <<>> THEN {}
  ELSE If(Kind(s, Front(p)) = "Free", ENOENT) \cup If(Kind(s, Front(p)) = "File", ENOTDIR)
       \cup If(p \notin Paths, EACCES)

Spare(s) == {n \in Nodes : s.nodes[n].kind = "Free"}

\* A node that no name, descriptor or stream leads to is freed.
Reap(s) ==
  [s EXCEPT !.nodes = [n \in Nodes |->
     IF \/ \E p \in Paths : s.names[p] = n
        \/ \E d \in Fds : s.fds[d].node = n
        \/ \E d \in Streams : s.streams[d].dir = n
     THEN s.nodes[n] ELSE Free]]

Make(s, p, kind) ==
  LET n == Min(Spare(s)) IN [s EXCEPT !.names[p] = n, !.nodes[n] = New(kind)]

\* What a file holds is changed now.
Store(s, n, data) == [s EXCEPT !.nodes[n].data = data, !.nodes[n].mtime = "Now"]

OsOpen(s, p, flags) ==
  LET n      == Node(s, p)
      errors == IF n = 0
                THEN If("Create" \notin flags, ENOENT) \cup NoParent(s, p) \cup If(Spare(s) = {}, ENOSPC)
                ELSE If(s.nodes[n].kind = "Directory" /\ flags \cap {"Write", "Create", "Truncate"} # {}, EISDIR)
                     \cup If(~s.nodes[n].writable /\ flags \cap {"Write", "Truncate"} # {}, EACCES)
      spare  == {d \in Fds : s.fds[d] = ClosedFd}
      found  == IF n = 0 THEN Make(s, p, "File") ELSE s
      desc   == [node |-> Node(found, p), pos |-> 0, append |-> "Append" \in flags,
                 read |-> "Read" \in flags, write |-> "Write" \in flags]
      opened == [found EXCEPT !.fds[Min(spare)] = desc]
  IN  Outcomes(s, errors \cup If(spare = {}, EMFILE),
        Faulty(s, "open", EIO) \cup
        { Out(IF "Truncate" \in flags THEN Store(opened, Node(found, p), <<>>) ELSE opened, Min(spare)) })

Opened(s, d) == d \in Fds /\ s.fds[d] # ClosedFd

OsStat(s, p) == Outcomes(s, If(Node(s, p) = 0, ENOENT), Faulty(s, "stat", EIO) \cup {Out(s, 0)})

OsClose(s, d) ==
  IF Opened(s, d) THEN {Out(Reap([s EXCEPT !.fds[d] = ClosedFd]), 0)} ELSE {Out(s, -EBADF)}

ContentOf(s, d) == s.nodes[s.fds[d].node].data

\* The result has the blocks read, besides their number.
OsRead(s, d, size) ==
  LET errors == IF ~Opened(s, d) THEN {EBADF}
                ELSE If(~s.fds[d].read, EBADF) \cup If(s.nodes[s.fds[d].node].kind = "Directory", EISDIR)
      got    == Part(ContentOf(s, d), s.fds[d].pos + 1, s.fds[d].pos + size)
  IN  { WithData(o, <<>>) : o \in Outcomes(s, errors, Faulty(s, "read", EIO)) } \cup
      IF errors # {} THEN {} ELSE
        { WithData(Out([s EXCEPT !.fds[d].pos = @ + Len(got)], Len(got)), got) }

\* Content with data written at a position, the gap before it filled.
Overwrite(content, at, data) ==
  [i \in 1..Max({Len(content), at + Len(data)}) |->
     IF i > at /\ i <= at + Len(data) THEN data[i - at]
     ELSE IF i <= Len(content) THEN content[i] ELSE Zero]

\* Writing stops short, or fails, when the file has its greatest size; or for reasons of
\* the media.
OsWrite(s, d, data) ==
  IF ~Opened(s, d) \/ ~s.fds[d].write THEN {Out(s, -EBADF)}
  ELSE LET at   == IF s.fds[d].append THEN Len(ContentOf(s, d)) ELSE s.fds[d].pos
           room == Max({0, Min({Len(data), MaxBlocks - at})})
           less == IF "write" \in Unreliable THEN 0..room ELSE {room}
           After(n) == IF n = 0 THEN s ELSE
             Store([s EXCEPT !.fds[d].pos = at + n], s.fds[d].node, Overwrite(ContentOf(s, d), at, SubSeq(data, 1, n)))
       IN  { [os |-> After(n), ret |-> IF n = 0 /\ data # <<>> THEN -ENOSPC ELSE n, fault |-> n < room]
               : n \in less }

OsSeek(s, d, offset, origin) ==
  IF ~Opened(s, d) THEN {Out(s, -EBADF)}
  ELSE LET at == offset + CASE origin = "Start" -> 0
                            [] origin = "Current" -> s.fds[d].pos
                            [] origin = "End" -> Len(ContentOf(s, d))
       IN  IF at < 0 THEN {Out(s, -EINVAL)} ELSE {Out([s EXCEPT !.fds[d].pos = at], at)}

OsTruncate(s, d, size) ==
  IF ~Opened(s, d) THEN {Out(s, -EBADF)}
  ELSE IF ~s.fds[d].write \/ size < 0 THEN {Out(s, -EINVAL)}
  ELSE IF size > MaxBlocks THEN {Out(s, -EFBIG)}
  ELSE Faulty(s, "truncate", EIO) \cup
       {Out(Store(s, s.fds[d].node, Overwrite(Part(ContentOf(s, d), 1, size), size, <<>>)), 0)}

OsMkdir(s, p) ==
  Outcomes(s, If(Node(s, p) # 0, EEXIST) \cup NoParent(s, p) \cup If(Spare(s) = {}, ENOSPC),
           Faulty(s, "mkdir", EIO) \cup {Out(Make(s, p, "Directory"), 0)})

OsRemove(s, p) ==
  Outcomes(s, If(Node(s, p) = 0, ENOENT) \cup If(Children(s, p) # {} \/ p = <<>>, ENOTEMPTY),
           {Out(Reap([s EXCEPT !.names[p] = 0]), 0)})

OsRename(s, p, q) ==
  LET errors == If(Node(s, p) = 0, ENOENT) \cup NoParent(s, q)
                \cup If(Under(q, p) \/ p = <<>>, EINVAL)
                \cup If(\E x \in Children(s, p) : q \o SubSeq(x, Len(p) + 1, Len(x)) \notin Paths, EACCES)
                \cup (IF Node(s, q) = 0 \/ Node(s, p) = 0 \/ p = q THEN {}
                      ELSE If(Kind(s, p) = "File" /\ Kind(s, q) = "Directory", EISDIR)
                           \cup If(Kind(s, p) = "Directory" /\ Kind(s, q) = "File", ENOTDIR)
                           \cup If(Children(s, q) # {}, ENOTEMPTY))
      From(x) == p \o SubSeq(x, Len(q) + 1, Len(x))
      moved   == [x \in Paths |-> IF x = q \/ Under(x, q) THEN Node(s, From(x))
                                  ELSE IF x = p \/ Under(x, p) THEN 0 ELSE s.names[x]]
  IN  Outcomes(s, errors, {Out(IF p = q THEN s ELSE Reap([s EXCEPT !.names = moved]), 0)})

\* A directory is listed in an order that changes only when the directory does.
OsOpendir(s, p) ==
  LET spare == {d \in Streams : s.streams[d] = NoStream}
  IN  Outcomes(s, If(Node(s, p) = 0, ENOENT) \cup If(Kind(s, p) = "File", ENOTDIR) \cup If(spare = {}, EMFILE),
        Faulty(s, "opendir", EIO) \cup
        {Out([s EXCEPT !.streams[Min(spare)] = [path |-> <<>>, dir |-> Node(s, p), left |-> Listing(s, p)]],
             Min(spare))})

OsRewinddir(s, d) == [s EXCEPT !.streams[d].left = Entries(s, s.streams[d].dir)]

\* The name of an entry that was there when the stream was opened or rewound: one
\* removed since may be given still, or not.
OsReaddir(s, d) ==
  LET left == s.streams[d].left
      From(i) == WithName(Out([s EXCEPT !.streams[d].left = SubSeq(left, i + 1, Len(left))], 0), left[i])
      Gone(i) == Entry(s, s.streams[d].dir, left[i]) = 0
  IN  { From(i) : i \in {j \in 1..Len(left) : \A k \in 1..j - 1 : Gone(k)} } \cup
      (IF \A k \in 1..Len(left) : Gone(k)
       THEN {WithName(Out([s EXCEPT !.streams[d].left = <<>>], 0), "")} ELSE {}) \cup
      { WithName(o, "") : o \in Faulty(s, "readdir", EIO) }

OsClosedir(s, d) == Reap([s EXCEPT !.streams[d] = NoStream])

\* With a buffer of no size the size of an attribute is asked for.
OsGetXAttr(s, d, tag, size) ==
  IF ~Opened(s, d) THEN {Out(s, -EBADF)}
  ELSE LET a == s.nodes[s.fds[d].node].attrs[tag]
       IN  IF a = Absent THEN {Out(s, -ENODATA)}
           ELSE IF size # 0 /\ a.size > size THEN {Out(s, -ERANGE)} ELSE {Out(s, a.size)}

OsListXAttr(s, d) == SelectSeq(TagOrder, LAMBDA t : s.nodes[s.fds[d].node].attrs[t] # Absent)

OsSetXAttr(s, d, tag, attr) ==
  IF ~Opened(s, d) THEN {Out(s, -EBADF)}
  ELSE Faulty(s, "setxattr", ENOSPC) \cup {Out([s EXCEPT !.nodes[s.fds[d].node].attrs[tag] = attr], 0)}
=============================================================================
