--------------------------- MODULE WrappersProofs ---------------------------
(***************************************************************************)
(* Theorems about Wrappers: each descriptor that is open, and each DIR,    *)
(* has one owner, whatever fails; values have the types of the code, and   *)
(* what leads to a file leads to one that exists; and what only asks       *)
(* changes nothing.                                                        *)
(***************************************************************************)
EXTENDS Wrappers, FiniteSetTheorems, SequenceTheorems, WellFoundedInduction, TLAPS

\* A set of numbers that is not empty has a least one.
LEMMA LeastIsMember ==
  ASSUME NEW S, S \subseteq Nat, S # {}
  PROVE  Min(S) \in S
  <1>1. PICK x \in S : \A y \in S : <<y, x>> \notin OpToRel(<, Nat)
    BY NatLessThanWellFounded, WFMin, Zenon
  <1>2. x \in Nat /\ \A y \in S : y \in Nat
    OBVIOUS
  <1>3. \A y \in S : ~(y < x)
    BY <1>1, <1>2, Zenon DEF OpToRel
  <1>4. \A y \in S : x <= y
    BY <1>2, <1>3
  <1> QED
    BY <1>4 DEF Min

-----------------------------------------------------------------------------
(* What a call of the host does to descriptors and streams. *)

Desc(r) ==
  /\ r = [node |-> r.node, pos |-> r.pos, read |-> r.read, write |-> r.write, append |-> r.append]
  /\ r = ClosedFd \/ r.read \/ r.write

Stream(r) ==
  /\ r = [path |-> r.path, dir |-> r.dir, left |-> r.left]
  /\ r = NoStream \/ r.dir # 0

\* A state of the host has its descriptors and streams.
Host(s) ==
  /\ s = [names |-> s.names, nodes |-> s.nodes, fds |-> s.fds, streams |-> s.streams]
  /\ s.fds = [h \in Fds |-> s.fds[h]] /\ \A h \in Fds : Desc(s.fds[h])
  /\ s.streams = [t \in Streams |-> s.streams[t]] /\ \A t \in Streams : Stream(s.streams[t])

OpenFds(s)     == {h \in Fds : s.fds[h] # ClosedFd}
OpenStreams(s) == {t \in Streams : s.streams[t] # NoStream}

Keeps(s, t) == Host(t) /\ OpenFds(t) = OpenFds(s) /\ OpenStreams(t) = OpenStreams(s)

Opens(s, o) ==
  /\ o.ret \in Int
  /\ o.ret < 0 => Keeps(s, o.os)
  /\ o.ret >= 0 =>
       /\ o.ret \in Fds \ OpenFds(s)
       /\ Host(o.os) /\ OpenFds(o.os) = OpenFds(s) \cup {o.ret} /\ OpenStreams(o.os) = OpenStreams(s)

Closes(s, h, o) ==
  /\ Host(o.os) /\ OpenFds(o.os) = OpenFds(s) \ {h} /\ OpenStreams(o.os) = OpenStreams(s)

Result(o) == o = [os |-> o.os, ret |-> o.ret, fault |-> o.fault]

\* Names and nodes are made and freed without a change of the descriptors.
LEMMA SameHandles ==
  ASSUME NEW s, Host(s), NEW t,
         t = [names |-> t.names, nodes |-> t.nodes, fds |-> s.fds, streams |-> s.streams]
  PROVE  Keeps(s, t)
  <1>1. t.fds = s.fds /\ t.streams = s.streams
    OBVIOUS
  <1> QED
    BY <1>1 DEF Host, Keeps, OpenFds, OpenStreams

\* Freeing what nothing leads to leaves the descriptors.
LEMMA ReapKeeps ==
  ASSUME NEW s, Host(s)
  PROVE  Keeps(s, Reap(s))
  BY DEF Reap, Host, Keeps, OpenFds, OpenStreams

\* So does making a file.
LEMMA MakeKeeps ==
  ASSUME NEW s, Host(s), NEW p, NEW kind
  PROVE  Keeps(s, Make(s, p, kind))
  <1> DEFINE n == Min(Spare(s))
             t == [s EXCEPT !.names[p] = n]
  <1>1. t = [names |-> t.names, nodes |-> t.nodes, fds |-> s.fds, streams |-> s.streams]
    BY DEF Host
  <1>2. Keeps(s, t)
    BY <1>1, SameHandles
  <1>3. Make(s, p, kind) = [t EXCEPT !.nodes[n] = New(kind)]
    BY DEF Make
  <1> HIDE DEF t, n
  <1>4. Keeps(t, [t EXCEPT !.nodes[n] = New(kind)])
    BY <1>2 DEF Host, Keeps, OpenFds, OpenStreams
  <1> QED
    BY <1>2, <1>3, <1>4 DEF Keeps

\* What a file holds, and its attributes, change without a change of the descriptors.
LEMMA DataKeeps ==
  ASSUME NEW s, Host(s), NEW n, NEW data, NEW x, NEW tag
  PROVE  /\ Keeps(s, [s EXCEPT !.nodes[n].mtime = x])
         /\ Keeps(s, [s EXCEPT !.nodes[n].writable = x])
         /\ Keeps(s, [s EXCEPT !.nodes[n].attrs[tag] = x])
         /\ Keeps(s, Store(s, n, data))
  <1>1. ASSUME NEW t, Host(t), NEW nodes
        PROVE  Keeps(t, [t EXCEPT !.nodes = nodes])
    <2> DEFINE a == [t EXCEPT !.nodes = nodes]
    <2>1. a = [names |-> t.names, nodes |-> nodes, fds |-> t.fds, streams |-> t.streams]
      BY <1>1 DEF Host
    <2> HIDE DEF a
    <2>2. Keeps(t, a)
      BY <1>1, <2>1, SameHandles
    <2> QED
      BY <2>2 DEF a
  <1> DEFINE d == [s EXCEPT !.nodes[n].data = data]
  <1>2. Keeps(s, d)
    BY <1>1
  <1>3. Store(s, n, data) = [d EXCEPT !.nodes[n].mtime = "Now"]
    BY DEF Store
  <1> HIDE DEF d
  <1>4. Keeps(d, [d EXCEPT !.nodes[n].mtime = "Now"])
    BY <1>1, <1>2 DEF Keeps
  <1>5. Keeps(s, Store(s, n, data))
    BY <1>2, <1>3, <1>4 DEF Keeps
  <1>6. /\ Keeps(s, [s EXCEPT !.nodes[n].mtime = x])
        /\ Keeps(s, [s EXCEPT !.nodes[n].writable = x])
        /\ Keeps(s, [s EXCEPT !.nodes[n].attrs[tag] = x])
    BY <1>1
  <1> QED
    BY <1>5, <1>6

\* An open descriptor stays open wherever its cursor goes.
LEMMA CursorKeeps ==
  ASSUME NEW s, Host(s), NEW d, Opened(s, d), NEW pos
  PROVE  Keeps(s, [s EXCEPT !.fds[d].pos = pos])
  <1> DEFINE t == [s EXCEPT !.fds[d].pos = pos]
             r == [s.fds[d] EXCEPT !.pos = pos]
  <1>1. d \in Fds /\ Desc(s.fds[d]) /\ s.fds[d] # ClosedFd
    BY DEF Opened, Host
  <1>2. Desc(r) /\ r # ClosedFd
    BY <1>1 DEF Desc, ClosedFd
  <1>3. t = [names |-> s.names, nodes |-> s.nodes, fds |-> [s.fds EXCEPT ![d] = r], streams |-> s.streams]
    BY DEF Host
  <1> HIDE DEF t, r
  <1>4. /\ t.fds = [s.fds EXCEPT ![d] = r] /\ t.streams = s.streams
        /\ t = [names |-> t.names, nodes |-> t.nodes, fds |-> t.fds, streams |-> t.streams]
    BY <1>3
  <1>5. Host(t)
    BY <1>1, <1>2, <1>4 DEF Host
  <1>6. OpenFds(t) = OpenFds(s) /\ OpenStreams(t) = OpenStreams(s)
    BY <1>1, <1>2, <1>4 DEF OpenFds, OpenStreams, Host
  <1> QED
    BY <1>5, <1>6 DEF Keeps, t

Kept(s, o) == Result(o) /\ Keeps(s, o.os)

\* A state stays as it is.
LEMMA SameKeeps ==
  ASSUME NEW s, Host(s)
  PROVE  Keeps(s, s)
  BY DEF Keeps

\* The reasons for a call to fail are errnos, and a call that fails changes nothing.
LEMMA OutcomeCases ==
  ASSUME NEW s, NEW errors, errors \subseteq Nat \ {0}, NEW success, NEW o \in Outcomes(s, errors, success)
  PROVE  \/ Result(o) /\ o.ret \in Int /\ o.ret < 0 /\ o.os = s
         \/ errors = {} /\ o \in success
  <1>1. ASSUME NEW e \in errors, o = Out(s, -e)
        PROVE  Result(o) /\ o.ret \in Int /\ o.ret < 0 /\ o.os = s
    <2>1. e \in Nat /\ e # 0
      OBVIOUS
    <2>2. o = [os |-> s, ret |-> -e, fault |-> FALSE]
      BY <1>1 DEF Out
    <2>3. o.ret = -e /\ o.os = s /\ Result(o)
      BY <2>2 DEF Result
    <2> QED
      BY <2>1, <2>3
  <1> QED
    BY <1>1 DEF Outcomes

\* So does one that fails for reasons of the media.
LEMMA FaultyOutcomes ==
  ASSUME NEW s, Host(s), NEW c, NEW e \in Nat \ {0}, NEW o \in Faulty(s, c, e)
  PROVE  Result(o) /\ o.ret \in Int /\ o.ret < 0 /\ o.os = s
  <1>1. o = [os |-> s, ret |-> -e, fault |-> TRUE]
    BY DEF Faulty
  <1>2. o.ret = -e /\ o.os = s /\ Result(o)
    BY <1>1 DEF Result
  <1> QED
    BY <1>2

\* An outcome is a record.
LEMMA OutIsResult ==
  ASSUME NEW s, NEW r
  PROVE  Result(Out(s, r)) /\ Out(s, r).os = s /\ Out(s, r).ret = r
  BY DEF Result, Out

\* The reasons for a name not to be made are errnos.
LEMMA NoParentErrors ==
  ASSUME NEW s, NEW p
  PROVE  NoParent(s, p) \subseteq Nat \ {0}
  BY DEF NoParent, If, ENOENT, ENOTDIR, EACCES

\* A descriptor is taken that was not in use.
LEMMA DescriptorTaken ==
  ASSUME NEW s, Host(s), NEW h \in Fds, s.fds[h] = ClosedFd, NEW r, Desc(r), r # ClosedFd
  PROVE  LET t == [s EXCEPT !.fds[h] = r]
         IN  Host(t) /\ OpenFds(t) = OpenFds(s) \cup {h} /\ OpenStreams(t) = OpenStreams(s)
  <1> DEFINE t == [s EXCEPT !.fds[h] = r]
  <1>1. t = [names |-> s.names, nodes |-> s.nodes, fds |-> [s.fds EXCEPT ![h] = r], streams |-> s.streams]
    BY DEF Host
  <1> HIDE DEF t
  <1>2. Host(t) /\ OpenFds(t) = OpenFds(s) \cup {h} /\ OpenStreams(t) = OpenStreams(s)
    BY <1>1 DEF Host, OpenFds, OpenStreams
  <1> QED
    BY <1>2 DEF t

\* open() gives a descriptor that was not in use, if any.
LEMMA OpenOutcomes ==
  ASSUME NEW s, Host(s), NEW p, NEW flags, "Read" \in flags \/ "Write" \in flags,
         NEW o \in OsOpen(s, p, flags)
  PROVE  Result(o) /\ Opens(s, o)
  <1> DEFINE n == Node(s, p)
             errors == IF n = 0
                THEN If("Create" \notin flags, ENOENT) \cup NoParent(s, p) \cup If(Spare(s) = {}, ENOSPC)
                ELSE If(s.nodes[n].kind = "Directory" /\ flags \cap {"Write", "Create", "Truncate"} # {}, EISDIR)
                     \cup If(~s.nodes[n].writable /\ flags \cap {"Write", "Truncate"} # {}, EACCES)
             spare  == {d \in Fds : s.fds[d] = ClosedFd}
             all    == errors \cup If(spare = {}, EMFILE)
             found  == IF n = 0 THEN Make(s, p, "File") ELSE s
             h      == Min(spare)
             m      == Node(found, p)
             desc   == [node |-> m, pos |-> 0, append |-> "Append" \in flags,
                        read |-> "Read" \in flags, write |-> "Write" \in flags]
             opened == [found EXCEPT !.fds[h] = desc]
             after  == IF "Truncate" \in flags THEN Store(opened, m, <<>>) ELSE opened
             success == Faulty(s, "open", EIO) \cup {Out(after, h)}
  <1>1. o \in Outcomes(s, all, success)
    BY DEF OsOpen
  <1>2. all \subseteq Nat \ {0}
    BY NoParentErrors DEF If, ENOENT, ENOSPC, EISDIR, EACCES, EMFILE
  <1>3. \/ Result(o) /\ o.ret \in Int /\ o.ret < 0 /\ o.os = s
        \/ all = {} /\ o \in success
    <2> HIDE DEF all, success
    <2> QED
      BY <1>1, <1>2, OutcomeCases
  <1>4. CASE Result(o) /\ o.ret \in Int /\ o.ret < 0 /\ o.os = s
    BY <1>4, SameKeeps DEF Opens
  <1>5. CASE o \in Faulty(s, "open", EIO)
    <2>1. Result(o) /\ o.ret \in Int /\ o.ret < 0 /\ o.os = s
      BY <1>5, FaultyOutcomes DEF EIO
    <2> QED
      BY <2>1, SameKeeps DEF Opens
  <1>6. ASSUME o = Out(after, h), all = {}
        PROVE  Result(o) /\ Opens(s, o)
    <2>1. spare # {} /\ spare \subseteq Nat
      BY <1>6, HostAssumption DEF If
    <2>2. h \in spare
      BY <2>1, LeastIsMember
    <2>3. Keeps(s, found)
      BY MakeKeeps, SameKeeps
    <2>4. Desc(desc) /\ desc # ClosedFd
      BY DEF Desc, ClosedFd
    <2>6. h \in Fds /\ h \notin OpenFds(s) /\ h \in Int /\ h >= 0
      BY <2>1, <2>2 DEF OpenFds
    <2> HIDE DEF found, desc, m, h
    <2>7. found.fds[h] = ClosedFd /\ Host(found)
      BY <2>3, <2>6 DEF Keeps, OpenFds
    <2>8. Host(opened) /\ OpenFds(opened) = OpenFds(found) \cup {h} /\ OpenStreams(opened) = OpenStreams(found)
      BY <2>4, <2>6, <2>7, DescriptorTaken
    <2> HIDE DEF opened
    <2>9. Keeps(opened, after)
      BY <2>8, DataKeeps, SameKeeps
    <2> HIDE DEF after
    <2>11. Result(o) /\ o.os = after /\ o.ret = h
      BY <1>6, OutIsResult
    <2>12. Host(after) /\ OpenFds(after) = OpenFds(s) \cup {h} /\ OpenStreams(after) = OpenStreams(s)
      BY <2>3, <2>8, <2>9 DEF Keeps
    <2> QED
      BY <2>6, <2>11, <2>12 DEF Opens
  <1> QED
    <2> HIDE DEF all, after, h
    <2> QED
      BY <1>3, <1>4, <1>5, <1>6

\* A call with outcomes that keep the descriptors if it succeeds keeps them.
LEMMA OutcomesKeep ==
  ASSUME NEW s, Host(s), NEW errors, errors \subseteq Nat \ {0}, NEW success,
         NEW o \in Outcomes(s, errors, success), o \in success => Kept(s, o)
  PROVE  Kept(s, o)
  BY OutcomeCases, SameKeeps DEF Kept

\* A failure of the media keeps them.
LEMMA FaultyKeeps ==
  ASSUME NEW s, Host(s), NEW c, NEW e \in Nat \ {0}, NEW o \in Faulty(s, c, e)
  PROVE  Kept(s, o)
  BY FaultyOutcomes, SameKeeps DEF Kept

\* stat() changes nothing.
LEMMA StatOutcomes ==
  ASSUME NEW s, Host(s), NEW p, NEW o \in OsStat(s, p)
  PROVE  Kept(s, o)
  <1> DEFINE errors == If(Node(s, p) = 0, ENOENT)
             success == Faulty(s, "stat", EIO) \cup {Out(s, 0)}
  <1>1. errors \subseteq Nat \ {0} /\ EIO \in Nat \ {0}
    BY DEF If, ENOENT, EIO
  <1>2. o \in success => Kept(s, o)
    BY <1>1, FaultyKeeps, OutIsResult, SameKeeps DEF Kept
  <1>3. o \in Outcomes(s, errors, success)
    BY DEF OsStat
  <1> HIDE DEF errors, success
  <1> QED
    BY <1>1, <1>2, <1>3, OutcomesKeep

\* close() closes the descriptor, if it is one.
LEMMA CloseOutcomes ==
  ASSUME NEW s, Host(s), NEW d, NEW o \in OsClose(s, d)
  PROVE  Result(o) /\ o.ret \in Int /\ Closes(s, d, o)
  <1>1. CASE Opened(s, d)
    <2> DEFINE t == [s EXCEPT !.fds[d] = ClosedFd]
    <2>1. t = [names |-> s.names, nodes |-> s.nodes, fds |-> [s.fds EXCEPT ![d] = ClosedFd],
               streams |-> s.streams]
      BY DEF Host
    <2>2. o = Out(Reap(t), 0)
      BY <1>1 DEF OsClose
    <2> HIDE DEF t
    <2>3. Desc(ClosedFd)
      BY DEF Desc, ClosedFd
    <2>4. Host(t) /\ OpenFds(t) = OpenFds(s) \ {d} /\ OpenStreams(t) = OpenStreams(s)
      BY <1>1, <2>1, <2>3 DEF Host, OpenFds, OpenStreams, Opened
    <2>5. Keeps(t, Reap(t))
      BY <2>4, ReapKeeps
    <2> QED
      BY <2>2, <2>4, <2>5, OutIsResult DEF Closes, Keeps
  <1>2. CASE ~Opened(s, d)
    <2>1. o = Out(s, -EBADF)
      BY <1>2 DEF OsClose
    <2>2. OpenFds(s) = OpenFds(s) \ {d}
      BY <1>2 DEF OpenFds, Opened
    <2>3. -EBADF \in Int
      BY DEF EBADF
    <2> QED
      BY <2>1, <2>2, <2>3, OutIsResult DEF Closes
  <1> QED
    BY <1>1, <1>2

\* read() moves the cursor of its descriptor.
LEMMA ReadOutcomes ==
  ASSUME NEW s, Host(s), NEW d, NEW size, NEW o \in OsRead(s, d, size)
  PROVE  o = WithData(o, o.data) /\ Keeps(s, o.os)
  <1> DEFINE errors == IF ~Opened(s, d) THEN {EBADF}
                       ELSE If(~s.fds[d].read, EBADF) \cup If(s.nodes[s.fds[d].node].kind = "Directory", EISDIR)
             success == Faulty(s, "read", EIO)
             got   == Part(ContentOf(s, d), s.fds[d].pos + 1, s.fds[d].pos + size)
             after == [s EXCEPT !.fds[d].pos = @ + Len(got)]
  <1>1. \/ \E x \in Outcomes(s, errors, success) : o = WithData(x, <<>>)
        \/ errors = {} /\ o = WithData(Out(after, Len(got)), got)
    BY DEF OsRead
  <1>2. errors \subseteq Nat \ {0} /\ EIO \in Nat \ {0}
    BY DEF If, EBADF, EISDIR, EIO
  <1>3. ASSUME NEW x \in Outcomes(s, errors, success), o = WithData(x, <<>>)
        PROVE  o = WithData(o, o.data) /\ Keeps(s, o.os)
    <2>1. x \in success => Kept(s, x)
      BY <1>2, FaultyKeeps
    <2> HIDE DEF errors, success
    <2>2. Kept(s, x)
      BY <1>2, <1>3, <2>1, OutcomesKeep
    <2> QED
      BY <1>3, <2>2 DEF Kept, WithData
  <1>4. ASSUME errors = {}, o = WithData(Out(after, Len(got)), got)
        PROVE  o = WithData(o, o.data) /\ Keeps(s, o.os)
    <2>1. Opened(s, d)
      BY <1>4
    <2>2. Keeps(s, after)
      BY <2>1, CursorKeeps
    <2> HIDE DEF after, got
    <2> QED
      BY <1>4, <2>2, OutIsResult DEF WithData
  <1> QED
    BY <1>1, <1>3, <1>4

\* write() moves it, and changes its file.
LEMMA WriteOutcomes ==
  ASSUME NEW s, Host(s), NEW d, NEW data, NEW o \in OsWrite(s, d, data)
  PROVE  Kept(s, o)
  <1>1. CASE o = Out(s, -EBADF)
    BY <1>1, OutIsResult, SameKeeps DEF Kept
  <1>2. CASE Opened(s, d) /\ s.fds[d].write
    <2> DEFINE at   == IF s.fds[d].append THEN Len(ContentOf(s, d)) ELSE s.fds[d].pos
               room == Max({0, Min({Len(data), MaxBlocks - at})})
               less == IF "write" \in Unreliable THEN 0..room ELSE {room}
               Moved(n) == [s EXCEPT !.fds[d].pos = at + n]
               After(n) == IF n = 0 THEN s ELSE
                 Store(Moved(n), s.fds[d].node, Overwrite(ContentOf(s, d), at, SubSeq(data, 1, n)))
    <2>1. PICK n \in less : o = [os |-> After(n), ret |-> IF n = 0 /\ data # <<>> THEN -ENOSPC ELSE n,
                                 fault |-> n < room]
      BY <1>2 DEF OsWrite
    <2>2. o.os = After(n) /\ Result(o)
      BY <2>1 DEF Result
    <2>3. Keeps(s, Moved(n))
      BY <1>2, CursorKeeps
    <2>4. Keeps(s, After(n))
      <3> HIDE DEF Moved, at
      <3>0. Host(Moved(n))
        BY <2>3 DEF Keeps
      <3>1. Keeps(Moved(n), Store(Moved(n), s.fds[d].node, Overwrite(ContentOf(s, d), at, SubSeq(data, 1, n))))
        BY <3>0, DataKeeps
      <3> QED
        BY <2>3, <3>1, SameKeeps DEF Keeps
    <2> QED
      BY <2>2, <2>4 DEF Kept
  <1> QED
    BY <1>1, <1>2 DEF OsWrite

\* lseek() moves the cursor.
LEMMA SeekOutcomes ==
  ASSUME NEW s, Host(s), NEW d, NEW offset, NEW origin, NEW o \in OsSeek(s, d, offset, origin)
  PROVE  Kept(s, o)
  <1>1. CASE ~Opened(s, d)
    BY <1>1, OutIsResult, SameKeeps DEF Kept, OsSeek
  <1>2. CASE Opened(s, d)
    <2> DEFINE at == offset + CASE origin = "Start" -> 0
                                [] origin = "Current" -> s.fds[d].pos
                                [] origin = "End" -> Len(ContentOf(s, d))
    <2>1. o = Out(s, -EINVAL) \/ o = Out([s EXCEPT !.fds[d].pos = at], at)
      BY <1>2 DEF OsSeek
    <2> HIDE DEF at
    <2>2. Keeps(s, s) /\ Keeps(s, [s EXCEPT !.fds[d].pos = at])
      BY <1>2, SameKeeps, CursorKeeps
    <2> QED
      BY <2>1, <2>2, OutIsResult DEF Kept
  <1> QED
    BY <1>1, <1>2

\* ftruncate() changes the file.
LEMMA TruncateOutcomes ==
  ASSUME NEW s, Host(s), NEW d, NEW size, NEW o \in OsTruncate(s, d, size)
  PROVE  Kept(s, o)
  <1> DEFINE after == Store(s, s.fds[d].node, Overwrite(Part(ContentOf(s, d), 1, size), size, <<>>))
  <1>1. \/ o = Out(s, -EBADF) \/ o = Out(s, -EINVAL) \/ o = Out(s, -EFBIG) \/ o = Out(after, 0)
        \/ o \in Faulty(s, "truncate", EIO)
    BY DEF OsTruncate
  <1>2. Keeps(s, after)
    BY DataKeeps
  <1> HIDE DEF after
  <1>3. Kept(s, Out(s, -EBADF)) /\ Kept(s, Out(s, -EINVAL)) /\ Kept(s, Out(s, -EFBIG)) /\ Kept(s, Out(after, 0))
    BY <1>2, OutIsResult, SameKeeps DEF Kept
  <1>4. o \in Faulty(s, "truncate", EIO) => Kept(s, o)
    BY FaultyKeeps DEF EIO
  <1> QED
    BY <1>1, <1>3, <1>4

\* mkdir() makes a name.
LEMMA MkdirOutcomes ==
  ASSUME NEW s, Host(s), NEW p, NEW o \in OsMkdir(s, p)
  PROVE  Kept(s, o)
  <1> DEFINE errors  == If(Node(s, p) # 0, EEXIST) \cup NoParent(s, p) \cup If(Spare(s) = {}, ENOSPC)
             success == Faulty(s, "mkdir", EIO) \cup {Out(Make(s, p, "Directory"), 0)}
  <1>1. errors \subseteq Nat \ {0} /\ EIO \in Nat \ {0}
    BY NoParentErrors DEF If, EEXIST, ENOSPC, EIO
  <1>2. o \in Outcomes(s, errors, success)
    BY DEF OsMkdir
  <1>3. o \in success => Kept(s, o)
    BY <1>1, FaultyKeeps, OutIsResult, MakeKeeps DEF Kept
  <1> HIDE DEF errors, success
  <1> QED
    BY <1>1, <1>2, <1>3, OutcomesKeep

\* A change of the names, and what it frees, leaves the descriptors.
LEMMA RenamesKeep ==
  ASSUME NEW s, Host(s), NEW names
  PROVE  Keeps(s, Reap([s EXCEPT !.names = names]))
  <1> DEFINE t == [s EXCEPT !.names = names]
  <1>1. t = [names |-> names, nodes |-> s.nodes, fds |-> s.fds, streams |-> s.streams]
    BY DEF Host
  <1> HIDE DEF t
  <1>2. Keeps(s, t)
    BY <1>1, SameHandles
  <1>3. Keeps(t, Reap(t))
    BY <1>2, ReapKeeps DEF Keeps
  <1>4. Keeps(s, Reap(t))
    BY <1>2, <1>3 DEF Keeps
  <1> QED
    BY <1>4 DEF t

\* remove() and rename() change names.
LEMMA RemoveOutcomes ==
  ASSUME NEW s, Host(s), NEW p, NEW o \in OsRemove(s, p)
  PROVE  Kept(s, o)
  <1> DEFINE errors  == If(Node(s, p) = 0, ENOENT) \cup If(Children(s, p) # {} \/ p = <<>>, ENOTEMPTY)
             after   == Reap([s EXCEPT !.names[p] = 0])
             success == {Out(after, 0)}
  <1>1. errors \subseteq Nat \ {0}
    BY DEF If, ENOENT, ENOTEMPTY
  <1>2. o \in Outcomes(s, errors, success)
    BY DEF OsRemove
  <1>3. Keeps(s, after)
    BY RenamesKeep
  <1> HIDE DEF after
  <1>4. o \in success => Kept(s, o)
    BY <1>3, OutIsResult DEF Kept
  <1> HIDE DEF errors, success
  <1> QED
    BY <1>1, <1>2, <1>4, OutcomesKeep

\* rename() keeps descriptors, also if it takes the place of a file.
LEMMA RenameOutcomes ==
  ASSUME NEW s, Host(s), NEW p, NEW q, NEW o \in OsRename(s, p, q)
  PROVE  Kept(s, o)
  <1> DEFINE errors == If(Node(s, p) = 0, ENOENT) \cup NoParent(s, q)
                \cup If(Under(q, p) \/ p = <<>>, EINVAL)
                \cup If(\E x \in Children(s, p) : q \o SubSeq(x, Len(p) + 1, Len(x)) \notin Paths, EACCES)
                \cup (IF Node(s, q) = 0 \/ Node(s, p) = 0 \/ p = q THEN {}
                      ELSE If(Kind(s, p) = "File" /\ Kind(s, q) = "Directory", EISDIR)
                           \cup If(Kind(s, p) = "Directory" /\ Kind(s, q) = "File", ENOTDIR)
                           \cup If(Children(s, q) # {}, ENOTEMPTY))
             From(x) == p \o SubSeq(x, Len(q) + 1, Len(x))
             moved   == [x \in Paths |-> IF x = q \/ Under(x, q) THEN Node(s, From(x))
                                         ELSE IF x = p \/ Under(x, p) THEN 0 ELSE s.names[x]]
             after   == IF p = q THEN s ELSE Reap([s EXCEPT !.names = moved])
             success == {Out(after, 0)}
  <1>1. errors \subseteq Nat \ {0}
    BY NoParentErrors DEF If, ENOENT, ENOTEMPTY, EINVAL, EACCES, EISDIR, ENOTDIR
  <1>2. o \in Outcomes(s, errors, success)
    BY DEF OsRename
  <1> HIDE DEF moved, errors
  <1>3. Keeps(s, after)
    BY RenamesKeep, SameKeeps
  <1> HIDE DEF after
  <1>4. o \in success => Kept(s, o)
    BY <1>3, OutIsResult DEF Kept
  <1> HIDE DEF success
  <1> QED
    BY <1>1, <1>2, <1>4, OutcomesKeep

-----------------------------------------------------------------------------
(* Streams. *)

GivesStream(s, o) ==
  /\ o.ret \in Int
  /\ o.ret <= 0 => o.ret < 0 /\ Keeps(s, o.os)
  /\ o.ret > 0 =>
       /\ o.ret \in Streams \ OpenStreams(s)
       /\ Host(o.os) /\ OpenFds(o.os) = OpenFds(s) /\ OpenStreams(o.os) = OpenStreams(s) \cup {o.ret}

EndsStream(s, d, t) ==
  /\ Host(t) /\ OpenFds(t) = OpenFds(s) /\ OpenStreams(t) = OpenStreams(s) \ {d}

\* A stream is replaced by another.
LEMMA StreamReplaced ==
  ASSUME NEW s, Host(s), NEW d, NEW r, d \in Streams => Stream(r)
  PROVE  LET t == [s EXCEPT !.streams[d] = r]
         IN  /\ Host(t) /\ OpenFds(t) = OpenFds(s)
             /\ OpenStreams(t) = IF d \notin Streams THEN OpenStreams(s)
                                 ELSE IF r = NoStream THEN OpenStreams(s) \ {d} ELSE OpenStreams(s) \cup {d}
             /\ t.streams = [s.streams EXCEPT ![d] = r]
  <1> DEFINE t == [s EXCEPT !.streams[d] = r]
  <1>1. t = [names |-> s.names, nodes |-> s.nodes, fds |-> s.fds, streams |-> [s.streams EXCEPT ![d] = r]]
    BY DEF Host
  <1> HIDE DEF t
  <1>2. t.streams = [s.streams EXCEPT ![d] = r] /\ t.fds = s.fds
    BY <1>1
  <1>3. Host(t)
    BY <1>1, <1>2 DEF Host
  <1>4. OpenFds(t) = OpenFds(s)
    BY <1>2 DEF OpenFds
  <1>5. OpenStreams(t) = IF d \notin Streams THEN OpenStreams(s)
                         ELSE IF r = NoStream THEN OpenStreams(s) \ {d} ELSE OpenStreams(s) \cup {d}
    BY <1>2 DEF OpenStreams, Host
  <1> QED
    BY <1>2, <1>3, <1>4, <1>5 DEF t

\* What a stream has left changes without a change of which are in use.
LEMMA LeftKeeps ==
  ASSUME NEW s, Host(s), NEW d, NEW left, d \in OpenStreams(s) \/ left = <<>> \/ d \notin Streams
  PROVE  Keeps(s, [s EXCEPT !.streams[d].left = left])
  <1> DEFINE r == [s.streams[d] EXCEPT !.left = left]
  <1>1. ASSUME d \in Streams
        PROVE  Stream(r) /\ (r = NoStream <=> s.streams[d] = NoStream)
    <2>1. Stream(s.streams[d])
      BY <1>1 DEF Host
    <2>2. CASE s.streams[d] = NoStream
      <3>1. left = <<>>
        BY <1>1, <2>2 DEF OpenStreams
      <3>2. r = NoStream
        BY <3>1, <2>2 DEF NoStream
      <3> QED
        BY <2>2, <2>1, <3>2
    <2>3. CASE s.streams[d] # NoStream
      <3>1. s.streams[d].dir # 0
        BY <2>1, <2>3 DEF Stream
      <3>2. r = [path |-> s.streams[d].path, dir |-> s.streams[d].dir, left |-> left]
        BY <2>1 DEF Stream
      <3> QED
        BY <2>3, <3>1, <3>2 DEF Stream, NoStream
    <2> QED
      BY <2>2, <2>3
  <1> DEFINE t == [s EXCEPT !.streams[d] = r]
  <1>2. t = [s EXCEPT !.streams[d].left = left]
    OBVIOUS
  <1> HIDE DEF r
  <1>3. /\ Host(t) /\ OpenFds(t) = OpenFds(s)
        /\ OpenStreams(t) = IF d \notin Streams THEN OpenStreams(s)
                            ELSE IF r = NoStream THEN OpenStreams(s) \ {d} ELSE OpenStreams(s) \cup {d}
    BY <1>1, StreamReplaced
  <1> HIDE DEF t
  <1>4. OpenStreams(t) = OpenStreams(s)
    BY <1>1, <1>3 DEF OpenStreams
  <1> QED
    BY <1>2, <1>3, <1>4 DEF Keeps

\* The path that goes with a stream is set.
LEMMA PathKeeps ==
  ASSUME NEW s, Host(s), NEW d \in OpenStreams(s), NEW path
  PROVE  Keeps(s, [s EXCEPT !.streams[d].path = path])
  <1> DEFINE r == [s.streams[d] EXCEPT !.path = path]
             t == [s EXCEPT !.streams[d] = r]
  <1>1. d \in Streams /\ Stream(s.streams[d]) /\ s.streams[d] # NoStream
    BY DEF Host, OpenStreams
  <1>2. s.streams[d].dir # 0
    BY <1>1 DEF Stream
  <1>3. r = [path |-> path, dir |-> s.streams[d].dir, left |-> s.streams[d].left]
    BY <1>1 DEF Stream
  <1>4. t = [s EXCEPT !.streams[d].path = path]
    OBVIOUS
  <1> HIDE DEF r
  <1>5. Stream(r) /\ r # NoStream
    BY <1>2, <1>3 DEF Stream, NoStream
  <1>6. Host(t) /\ OpenFds(t) = OpenFds(s) /\ OpenStreams(t) = OpenStreams(s) \cup {d}
    BY ZenonT(30), <1>1, <1>5, StreamReplaced
  <1> HIDE DEF t
  <1> QED
    BY <1>4, <1>6 DEF Keeps

\* rewinddir() keeps the streams.
LEMMA RewindKeeps ==
  ASSUME NEW s, Host(s), NEW d, d \in OpenStreams(s) \/ d \notin Streams
  PROVE  Keeps(s, OsRewinddir(s, d))
  BY LeftKeeps DEF OsRewinddir

\* readdir() gives a name, and keeps the streams that are in use.
LEMMA ReaddirOutcomes ==
  ASSUME NEW s, Host(s), NEW d, NEW o \in OsReaddir(s, d)
  PROVE  o = WithName(o, o.name) /\ Keeps(s, o.os)
  <1> DEFINE left == s.streams[d].left
             Left(x) == [s EXCEPT !.streams[d].left = x]
  <1>1. \/ \E i \in 1..Len(left) : o = WithName(Out(Left(SubSeq(left, i + 1, Len(left))), 0), left[i])
        \/ o = WithName(Out(Left(<<>>), 0), "")
        \/ \E x \in Faulty(s, "readdir", EIO) : o = WithName(x, "")
    BY DEF OsReaddir
  <1>2. ASSUME NEW i \in 1..Len(left), o = WithName(Out(Left(SubSeq(left, i + 1, Len(left))), 0), left[i])
        PROVE  o = WithName(o, o.name) /\ Keeps(s, o.os)
    <2>1. d \in Streams => s.streams[d] # NoStream
      BY <1>2 DEF NoStream
    <2>2. Keeps(s, Left(SubSeq(left, i + 1, Len(left))))
      BY <2>1, LeftKeeps DEF OpenStreams
    <2> HIDE DEF Left, left
    <2> QED
      BY <1>2, <2>2, OutIsResult DEF WithName
  <1>3. ASSUME o = WithName(Out(Left(<<>>), 0), "")
        PROVE  o = WithName(o, o.name) /\ Keeps(s, o.os)
    <2>1. Keeps(s, Left(<<>>))
      BY LeftKeeps
    <2> HIDE DEF Left
    <2> QED
      BY <1>3, <2>1, OutIsResult DEF WithName
  <1>4. ASSUME NEW x \in Faulty(s, "readdir", EIO), o = WithName(x, "")
        PROVE  o = WithName(o, o.name) /\ Keeps(s, o.os)
    <2>1. EIO \in Nat \ {0}
      BY DEF EIO
    <2>2. Kept(s, x)
      BY <2>1, FaultyKeeps
    <2> QED
      BY <1>4, <2>2 DEF WithName, Kept
  <1> QED
    BY <1>1, <1>2, <1>3, <1>4

\* closedir() ends the stream.
LEMMA ClosedirEnds ==
  ASSUME NEW s, Host(s), NEW d
  PROVE  EndsStream(s, d, OsClosedir(s, d))
  <1> DEFINE t == [s EXCEPT !.streams[d] = NoStream]
  <1>1. Stream(NoStream)
    BY DEF Stream, NoStream
  <1>2. Host(t) /\ OpenFds(t) = OpenFds(s) /\ OpenStreams(t) = OpenStreams(s) \ {d}
    BY <1>1, StreamReplaced DEF OpenStreams
  <1>3. OsClosedir(s, d) = Reap(t)
    BY DEF OsClosedir
  <1> HIDE DEF t
  <1>4. Keeps(t, Reap(t))
    BY <1>2, ReapKeeps
  <1> QED
    BY <1>2, <1>3, <1>4 DEF EndsStream, Keeps

\* opendir() gives a stream that was not in use, if any.
LEMMA OpendirOutcomes ==
  ASSUME NEW s, Host(s), NEW p, NEW o \in OsOpendir(s, p)
  PROVE  Result(o) /\ GivesStream(s, o)
  <1> DEFINE spare   == {d \in Streams : s.streams[d] = NoStream}
             errors  == If(Node(s, p) = 0, ENOENT) \cup If(Kind(s, p) = "File", ENOTDIR) \cup If(spare = {}, EMFILE)
             d       == Min(spare)
             r       == [path |-> <<>>, dir |-> Node(s, p), left |-> Listing(s, p)]
             after   == [s EXCEPT !.streams[d] = r]
             success == Faulty(s, "opendir", EIO) \cup {Out(after, d)}
  <1>1. o \in Outcomes(s, errors, success)
    BY DEF OsOpendir
  <1>2. errors \subseteq Nat \ {0} /\ EIO \in Nat \ {0}
    BY DEF If, ENOENT, ENOTDIR, EMFILE, EIO
  <1>3. \/ Result(o) /\ o.ret \in Int /\ o.ret < 0 /\ o.os = s
        \/ errors = {} /\ o \in success
    <2> HIDE DEF errors, success
    <2> QED
      BY <1>1, <1>2, OutcomeCases
  <1>4. CASE Result(o) /\ o.ret \in Int /\ o.ret < 0 /\ o.os = s
    BY <1>4, SameKeeps DEF GivesStream
  <1>5. CASE o \in Faulty(s, "opendir", EIO)
    <2>1. Result(o) /\ o.ret \in Int /\ o.ret < 0 /\ o.os = s
      BY <1>2, <1>5, FaultyOutcomes
    <2> QED
      BY <2>1, SameKeeps DEF GivesStream
  <1>6. ASSUME o = Out(after, d), errors = {}
        PROVE  Result(o) /\ GivesStream(s, o)
    <2>1. Node(s, p) # 0 /\ spare # {}
      BY <1>6 DEF If
    <2>2. spare \subseteq Nat /\ 0 \notin Streams
      BY HostAssumption
    <2>3. d \in spare
      BY <2>1, <2>2, LeastIsMember
    <2>4. d \in Streams /\ d \notin OpenStreams(s) /\ d \in Int /\ d > 0
      BY <2>2, <2>3 DEF OpenStreams
    <2>6. Stream(r) /\ r # NoStream
      BY <2>1 DEF Stream, NoStream
    <2> HIDE DEF r, d
    <2>7. Host(after) /\ OpenFds(after) = OpenFds(s) /\ OpenStreams(after) = OpenStreams(s) \cup {d}
      BY ZenonT(30), <2>4, <2>6, StreamReplaced
    <2> HIDE DEF after
    <2>8. Result(o) /\ o.os = after /\ o.ret = d
      BY <1>6, OutIsResult
    <2> QED
      BY <2>4, <2>7, <2>8 DEF GivesStream
  <1> QED
    <2> HIDE DEF errors, after, d
    <2> QED
      BY <1>3, <1>4, <1>5, <1>6

\* Setting and reading attributes keeps descriptors.
LEMMA XattrOutcomes ==
  ASSUME NEW s, Host(s), NEW d, NEW tag
  PROVE  /\ \A size : \A o \in OsGetXAttr(s, d, tag, size) : Kept(s, o)
         /\ \A attr : \A o \in OsSetXAttr(s, d, tag, attr) : Kept(s, o)
  <1>1. \A r : Kept(s, Out(s, r))
    BY OutIsResult, SameKeeps DEF Kept
  <1>2. ASSUME NEW attr, NEW o \in OsSetXAttr(s, d, tag, attr)
        PROVE  Kept(s, o)
    <2> DEFINE t == [s EXCEPT !.nodes[s.fds[d].node].attrs[tag] = attr]
    <2>1. Keeps(s, t)
      BY DataKeeps
    <2>2. o = Out(s, -EBADF) \/ o \in Faulty(s, "setxattr", ENOSPC) \/ o = Out(t, 0)
      BY DEF OsSetXAttr
    <2> HIDE DEF t
    <2>3. Kept(s, Out(t, 0))
      BY <2>1, OutIsResult DEF Kept
    <2>4. o \in Faulty(s, "setxattr", ENOSPC) => Kept(s, o)
      BY FaultyKeeps DEF ENOSPC
    <2> QED
      BY <1>1, <2>2, <2>3, <2>4
  <1>3. ASSUME NEW size, NEW o \in OsGetXAttr(s, d, tag, size)
        PROVE  Kept(s, o)
    <2>1. \E r : o = Out(s, r)
      BY DEF OsGetXAttr
    <2> QED
      BY <1>1, <2>1
  <1> QED
    BY <1>2, <1>3

-----------------------------------------------------------------------------
(* What a method of Host::FileSystem does to them. *)

\* The result of an outcome is translated.
LEMMA RetChanges ==
  ASSUME NEW o, Result(o), NEW r
  PROVE  LET x == [o EXCEPT !.ret = r] IN Result(x) /\ x.os = o.os /\ x.ret = r
  BY DEF Result

\* CHECK_MOUNTED: an outcome is that of the host with its error translated, or none was asked for.
LEMMA CheckedOutcomes ==
  ASSUME NEW s, NEW outcomes, \A x \in outcomes : Result(x), NEW o \in Checked(s, outcomes)
  PROVE  /\ Result(o)
         /\ \/ ~mounted /\ o = Out(s, NotMounted)
            \/ mounted /\ \E x \in outcomes : o.os = x.os /\ o.ret = SysErr(x.ret)
  <1>1. CASE mounted
    <2>1. PICK x \in outcomes : o = [x EXCEPT !.ret = SysErr(@)]
      BY <1>1 DEF Checked
    <2> QED
      BY <1>1, <2>1, RetChanges
  <1>2. CASE ~mounted
    BY <1>2, OutIsResult DEF Checked
  <1> QED
    BY <1>1, <1>2

\* A call of the host that keeps descriptors, checked, keeps them.
LEMMA CheckedKeeps ==
  ASSUME NEW s, Host(s), NEW outcomes, \A x \in outcomes : Kept(s, x), NEW o \in Checked(s, outcomes)
  PROVE  Kept(s, o)
  BY CheckedOutcomes, OutIsResult, SameKeeps DEF Kept

\* An error stays one, and a result that is none stays what it is.
LEMMA SysErrSign ==
  ASSUME NEW e \in Int
  PROVE  SysErr(e) \in Int /\ (e < 0 => SysErr(e) < 0) /\ (e >= 0 => SysErr(e) = e)
  BY DEF SysErr, SYSTEM

\* open() gives a descriptor that was not in use, once the file system is mounted.
LEMMA HostOpenOutcomes ==
  ASSUME NEW s, Host(s), NEW path, NEW flags, NEW o \in HostOpen(s, path, flags)
  PROVE  Opens(s, o) /\ (o.ret >= 0 => mounted)
  <1> DEFINE outcomes == OsOpen(s, ResolvePath(path), MapFlags(flags))
  <1>1. "Read" \in MapFlags(flags) \/ "Write" \in MapFlags(flags)
    BY DEF MapFlags
  <1>2. \A x \in outcomes : Result(x) /\ Opens(s, x)
    BY <1>1, OpenOutcomes
  <1>3. o \in Checked(s, outcomes)
    BY DEF HostOpen
  <1> HIDE DEF outcomes
  <1>4. CASE ~mounted /\ o = Out(s, NotMounted)
    <2>1. o.os = s /\ o.ret = -5
      BY <1>4, OutIsResult DEF NotMounted
    <2> QED
      BY <2>1, SameKeeps DEF Opens
  <1>5. ASSUME mounted, NEW x \in outcomes, o.os = x.os, o.ret = SysErr(x.ret)
        PROVE  Opens(s, o) /\ (o.ret >= 0 => mounted)
    <2>1. Opens(s, x)
      BY <1>2
    <2>2. x.ret \in Int
      BY <2>1 DEF Opens
    <2>3. o.ret \in Int /\ (x.ret < 0 => o.ret < 0) /\ (x.ret >= 0 => o.ret = x.ret)
      BY <1>5, <2>2, SysErrSign
    <2> QED
      BY <1>5, <2>1, <2>2, <2>3 DEF Opens
  <1> QED
    BY <1>2, <1>3, <1>4, <1>5, CheckedOutcomes

\* close() closes its descriptor: without a file system mounted none is open.
LEMMA HostCloseOutcomes ==
  ASSUME NEW s, Host(s), mounted \/ OpenFds(s) = {}, NEW h, NEW o \in HostClose(s, h)
  PROVE  Closes(s, h, o)
  <1>1. CASE h \notin OpenFds(s) /\ o.os = s
    BY <1>1 DEF Closes
  <1>2. CASE mounted /\ h < 0
    <2>1. o = Out(s, InvalidHandle)
      BY <1>2 DEF HostClose
    <2>2. h \notin OpenFds(s)
      <3>1. h \in Fds => h \in Nat
        BY HostAssumption
      <3> QED
        BY <1>2, <3>1 DEF OpenFds
    <2> QED
      BY <1>1, <2>1, <2>2, OutIsResult
  <1>3. CASE ~(mounted /\ h < 0)
    <2>1. o \in Checked(s, OsClose(s, h))
      BY <1>3 DEF HostClose
    <2>2. \A x \in OsClose(s, h) : Result(x) /\ Closes(s, h, x)
      BY CloseOutcomes
    <2>3. \/ ~mounted /\ o = Out(s, NotMounted)
          \/ \E x \in OsClose(s, h) : o.os = x.os /\ o.ret = SysErr(x.ret)
      BY <2>1, <2>2, CheckedOutcomes
    <2>4. CASE ~mounted /\ o = Out(s, NotMounted)
      <3>1. OpenFds(s) = {}
        BY <2>4
      <3>2. o.os = s
        BY <2>4, OutIsResult
      <3> QED
        BY <1>1, <3>1, <3>2
    <2>5. CASE \E x \in OsClose(s, h) : o.os = x.os /\ o.ret = SysErr(x.ret)
      BY <2>2, <2>5 DEF Closes
    <2> QED
      BY <2>3, <2>4, <2>5
  <1> QED
    BY <1>2, <1>3

\* Methods that work on a handle or a name keep descriptors.
LEMMA HostKeeps ==
  ASSUME NEW s, Host(s)
  PROVE  /\ \A h, size : \A o \in HostRead(s, h, size) : Keeps(s, o.os)
         /\ \A h, data : \A o \in HostWrite(s, h, data) : Keeps(s, o.os)
         /\ \A h, offset, origin : \A o \in HostSeek(s, h, offset, origin) : Keeps(s, o.os)
         /\ \A h, size : \A o \in HostTruncate(s, h, size) : Keeps(s, o.os)
         /\ \A p : \A o \in HostMkdir(s, p) : Keeps(s, o.os)
         /\ \A p : \A o \in HostRemove(s, p) : Keeps(s, o.os)
         /\ \A p, q : \A o \in HostRename(s, p, q) : Keeps(s, o.os)
  <1>1. ASSUME NEW h, NEW size, NEW o \in HostRead(s, h, size)
        PROVE  Keeps(s, o.os)
    <2>1. CASE mounted
      <3>1. PICK x \in OsRead(s, h, size) : o = [x EXCEPT !.ret = SysErr(@)]
        BY <2>1 DEF HostRead
      <3>2. x = WithData(x, x.data) /\ Keeps(s, x.os)
        BY ReadOutcomes
      <3>3. o.os = x.os
        BY <3>1, <3>2 DEF WithData
      <3> QED
        BY <3>2, <3>3
    <2>2. CASE ~mounted
      BY <2>2, OutIsResult, SameKeeps DEF HostRead, WithData
    <2> QED
      BY <2>1, <2>2
  <1>2. ASSUME NEW h, NEW data, NEW o \in HostWrite(s, h, data)
        PROVE  Keeps(s, o.os)
    BY WriteOutcomes, CheckedKeeps DEF HostWrite, Kept
  <1>3. ASSUME NEW h, NEW offset, NEW origin, NEW o \in HostSeek(s, h, offset, origin)
        PROVE  Keeps(s, o.os)
    <2>1. PICK x \in Checked(s, OsSeek(s, h, offset, origin)) :
            o = [x EXCEPT !.ret = IF @ < 0 THEN @ ELSE ToOffset(@)]
      BY DEF HostSeek
    <2>2. Kept(s, x)
      BY SeekOutcomes, CheckedKeeps
    <2> QED
      BY <2>1, <2>2, RetChanges DEF Kept
  <1>4. ASSUME NEW h, NEW size, NEW o \in HostTruncate(s, h, size)
        PROVE  Keeps(s, o.os)
    BY TruncateOutcomes, CheckedKeeps DEF HostTruncate, Kept
  <1>5. ASSUME NEW p, NEW o \in HostMkdir(s, p)
        PROVE  Keeps(s, o.os)
    BY MkdirOutcomes, CheckedKeeps DEF HostMkdir, Kept
  <1>6. ASSUME NEW p, NEW o \in HostRemove(s, p)
        PROVE  Keeps(s, o.os)
    BY RemoveOutcomes, CheckedKeeps DEF HostRemove, Kept
  <1>7. ASSUME NEW p, NEW q, NEW o \in HostRename(s, p, q)
        PROVE  Keeps(s, o.os)
    BY RenameOutcomes, CheckedKeeps DEF HostRename, Kept
  <1> QED
    BY <1>1, <1>2, <1>3, <1>4, <1>5, <1>6, <1>7

\* Attributes are set by handle without a change of the descriptors.
LEMMA HostFsetxattrKeeps ==
  ASSUME NEW s, Host(s), NEW h, NEW tag, NEW attr, NEW o \in HostFsetxattr(s, h, tag, attr)
  PROVE  Keeps(s, o.os)
  <1> DEFINE t == [s EXCEPT !.nodes[s.fds[h].node].mtime = attr.value]
  <1>1. Keeps(s, t)
    BY DataKeeps
  <1>2. \/ \E r : o = Out(s, r)
        \/ o = Out(t, FS_OK)
        \/ o \in Checked(s, OsSetXAttr(s, h, tag, attr))
    BY DEF HostFsetxattr
  <1> HIDE DEF t
  <1>3. o \in Checked(s, OsSetXAttr(s, h, tag, attr)) => Keeps(s, o.os)
    BY XattrOutcomes, CheckedKeeps DEF Kept
  <1> QED
    BY <1>1, <1>2, <1>3, OutIsResult, SameKeeps

\* And they are read without one.
LEMMA HostFgetxattrKeeps ==
  ASSUME NEW s, Host(s), NEW h, NEW tag, NEW size, NEW o \in HostFgetxattr(s, h, tag, size)
  PROVE  Keeps(s, o.os)
  <1>1. o = Out(s, AttrSize[tag]) \/ o \in Checked(s, OsGetXAttr(s, h, tag, size))
    BY DEF HostFgetxattr
  <1>2. o \in Checked(s, OsGetXAttr(s, h, tag, size)) => Keeps(s, o.os)
    BY XattrOutcomes, CheckedKeeps DEF Kept
  <1> QED
    BY <1>1, <1>2, OutIsResult, SameKeeps

\* The size by handle is found by moving the cursor.
LEMMA SizeOfKeeps ==
  ASSUME NEW s, Host(s), NEW h, NEW o \in SizeOf(s, h)
  PROVE  Keeps(s, o.os)
  <1>1. PICK at \in HostSeek(s, h, 0, "Current"), end \in HostSeek(s, h, 0, "End") :
          \E back \in HostSeek(end.os, h, at.ret, "Start") :
            o = [os |-> back.os, ret |-> IF end.ret > 0 THEN end.ret ELSE 0, fault |-> FALSE]
    BY SMTT(30) DEF SizeOf
  <1>2. PICK back \in HostSeek(end.os, h, at.ret, "Start") :
          o = [os |-> back.os, ret |-> IF end.ret > 0 THEN end.ret ELSE 0, fault |-> FALSE]
    BY <1>1
  <1>3. Keeps(s, end.os)
    BY HostKeeps
  <1>4. Host(end.os)
    BY <1>3 DEF Keeps
  <1>5. Keeps(end.os, back.os)
    BY <1>4, HostKeeps
  <1>6. o.os = back.os
    BY <1>2
  <1> QED
    BY <1>3, <1>5, <1>6 DEF Keeps

\* opendir() gives a stream that was not in use, once the file system is mounted.
LEMMA HostOpendirOutcomes ==
  ASSUME NEW s, Host(s), NEW path, NEW o \in HostOpendir(s, path)
  PROVE  GivesStream(s, o) /\ (o.ret > 0 => mounted)
  <1> DEFINE outcomes == OsOpendir(s, ResolvePath(path))
  <1>1. PICK c \in Checked(s, outcomes) :
          o = [c EXCEPT !.os = IF c.ret > 0 THEN [@ EXCEPT !.streams[c.ret].path = path] ELSE @]
    BY DEF HostOpendir
  <1>2. \A x \in outcomes : Result(x) /\ GivesStream(s, x)
    BY OpendirOutcomes
  <1> HIDE DEF outcomes
  <1>3. /\ Result(c)
        /\ \/ ~mounted /\ c = Out(s, NotMounted)
           \/ mounted /\ \E x \in outcomes : c.os = x.os /\ c.ret = SysErr(x.ret)
    BY <1>2, CheckedOutcomes
  <1>4. o.ret = c.ret /\ o.os = IF c.ret > 0 THEN [c.os EXCEPT !.streams[c.ret].path = path] ELSE c.os
    BY <1>1, <1>3 DEF Result
  <1>5. CASE ~mounted /\ c = Out(s, NotMounted)
    <2>1. c.os = s /\ c.ret = -5
      BY <1>5, OutIsResult DEF NotMounted
    <2> QED
      BY <1>4, <2>1, SameKeeps DEF GivesStream
  <1>6. ASSUME mounted, NEW x \in outcomes, c.os = x.os, c.ret = SysErr(x.ret)
        PROVE  GivesStream(s, o) /\ (o.ret > 0 => mounted)
    <2>1. GivesStream(s, x)
      BY <1>2
    <2>2. x.ret \in Int
      BY <2>1 DEF GivesStream
    <2>3. c.ret \in Int /\ (x.ret < 0 => c.ret < 0) /\ (x.ret >= 0 => c.ret = x.ret)
      BY <1>6, <2>2, SysErrSign
    <2>4. CASE x.ret <= 0
      <3>1. x.ret < 0 /\ Keeps(s, x.os)
        BY <2>1, <2>4 DEF GivesStream
      <3> QED
        BY <1>4, <1>6, <2>2, <2>3, <3>1 DEF GivesStream
    <2>5. CASE x.ret > 0
      <3>1. /\ x.ret \in Streams \ OpenStreams(s) /\ Host(x.os) /\ OpenFds(x.os) = OpenFds(s)
            /\ OpenStreams(x.os) = OpenStreams(s) \cup {x.ret}
        BY <2>1, <2>5 DEF GivesStream
      <3>2. Keeps(x.os, [x.os EXCEPT !.streams[x.ret].path = path])
        BY <3>1, PathKeeps
      <3>3. c.os = x.os /\ c.ret = x.ret /\ x.ret > 0
        BY <1>6, <2>2, <2>3, <2>5
      <3>4. o.os = [x.os EXCEPT !.streams[x.ret].path = path] /\ o.ret = x.ret
        BY <1>4, <3>3
      <3> QED
        BY <1>6, <2>2, <2>5, <3>1, <3>2, <3>4 DEF GivesStream, Keeps
    <2> QED
      BY <2>2, <2>4, <2>5
  <1> QED
    BY <1>3, <1>5, <1>6

\* closedir() ends its stream: without a file system mounted none is in use.
LEMMA HostClosedirOutcomes ==
  ASSUME NEW s, Host(s), mounted \/ OpenStreams(s) = {}, NEW d, NEW o \in HostClosedir(s, d)
  PROVE  EndsStream(s, d, o.os)
  <1>1. CASE \E r : o = Out(s, r) /\ d \notin OpenStreams(s)
    BY <1>1, OutIsResult DEF EndsStream
  <1>2. CASE o = Out(OsClosedir(s, d), FS_OK)
    BY <1>2, OutIsResult, ClosedirEnds
  <1>3. d = 0 => d \notin OpenStreams(s)
    BY HostAssumption DEF OpenStreams
  <1> QED
    BY <1>1, <1>2, <1>3 DEF HostClosedir

\* rewinddir() keeps the streams, if it is given one that is in use or none.
LEMMA HostRewinddirOutcomes ==
  ASSUME NEW s, Host(s), NEW d, d \in OpenStreams(s) \/ d \notin Streams, NEW o \in HostRewinddir(s, d)
  PROVE  Keeps(s, o.os)
  <1>1. \/ \E r : o = Out(s, r)
        \/ o = Out(OsRewinddir(s, d), FS_OK)
    BY DEF HostRewinddir
  <1> QED
    BY <1>1, OutIsResult, SameKeeps, RewindKeeps

-----------------------------------------------------------------------------
(* A call that goes on. *)

IsCall(c) == c = [x \in DOMAIN NoCall |-> c[x]]

\* A call that has come further, with the descriptor that it has opened.
Like(c, d) == IsCall(d) /\ d.fd = c.fd /\ d.fn = c.fn

\* Each field of a call is set without a change of the others.
LEMMA FieldChanges ==
  ASSUME NEW c, IsCall(c), NEW v
  PROVE  /\ Like(c, c)
         /\ Like(c, [c EXCEPT !.ret = v])
         /\ Like(c, [c EXCEPT !.got = v])
         /\ Like(c, [c EXCEPT !.n = v])
         /\ Like(c, [c EXCEPT !.stat = v])
         /\ Like(c, [c EXCEPT !.path = v])
         /\ Like(c, [c EXCEPT !.data = v])
         /\ Like(c, [c EXCEPT !.foreign = v])
         /\ Like(c, [c EXCEPT !.before = v])
         /\ Like(c, [c EXCEPT !.fault = v])
         /\ Like(c, [c EXCEPT !.at = v]) /\ [c EXCEPT !.at = v].at = v
         /\ IsCall([c EXCEPT !.fd = v]) /\ [c EXCEPT !.fd = v].fd = v /\ [c EXCEPT !.fd = v].fn = c.fn
  BY ZenonT(30) DEF IsCall, Like, NoCall

\* And so are several.
LEMMA LikeChanges ==
  ASSUME NEW c, IsCall(c), NEW x, NEW y, NEW z
  PROVE  /\ Like(c, [c EXCEPT !.got = x, !.ret = y])
         /\ Like(c, [c EXCEPT !.ret = x, !.got = y])
         /\ Like(c, [c EXCEPT !.ret = x, !.stat = y])
         /\ Like(c, [c EXCEPT !.got = x, !.data = y, !.ret = z])
         /\ Like(c, [c EXCEPT !.foreign = x, !.before = y])
         /\ Like(c, [[c EXCEPT !.data = x] EXCEPT !.got = y])
         /\ Like(c, [c EXCEPT !.at = x, !.fault = y]) /\ [c EXCEPT !.at = x, !.fault = y].at = x
         /\ Like(c, [c EXCEPT !.stat = x, !.at = y, !.ret = z]) /\ [c EXCEPT !.stat = x, !.at = y, !.ret = z].at = y
         /\ IsCall([c EXCEPT !.fd = x, !.h = y]) /\ [c EXCEPT !.fd = x, !.h = y].fd = x
         /\ [c EXCEPT !.fd = x, !.h = y].fn = c.fn
  BY ZenonT(30) DEF IsCall, Like, NoCall

Holding     == {"end", "cut", "write", "read", "set", "get", "xattrs", "close"}
ReadsByName == {"getContent", "getContentBuffer", "readContentByName"}

\* A call has a descriptor of its own from where it has opened it to where it closes it,
\* and a file is opened for its attributes once the file system is found to be mounted.
Phase ==
  /\ IsCall(call)
  /\ call.fd # -1 => call.at \in Holding /\ (call.at = "read" => call.fn \in ReadsByName)
  /\ call.at = "statopen" => mounted

\* What a step of a call does to its descriptor.
StepEffect ==
  \/ Keeps(os, os') /\ call'.fd = call.fd
  \/ /\ call.fd = -1 /\ mounted /\ call'.fd \in Fds \ OpenFds(os)
     /\ Host(os') /\ OpenFds(os') = OpenFds(os) \cup {call'.fd} /\ OpenStreams(os') = OpenStreams(os)
  \/ /\ call'.fd = -1
     /\ Host(os') /\ OpenFds(os') = OpenFds(os) \ {call.fd} /\ OpenStreams(os') = OpenStreams(os)

Goes      == StepEffect /\ Phase'
Moves(at) == Keeps(os, os') /\ Like(call, call') /\ call'.at = at

\* What Take() and Return() do.
LEMMA TakeFields ==
  ASSUME NEW c, IsCall(c), NEW at, NEW o, Take(o, at, c)
  PROVE  os' = o.os /\ Like(c, call') /\ call'.at = at
  BY DEF Take, Like, IsCall, NoCall

\* An outcome that keeps descriptors is taken with a call that has come further.
LEMMA TakeMoves ==
  ASSUME NEW o, NEW at, NEW c, IsCall(call), Like(call, c), Keeps(os, o.os), Take(o, at, c)
  PROVE  Moves(at)
  <1>1. IsCall(c)
    BY DEF Like
  <1>2. os' = o.os /\ Like(c, call') /\ call'.at = at
    BY <1>1, TakeFields
  <1> QED
    BY <1>2 DEF Moves, Like

\* Returning is one of those.
LEMMA ReturnMoves ==
  ASSUME NEW o, NEW ret, IsCall(call), Keeps(os, o.os), Return(o, ret)
  PROVE  Moves("return")
  BY FieldChanges, TakeMoves DEF Return

\* A call goes on with the descriptor that it has, or with none.
LEMMA MovesGo ==
  ASSUME NEW at, Phase, mounted' = mounted, Moves(at), at = "statopen" => mounted,
         call.fd = -1 \/ (at \in Holding /\ (at = "read" => call.fn \in ReadsByName))
  PROVE  Goes
  BY DEF Phase, Moves, Like, Goes, StepEffect

\* Where a call has no descriptor.
LEMMA NoDescriptor ==
  ASSUME Phase, call.at \notin Holding \/ (call.at = "read" /\ call.fn \notin ReadsByName)
  PROVE  call.fd = -1
  BY DEF Phase

\* A call has opened its file.
LEMMA TakesOpened ==
  ASSUME NEW o, NEW at, NEW c, Phase, mounted' = mounted, mounted, call.fd = -1,
         o.ret \in Fds \ OpenFds(os), Host(o.os), OpenFds(o.os) = OpenFds(os) \cup {o.ret},
         OpenStreams(o.os) = OpenStreams(os),
         IsCall(c), c.fd = o.ret, c.fn = call.fn,
         at \in Holding, at = "read" => call.fn \in ReadsByName,
         Take(o, at, c)
  PROVE  Goes
  <1>1. os' = o.os /\ Like(c, call') /\ call'.at = at
    BY TakeFields
  <1>2. StepEffect
    BY <1>1 DEF StepEffect, Like
  <1>3. Phase'
    BY <1>1 DEF Phase, Like, Holding
  <1> QED
    BY <1>2, <1>3 DEF Goes

\* A call that begins with open(): it has the descriptor, or returns.
LEMMA OpeningGoes ==
  ASSUME NEW fn, NEW flags, NEW next, NEW told, Host(os), Phase, mounted' = mounted,
         next \in Holding, next = "read" => fn \in ReadsByName,
         Opening(fn, flags, next, told)
  PROVE  Goes
  <1>1. call.fd = -1 /\ call.fn = fn /\ IsCall(call)
    BY NoDescriptor DEF Opening, At, Holding, Phase
  <1>2. PICK o \in HostOpen(os, call.path, flags) :
          IF o.ret < 0 THEN Return(o, IF told THEN o.ret ELSE 0) ELSE Take(o, next, [call EXCEPT !.fd = o.ret])
    BY DEF Opening
  <1>3. Opens(os, o) /\ (o.ret >= 0 => mounted)
    BY HostOpenOutcomes
  <1>4. CASE o.ret < 0
    <2>1. Keeps(os, o.os)
      BY <1>3, <1>4 DEF Opens
    <2>2. Moves("return")
      BY <1>1, <1>2, <1>4, <2>1, ReturnMoves
    <2> QED
      BY <1>1, <2>2, MovesGo
  <1>5. CASE ~(o.ret < 0)
    <2>1. /\ mounted /\ o.ret \in Fds \ OpenFds(os) /\ Host(o.os)
          /\ OpenFds(o.os) = OpenFds(os) \cup {o.ret} /\ OpenStreams(o.os) = OpenStreams(os)
      BY <1>3, <1>5 DEF Opens
    <2> DEFINE c == [call EXCEPT !.fd = o.ret]
    <2>2. IsCall(c) /\ c.fd = o.ret /\ c.fn = call.fn
      BY <1>1, FieldChanges
    <2>3. Take(o, next, c)
      BY <1>2, <1>5
    <2> HIDE DEF c
    <2> QED
      BY <1>1, <2>1, <2>2, <2>3, TakesOpened
  <1> QED
    BY <1>4, <1>5

\* A call closes its descriptor.
LEMMA ClosingGoes ==
  ASSUME Host(os), Phase, mounted \/ OpenFds(os) = {}, mounted' = mounted, Closing
  PROVE  Goes
  <1>1. PICK o \in HostClose(os, call.fd) : Take(o, "return", [call EXCEPT !.fd = -1])
    BY DEF Closing
  <1>2. Closes(os, call.fd, o)
    BY HostCloseOutcomes
  <1> DEFINE c == [call EXCEPT !.fd = -1]
  <1>3. IsCall(c) /\ c.fd = -1
    BY FieldChanges DEF Phase
  <1>4. Take(o, "return", c)
    BY <1>1
  <1> HIDE DEF c
  <1>5. os' = o.os /\ Like(c, call') /\ call'.at = "return"
    BY <1>3, <1>4, TakeFields
  <1>6. StepEffect
    BY <1>2, <1>3, <1>5 DEF StepEffect, Like, Closes
  <1>7. Phase'
    BY <1>3, <1>5 DEF Phase, Like
  <1> QED
    BY <1>6, <1>7 DEF Goes

\* A step that takes an outcome that keeps descriptors, or returns.
LEMMA TakeGoes ==
  ASSUME NEW o, NEW at, NEW c, Phase, mounted' = mounted, Like(call, c), Keeps(os, o.os), Take(o, at, c),
         at = "statopen" => mounted,
         call.fd = -1 \/ (at \in Holding /\ (at = "read" => call.fn \in ReadsByName))
  PROVE  Goes
  <1>1. Moves(at)
    BY TakeMoves DEF Phase
  <1> QED
    BY <1>1, MovesGo

\* A step that returns, of a call that has no descriptor.
LEMMA ReturnGoes ==
  ASSUME NEW o, NEW ret, Phase, mounted' = mounted, Keeps(os, o.os), Return(o, ret), call.fd = -1
  PROVE  Goes
  <1>1. Moves("return")
    BY ReturnMoves DEF Phase
  <1> QED
    BY <1>1, MovesGo

\* A step that goes on, of a call that has none.
LEMMA TakeFreeGoes ==
  ASSUME NEW o, NEW at, NEW c, Phase, mounted' = mounted, Like(call, c), Keeps(os, o.os), Take(o, at, c),
         at # "statopen", call.fd = -1
  PROVE  Goes
  BY TakeGoes

\* The forms in which a call is changed.
LEMMA CallLikes ==
  ASSUME Phase, NEW x, NEW y
  PROVE  /\ Like(call, call)
         /\ Like(call, [call EXCEPT !.ret = x])
         /\ Like(call, [call EXCEPT !.got = x])
         /\ Like(call, [call EXCEPT !.n = x])
         /\ Like(call, [call EXCEPT !.path = x])
         /\ Like(call, [call EXCEPT !.stat = x])
         /\ Like(call, [call EXCEPT !.data = x])
         /\ Like(call, [call EXCEPT !.got = x, !.ret = y])
         /\ Like(call, [call EXCEPT !.ret = x, !.got = y])
         /\ Like(call, [call EXCEPT !.ret = x, !.stat = y])
  BY FieldChanges, LikeChanges DEF Phase

\* getSize() by name.
LEMMA GetSizeGoes ==
  ASSUME Host(os), Phase, mounted' = mounted, GetSizeByName
  PROVE  Goes
  <1>1. CASE Opening("getSize", {"Read"}, "end", FALSE)
    BY <1>1, OpeningGoes DEF Holding
  <1>2. ASSUME NEW o \in HostSeek(os, call.fd, 0, "End"),
               Take(o, "close", [call EXCEPT !.ret = IF o.ret > 0 THEN o.ret ELSE 0])
        PROVE  Goes
    <2>1. Keeps(os, o.os)
      BY HostKeeps
    <2>2. Like(call, [call EXCEPT !.ret = IF o.ret > 0 THEN o.ret ELSE 0])
      BY CallLikes
    <2> QED
      BY <1>2, <2>1, <2>2, TakeGoes DEF Holding
  <1> QED
    BY <1>1, <1>2 DEF GetSizeByName

\* FileSystem::truncate() by name.
LEMMA TruncateGoes ==
  ASSUME Host(os), Phase, mounted' = mounted, TruncateByName
  PROVE  Goes
  <1>1. CASE Opening("truncate", {"Write"}, "cut", TRUE)
    BY <1>1, OpeningGoes DEF Holding
  <1>2. ASSUME NEW o \in HostTruncate(os, call.fd, call.n), Take(o, "close", [call EXCEPT !.ret = o.ret])
        PROVE  Goes
    <2>1. Keeps(os, o.os)
      BY HostKeeps
    <2>2. Like(call, [call EXCEPT !.ret = o.ret])
      BY CallLikes
    <2> QED
      BY <1>2, <2>1, <2>2, TakeGoes DEF Holding
  <1> QED
    BY <1>1, <1>2 DEF TruncateByName

\* setContent() by name.
LEMMA SetContentGoes ==
  ASSUME Host(os), Phase, mounted' = mounted, SetContent
  PROVE  Goes
  <1>1. CASE Opening("setContent", {"Create", "Truncate", "Write"}, "write", TRUE)
    <2> DEFINE flags == {"Create", "Truncate", "Write"}
    <2>1. "write" \in Holding /\ "write" # "read"
      BY DEF Holding
    <2>2. Opening("setContent", flags, "write", TRUE)
      BY <1>1
    <2> HIDE DEF flags
    <2> QED
      BY <2>1, <2>2, OpeningGoes
  <1>2. ASSUME NEW o \in HostWrite(os, call.fd, call.data), Take(o, "close", [call EXCEPT !.ret = o.ret])
        PROVE  Goes
    <2>1. Keeps(os, o.os)
      BY HostKeeps
    <2>2. Like(call, [call EXCEPT !.ret = o.ret])
      BY CallLikes
    <2> QED
      BY <1>2, <2>1, <2>2, TakeGoes DEF Holding
  <1> QED
    BY <1>1, <1>2 DEF SetContent

\* getContent() into a String.
LEMMA GetContentGoes ==
  ASSUME Host(os), Phase, mounted' = mounted, GetContent
  PROVE  Goes
  <1>1. CASE Opening("getContent", {"Read"}, "end", FALSE)
    BY <1>1, OpeningGoes DEF Holding, ReadsByName
  <1>2. ASSUME call.fn = "getContent", NEW o \in HostSeek(os, call.fd, 0, "End"),
               \/ Take(o, "close", [call EXCEPT !.got = <<>>, !.ret = 1])
               \/ Take(o, "close", [call EXCEPT !.ret = 0])
               \/ \E start \in HostSeek(o.os, call.fd, 0, "Start") : Take(start, "read", [call EXCEPT !.n = o.ret])
        PROVE  Goes
    <2>1. Keeps(os, o.os)
      BY HostKeeps
    <2>2. CASE Take(o, "close", [call EXCEPT !.got = <<>>, !.ret = 1])
      <3>1. Like(call, [call EXCEPT !.got = <<>>, !.ret = 1])
        BY CallLikes
      <3> QED
        BY <2>1, <2>2, <3>1, TakeGoes DEF Holding
    <2>3. CASE Take(o, "close", [call EXCEPT !.ret = 0])
      <3>1. Like(call, [call EXCEPT !.ret = 0])
        BY CallLikes
      <3> QED
        BY <2>1, <2>3, <3>1, TakeGoes DEF Holding
    <2>4. ASSUME NEW start \in HostSeek(o.os, call.fd, 0, "Start"), Take(start, "read", [call EXCEPT !.n = o.ret])
          PROVE  Goes
      <3>1. Host(o.os)
        BY <2>1 DEF Keeps
      <3>2. Keeps(os, start.os)
        BY <2>1, <3>1, HostKeeps DEF Keeps
      <3>3. Like(call, [call EXCEPT !.n = o.ret])
        BY CallLikes
      <3> QED
        BY <1>2, <2>4, <3>2, <3>3, TakeGoes DEF Holding, ReadsByName
    <2> QED
      BY <1>2, <2>2, <2>3, <2>4
  <1>3. ASSUME NEW o \in HostRead(os, call.fd, call.n), NEW ret, NEW got,
               Take(o, "close", [call EXCEPT !.ret = ret, !.got = got])
        PROVE  Goes
    <2>1. Keeps(os, o.os)
      BY HostKeeps
    <2>2. Like(call, [call EXCEPT !.ret = ret, !.got = got])
      BY CallLikes
    <2> QED
      BY <1>3, <2>1, <2>2, TakeGoes DEF Holding
  <1> QED
    BY <1>1, <1>2, <1>3 DEF GetContent, At

\* getContent() to a buffer.
LEMMA GetContentBufferGoes ==
  ASSUME Host(os), Phase, mounted' = mounted, GetContentBuffer
  PROVE  Goes
  <1>1. CASE Opening("getContentBuffer", {"Read"}, "end", FALSE)
    BY <1>1, OpeningGoes DEF Holding, ReadsByName
  <1>2. ASSUME call.fn = "getContentBuffer", NEW o \in HostSeek(os, call.fd, 0, "End"),
               \/ Take(o, "close", [call EXCEPT !.ret = 0])
               \/ \E start \in HostSeek(o.os, call.fd, 0, "Start") : Take(start, "read", [call EXCEPT !.n = o.ret])
        PROVE  Goes
    <2>1. Keeps(os, o.os)
      BY HostKeeps
    <2>2. CASE Take(o, "close", [call EXCEPT !.ret = 0])
      <3>1. Like(call, [call EXCEPT !.ret = 0])
        BY CallLikes
      <3> QED
        BY <2>1, <2>2, <3>1, TakeGoes DEF Holding
    <2>3. ASSUME NEW start \in HostSeek(o.os, call.fd, 0, "Start"), Take(start, "read", [call EXCEPT !.n = o.ret])
          PROVE  Goes
      <3>1. Host(o.os)
        BY <2>1 DEF Keeps
      <3>2. Keeps(os, start.os)
        BY <2>1, <3>1, HostKeeps DEF Keeps
      <3>3. Like(call, [call EXCEPT !.n = o.ret])
        BY CallLikes
      <3> QED
        BY <1>2, <2>3, <3>2, <3>3, TakeGoes DEF Holding, ReadsByName
    <2> QED
      BY <1>2, <2>2, <2>3
  <1>3. ASSUME NEW o \in HostRead(os, call.fd, call.n), NEW ret, NEW got,
               Take(o, "close", [call EXCEPT !.ret = ret, !.got = got])
        PROVE  Goes
    <2>1. Keeps(os, o.os)
      BY HostKeeps
    <2>2. Like(call, [call EXCEPT !.ret = ret, !.got = got])
      BY CallLikes
    <2> QED
      BY <1>3, <2>1, <2>2, TakeGoes DEF Holding
  <1> QED
    BY <1>1, <1>2, <1>3 DEF GetContentBuffer, At

\* readContent() in its forms: by name it goes on to close what it has opened.
LEMMA ReadingGoes ==
  ASSUME NEW fn, NEW size, NEW next, Host(os), Phase, mounted' = mounted, Reading(fn, size, next),
         \/ fn \notin ReadsByName /\ next = "return"
         \/ fn \in ReadsByName /\ next = "close"
  PROVE  Goes
  <1>1. call.fn = fn /\ call.at = "read"
    BY DEF Reading, At
  <1>2. /\ call.fd = -1 \/ (next \in Holding /\ (next = "read" => call.fn \in ReadsByName))
        /\ call.fd = -1 \/ ("read" \in Holding /\ call.fn \in ReadsByName)
        /\ next # "statopen"
    <2>1. fn \notin ReadsByName => call.fd = -1
      BY <1>1, NoDescriptor
    <2>2. "close" \in Holding /\ "read" \in Holding
      BY DEF Holding
    <2> QED
      BY <1>1, <2>1, <2>2
  <1>3. PICK o \in HostRead(os, call.h, size) :
          \/ Take(o, next, [call EXCEPT !.ret = o.ret])
          \/ Take(o, next, [call EXCEPT !.ret = Len(call.got)])
          \/ Take(o, "read", [call EXCEPT !.got = @ \o o.data])
          \/ Take(o, next, [call EXCEPT !.got = @ \o o.data, !.ret = UserError])
    BY DEF Reading
  <1>4. Keeps(os, o.os)
    BY HostKeeps
  <1>5. CASE Take(o, next, [call EXCEPT !.ret = o.ret])
    <2>1. Like(call, [call EXCEPT !.ret = o.ret])
      BY CallLikes
    <2> QED
      BY <1>2, <1>4, <1>5, <2>1, TakeGoes
  <1>6. CASE Take(o, next, [call EXCEPT !.ret = Len(call.got)])
    <2>1. Like(call, [call EXCEPT !.ret = Len(call.got)])
      BY CallLikes
    <2> QED
      BY <1>2, <1>4, <1>6, <2>1, TakeGoes
  <1>7. CASE Take(o, "read", [call EXCEPT !.got = @ \o o.data])
    <2>1. Like(call, [call EXCEPT !.got = @ \o o.data])
      BY CallLikes
    <2> QED
      BY <1>2, <1>4, <1>7, <2>1, TakeGoes
  <1>8. CASE Take(o, next, [call EXCEPT !.got = @ \o o.data, !.ret = UserError])
    <2>1. Like(call, [call EXCEPT !.got = @ \o o.data, !.ret = UserError])
      BY CallLikes
    <2> QED
      BY <1>2, <1>4, <1>8, <2>1, TakeGoes
  <1> QED
    BY <1>3, <1>5, <1>6, <1>7, <1>8

\* readContent() by handle.
LEMMA ReadContentGoes ==
  ASSUME Host(os), Phase, mounted' = mounted, ReadContent \/ ReadContentSize
  PROVE  Goes
  <1> DEFINE left == call.n - Len(call.got)
  <1>1. CASE Reading("readContent", BufSize, "return")
    BY <1>1, ReadingGoes DEF ReadsByName
  <1>2. CASE Reading("readContentSize", Min({left, BufSize}), "return")
    BY <1>2, ReadingGoes DEF ReadsByName
  <1>3. CASE At("readContentSize", "read") /\ Return(Out(os, 0), call.n)
    <2>1. call.fd = -1
      BY <1>3, NoDescriptor DEF At, ReadsByName
    <2>2. Keeps(os, Out(os, 0).os)
      BY OutIsResult, SameKeeps
    <2> QED
      BY <1>3, <2>1, <2>2, ReturnGoes
  <1> QED
    BY <1>1, <1>2, <1>3 DEF ReadContent, ReadContentSize

\* readContent() by name.
LEMMA ReadContentByNameGoes ==
  ASSUME Host(os), Phase, mounted' = mounted, ReadContentByName
  PROVE  Goes
  <1>1. CASE Reading("readContentByName", BufSize, "close")
    BY <1>1, ReadingGoes DEF ReadsByName
  <1>2. ASSUME At("readContentByName", "begin"), NEW o \in HostOpen(os, call.path, {"Read"}),
               IF o.ret < 0 THEN Return(o, o.ret) ELSE Take(o, "read", [call EXCEPT !.fd = o.ret, !.h = o.ret])
        PROVE  Goes
    <2>1. call.fd = -1 /\ call.fn \in ReadsByName /\ IsCall(call) /\ "read" \in Holding
      BY <1>2, NoDescriptor DEF At, Holding, ReadsByName, Phase
    <2>2. Opens(os, o) /\ (o.ret >= 0 => mounted)
      BY HostOpenOutcomes
    <2>3. CASE o.ret < 0
      <3>1. Keeps(os, o.os)
        BY <2>2, <2>3 DEF Opens
      <3> QED
        BY <1>2, <2>1, <2>3, <3>1, ReturnGoes
    <2>4. CASE ~(o.ret < 0)
      <3> DEFINE c == [call EXCEPT !.fd = o.ret, !.h = o.ret]
      <3>1. IsCall(c) /\ c.fd = o.ret /\ c.fn = call.fn
        BY <2>1 DEF IsCall, NoCall
      <3>2. Take(o, "read", c)
        BY <1>2, <2>4
      <3>3. /\ mounted /\ o.ret \in Fds \ OpenFds(os) /\ Host(o.os)
            /\ OpenFds(o.os) = OpenFds(os) \cup {o.ret} /\ OpenStreams(o.os) = OpenStreams(os)
        BY <2>2, <2>4 DEF Opens
      <3> HIDE DEF c
      <3> QED
        BY <2>1, <3>1, <3>2, <3>3, TakesOpened
    <2> QED
      BY <2>3, <2>4
  <1> QED
    BY <1>1, <1>2 DEF ReadContentByName

\* makedirs() has no descriptor.
LEMMA MakedirsGoes ==
  ASSUME Host(os), Phase, mounted' = mounted, Makedirs
  PROVE  Goes
  <1>1. call.fd = -1
    <2>1. call.at = "begin"
      BY DEF Makedirs, At
    <2> QED
      BY <2>1, NoDescriptor DEF Holding
  <1>2. CASE Return(Out(os, 0), FS_OK)
    <2>1. Keeps(os, Out(os, 0).os)
      BY OutIsResult, SameKeeps
    <2> QED
      BY <1>1, <1>2, <2>1, ReturnGoes
  <1>3. ASSUME NEW o \in HostMkdir(os, SubSeq(call.path, 1, call.n + 1)),
               Return(o, o.ret) \/ Take(o, "begin", [call EXCEPT !.n = @ + 1])
        PROVE  Goes
    <2>1. Keeps(os, o.os)
      BY HostKeeps
    <2>2. Like(call, [call EXCEPT !.n = @ + 1])
      BY CallLikes
    <2>3. Return(o, o.ret) => Goes
      BY <1>1, <2>1, ReturnGoes
    <2>4. Take(o, "begin", [call EXCEPT !.n = @ + 1]) => Goes
      BY <1>1, <2>1, <2>2, TakeGoes
    <2> QED
      BY <1>3, <2>3, <2>4
  <1> QED
    BY <1>2, <1>3 DEF Makedirs

\* A step of each call by handle.
LEMMA HandleCallGoes ==
  ASSUME Host(os), Phase, mounted' = mounted, FileEof \/ Fsetxattr \/ Setacl \/ Fstat
  PROVE  Goes
  <1>1. call.fd = -1
    <2>1. call.at \in {"begin", "second"}
      BY DEF FileEof, Fsetxattr, Setacl, Fstat, At
    <2> QED
      BY <2>1, NoDescriptor DEF Holding
  <1>2. Keeps(os, Out(os, 0).os)
    BY OutIsResult, SameKeeps
  <1>3. CASE FileEof
    <2>1. PICK r : Return(Out(os, 0), r)
      BY <1>3 DEF FileEof
    <2> QED
      BY <1>1, <1>2, <2>1, ReturnGoes
  <1>4. ASSUME NEW tag, NEW o \in HostFsetxattr(os, call.h, tag, call.attr), NEW ret, Return(o, ret)
        PROVE  Goes
    <2>1. Keeps(os, o.os)
      BY HostFsetxattrKeeps
    <2> QED
      BY <1>1, <1>4, <2>1, ReturnGoes
  <1>5. ASSUME NEW o \in HostFsetxattr(os, call.h, "ReadAce", call.attr), Take(o, "second", [call EXCEPT !.ret = o.ret])
        PROVE  Goes
    <2>1. Keeps(os, o.os)
      BY HostFsetxattrKeeps
    <2>2. Like(call, [call EXCEPT !.ret = o.ret])
      BY CallLikes
    <2> QED
      BY <1>1, <1>5, <2>1, <2>2, TakeGoes
  <1>6. CASE Fstat
    <2>1. PICK o \in HostFstat(os, call.h) : Take(o, "return", [call EXCEPT !.ret = o.ret, !.stat = o.stat])
      BY <1>6 DEF Fstat
    <2>2. o.os = os
      BY DEF HostFstat
    <2>3. Keeps(os, o.os)
      BY <2>2, SameKeeps
    <2>4. Like(call, [call EXCEPT !.ret = o.ret, !.stat = o.stat])
      BY CallLikes
    <2> QED
      BY <1>1, <2>1, <2>3, <2>4, TakeGoes
  <1> QED
    BY <1>3, <1>4, <1>5, <1>6 DEF Fsetxattr, Setacl

\* File::getContent(), on the handle of a File.
LEMMA FileGetContentGoes ==
  ASSUME Host(os), Phase, mounted' = mounted, FileGetContent
  PROVE  Goes
  <1>1. call.fd = -1
    BY NoDescriptor DEF FileGetContent, At, Holding, ReadsByName
  <1>2. ASSUME NEW o \in SizeOf(os, call.h), Take(o, "read", [call EXCEPT !.n = o.ret])
        PROVE  Goes
    <2>1. Keeps(os, o.os)
      BY SizeOfKeeps
    <2>2. Like(call, [call EXCEPT !.n = o.ret])
      BY CallLikes
    <2> QED
      BY <1>1, <1>2, <2>1, <2>2, TakeFreeGoes
  <1>3. ASSUME NEW o \in HostRead(os, call.h, call.n), NEW ret, NEW got,
               Take(o, "return", [call EXCEPT !.ret = ret, !.got = got])
        PROVE  Goes
    <2>1. Keeps(os, o.os)
      BY HostKeeps
    <2>2. Like(call, [call EXCEPT !.ret = ret, !.got = got])
      BY CallLikes
    <2> QED
      BY <1>1, <1>3, <2>1, <2>2, TakeGoes
  <1> QED
    BY <1>2, <1>3 DEF FileGetContent

\* A step of a call of a device.
LEMMA DeviceGoes ==
  ASSUME Host(os), Phase, mounted' = mounted, DeviceRead \/ DeviceWrite \/ DeviceErase
  PROVE  Goes
  <1>1. call.fd = -1
    <2>1. call.at \in {"begin", "erase"}
      BY DEF DeviceRead, DeviceWrite, DeviceErase, At
    <2> QED
      BY <2>1, NoDescriptor DEF Holding
  <1>2. ASSUME NEW at \in HostSeek(os, call.h, call.n, "Start")
        PROVE  Keeps(os, at.os) /\ Host(at.os)
    BY HostKeeps DEF Keeps
  <1>3. ASSUME NEW o, Keeps(os, o.os), NEW ret, Return(o, ret)
        PROVE  Goes
    BY <1>1, <1>3, ReturnGoes
  <1>4. ASSUME DeviceRead
        PROVE  Goes
    <2>1. PICK at \in HostSeek(os, call.h, call.n, "Start") :
            IF at.ret # call.n THEN Return(at, 0)
            ELSE \E o \in HostRead(at.os, call.h, Len(call.data)) :
                   Take(o, "return", [call EXCEPT !.got = o.data, !.ret = IF o.ret = Len(call.data) THEN 1 ELSE 0])
      BY <1>4 DEF DeviceRead
    <2>2. Keeps(os, at.os) /\ Host(at.os)
      BY <1>2
    <2>3. ASSUME NEW o \in HostRead(at.os, call.h, Len(call.data)), NEW got, NEW ret,
                 Take(o, "return", [call EXCEPT !.got = got, !.ret = ret])
          PROVE  Goes
      <3>1. Keeps(at.os, o.os)
        BY <2>2, HostKeeps
      <3>2. Keeps(os, o.os)
        BY <2>2, <3>1 DEF Keeps
      <3>3. Like(call, [call EXCEPT !.got = got, !.ret = ret])
        BY CallLikes
      <3> QED
        BY <1>1, <2>3, <3>2, <3>3, TakeGoes
    <2> QED
      BY <1>3, <2>1, <2>2, <2>3
  <1>5. ASSUME DeviceWrite
        PROVE  Goes
    <2>1. PICK at \in HostSeek(os, call.h, call.n, "Start") :
            IF at.ret # call.n THEN Return(at, 0)
            ELSE \E o \in HostWrite(at.os, call.h, call.data) : \E ret : Return(o, ret)
      BY <1>5 DEF DeviceWrite
    <2>2. Keeps(os, at.os) /\ Host(at.os)
      BY <1>2
    <2>3. ASSUME NEW o \in HostWrite(at.os, call.h, call.data), NEW ret, Return(o, ret)
          PROVE  Goes
      <3>1. Keeps(at.os, o.os)
        BY <2>2, HostKeeps
      <3>2. Keeps(os, o.os)
        BY <2>2, <3>1 DEF Keeps
      <3> QED
        BY <1>3, <2>3, <3>2
    <2> QED
      BY <1>3, <2>1, <2>2, <2>3
  <1>6. ASSUME NEW at \in HostSeek(os, call.h, call.n, "Start"), Take(at, "erase", [call EXCEPT !.got = call.data])
        PROVE  Goes
    <2>1. Keeps(os, at.os)
      BY <1>2
    <2>2. Like(call, [call EXCEPT !.got = call.data])
      BY CallLikes
    <2> QED
      BY <1>1, <1>6, <2>1, <2>2, TakeGoes
  <1>7. ASSUME NEW some, NEW o \in HostWrite(os, call.h, some),
               Take(o, "erase", [call EXCEPT !.got = SubSeq(@, Len(some) + 1, Len(@))])
        PROVE  Goes
    <2>1. Keeps(os, o.os)
      BY HostKeeps
    <2>2. Like(call, [call EXCEPT !.got = SubSeq(@, Len(some) + 1, Len(@))])
      BY CallLikes
    <2> QED
      BY <1>1, <1>7, <2>1, <2>2, TakeGoes
  <1>8. ASSUME DeviceErase
        PROVE  Goes
    <2>1. CASE \E at \in HostSeek(os, call.h, call.n, "Start") :
                 IF at.ret # call.n THEN Return(at, 0) ELSE Take(at, "erase", [call EXCEPT !.got = call.data])
      BY <1>2, <1>3, <1>6, <2>1
    <2>2. CASE At("deviceErase", "erase") /\ Return(Out(os, 0), 1)
      <3>1. Keeps(os, Out(os, 0).os)
        BY OutIsResult, SameKeeps
      <3> QED
        BY <1>3, <2>2, <3>1
    <2> DEFINE some == [i \in 1..EraseLength(Len(call.got)) |-> Erased]
    <2>3. CASE \E o \in HostWrite(os, call.h, some) :
                 IF o.ret # Len(some) THEN Return(o, 0)
                 ELSE Take(o, "erase", [call EXCEPT !.got = SubSeq(@, Len(some) + 1, Len(@))])
      <3> HIDE DEF some
      <3>1. PICK o \in HostWrite(os, call.h, some) :
              \/ Return(o, 0)
              \/ Take(o, "erase", [call EXCEPT !.got = SubSeq(@, Len(some) + 1, Len(@))])
        BY <2>3
      <3>2. Keeps(os, o.os)
        BY HostKeeps
      <3> QED
        BY <1>3, <1>7, <3>1, <3>2
    <2> QED
      BY <1>8, <2>1, <2>2, <2>3 DEF DeviceErase
  <1> QED
    BY <1>4, <1>5, <1>8

\* A step of stat(), also as a part of others.
LEMMA StattingGoes ==
  ASSUME NEW fn, Host(os), Phase, mounted' = mounted, Statting(fn)
  PROVE  Goes
  <1> DEFINE path == ResolvePath(call.path)
  <1>1. ASSUME NEW o \in Checked(os, OsStat(os, path)), call.at = "stat",
               NEW stat,
               IF o.ret < 0 THEN Return(o, o.ret) ELSE Take(o, "statopen", [call EXCEPT !.stat = stat])
        PROVE  Goes
    <2>1. call.fd = -1
      BY <1>1, NoDescriptor DEF Holding
    <2>2. \A x \in OsStat(os, path) : Kept(os, x)
      BY StatOutcomes
    <2>3. Kept(os, o)
      BY <2>2, CheckedKeeps
    <2>4. Keeps(os, o.os)
      BY <2>3 DEF Kept
    <2>5. CASE o.ret < 0
      <3>1. Return(o, o.ret)
        BY <1>1, <2>5
      <3> QED
        BY <2>1, <2>4, <3>1, ReturnGoes
    <2>6. CASE ~(o.ret < 0)
      <3>1. mounted
        <4>1. ~mounted => o = Out(os, NotMounted)
          BY DEF Checked
        <4>2. ~mounted => o.ret = -5
          BY <4>1, OutIsResult DEF NotMounted
        <4> QED
          BY <2>6, <4>2
      <3>2. Like(call, [call EXCEPT !.stat = stat])
        BY CallLikes
      <3>3. Take(o, "statopen", [call EXCEPT !.stat = stat])
        BY <1>1, <2>6
      <3> QED
        BY <2>1, <2>4, <3>1, <3>2, <3>3, TakeGoes
    <2> QED
      BY <2>5, <2>6
  <1>2. ASSUME NEW o \in OsOpen(os, path, {"Read"}), call.at = "statopen",
               IF o.ret < 0 THEN Return(o, FS_OK) ELSE Take(o, "xattrs", [call EXCEPT !.fd = o.ret])
        PROVE  Goes
    <2>1. call.fd = -1 /\ mounted /\ IsCall(call) /\ "xattrs" \in Holding
      BY <1>2, NoDescriptor DEF Holding, Phase
    <2>2. Opens(os, o)
      BY OpenOutcomes
    <2>3. CASE o.ret < 0
      <3>1. Keeps(os, o.os)
        BY <2>2, <2>3 DEF Opens
      <3> QED
        BY <1>2, <2>1, <2>3, <3>1, ReturnGoes
    <2>4. CASE ~(o.ret < 0)
      <3> DEFINE c == [call EXCEPT !.fd = o.ret]
      <3>1. IsCall(c) /\ c.fd = o.ret /\ c.fn = call.fn
        BY <2>1, FieldChanges
      <3>2. Take(o, "xattrs", c)
        BY <1>2, <2>4
      <3>3. /\ o.ret \in Fds \ OpenFds(os) /\ Host(o.os)
            /\ OpenFds(o.os) = OpenFds(os) \cup {o.ret} /\ OpenStreams(o.os) = OpenStreams(os)
        BY <2>2, <2>4 DEF Opens
      <3> HIDE DEF c
      <3> QED
        BY <2>1, <3>1, <3>2, <3>3, TakesOpened
    <2> QED
      BY <2>3, <2>4
  <1>3. ASSUME NEW x, call' = [call EXCEPT !.stat = x, !.at = "close", !.ret = FS_OK], os' = os
        PROVE  Goes
    <2> DEFINE c == [call EXCEPT !.stat = x, !.at = "close", !.ret = FS_OK]
    <2>1. Like(call, c) /\ c.at = "close"
      BY DEF Phase, Like, IsCall, NoCall
    <2>2. call' = c
      BY <1>3
    <2> HIDE DEF c
    <2>3. Keeps(os, os')
      BY <1>3, SameKeeps
    <2>4. Moves("close")
      BY <2>1, <2>2, <2>3 DEF Moves
    <2> QED
      BY <2>4, MovesGo DEF Holding
  <1>4. \/ \E o \in Checked(os, OsStat(os, path)) : \E stat : call.at = "stat" /\
              IF o.ret < 0 THEN Return(o, o.ret) ELSE Take(o, "statopen", [call EXCEPT !.stat = stat])
        \/ \E o \in OsOpen(os, path, {"Read"}) : call.at = "statopen" /\
              IF o.ret < 0 THEN Return(o, FS_OK) ELSE Take(o, "xattrs", [call EXCEPT !.fd = o.ret])
        \/ \E x : call' = [call EXCEPT !.stat = x, !.at = "close", !.ret = FS_OK] /\ os' = os
    BY Zenon DEF Statting, At
  <1> HIDE DEF path
  <1>5. CASE \E o \in Checked(os, OsStat(os, path)) : \E stat : call.at = "stat" /\
                IF o.ret < 0 THEN Return(o, o.ret) ELSE Take(o, "statopen", [call EXCEPT !.stat = stat])
    BY <1>1, <1>5
  <1>6. CASE \E o \in OsOpen(os, path, {"Read"}) : call.at = "statopen" /\
                IF o.ret < 0 THEN Return(o, FS_OK) ELSE Take(o, "xattrs", [call EXCEPT !.fd = o.ret])
    BY <1>2, <1>6
  <1>7. CASE \E x : call' = [call EXCEPT !.stat = x, !.at = "close", !.ret = FS_OK] /\ os' = os
    BY <1>3, <1>7
  <1> QED
    BY <1>4, <1>5, <1>6, <1>7

\* A step of an enumeration.
LEMMA ReaddirGoes ==
  ASSUME NEW fn, Host(os), Phase, mounted' = mounted, Readdir(fn)
  PROVE  Goes
  <1>1. CASE Statting(fn)
    BY <1>1, StattingGoes
  <1>2. CASE ~Statting(fn)
    <2>1. call.fd = -1
      BY <1>2, NoDescriptor DEF Readdir, At, Holding
    <2>2. Keeps(os, Out(os, 0).os)
      BY OutIsResult, SameKeeps
    <2>3. ASSUME NEW ret, Return(Out(os, 0), ret)
          PROVE  Goes
      BY <2>1, <2>2, <2>3, ReturnGoes
    <2>4. ASSUME NEW o \in OsReaddir(os, call.h), NEW path,
                 \/ \E ret : Return(o, ret)
                 \/ Take(o, "stat", [call EXCEPT !.path = path])
          PROVE  Goes
      <3>1. Keeps(os, o.os)
        BY ReaddirOutcomes
      <3>2. Like(call, [call EXCEPT !.path = path])
        BY CallLikes
      <3>3. ASSUME NEW ret, Return(o, ret)
            PROVE  Goes
        BY <2>1, <3>1, <3>3, ReturnGoes
      <3>4. Take(o, "stat", [call EXCEPT !.path = path]) => Goes
        BY <2>1, <3>1, <3>2, TakeGoes
      <3> QED
        BY <2>4, <3>3, <3>4
    <2>5. \/ \E ret : Return(Out(os, 0), ret)
          \/ \E o \in OsReaddir(os, call.h) : \E path :
               \/ \E ret : Return(o, ret)
               \/ Take(o, "stat", [call EXCEPT !.path = path])
      BY <1>2 DEF Readdir
    <2> QED
      BY <2>3, <2>4, <2>5
  <1> QED
    BY <1>1, <1>2

\* A step that sets or reads an attribute by name.
LEMMA AttributeGoes ==
  ASSUME Host(os), Phase, mounted' = mounted, Setxattr \/ Getxattr
  PROVE  Goes
  <1>1. CASE Opening("setxattr", {"Read", "Write"}, "set", TRUE)
    <2> DEFINE flags == {"Read", "Write"}
    <2>1. Opening("setxattr", flags, "set", TRUE)
      BY <1>1
    <2> HIDE DEF flags
    <2> QED
      BY <2>1, OpeningGoes DEF Holding
  <1>2. CASE Opening("getxattr", {"Read"}, "get", TRUE)
    BY <1>2, OpeningGoes DEF Holding
  <1>3. ASSUME call.at = "begin", NEW s, Keeps(os, s), NEW ret, Return(Out(s, 0), ret)
        PROVE  Goes
    <2>1. call.fd = -1
      BY <1>3, NoDescriptor DEF Holding
    <2>2. Keeps(os, Out(s, 0).os)
      BY <1>3, OutIsResult
    <2> QED
      BY <1>3, <2>1, <2>2, ReturnGoes
  <1>4. ASSUME NEW o \in HostFsetxattr(os, call.fd, call.tag, call.attr), Take(o, "close", [call EXCEPT !.ret = o.ret])
        PROVE  Goes
    <2>1. Keeps(os, o.os)
      BY HostFsetxattrKeeps
    <2>2. Like(call, [call EXCEPT !.ret = o.ret])
      BY CallLikes
    <2> QED
      BY <1>4, <2>1, <2>2, TakeGoes DEF Holding
  <1>5. ASSUME NEW o \in HostFgetxattr(os, call.fd, call.tag, call.n), NEW got,
               Take(o, "close", [call EXCEPT !.ret = o.ret, !.got = got])
        PROVE  Goes
    <2>1. Keeps(os, o.os)
      BY HostFgetxattrKeeps
    <2>2. Like(call, [call EXCEPT !.ret = o.ret, !.got = got])
      BY CallLikes
    <2> QED
      BY <1>5, <2>1, <2>2, TakeGoes DEF Holding
  <1>6. ASSUME Setxattr
        PROVE  Goes
    <2> DEFINE n == Node(os, ResolvePath(call.path))
               t == [os EXCEPT !.nodes[n].mtime = call.attr.value]
    <2>1. Keeps(os, t) /\ Keeps(os, os)
      BY DataKeeps, SameKeeps
    <2>2. \/ Opening("setxattr", {"Read", "Write"}, "set", TRUE)
          \/ \E o \in HostFsetxattr(os, call.fd, call.tag, call.attr) : Take(o, "close", [call EXCEPT !.ret = o.ret])
          \/ call.at = "begin" /\ \E s \in {os, t} : \E ret : Return(Out(s, 0), ret)
      BY <1>6 DEF Setxattr, At
    <2> HIDE DEF t
    <2>3. CASE call.at = "begin" /\ \E s \in {os, t} : \E ret : Return(Out(s, 0), ret)
      BY <1>3, <2>1, <2>3
    <2> QED
      BY <1>1, <1>4, <2>2, <2>3
  <1>7. ASSUME Getxattr
        PROVE  Goes
    <2>1. \/ Opening("getxattr", {"Read"}, "get", TRUE)
          \/ \E o \in HostFgetxattr(os, call.fd, call.tag, call.n) : \E got :
               Take(o, "close", [call EXCEPT !.ret = o.ret, !.got = got])
      BY <1>7 DEF Getxattr
    <2> QED
      BY <1>2, <1>5, <2>1
  <1> QED
    BY <1>6, <1>7

\* A step of the enumeration of attributes.
LEMMA FenumxattrGoes ==
  ASSUME Host(os), Phase, mounted' = mounted, Fenumxattr
  PROVE  Goes
  <1>1. call.fd = -1
    <2>1. call.at \in {"begin", "list", "next"}
      BY DEF Fenumxattr, At
    <2> QED
      BY <2>1, NoDescriptor DEF Holding
  <1>2. Keeps(os, Out(os, 0).os)
    BY OutIsResult, SameKeeps
  <1>3. ASSUME NEW ret, Return(Out(os, 0), ret)
        PROVE  Goes
    BY <1>1, <1>2, <1>3, ReturnGoes
  <1>4. ASSUME NEW at, at # "statopen", NEW c, Like(call, c), Take(Out(os, 0), at, c)
        PROVE  Goes
    BY <1>1, <1>2, <1>4, TakeFreeGoes
  <1>5. ASSUME NEW x, Take(Out(os, 0), "next", [call EXCEPT !.data = x])
        PROVE  Goes
    <2>1. Like(call, [call EXCEPT !.data = x])
      BY CallLikes
    <2> QED
      BY <1>1, <1>2, <1>5, <2>1, TakeFreeGoes
  <1>6. ASSUME NEW tag, NEW o \in OsGetXAttr(os, call.h, tag, call.n), NEW at, at # "statopen",
               NEW c, Like(call, c), Take(o, at, c)
        PROVE  Goes
    <2>1. Kept(os, o)
      BY XattrOutcomes
    <2>2. Keeps(os, o.os)
      BY <2>1 DEF Kept
    <2> QED
      BY <1>1, <1>6, <2>2, TakeFreeGoes
  <1>7. CASE \E ret : Return(Out(os, 0), ret)
    BY <1>3, <1>7
  <1>8. CASE \E go \in BOOLEAN :
                Take(Out(os, 0), IF go THEN "list" ELSE "return",
                     [call EXCEPT !.got = <<"ModifiedTime">>, !.data = TagOrder, !.ret = 1])
    <2> DEFINE c == [call EXCEPT !.got = <<"ModifiedTime">>, !.data = TagOrder, !.ret = 1]
    <2>1. Like(call, c)
      BY DEF Phase, Like, IsCall, NoCall
    <2>2. PICK go \in BOOLEAN : Take(Out(os, 0), IF go THEN "list" ELSE "return", c)
      BY <1>8
    <2> HIDE DEF c
    <2> DEFINE at == IF go THEN "list" ELSE "return"
    <2>3. at # "statopen" /\ Take(Out(os, 0), at, c)
      BY <2>2
    <2> HIDE DEF at
    <2> QED
      BY <1>4, <2>1, <2>3
  <1>9. CASE \E x : Take(Out(os, 0), "next", [call EXCEPT !.data = x])
    BY <1>5, <1>9
  <1>10. CASE \E tag : \E o \in OsGetXAttr(os, call.h, tag, call.n) : \E x, y : \E at \in {"next", "return"} :
                \/ Take(o, "next", [call EXCEPT !.data = x])
                \/ Take(o, at, [[call EXCEPT !.data = x] EXCEPT !.got = y])
    <2>1. PICK tag : \E o \in OsGetXAttr(os, call.h, tag, call.n) : \E x, y : \E at \in {"next", "return"} :
                \/ Take(o, "next", [call EXCEPT !.data = x])
                \/ Take(o, at, [[call EXCEPT !.data = x] EXCEPT !.got = y])
      BY <1>10
    <2>2. PICK o \in OsGetXAttr(os, call.h, tag, call.n) : \E x, y : \E at \in {"next", "return"} :
                \/ Take(o, "next", [call EXCEPT !.data = x])
                \/ Take(o, at, [[call EXCEPT !.data = x] EXCEPT !.got = y])
      BY <2>1
    <2>3. PICK x, y : \E at \in {"next", "return"} :
                \/ Take(o, "next", [call EXCEPT !.data = x])
                \/ Take(o, at, [[call EXCEPT !.data = x] EXCEPT !.got = y])
      BY <2>2
    <2>4. PICK at \in {"next", "return"} :
                \/ Take(o, "next", [call EXCEPT !.data = x])
                \/ Take(o, at, [[call EXCEPT !.data = x] EXCEPT !.got = y])
      BY <2>3
    <2> DEFINE c == [call EXCEPT !.data = x]
               d == [c EXCEPT !.got = y]
    <2>5. Like(call, c) /\ Like(call, d) /\ (Take(o, "next", c) \/ Take(o, at, d))
      BY <2>4, LikeChanges, CallLikes DEF Phase
    <2> HIDE DEF c, d
    <2> QED
      BY <1>6, <2>5
  <1>11. At("fenumxattr", "begin") => Goes
    BY <1>7, <1>8 DEF Fenumxattr, At
  <1>12. At("fenumxattr", "list") => Goes
    BY <1>7, <1>9 DEF Fenumxattr, At
  <1>13. At("fenumxattr", "next") => Goes
    BY <1>7, <1>10 DEF Fenumxattr, At
  <1> QED
    BY <1>11, <1>12, <1>13 DEF Fenumxattr

\* A step of any call does to descriptors what StepEffect says.
LEMMA StepGoes ==
  ASSUME Host(os), Phase, mounted \/ OpenFds(os) = {}, Step
  PROVE  Goes
  <1>1. mounted' = mounted
    BY DEF Step
  <1>2. CASE GetSizeByName \/ TruncateByName \/ SetContent \/ GetContent \/ GetContentBuffer
    BY <1>1, <1>2, GetSizeGoes, TruncateGoes, SetContentGoes, GetContentGoes, GetContentBufferGoes
  <1>3. CASE ReadContent \/ ReadContentSize \/ ReadContentByName \/ Makedirs
    BY <1>1, <1>3, ReadContentGoes, ReadContentByNameGoes, MakedirsGoes
  <1>4. CASE FileGetContent \/ FileEof \/ Fsetxattr \/ Setacl \/ Fstat
    BY <1>1, <1>4, FileGetContentGoes, HandleCallGoes
  <1>5. CASE DeviceRead \/ DeviceWrite \/ DeviceErase
    BY <1>1, <1>5, DeviceGoes
  <1>6. CASE Stat \/ Readdir("next")
    BY <1>1, <1>6, StattingGoes, ReaddirGoes DEF Stat
  <1>7. CASE Setxattr \/ Getxattr \/ Fenumxattr
    BY <1>1, <1>7, AttributeGoes, FenumxattrGoes
  <1>8. CASE Closing
    BY <1>1, <1>8, ClosingGoes
  <1> QED
    BY <1>2, <1>3, <1>4, <1>5, <1>6, <1>7, <1>8 DEF Step

-----------------------------------------------------------------------------
(* Who has what. *)

\* Each descriptor that is open is that of one File, of the application, of the device or
\* of the call.
OwnedOnce(open, fs, own, dev, fd) ==
  \A h \in Fds :
    /\ h \in open <=> ((\E f \in Files : fs[f] = h) \/ h \in own \/ dev = h \/ fd = h)
    /\ (\E f \in Files : fs[f] = h) => h \notin own /\ dev # h /\ fd # h
    /\ h \in own => dev # h /\ fd # h
    /\ dev = h => fd # h
    /\ \A f, g \in Files : fs[f] = h /\ fs[g] = h => f = g

\* And each stream is that of one Directory.
StreamedOnce(open, ds) ==
  \A t \in Streams :
    /\ t \in open <=> \E d \in Dirs : ds[d].stream = t
    /\ \A d, e \in Dirs : ds[d].stream = t /\ ds[e].stream = t => d = e

AreFiles(fs) == fs = [f \in Files |-> fs[f]]

IsDir(r) == r = [x \in DOMAIN ClosedDir |-> r[x]]
AreDirs(ds) == ds = [d \in Dirs |-> ds[d]] /\ \A d \in Dirs : IsDir(ds[d])

NothingOpen == OpenFds(os) = {} /\ OpenStreams(os) = {}

\* A file system that is not mounted has nothing open: that is why close(), which looks
\* whether it is mounted first, closes.
IInv ==
  /\ Host(os)
  /\ Phase
  /\ mounted \/ NothingOpen
  /\ AreFiles(files) /\ AreDirs(dirs)
  /\ OwnedOnce(OpenFds(os), files, mine, device.h, call.fd)
  /\ StreamedOnce(OpenStreams(os), dirs)

\* A step that leaves what is open, and who has it, leaves the invariant.
LEMMA LeftAlone ==
  ASSUME IInv, Keeps(os, os'), UNCHANGED <<files, mine, device>>, call'.fd = call.fd, Phase',
         mounted => mounted', AreDirs(dirs'), \A d \in Dirs : dirs'[d].stream = dirs[d].stream
  PROVE  IInv'
  <1>1. Host(os') /\ OpenFds(os') = OpenFds(os) /\ OpenStreams(os') = OpenStreams(os)
    BY DEF Keeps
  <1>2. mounted' \/ (OpenFds(os') = {} /\ OpenStreams(os') = {})
    BY <1>1 DEF IInv, NothingOpen
  <1>3. AreFiles(files') /\ OwnedOnce(OpenFds(os'), files', mine', device'.h, call'.fd)
    BY <1>1 DEF IInv
  <1>4. StreamedOnce(OpenStreams(os'), dirs')
    BY <1>1 DEF IInv, StreamedOnce
  <1> QED
    BY <1>1, <1>2, <1>3, <1>4 DEF IInv, NothingOpen

\* A step of the application that keeps what is open, between two calls.
LEMMA KeepingDone ==
  ASSUME IInv, NEW o, Keeps(os, o.os), Done(o), mounted => mounted', UNCHANGED <<files, mine, device>>,
         AreDirs(dirs'), \A d \in Dirs : dirs'[d].stream = dirs[d].stream
  PROVE  IInv'
  <1>1. Keeps(os, os') /\ call' = call
    BY DEF Done
  <1>2. Phase'
    BY <1>1 DEF IInv, Phase
  <1> QED
    BY <1>1, <1>2, LeftAlone

\* So does a step of a call, which may open or close its own descriptor.
LEMMA StepKeepsOwners ==
  ASSUME IInv, Step
  PROVE  IInv'
  <1>1. StepEffect /\ Phase'
    BY StepGoes DEF Goes, IInv, NothingOpen
  <1>2. UNCHANGED <<mounted, files, mine, dirs, device>>
    BY DEF Step, objects
  <1>3. CASE Keeps(os, os') /\ call'.fd = call.fd
    BY <1>1, <1>2, <1>3, LeftAlone DEF IInv
  <1>4. -1 \notin Fds
    BY HostAssumption
  <1>5. CASE /\ call.fd = -1 /\ mounted /\ call'.fd \in Fds \ OpenFds(os)
             /\ Host(os') /\ OpenFds(os') = OpenFds(os) \cup {call'.fd} /\ OpenStreams(os') = OpenStreams(os)
    <2>1. OwnedOnce(OpenFds(os'), files, mine, device.h, call'.fd)
      BY <1>4, <1>5 DEF IInv, OwnedOnce
    <2>2. StreamedOnce(OpenStreams(os'), dirs)
      BY <1>5 DEF IInv
    <2> QED
      BY <1>1, <1>2, <1>5, <2>1, <2>2 DEF IInv
  <1>6. CASE /\ call'.fd = -1
             /\ Host(os') /\ OpenFds(os') = OpenFds(os) \ {call.fd} /\ OpenStreams(os') = OpenStreams(os)
    <2>1. OwnedOnce(OpenFds(os'), files, mine, device.h, call'.fd)
      BY <1>4, <1>6 DEF IInv, OwnedOnce
    <2>2. StreamedOnce(OpenStreams(os'), dirs)
      BY <1>6 DEF IInv
    <2>3. mounted' \/ (OpenFds(os') = {} /\ OpenStreams(os') = {})
      BY <1>2, <1>6 DEF IInv, NothingOpen
    <2> QED
      BY <1>1, <1>2, <1>6, <2>1, <2>2, <2>3 DEF IInv, NothingOpen
  <1> QED
    BY <1>1, <1>3, <1>5, <1>6 DEF StepEffect

\* A call begins and ends without a descriptor of its own.
LEMMA CallBounds ==
  /\ IsCall(NoCall) /\ NoCall.fd = -1 /\ NoCall.at = "begin"
  /\ \A r \in Requests : IsCall(r) /\ r.fd = -1 /\ r.at # "statopen"
  <1>1. \A r \in Requests : r = [x \in DOMAIN NoCall |-> r[x]] /\ r.at = Start(r.fn) /\ r.fd = -1
    BY WrappersAssumption
  <1>2. \A fn : Start(fn) # "statopen"
    BY DEF Start
  <1>3. IsCall(NoCall) /\ NoCall.fd = -1 /\ NoCall.at = "begin"
    BY DEF IsCall, NoCall
  <1> QED
    BY <1>1, <1>2, <1>3 DEF IsCall

\* A call that begins has what it is given, and no descriptor of its own.
LEMMA BeginKeepsOwners ==
  ASSUME IInv, Begin
  PROVE  IInv'
  <1>1. call = NoCall /\ UNCHANGED <<os, mounted, files, mine, dirs, device>>
    BY DEF Begin, Ready, objects
  <1>2. PICK r \in Requests : \/ \E h : call' = [r EXCEPT !.h = h]
                              \/ \E h, b : call' = [r EXCEPT !.h = h, !.before = b]
                              \/ \E b : call' = [r EXCEPT !.before = b]
    BY DEF Begin
  <1>3. IsCall(r) /\ r.fd = -1 /\ r.at # "statopen"
    BY CallBounds
  <1>4. IsCall(call') /\ call'.fd = -1 /\ call'.at # "statopen"
    BY <1>2, <1>3 DEF IsCall, NoCall
  <1>5. Phase' /\ call'.fd = call.fd
    BY <1>1, <1>4, CallBounds DEF Phase
  <1>6. Keeps(os, os')
    BY <1>1, SameKeeps DEF IInv
  <1> QED
    BY <1>1, <1>5, <1>6, LeftAlone DEF IInv

\* What next() counts is not whose stream it is.
LEMMA FinishKeepsOwners ==
  ASSUME IInv, Finish
  PROVE  IInv'
  <1>1. /\ call.at = "return" /\ call' = NoCall /\ UNCHANGED <<os, mounted, files, mine, device>>
        /\ dirs' = IF call.fn = "next" /\ call.ret = FS_OK
                   THEN [dirs EXCEPT ![call.tag] = Counted(@, call.stat)] ELSE dirs
    BY DEF Finish
  <1>2. call.fd = -1
    BY <1>1, NoDescriptor DEF IInv, Holding
  <1>3. Phase' /\ call'.fd = call.fd
    BY <1>1, <1>2, CallBounds DEF Phase
  <1>4. Keeps(os, os')
    BY <1>1, SameKeeps DEF IInv
  <1>5. ASSUME NEW d \in Dirs
        PROVE  IsDir(dirs[d]) /\ IsDir(Counted(dirs[d], call.stat)) /\ Counted(dirs[d], call.stat).stream = dirs[d].stream
    <2>1. IsDir(dirs[d])
      BY DEF IInv, AreDirs
    <2> QED
      BY <2>1 DEF IsDir, ClosedDir, Counted
  <1>6. AreDirs(dirs') /\ \A d \in Dirs : dirs'[d].stream = dirs[d].stream
    BY <1>1, <1>5 DEF IInv, AreDirs
  <1> QED
    BY <1>1, <1>3, <1>4, <1>6, LeftAlone

\* Other programs have no descriptors of the library's.
LEMMA ForeignKeepsOwners ==
  ASSUME IInv, Foreign
  PROVE  IInv'
  <1>1. UNCHANGED <<mounted, files, mine, dirs, device>> /\ call' = [call EXCEPT !.foreign = TRUE, !.before = <<>>]
    BY DEF Foreign, objects
  <1>2. Like(call, call') /\ call'.at = call.at
    <2> DEFINE c == [call EXCEPT !.foreign = TRUE, !.before = <<>>]
    <2>1. IsCall(call)
      BY DEF IInv, Phase
    <2>2. Like(call, c) /\ c.at = call.at
      BY <2>1 DEF Like, IsCall, NoCall
    <2>3. call' = c
      BY <1>1
    <2> HIDE DEF c
    <2> QED
      BY <2>2, <2>3
  <1>3. Phase' /\ call'.fd = call.fd
    BY <1>1, <1>2 DEF IInv, Phase, Like
  <1>4. Host(os)
    BY DEF IInv
  <1>5. PICK p \in Paths \ {<<>>} :
          LET n == os.names[p]
          IN  \/ os' = Make(os, p, "File")
              \/ \E o \in OsRemove(os, p) : os' = o.os
              \/ \E data \in Contents : os' = Store(os, n, data)
              \/ os' = [os EXCEPT !.nodes[n].writable = ~@]
              \/ \E t \in Tags \ DOMAIN AttrSize : os' = [os EXCEPT !.nodes[n].attrs[t] = OtherAttr]
    BY DEF Foreign
  <1> DEFINE n == os.names[p]
  <1> HIDE DEF n
  <1>6. os' = Make(os, p, "File") => Keeps(os, os')
    BY <1>4, MakeKeeps
  <1>7. (\E o \in OsRemove(os, p) : os' = o.os) => Keeps(os, os')
    BY <1>4, RemoveOutcomes DEF Kept
  <1>8. ASSUME NEW data, os' = Store(os, n, data)
        PROVE  Keeps(os, os')
    <2>1. Keeps(os, Store(os, n, data))
      BY <1>4, DataKeeps
    <2> QED
      BY <1>8, <2>1
  <1>9. ASSUME os' = [os EXCEPT !.nodes[n].writable = ~@]
        PROVE  Keeps(os, os')
    <2> DEFINE w == ~os.nodes[n].writable
    <2>1. os' = [os EXCEPT !.nodes[n].writable = w]
      BY <1>9
    <2> HIDE DEF w
    <2>2. Keeps(os, [os EXCEPT !.nodes[n].writable = w])
      BY <1>4, DataKeeps
    <2> QED
      BY <2>1, <2>2
  <1>10. ASSUME NEW t, os' = [os EXCEPT !.nodes[n].attrs[t] = OtherAttr]
         PROVE  Keeps(os, os')
    <2>1. Keeps(os, [os EXCEPT !.nodes[n].attrs[t] = OtherAttr])
      BY <1>4, DataKeeps
    <2> QED
      BY <1>10, <2>1
  <1>11. Keeps(os, os')
    BY <1>5, <1>6, <1>7, <1>8, <1>9, <1>10 DEF n
  <1> QED
    BY <1>1, <1>3, <1>11, LeftAlone DEF IInv

\* Calls that are over at once and work on names or on a handle.
LEMMA SingleCallsKeepOwners ==
  ASSUME IInv, NEW h, Mount \/ MakeDirectory \/ RemovePath \/ RenamePath \/ Transfer(h)
  PROVE  IInv'
  <1>1. UNCHANGED <<files, mine, dirs, device>> /\ (mounted => mounted') /\ Host(os)
    <2>1. CASE Mount
      BY <2>1, Zenon DEF Mount, objects, IInv
    <2>2. CASE MakeDirectory \/ RemovePath \/ RenamePath
      BY <2>2 DEF MakeDirectory, RemovePath, RenamePath, objects, IInv
    <2>3. CASE Transfer(h)
      BY <2>3 DEF Transfer, objects, IInv
    <2> QED
      BY <2>1, <2>2, <2>3
  <1>2. ASSUME NEW o, Keeps(os, o.os), Done(o)
        PROVE  IInv'
    BY <1>1, <1>2, KeepingDone DEF IInv
  <1>3. ASSUME Mount
        PROVE  IInv'
    <2>1. PICK o \in HostMount : Done(o)
      BY <1>3 DEF Mount
    <2>2. ASSUME NEW x \in OsStat(os, <<>>), NEW r, o = [x EXCEPT !.ret = r]
          PROVE  Keeps(os, o.os)
      <3>1. Kept(os, x)
        BY <1>1, StatOutcomes
      <3> QED
        BY <2>2, <3>1, RetChanges DEF Kept
    <2>3. o = Out(os, FS_OK) \/ \E x \in OsStat(os, <<>>) : \E r : o = [x EXCEPT !.ret = r]
      BY DEF HostMount
    <2>4. Keeps(os, o.os)
      BY <1>1, <2>2, <2>3, OutIsResult, SameKeeps
    <2> QED
      BY <1>2, <2>1, <2>4
  <1>4. CASE MakeDirectory
    BY <1>1, <1>2, <1>4, HostKeeps DEF MakeDirectory
  <1>5. CASE RemovePath
    BY <1>1, <1>2, <1>5, HostKeeps DEF RemovePath
  <1>6. CASE RenamePath
    BY <1>1, <1>2, <1>6, HostKeeps DEF RenamePath
  <1>7. ASSUME Transfer(h)
        PROVE  IInv'
    <2>1. CASE \E o \in HostRead(os, h, 1) : Done(o)
      BY <1>1, <1>2, <2>1, HostKeeps
    <2>2. CASE \E data \in Contents : \E o \in HostWrite(os, h, data) : Done(o)
      BY <1>1, <1>2, <2>2, HostKeeps
    <2>3. CASE \E n \in Offsets : \E o \in HostSeek(os, h, n, "Start") : Done(o)
      BY <1>1, <1>2, <2>3, HostKeeps
    <2>4. CASE \E n \in Offsets : \E o \in HostTruncate(os, h, n) : Done(o)
      BY <1>1, <1>2, <2>4, HostKeeps
    <2>5. CASE \E at \in HostSeek(os, h, 0, "Current") :
                 IF at.ret < 0 THEN Done(at) ELSE \E o \in HostTruncate(os, h, at.ret) : Done(o)
      BY <1>1, <1>2, <2>5, HostKeeps
    <2> QED
      BY <1>7, <2>1, <2>2, <2>3, <2>4, <2>5 DEF Transfer
  <1> QED
    BY <1>3, <1>4, <1>5, <1>6, <1>7

\* Descriptors are opened, closed or given away between two calls.
LEMMA FdsChange ==
  ASSUME IInv, Host(os'), OpenStreams(os') = OpenStreams(os), call' = call, UNCHANGED <<mounted, dirs>>,
         mounted \/ OpenFds(os') = {}, AreFiles(files'),
         OwnedOnce(OpenFds(os'), files', mine', device'.h, call.fd)
  PROVE  IInv'
  <1>1. Phase' /\ AreDirs(dirs') /\ StreamedOnce(OpenStreams(os'), dirs')
    BY DEF IInv, Phase
  <1>2. mounted' \/ (OpenFds(os') = {} /\ OpenStreams(os') = {})
    BY DEF IInv, NothingOpen
  <1> QED
    BY <1>1, <1>2 DEF IInv, NothingOpen

\* File::open() closes what it had, and has what it opens.
LEMMA FileOpenKeepsOwners ==
  ASSUME IInv, NEW f \in Files, FileOpen(f)
  PROVE  IInv'
  <1>1. UNCHANGED <<mounted, mine, dirs, device>>
    BY DEF FileOpen
  <1>2. PICK r \in Requests, flags \in FlagSets : \E closed \in HostClose(os, files[f]) :
          \E o \in HostOpen(closed.os, r.path, flags) : Done(o) /\ files' = [files EXCEPT ![f] = o.ret]
    BY DEF FileOpen
  <1>3. PICK closed \in HostClose(os, files[f]) :
          \E o \in HostOpen(closed.os, r.path, flags) : Done(o) /\ files' = [files EXCEPT ![f] = o.ret]
    BY <1>2
  <1>4. PICK o \in HostOpen(closed.os, r.path, flags) : Done(o) /\ files' = [files EXCEPT ![f] = o.ret]
    BY <1>3
  <1>5. Closes(os, files[f], closed)
    BY HostCloseOutcomes DEF IInv, NothingOpen
  <1>6. Host(closed.os) /\ OpenFds(closed.os) = OpenFds(os) \ {files[f]} /\ OpenStreams(closed.os) = OpenStreams(os)
    BY <1>5 DEF Closes
  <1>7. Opens(closed.os, o) /\ (o.ret >= 0 => mounted)
    BY <1>6, HostOpenOutcomes
  <1>8. os' = o.os /\ call' = call
    BY <1>4 DEF Done
  <1>9. AreFiles(files') /\ \A g \in Files : files'[g] = IF g = f THEN o.ret ELSE files[g]
    BY <1>4 DEF IInv, AreFiles
  <1>10. CASE o.ret < 0
    <2>1. Host(os') /\ OpenFds(os') = OpenFds(os) \ {files[f]} /\ OpenStreams(os') = OpenStreams(os)
      BY <1>6, <1>7, <1>8, <1>10 DEF Opens, Keeps
    <2>2. o.ret \notin Fds
      <3>1. o.ret \in Fds => o.ret \in Nat
        BY HostAssumption
      <3> QED
        BY <1>10, <3>1
    <2>3. OwnedOnce(OpenFds(os'), files', mine, device.h, call.fd)
      BY <1>9, <2>1, <2>2 DEF IInv, OwnedOnce
    <2>4. mounted \/ OpenFds(os') = {}
      BY <2>1 DEF IInv, NothingOpen
    <2> QED
      BY <1>1, <1>8, <1>9, <2>1, <2>3, <2>4, FdsChange
  <1>11. CASE o.ret >= 0
    <2>1. /\ Host(os') /\ OpenFds(os') = (OpenFds(os) \ {files[f]}) \cup {o.ret}
          /\ OpenStreams(os') = OpenStreams(os) /\ o.ret \in Fds \ (OpenFds(os) \ {files[f]}) /\ mounted
      BY <1>6, <1>7, <1>8, <1>11 DEF Opens
    <2>2. OwnedOnce(OpenFds(os'), files', mine, device.h, call.fd)
      BY <1>9, <2>1 DEF IInv, OwnedOnce
    <2> QED
      BY <1>1, <1>8, <1>9, <2>1, <2>2, FdsChange
  <1> QED
    BY <1>7, <1>10, <1>11 DEF Opens

\* A descriptor is closed by the one who has it.
LEMMA ClosesOwn ==
  ASSUME IInv, NEW h, NEW o \in HostClose(os, h), Done(o), UNCHANGED <<mounted, dirs>>, AreFiles(files'),
         OwnedOnce(OpenFds(os) \ {h}, files', mine', device'.h, call.fd)
  PROVE  IInv'
  <1>1. Closes(os, h, o)
    BY HostCloseOutcomes DEF IInv, NothingOpen
  <1>2. Host(os') /\ OpenFds(os') = OpenFds(os) \ {h} /\ OpenStreams(os') = OpenStreams(os) /\ call' = call
    BY <1>1 DEF Closes, Done
  <1>3. mounted \/ OpenFds(os') = {}
    BY <1>2 DEF IInv, NothingOpen
  <1> QED
    BY <1>2, <1>3, FdsChange

\* File::close() and the destructor, the application and the device.
LEMMA ClosingKeepsOwners ==
  ASSUME IInv, \/ \E f \in Files : FileClose(f)
               \/ \E h \in Held : CloseMine(h)
               \/ DeviceClose
  PROVE  IInv'
  <1>1. AreFiles(files) /\ OwnedOnce(OpenFds(os), files, mine, device.h, call.fd) /\ -1 \notin Fds
    BY HostAssumption DEF IInv
  <1>2. ASSUME NEW f \in Files, FileClose(f)
        PROVE  IInv'
    <2>1. UNCHANGED <<mounted, mine, dirs, device>> /\ files' = [files EXCEPT ![f] = -1]
      BY <1>2 DEF FileClose
    <2>2. AreFiles(files') /\ \A g \in Files : files'[g] = IF g = f THEN -1 ELSE files[g]
      BY <1>1, <2>1 DEF AreFiles
    <2>3. OwnedOnce(OpenFds(os) \ {files[f]}, files', mine', device'.h, call.fd)
      BY <1>1, <2>1, <2>2 DEF OwnedOnce
    <2> QED
      BY <1>2, <2>1, <2>2, <2>3, ClosesOwn DEF FileClose
  <1>3. ASSUME NEW h, CloseMine(h)
        PROVE  IInv'
    <2>1. UNCHANGED <<mounted, files, dirs, device>> /\ mine' = mine \ {h} /\ h \in mine
      BY <1>3 DEF CloseMine
    <2>2. OwnedOnce(OpenFds(os) \ {h}, files', mine', device'.h, call.fd)
      BY <1>1, <2>1 DEF OwnedOnce
    <2> QED
      BY <1>1, <1>3, <2>1, <2>2, ClosesOwn DEF CloseMine
  <1>4. ASSUME DeviceClose
        PROVE  IInv'
    <2>1. UNCHANGED <<mounted, files, mine, dirs>> /\ device' = NoDevice
      BY <1>4 DEF DeviceClose
    <2>2. device'.h = -1
      BY <2>1 DEF NoDevice
    <2>3. OwnedOnce(OpenFds(os) \ {device.h}, files', mine', device'.h, call.fd)
      BY <1>1, <2>1, <2>2 DEF OwnedOnce
    <2> QED
      BY <1>1, <1>4, <2>1, <2>3, ClosesOwn DEF DeviceClose
  <1> QED
    BY <1>2, <1>3, <1>4

\* A File gives its descriptor to the application, or to a device.
LEMMA GivingKeepsOwners ==
  ASSUME IInv, NEW f \in Files, FileRelease(f) \/ DeviceOpen(f)
  PROVE  IInv'
  <1>1. AreFiles(files) /\ OwnedOnce(OpenFds(os), files, mine, device.h, call.fd) /\ -1 \notin Fds
    BY HostAssumption DEF IInv
  <1>2. UNCHANGED <<mounted, dirs>> /\ files' = [files EXCEPT ![f] = -1]
    BY DEF FileRelease, DeviceOpen, hostVars
  <1>3. AreFiles(files') /\ \A g \in Files : files'[g] = IF g = f THEN -1 ELSE files[g]
    BY <1>1, <1>2 DEF AreFiles
  <1>4. ASSUME FileRelease(f)
        PROVE  IInv'
    <2>1. UNCHANGED <<os, call, device>> /\ mine' = mine \cup {files[f]}
      BY <1>4 DEF FileRelease, hostVars
    <2>2. OwnedOnce(OpenFds(os), files', mine', device'.h, call.fd)
      BY <1>1, <1>3, <2>1 DEF OwnedOnce
    <2>3. Host(os') /\ OpenFds(os') = OpenFds(os) /\ OpenStreams(os') = OpenStreams(os)
      BY <2>1 DEF IInv
    <2> QED
      BY <1>2, <1>3, <2>1, <2>2, <2>3, FdsChange DEF IInv, NothingOpen
  <1>5. ASSUME DeviceOpen(f)
        PROVE  IInv'
    <2>1. PICK o \in SizeOf(os, files[f]) : Done(o) /\ device'.h = files[f]
      BY <1>5 DEF DeviceOpen
    <2>2. UNCHANGED mine /\ device = NoDevice
      BY <1>5 DEF DeviceOpen
    <2>3. device.h = -1
      BY <2>2 DEF NoDevice
    <2>4. OwnedOnce(OpenFds(os), files', mine', device'.h, call.fd)
      BY <1>1, <1>3, <2>1, <2>2, <2>3 DEF OwnedOnce
    <2>5. Keeps(os, o.os)
      BY SizeOfKeeps DEF IInv
    <2>6. Host(os') /\ OpenFds(os') = OpenFds(os) /\ OpenStreams(os') = OpenStreams(os) /\ call' = call
      BY <2>1, <2>5 DEF Keeps, Done
    <2> QED
      BY <1>2, <1>3, <2>4, <2>6, FdsChange DEF IInv, NothingOpen
  <1> QED
    BY <1>4, <1>5

\* A stream is opened or closed between two calls.
LEMMA StreamsChange ==
  ASSUME IInv, Host(os'), OpenFds(os') = OpenFds(os), call' = call, UNCHANGED <<mounted, files, mine, device>>,
         mounted \/ OpenStreams(os') = {}, AreDirs(dirs'), StreamedOnce(OpenStreams(os'), dirs')
  PROVE  IInv'
  <1>1. Phase' /\ AreFiles(files') /\ OwnedOnce(OpenFds(os'), files', mine', device'.h, call'.fd)
    BY DEF IInv, Phase
  <1>2. mounted' \/ (OpenFds(os') = {} /\ OpenStreams(os') = {})
    BY DEF IInv, NothingOpen
  <1> QED
    BY <1>1, <1>2 DEF IInv, NothingOpen

\* Directory::open() has the new stream, and closes the one it had.
LEMMA DirOpenKeepsOwners ==
  ASSUME IInv, NEW d \in Dirs, DirOpen(d)
  PROVE  IInv'
  <1>1. UNCHANGED <<mounted, files, mine, device>>
    BY DEF DirOpen
  <1>2. PICK r \in Requests : \E o \in HostOpendir(os, r.path) :
         IF o.ret < 0 THEN Done(o) /\ UNCHANGED dirs
         ELSE /\ IF dirs[d].stream = 0 THEN Done(o)
                 ELSE \E closed \in HostClosedir(o.os, dirs[d].stream) : Done(closed)
              /\ dirs' = [dirs EXCEPT ![d].stream = o.ret, ![d].path = ResolvePath(r.path),
                                      ![d].listed = <<>>, ![d].reused = (dirs[d].max >= 0)]
    BY DEF DirOpen
  <1>3. PICK o \in HostOpendir(os, r.path) :
         IF o.ret < 0 THEN Done(o) /\ UNCHANGED dirs
         ELSE /\ IF dirs[d].stream = 0 THEN Done(o)
                 ELSE \E closed \in HostClosedir(o.os, dirs[d].stream) : Done(closed)
              /\ dirs' = [dirs EXCEPT ![d].stream = o.ret, ![d].path = ResolvePath(r.path),
                                      ![d].listed = <<>>, ![d].reused = (dirs[d].max >= 0)]
    BY <1>2
  <1>4. GivesStream(os, o) /\ (o.ret > 0 => mounted)
    BY HostOpendirOutcomes DEF IInv
  <1>5. CASE o.ret < 0
    <2>1. Keeps(os, o.os) /\ Done(o) /\ UNCHANGED dirs
      BY <1>3, <1>4, <1>5 DEF GivesStream
    <2> QED
      BY <1>1, <2>1, KeepingDone DEF IInv
  <1>6. CASE ~(o.ret < 0)
    <2> DEFINE path == ResolvePath(r.path)
               reused == (dirs[d].max >= 0)
               d1 == [dirs EXCEPT ![d].stream = o.ret]
               d2 == [d1 EXCEPT ![d].path = path]
               d3 == [d2 EXCEPT ![d].listed = <<>>]
               d4 == [d3 EXCEPT ![d].reused = reused]
    <2>1. dirs' = d4
      BY <1>3, <1>6
    <2> HIDE DEF path, reused
    <2>2. AreDirs(d1) /\ \A e \in Dirs : d1[e].stream = IF e = d THEN o.ret ELSE dirs[e].stream
      BY DEF IInv, AreDirs, IsDir, ClosedDir
    <2> HIDE DEF d1
    <2>3. AreDirs(d2) /\ \A e \in Dirs : d2[e].stream = d1[e].stream
      BY <2>2 DEF AreDirs, IsDir, ClosedDir
    <2> HIDE DEF d2
    <2>4. AreDirs(d3) /\ \A e \in Dirs : d3[e].stream = d2[e].stream
      BY <2>3 DEF AreDirs, IsDir, ClosedDir
    <2> HIDE DEF d3
    <2>5. AreDirs(d4) /\ \A e \in Dirs : d4[e].stream = d3[e].stream
      BY <2>4 DEF AreDirs, IsDir, ClosedDir
    <2> HIDE DEF d4
    <2>6. AreDirs(dirs') /\ \A e \in Dirs : dirs'[e].stream = IF e = d THEN o.ret ELSE dirs[e].stream
      BY <2>1, <2>2, <2>3, <2>4, <2>5
    <2>7. o.ret > 0 /\ o.ret \in Int
      BY <1>4, <1>6 DEF GivesStream
    <2>8. /\ o.ret \in Streams \ OpenStreams(os) /\ mounted
          /\ Host(o.os) /\ OpenFds(o.os) = OpenFds(os) /\ OpenStreams(o.os) = OpenStreams(os) \cup {o.ret}
      BY <1>4, <2>7 DEF GivesStream
    <2>9. 0 \notin Streams
      BY HostAssumption
    <2>10. /\ Host(os') /\ OpenFds(os') = OpenFds(os) /\ call' = call
           /\ OpenStreams(os') = (OpenStreams(os) \cup {o.ret}) \ {dirs[d].stream}
      <3>1. CASE dirs[d].stream = 0
        <4>1. Done(o)
          BY <1>3, <1>6, <3>1
        <4>2. os' = o.os /\ call' = call
          BY <4>1 DEF Done
        <4>3. 0 \notin OpenStreams(os) \cup {o.ret}
          BY <2>7, <2>9 DEF OpenStreams
        <4> QED
          BY <2>8, <3>1, <4>2, <4>3
      <3>2. CASE dirs[d].stream # 0
        <4>1. PICK closed \in HostClosedir(o.os, dirs[d].stream) : Done(closed)
          BY <1>3, <1>6, <3>2
        <4>2. EndsStream(o.os, dirs[d].stream, closed.os)
          BY <2>8, HostClosedirOutcomes
        <4> QED
          BY <2>8, <4>1, <4>2 DEF EndsStream, Done
      <3> QED
        BY <3>1, <3>2
    <2>11. StreamedOnce(OpenStreams(os'), dirs')
      BY <2>6, <2>8, <2>10 DEF IInv, StreamedOnce
    <2> QED
      BY <1>1, <2>6, <2>8, <2>10, <2>11, StreamsChange
  <1> QED
    BY <1>5, <1>6

\* Directory::close(), next() and rewind().
LEMMA DirCallsKeepOwners ==
  ASSUME IInv, NEW d \in Dirs, DirClose(d) \/ DirNext(d) \/ DirRewind(d)
  PROVE  IInv'
  <1>1. UNCHANGED <<mounted, files, mine, device>>
    BY DEF DirClose, DirNext, DirRewind, objects
  <1>2. Host(os) /\ AreDirs(dirs) /\ StreamedOnce(OpenStreams(os), dirs) /\ 0 \notin Streams
    BY HostAssumption DEF IInv
  <1>3. ASSUME DirClose(d)
        PROVE  IInv'
    <2>1. PICK o \in HostClosedir(os, dirs[d].stream) : Done(o)
      BY <1>3 DEF DirClose
    <2>2. EndsStream(os, dirs[d].stream, o.os)
      BY <1>2, HostClosedirOutcomes DEF IInv, NothingOpen
    <2>3. Host(os') /\ OpenFds(os') = OpenFds(os) /\ OpenStreams(os') = OpenStreams(os) \ {dirs[d].stream} /\ call' = call
      BY <2>1, <2>2 DEF EndsStream, Done
    <2>4. dirs' = [dirs EXCEPT ![d].stream = 0]
      BY <1>3 DEF DirClose
    <2>5. AreDirs(dirs') /\ \A e \in Dirs : dirs'[e].stream = IF e = d THEN 0 ELSE dirs[e].stream
      BY <1>2, <2>4 DEF AreDirs, IsDir, ClosedDir
    <2>6. StreamedOnce(OpenStreams(os'), dirs')
      BY <1>2, <2>3, <2>5 DEF StreamedOnce
    <2>7. mounted \/ OpenStreams(os') = {}
      BY <2>3 DEF IInv, NothingOpen
    <2> QED
      BY <1>1, <2>3, <2>5, <2>6, <2>7, StreamsChange
  <1>4. ASSUME DirRewind(d)
        PROVE  IInv'
    <2>1. PICK o \in HostRewinddir(os, dirs[d].stream) : Done(o)
      BY <1>4 DEF DirRewind
    <2>2. dirs[d].stream \in OpenStreams(os) \/ dirs[d].stream \notin Streams
      BY <1>2 DEF StreamedOnce
    <2>3. Keeps(os, o.os)
      BY <1>2, <2>2, HostRewinddirOutcomes
    <2> DEFINE d1 == [dirs EXCEPT ![d].index = -1]
               d2 == [d1 EXCEPT ![d].listed = <<>>]
    <2>4. dirs' = d2
      BY <1>4 DEF DirRewind
    <2>5. AreDirs(d1) /\ \A e \in Dirs : d1[e].stream = dirs[e].stream
      BY <1>2 DEF AreDirs, IsDir, ClosedDir
    <2> HIDE DEF d1
    <2>6. AreDirs(d2) /\ \A e \in Dirs : d2[e].stream = d1[e].stream
      BY <2>5 DEF AreDirs, IsDir, ClosedDir
    <2> HIDE DEF d2
    <2>7. AreDirs(dirs') /\ \A e \in Dirs : dirs'[e].stream = dirs[e].stream
      BY <2>4, <2>5, <2>6
    <2> QED
      BY <1>1, <2>1, <2>3, <2>7, KeepingDone
  <1>5. ASSUME DirNext(d)
        PROVE  IInv'
    <2>1. UNCHANGED <<os, dirs>> /\ call = NoCall /\ call' = [NoCall EXCEPT !.fn = "next", !.h = dirs[d].stream, !.tag = d]
      BY <1>5 DEF DirNext, May, Ready, objects
    <2>2. IsCall(call') /\ call'.fd = -1 /\ call'.at = "begin"
      BY <2>1 DEF IsCall, NoCall
    <2>3. Phase' /\ call'.fd = call.fd
      BY <2>1, <2>2, CallBounds DEF Phase
    <2>4. Keeps(os, os')
      BY <1>2, <2>1, SameKeeps
    <2> QED
      BY <1>1, <1>2, <2>1, <2>3, <2>4, LeftAlone
  <1> QED
    BY <1>3, <1>4, <1>5

-----------------------------------------------------------------------------
(* The invariant, and what it says of owners. *)

\* At first nothing is open.
LEMMA InitOwners ==
  ASSUME Init
  PROVE  IInv
  <1>1. PICK names, nodes : os = [names |-> names, nodes |-> nodes, fds |-> [d \in Fds |-> ClosedFd],
                                  streams |-> [d \in Streams |-> NoStream]]
    BY DEF Init
  <1>2. /\ call = NoCall /\ files = [f \in Files |-> -1] /\ mine = {} /\ dirs = [d \in Dirs |-> ClosedDir]
        /\ device = NoDevice
    BY DEF Init
  <1>3. Desc(ClosedFd) /\ Stream(NoStream)
    BY DEF Desc, ClosedFd, Stream, NoStream
  <1>4. Host(os) /\ OpenFds(os) = {} /\ OpenStreams(os) = {}
    BY <1>1, <1>3 DEF Host, OpenFds, OpenStreams
  <1>5. Phase /\ call.fd = -1
    BY <1>2, CallBounds DEF Phase
  <1>6. AreFiles(files) /\ \A f \in Files : files[f] = -1
    BY <1>2 DEF AreFiles
  <1>7. IsDir(ClosedDir) /\ ClosedDir.stream = 0 /\ device.h = -1
    BY <1>2 DEF IsDir, ClosedDir, NoDevice
  <1>8. AreDirs(dirs) /\ \A d \in Dirs : dirs[d].stream = 0
    BY <1>2, <1>7 DEF AreDirs
  <1>9. -1 \notin Fds /\ 0 \notin Streams
    BY HostAssumption
  <1>10. OwnedOnce({}, files, mine, device.h, call.fd)
    BY <1>2, <1>5, <1>6, <1>7, <1>9 DEF OwnedOnce
  <1>11. StreamedOnce({}, dirs)
    BY <1>8, <1>9 DEF StreamedOnce
  <1> QED
    BY <1>4, <1>5, <1>6, <1>8, <1>10, <1>11 DEF IInv, NothingOpen

\* Every step keeps it.
LEMMA NextKeepsOwners ==
  ASSUME IInv, [Next]_vars
  PROVE  IInv'
  <1>1. CASE Step \/ Begin \/ Finish \/ Foreign
    BY <1>1, StepKeepsOwners, BeginKeepsOwners, FinishKeepsOwners, ForeignKeepsOwners
  <1>2. CASE Mount \/ MakeDirectory \/ RemovePath \/ RenamePath \/ \E h \in Held : Transfer(h)
    BY <1>2, SingleCallsKeepOwners
  <1>3. CASE \E f \in Files : FileOpen(f)
    BY <1>3, FileOpenKeepsOwners
  <1>4. CASE (\E f \in Files : FileClose(f)) \/ (\E h \in Held : CloseMine(h)) \/ DeviceClose
    BY <1>4, ClosingKeepsOwners
  <1>5. CASE \E f \in Files : FileRelease(f) \/ DeviceOpen(f)
    BY <1>5, GivingKeepsOwners
  <1>6. CASE \E d \in Dirs : DirOpen(d)
    BY <1>6, DirOpenKeepsOwners
  <1>7. CASE \E d \in Dirs : DirClose(d) \/ DirNext(d) \/ DirRewind(d)
    BY <1>7, DirCallsKeepOwners
  <1>8. CASE UNCHANGED vars
    <2>1. UNCHANGED <<os, mounted, call, files, mine, dirs, device>>
      BY <1>8 DEF vars, hostVars
    <2> QED
      BY <2>1 DEF IInv, Phase, NothingOpen
  <1> QED
    BY <1>1, <1>2, <1>3, <1>4, <1>5, <1>6, <1>7, <1>8 DEF Next

\* With it each descriptor and each stream has its owner.
LEMMA OwnersCounted ==
  ASSUME IInv
  PROVE  HandlesOwned
  <1>1. ASSUME NEW h \in Fds
        PROVE  LET owners == {<<"file", f>> : f \in {g \in Files : files[g] = h}} \cup
                             {<<"mine", h>> : x \in mine \cap {h}} \cup
                             {<<"device", h>> : x \in {device.h} \cap {h}} \cup
                             {<<"call", h>> : x \in {call.fd} \cap {h}}
               IN  Cardinality(owners) = IF os.fds[h] = ClosedFd THEN 0 ELSE 1
    <2> DEFINE F == {<<"file", f>> : f \in {g \in Files : files[g] = h}}
               M == {<<"mine", h>> : x \in mine \cap {h}}
               D == {<<"device", h>> : x \in {device.h} \cap {h}}
               C == {<<"call", h>> : x \in {call.fd} \cap {h}}
               owners == F \cup M \cup D \cup C
    <2>1. /\ h \in OpenFds(os) <=> ((\E f \in Files : files[f] = h) \/ h \in mine \/ device.h = h \/ call.fd = h)
          /\ (\E f \in Files : files[f] = h) => h \notin mine /\ device.h # h /\ call.fd # h
          /\ h \in mine => device.h # h /\ call.fd # h
          /\ device.h = h => call.fd # h
          /\ \A f, g \in Files : files[f] = h /\ files[g] = h => f = g
      BY DEF IInv, OwnedOnce
    <2>2. h \in OpenFds(os) <=> os.fds[h] # ClosedFd
      BY DEF OpenFds
    <2>3. /\ (~\E f \in Files : files[f] = h) => F = {}
          /\ \A f \in Files : files[f] = h => F = {<<"file", f>>}
      BY <2>1
    <2>4. /\ M = IF h \in mine THEN {<<"mine", h>>} ELSE {}
          /\ D = IF device.h = h THEN {<<"device", h>>} ELSE {}
          /\ C = IF call.fd = h THEN {<<"call", h>>} ELSE {}
      OBVIOUS
    <2> HIDE DEF F, M, D, C
    <2>5. CASE os.fds[h] = ClosedFd
      <3>1. owners = {}
        BY <2>1, <2>2, <2>3, <2>4, <2>5
      <3> HIDE DEF owners
      <3>2. Cardinality(owners) = 0
        BY <3>1, FS_EmptySet
      <3> QED
        BY <2>5, <3>2 DEF owners, F, M, D, C
    <2>6. CASE os.fds[h] # ClosedFd
      <3>1. \E x : owners = {x}
        <4>1. CASE \E f \in Files : files[f] = h
          <5>1. PICK f \in Files : files[f] = h
            BY <4>1
          <5>2. F = {<<"file", f>>} /\ M = {} /\ D = {} /\ C = {}
            BY <2>1, <2>3, <2>4, <5>1
          <5> QED
            BY <5>2
        <4>2. CASE ~\E f \in Files : files[f] = h
          <5>1. F = {} /\ (h \in mine \/ device.h = h \/ call.fd = h)
            BY <2>1, <2>2, <2>3, <2>6, <4>2
          <5>2. CASE h \in mine
            BY <2>1, <2>4, <5>1, <5>2
          <5>3. CASE h \notin mine /\ device.h = h
            BY <2>1, <2>4, <5>1, <5>3
          <5>4. CASE h \notin mine /\ device.h # h
            BY <2>4, <5>1, <5>4
          <5> QED
            BY <5>2, <5>3, <5>4
        <4> QED
          BY <4>1, <4>2
      <3> HIDE DEF owners
      <3>2. PICK x : owners = {x}
        BY <3>1
      <3>3. Cardinality(owners) = 1
        BY <3>2, FS_Singleton
      <3> QED
        BY <2>6, <3>3 DEF owners, F, M, D, C
    <2> QED
      BY <2>5, <2>6
  <1>2. ASSUME NEW t \in Streams
        PROVE  Cardinality({d \in Dirs : dirs[d].stream = t}) = IF os.streams[t] = NoStream THEN 0 ELSE 1
    <2> DEFINE owners == {d \in Dirs : dirs[d].stream = t}
    <2>1. /\ os.streams[t] # NoStream <=> \E d \in Dirs : dirs[d].stream = t
          /\ \A d, e \in Dirs : dirs[d].stream = t /\ dirs[e].stream = t => d = e
      BY DEF IInv, StreamedOnce, OpenStreams
    <2>2. CASE os.streams[t] = NoStream
      <3>1. owners = {}
        BY <2>1, <2>2
      <3> QED
        BY <2>2, <3>1, FS_EmptySet
    <2>3. CASE os.streams[t] # NoStream
      <3>1. PICK d \in Dirs : dirs[d].stream = t
        BY <2>1, <2>3
      <3>2. owners = {d}
        BY <2>1, <3>1
      <3>3. Cardinality({d}) = 1
        BY FS_Singleton
      <3> QED
        BY <2>3, <3>2, <3>3
    <2> QED
      BY <2>2, <2>3
  <1> QED
    BY <1>1, <1>2 DEF HandlesOwned

\* Whatever fails, and whatever other programs do: each descriptor that is open belongs to
\* one File, FileDevice, call in progress or to the application, and each DIR to one
\* Directory (File::open, close, release; the calls by name; Directory::open, close).
THEOREM HandlesHaveOneOwner == Spec => []HandlesOwned
  <1>1. Init => IInv
    BY InitOwners
  <1>2. IInv /\ [Next]_vars => IInv'
    BY NextKeepsOwners
  <1>3. IInv => HandlesOwned
    BY OwnersCounted
  <1> QED
    BY <1>1, <1>2, <1>3, PTL DEF Spec

-----------------------------------------------------------------------------
(* What files hold. *)

\* The smaller and the greater of two numbers.
LEMMA LeastOfTwo ==
  ASSUME NEW a \in Int, NEW b \in Int
  PROVE  Min({a, b}) = IF a <= b THEN a ELSE b
  <1> DEFINE m == IF a <= b THEN a ELSE b
  <1>1. m \in {a, b} /\ \A y \in {a, b} : m <= y
    OBVIOUS
  <1>2. \A x \in {a, b} : (\A y \in {a, b} : x <= y) => x = m
    BY <1>1
  <1> HIDE DEF m
  <1> QED
    BY <1>1, <1>2 DEF Min

\* And the greatest.
LEMMA GreatestOfTwo ==
  ASSUME NEW a \in Int, NEW b \in Int
  PROVE  Max({a, b}) = IF a >= b THEN a ELSE b
  <1> DEFINE m == IF a >= b THEN a ELSE b
  <1>1. m \in {a, b} /\ \A y \in {a, b} : m >= y
    OBVIOUS
  <1>2. \A x \in {a, b} : (\A y \in {a, b} : x >= y) => x = m
    BY <1>1
  <1> HIDE DEF m
  <1> QED
    BY <1>1, <1>2 DEF Max

\* A part of a content from one of its positions on.
LEMMA PartIs ==
  ASSUME NEW S, NEW data \in Seq(S), NEW from \in Nat \ {0}, NEW to \in Int
  PROVE  /\ Part(data, from, to) \in Seq(S) /\ Len(Part(data, from, to)) \in Nat
         /\ Part(data, from, to) = SubSeq(data, from, IF to <= Len(data) THEN to ELSE Len(data))
         /\ Len(Part(data, from, to)) = LET n == IF to <= Len(data) THEN to ELSE Len(data)
                                        IN  IF from <= n THEN n - from + 1 ELSE 0
  <1> DEFINE n == IF to <= Len(data) THEN to ELSE Len(data)
  <1>1. Len(data) \in Nat
    OBVIOUS
  <1>2. n \in Int /\ n <= Len(data) /\ Min({to, Len(data)}) = n
    BY <1>1, LeastOfTwo
  <1> HIDE DEF n
  <1>3. SubSeq(data, from, n) \in Seq(S) /\ Len(SubSeq(data, from, n)) = IF from <= n THEN n - from + 1 ELSE 0
    <2>1. \A i \in from..n : data[i] \in S
      BY <1>1, <1>2
    <2> QED
      BY <1>2, <2>1, SubSeqProperties
  <1>4. Part(data, from, to) = SubSeq(data, from, n)
    BY <1>2 DEF Part
  <1> QED
    BY <1>2, <1>3, <1>4 DEF n

\* Content that is written over.
LEMMA OverwriteIs ==
  ASSUME NEW content \in Seq(Blocks), NEW at \in Nat, NEW data \in Seq(Blocks)
  PROVE  /\ Overwrite(content, at, data) \in Seq(Blocks)
         /\ Len(Overwrite(content, at, data)) =
              IF Len(content) >= at + Len(data) THEN Len(content) ELSE at + Len(data)
  <1> DEFINE m == IF Len(content) >= at + Len(data) THEN Len(content) ELSE at + Len(data)
             Block(i) == IF i > at /\ i <= at + Len(data) THEN data[i - at]
                         ELSE IF i <= Len(content) THEN content[i] ELSE Zero
  <1>1. Len(content) \in Nat /\ Len(data) \in Nat /\ Zero \in Blocks
    BY HostAssumption
  <1>2. m \in Nat /\ Max({Len(content), at + Len(data)}) = m
    BY <1>1, GreatestOfTwo
  <1>3. Overwrite(content, at, data) = [i \in 1..m |-> Block(i)]
    BY <1>2 DEF Overwrite
  <1>4. ASSUME NEW i \in 1..m PROVE Block(i) \in Blocks
    <2>1. i \in Nat /\ i >= 1
      BY <1>2
    <2>2. i > at /\ i <= at + Len(data) => i - at \in 1..Len(data)
      BY <1>1, <2>1
    <2>3. i <= Len(content) => i \in 1..Len(content)
      BY <1>1, <2>1
    <2> QED
      BY <1>1, <2>2, <2>3
  <1> HIDE DEF Block
  <1>5. [i \in 1..m |-> Block(i)] \in Seq(Blocks) /\ Len([i \in 1..m |-> Block(i)]) = m
    BY <1>2, <1>4
  <1> QED
    BY <1>3, <1>5

-----------------------------------------------------------------------------
(* A state of the host in which what leads to a file leads to one.         *)

IsNode(r) ==
  /\ r = [kind |-> r.kind, data |-> r.data, writable |-> r.writable, mtime |-> r.mtime, attrs |-> r.attrs]
  /\ r.kind \in {"Free", "File", "Directory"}
  /\ IsContent(r.data)

There(s, n) == n \in Nodes /\ s.nodes[n].kind # "Free"

Sound(s) ==
  /\ Host(s)
  /\ s.names \in [Paths -> Nodes \cup {0}]
  /\ s.nodes = [n \in Nodes |-> s.nodes[n]] /\ \A n \in Nodes : IsNode(s.nodes[n])
  /\ \A p \in Paths : s.names[p] # 0 => There(s, s.names[p])
  /\ \A h \in OpenFds(s) : There(s, s.fds[h].node) /\ s.fds[h].pos \in Nat

\* Nothing that has a name is changed, and no descriptor other than those given.
Leaves(s, t, ds) ==
  /\ t.names = s.names
  /\ \A p \in Paths : s.names[p] # 0 => t.nodes[s.names[p]] = s.nodes[s.names[p]]
  /\ \A h \in Fds \ ds : t.fds[h] = s.fds[h]

\* The outcome of a call that fails.
Fails(s, o) == o.os = s /\ o.ret \in Int /\ o.ret < 0

\* A cursor moves.
Turned(s, t, h, pos) ==
  /\ Opened(s, h)
  /\ t = [names |-> s.names, nodes |-> s.nodes, streams |-> s.streams,
          fds |-> [s.fds EXCEPT ![h] = [s.fds[h] EXCEPT !.pos = pos]]]

\* What a node holds, or its attributes, are changed.
Changed(s, t, n, r) ==
  t = [names |-> s.names, nodes |-> [s.nodes EXCEPT ![n] = r], fds |-> s.fds, streams |-> s.streams]

\* A number of those that are free, and of what is there.
LEMMA SoundFacts ==
  ASSUME NEW s, Sound(s)
  PROVE  /\ \A h : Opened(s, h) <=> h \in OpenFds(s)
         /\ \A h : Opened(s, h) => /\ h \in Fds /\ There(s, s.fds[h].node) /\ s.fds[h].pos \in Nat
                                   /\ IsContent(ContentOf(s, h))
         /\ \A p : Node(s, p) \in Nodes \cup {0} /\ (Node(s, p) # 0 => There(s, Node(s, p)))
         /\ 0 \notin Nodes
  <1>1. 0 \notin Nodes
    BY HostAssumption
  <1>2. \A h : Opened(s, h) <=> h \in OpenFds(s)
    BY DEF Opened, OpenFds
  <1>3. ASSUME NEW h, Opened(s, h)
        PROVE  /\ h \in Fds /\ There(s, s.fds[h].node) /\ s.fds[h].pos \in Nat
               /\ IsContent(ContentOf(s, h))
    <2>1. h \in Fds /\ There(s, s.fds[h].node) /\ s.fds[h].pos \in Nat
      BY <1>2, <1>3 DEF Sound, OpenFds
    <2>2. IsNode(s.nodes[s.fds[h].node])
      BY <2>1 DEF Sound, There
    <2> QED
      BY <2>1, <2>2 DEF IsNode, ContentOf
  <1>4. ASSUME NEW p PROVE Node(s, p) \in Nodes \cup {0} /\ (Node(s, p) # 0 => There(s, Node(s, p)))
    BY <1>1 DEF Node, Sound
  <1> QED
    BY <1>1, <1>2, <1>3, <1>4

\* A cursor that moves leaves the rest.
LEMMA TurnedSound ==
  ASSUME NEW s, Sound(s), NEW h, NEW pos \in Nat, NEW t, Turned(s, t, h, pos)
  PROVE  /\ Sound(t) /\ Leaves(s, t, {h}) /\ t.fds[h] = [s.fds[h] EXCEPT !.pos = pos]
         /\ OpenFds(t) = OpenFds(s)
  <1> DEFINE r == [s.fds[h] EXCEPT !.pos = pos]
  <1>1. h \in Fds /\ Desc(s.fds[h]) /\ s.fds[h] # ClosedFd
    BY DEF Turned, Opened, Sound, Host
  <1>2. Desc(r) /\ r # ClosedFd /\ r.node = s.fds[h].node /\ r.pos = pos
    BY <1>1 DEF Desc, ClosedFd
  <1>3. t = [names |-> s.names, nodes |-> s.nodes, streams |-> s.streams, fds |-> [s.fds EXCEPT ![h] = r]]
    BY DEF Turned
  <1> HIDE DEF r
  <1>4. t.names = s.names /\ t.nodes = s.nodes /\ t.streams = s.streams /\ t.fds = [s.fds EXCEPT ![h] = r]
    BY <1>3
  <1>5. \A g \in Fds : t.fds[g] = IF g = h THEN r ELSE s.fds[g]
    BY <1>4 DEF Sound, Host
  <1>6. OpenFds(t) = OpenFds(s)
    BY <1>1, <1>2, <1>5 DEF OpenFds
  <1>7. Host(t)
    BY <1>1, <1>2, <1>3, <1>4, <1>5 DEF Sound, Host
  <1>8. \A g \in OpenFds(t) : There(t, t.fds[g].node) /\ t.fds[g].pos \in Nat
    BY <1>2, <1>4, <1>5, <1>6 DEF Sound, There, OpenFds
  <1>9. Sound(t)
    BY <1>4, <1>7, <1>8 DEF Sound, There
  <1> QED
    BY <1>1, <1>4, <1>5, <1>6, <1>9 DEF Leaves, r

\* What a node holds, and its attributes, may change; its kind stays.
LEMMA ChangedSound ==
  ASSUME NEW s, Sound(s), NEW n \in Nodes, NEW r, IsNode(r), r.kind = s.nodes[n].kind,
         NEW t, Changed(s, t, n, r)
  PROVE  Sound(t)
  <1>1. t.names = s.names /\ t.fds = s.fds /\ t.streams = s.streams /\ t.nodes = [s.nodes EXCEPT ![n] = r]
    BY DEF Changed
  <1>2. \A m \in Nodes : t.nodes[m] = IF m = n THEN r ELSE s.nodes[m]
    BY <1>1 DEF Sound
  <1>3. Host(t) /\ OpenFds(t) = OpenFds(s)
    BY <1>1 DEF Sound, Host, Changed, OpenFds
  <1>4. \A m : There(s, m) => There(t, m)
    BY <1>2 DEF There
  <1>5. t.nodes = [m \in Nodes |-> t.nodes[m]] /\ \A m \in Nodes : IsNode(t.nodes[m])
    BY <1>1, <1>2 DEF Sound
  <1> QED
    BY <1>1, <1>3, <1>4, <1>5 DEF Sound

\* Freeing what nothing leads to.
LEMMA ReapSound ==
  ASSUME NEW s, Sound(s)
  PROVE  /\ Sound(Reap(s)) /\ Leaves(s, Reap(s), {}) /\ Reap(s).names = s.names /\ Reap(s).fds = s.fds
         /\ Reap(s).streams = s.streams
         /\ \A n \in Nodes : Reap(s).nodes[n] \in {s.nodes[n], Free}
  <1> DEFINE t == Reap(s)
             Led(n) == \/ \E p \in Paths : s.names[p] = n
                       \/ \E d \in Fds : s.fds[d].node = n
                       \/ \E d \in Streams : s.streams[d].dir = n
  <1>1. t = [names |-> s.names, nodes |-> [n \in Nodes |-> IF Led(n) THEN s.nodes[n] ELSE Free],
             fds |-> s.fds, streams |-> s.streams]
    BY DEF Reap, Sound, Host
  <1> HIDE DEF t
  <1>2. /\ t.names = s.names /\ t.fds = s.fds /\ t.streams = s.streams
        /\ t.nodes = [n \in Nodes |-> IF Led(n) THEN s.nodes[n] ELSE Free]
    BY <1>1
  <1>3. \A n \in Nodes : t.nodes[n] = IF Led(n) THEN s.nodes[n] ELSE Free
    BY <1>2
  <1>4. IsNode(Free)
    BY EmptySeq, HostAssumption DEF IsNode, Free, IsContent
  <1>5. Host(t) /\ OpenFds(t) = OpenFds(s)
    BY <1>1, <1>2 DEF Sound, Host, OpenFds
  <1>6. \A p \in Paths : s.names[p] # 0 => s.names[p] \in Nodes /\ t.nodes[s.names[p]] = s.nodes[s.names[p]]
    BY <1>3 DEF Sound, There
  <1>7. \A h \in OpenFds(s) : s.fds[h].node \in Nodes /\ t.nodes[s.fds[h].node] = s.nodes[s.fds[h].node]
    BY <1>3 DEF Sound, There, OpenFds
  <1>8. t.nodes = [n \in Nodes |-> t.nodes[n]] /\ \A n \in Nodes : IsNode(t.nodes[n])
    BY <1>2, <1>3, <1>4 DEF Sound
  <1>9. Sound(t)
    <2>1. t.names \in [Paths -> Nodes \cup {0}]
      BY <1>2 DEF Sound
    <2>2. \A p \in Paths : t.names[p] # 0 => There(t, t.names[p])
      BY <1>2, <1>6 DEF Sound, There
    <2>3. \A h \in OpenFds(t) : There(t, t.fds[h].node) /\ t.fds[h].pos \in Nat
      <3>1. \A h \in OpenFds(s) : There(s, s.fds[h].node) /\ s.fds[h].pos \in Nat
        BY DEF Sound
      <3>2. \A h \in OpenFds(s) : There(t, s.fds[h].node)
        BY <1>7, <3>1 DEF There
      <3> QED
        BY <1>2, <1>5, <3>1, <3>2
    <2> QED
      BY <1>5, <1>8, <2>1, <2>2, <2>3 DEF Sound
  <1> QED
    BY <1>2, <1>3, <1>6, <1>9 DEF Leaves, t

\* A file or directory that is made takes a number that was free.
LEMMA MakeSound ==
  ASSUME NEW s, Sound(s), NEW p, p \in Paths, NEW kind \in {"File", "Directory"}, Spare(s) # {}
  PROVE  /\ Sound(Make(s, p, kind)) /\ Make(s, p, kind).fds = s.fds
         /\ There(Make(s, p, kind), Node(Make(s, p, kind), p))
         /\ Make(s, p, kind).nodes[Node(Make(s, p, kind), p)] = New(kind)
  <1> DEFINE n == Min(Spare(s))
             t == Make(s, p, kind)
  <1>1. n \in Nodes /\ s.nodes[n].kind = "Free"
    <2>1. Spare(s) \subseteq Nat
      BY HostAssumption DEF Spare
    <2>2. n \in Spare(s)
      BY <2>1, LeastIsMember
    <2> QED
      BY <2>2 DEF Spare
  <1> DEFINE u == [s EXCEPT !.names[p] = n]
             v == [s.names EXCEPT ![p] = n]
  <1>13. t = [u EXCEPT !.nodes[n] = New(kind)]
    BY DEF Make
  <1> HIDE DEF n, t
  <1>14. u = [names |-> v, nodes |-> s.nodes, fds |-> s.fds, streams |-> s.streams]
    BY DEF Sound, Host
  <1> HIDE DEF u, v
  <1>15. [u EXCEPT !.nodes[n] = New(kind)]
             = [names |-> v, nodes |-> [s.nodes EXCEPT ![n] = New(kind)], fds |-> s.fds, streams |-> s.streams]
    BY <1>14
  <1>2. t = [names |-> [s.names EXCEPT ![p] = n], nodes |-> [s.nodes EXCEPT ![n] = New(kind)],
             fds |-> s.fds, streams |-> s.streams]
    BY <1>13, <1>15 DEF v
  <1> HIDE DEF t
  <1>3. /\ t.names = [s.names EXCEPT ![p] = n] /\ t.nodes = [s.nodes EXCEPT ![n] = New(kind)]
        /\ t.fds = s.fds /\ t.streams = s.streams
    BY <1>2
  <1>4. IsNode(New(kind)) /\ New(kind).kind = kind
    <2>0. ASSUME NEW r, r = [kind |-> r.kind, data |-> r.data, writable |-> r.writable, mtime |-> r.mtime, attrs |-> r.attrs]
          PROVE  LET x == [r EXCEPT !.kind = kind]
                 IN  x = [kind |-> kind, data |-> r.data, writable |-> r.writable, mtime |-> r.mtime, attrs |-> r.attrs]
      BY <2>0
    <2>1. New(kind) = [kind |-> kind, data |-> <<>>, writable |-> Free.writable, mtime |-> Free.mtime, attrs |-> Free.attrs]
      <3>1. /\ Free = [kind |-> Free.kind, data |-> Free.data, writable |-> Free.writable,
                       mtime |-> Free.mtime, attrs |-> Free.attrs]
            /\ Free.data = <<>>
        BY DEF Free
      <3> QED
        BY <2>0, <3>1 DEF New
    <2>2. IsContent(<<>>)
      BY EmptySeq, HostAssumption DEF IsContent
    <2> QED
      BY <2>1, <2>2 DEF IsNode
  <1>5. /\ \A m \in Nodes : t.nodes[m] = IF m = n THEN New(kind) ELSE s.nodes[m]
        /\ \A q \in Paths : t.names[q] = IF q = p THEN n ELSE s.names[q]
    BY <1>3 DEF Sound
  <1>6. Host(t) /\ OpenFds(t) = OpenFds(s)
    BY <1>2, <1>3 DEF Sound, Host, OpenFds
  <1>7. \A m : There(s, m) => There(t, m)
    BY <1>4, <1>5 DEF There
  <1>8. There(t, n)
    BY <1>1, <1>4, <1>5 DEF There
  <1>9. t.nodes = [m \in Nodes |-> t.nodes[m]] /\ \A m \in Nodes : IsNode(t.nodes[m])
    BY <1>3, <1>4, <1>5 DEF Sound
  <1>10. t.names \in [Paths -> Nodes \cup {0}]
    BY <1>1, <1>3 DEF Sound
  <1>11. Sound(t)
    BY <1>3, <1>5, <1>6, <1>7, <1>8, <1>9, <1>10 DEF Sound
  <1>12. Node(t, p) = n
    BY <1>5 DEF Node
  <1> QED
    BY <1>1, <1>3, <1>5, <1>8, <1>11, <1>12 DEF t

-----------------------------------------------------------------------------
(* What each call of the host does to such a state.                        *)

\* What is open and what has a name are the same.
SameFiles(s, t) == t.names = s.names /\ t.nodes = s.nodes /\ t.fds = s.fds

\* Then nothing is changed.
LEMMA SameFilesSound ==
  ASSUME NEW s, Sound(s), NEW t, Host(t), SameFiles(s, t)
  PROVE  Sound(t) /\ Leaves(s, t, {})
  BY DEF Sound, SameFiles, Leaves, OpenFds, There

\* The state itself is one.
LEMMA SameLeaves ==
  ASSUME NEW s, NEW ds
  PROVE  Leaves(s, s, ds)
  BY DEF Leaves

\* A call has one outcome, unless the media fail.
OneOutcome(s, c, e, success, x) == \A y \in success : y \in Faulty(s, c, e) \/ y = x

\* A call that fails for one of its reasons, or one of the media, or has its outcome.
LEMMA SimpleOutcomes ==
  ASSUME NEW s, Host(s), NEW errors, errors \subseteq Nat \ {0}, NEW c, NEW e \in Nat \ {0}, NEW x,
         NEW success, OneOutcome(s, c, e, success, x),
         NEW o \in Outcomes(s, errors, success)
  PROVE  (Result(o) /\ Fails(s, o)) \/ (errors = {} /\ o = x)
  <1>1. \/ Result(o) /\ o.ret \in Int /\ o.ret < 0 /\ o.os = s
        \/ errors = {} /\ o \in success
    BY OutcomeCases
  <1>2. o \in Faulty(s, c, e) => Result(o) /\ o.ret \in Int /\ o.ret < 0 /\ o.os = s
    BY FaultyOutcomes
  <1> QED
    BY <1>1, <1>2 DEF Fails, OneOutcome

\* stat() changes nothing.
LEMMA StatDoes ==
  ASSUME NEW s, Sound(s), NEW p, NEW o \in OsStat(s, p)
  PROVE  Result(o) /\ o.os = s /\ o.ret \in Int /\ (o.ret >= 0 => o.ret = 0 /\ Node(s, p) # 0)
  <1> DEFINE errors == If(Node(s, p) = 0, ENOENT)
  <1>1. errors \subseteq Nat \ {0} /\ EIO \in Nat \ {0}
    BY DEF If, ENOENT, EIO
  <1>2. o \in Outcomes(s, errors, Faulty(s, "stat", EIO) \cup {Out(s, 0)})
    BY DEF OsStat
  <1>3. errors = {} => Node(s, p) # 0
    BY DEF If
  <1> DEFINE x == Out(s, 0)
             success == Faulty(s, "stat", EIO) \cup {x}
  <1>5. o \in Outcomes(s, errors, success) /\ OneOutcome(s, "stat", EIO, success, x)
    BY <1>2 DEF OneOutcome
  <1> HIDE DEF errors, x, success
  <1>7. Host(s)
    BY DEF Sound
  <1>6. (Result(o) /\ Fails(s, o)) \/ (errors = {} /\ o = x)
    BY <1>1, <1>5, <1>7, SimpleOutcomes
  <1>4. (Result(o) /\ Fails(s, o)) \/ (errors = {} /\ o = Out(s, 0))
    BY <1>6 DEF x
  <1> QED
    BY <1>3, <1>4, OutIsResult DEF Fails

\* What open() leaves when it does not fail.
OpensFile(s, o, p, flags) ==
  /\ o.ret \in Fds \ OpenFds(s) /\ p \in Paths
  /\ Sound(o.os) /\ Node(o.os, p) # 0
  /\ o.os.fds = [s.fds EXCEPT ![o.ret] =
       [node |-> Node(o.os, p), pos |-> 0, append |-> "Append" \in flags,
        read |-> "Read" \in flags, write |-> "Write" \in flags]]
  /\ "Create" \notin flags => o.os.names = s.names
  /\ flags \cap {"Create", "Truncate"} = {} => o.os.nodes = s.nodes
  /\ "Truncate" \in flags => ContentOf(o.os, o.ret) = <<>>

\* A descriptor that is taken for what is there.
LEMMA TakenSound ==
  ASSUME NEW s, Sound(s), NEW h \in Fds \ OpenFds(s), NEW r, Desc(r), r # ClosedFd,
         There(s, r.node), r.pos \in Nat
  PROVE  LET t == [s EXCEPT !.fds[h] = r]
         IN  /\ Sound(t) /\ OpenFds(t) = OpenFds(s) \cup {h}
             /\ t.names = s.names /\ t.nodes = s.nodes /\ t.fds = [s.fds EXCEPT ![h] = r]
  <1> DEFINE t == [s EXCEPT !.fds[h] = r]
  <1>1. t = [names |-> s.names, nodes |-> s.nodes, fds |-> [s.fds EXCEPT ![h] = r], streams |-> s.streams]
    BY DEF Sound, Host
  <1>2. s.fds[h] = ClosedFd
    BY DEF OpenFds
  <1>3. Host(t) /\ OpenFds(t) = OpenFds(s) \cup {h}
    BY <1>2, DescriptorTaken DEF Sound
  <1> HIDE DEF t
  <1>4. t.names = s.names /\ t.nodes = s.nodes /\ t.fds = [s.fds EXCEPT ![h] = r]
    BY <1>1
  <1>5. \A g \in Fds : t.fds[g] = IF g = h THEN r ELSE s.fds[g]
    BY <1>4 DEF Sound, Host
  <1>6. \A g \in OpenFds(t) : There(t, t.fds[g].node) /\ t.fds[g].pos \in Nat
    BY <1>3, <1>4, <1>5 DEF Sound, There, OpenFds
  <1>7. Sound(t)
    BY <1>3, <1>4, <1>6 DEF Sound, There
  <1> QED
    BY <1>3, <1>4, <1>7 DEF t

\* What a file holds is replaced.
LEMMA StoreChanges ==
  ASSUME NEW s, Sound(s), NEW n \in Nodes, NEW data, IsContent(data)
  PROVE  /\ Sound(Store(s, n, data)) /\ Store(s, n, data).names = s.names
         /\ Store(s, n, data).fds = s.fds /\ Store(s, n, data).streams = s.streams
         /\ Store(s, n, data).nodes[n].data = data
         /\ \A m \in Nodes : Store(s, n, data).nodes[m].kind = s.nodes[m].kind
         /\ \A m \in Nodes \ {n} : Store(s, n, data).nodes[m] = s.nodes[m]
         /\ \A m \in Nodes : Store(s, n, data).nodes[m].attrs = s.nodes[m].attrs
  <1> DEFINE t == Store(s, n, data)
             q == s.nodes[n]
             r == [kind |-> q.kind, data |-> data, writable |-> q.writable, mtime |-> "Now", attrs |-> q.attrs]
  <1>1. IsNode(q)
    BY DEF Sound
  <1>2. t = [names |-> s.names, nodes |-> [s.nodes EXCEPT ![n] = r], fds |-> s.fds, streams |-> s.streams]
    <2> DEFINE a == [s EXCEPT !.nodes[n].data = data]
               b == [q EXCEPT !.data = data]
    <2>1. b = [kind |-> q.kind, data |-> data, writable |-> q.writable, mtime |-> q.mtime, attrs |-> q.attrs]
      BY <1>1 DEF IsNode
    <2>2. a = [names |-> s.names, nodes |-> [s.nodes EXCEPT ![n] = b], fds |-> s.fds, streams |-> s.streams]
      BY DEF Sound, Host
    <2>3. t = [a EXCEPT !.nodes[n].mtime = "Now"]
      BY DEF Store
    <2> HIDE DEF a, b, t
    <2>4. [b EXCEPT !.mtime = "Now"] = r
      BY <2>1
    <2>5. a.nodes[n] = b /\ a.nodes = [s.nodes EXCEPT ![n] = b]
      BY <2>2 DEF Sound
    <2>6. t = [names |-> s.names, nodes |-> [a.nodes EXCEPT ![n] = [b EXCEPT !.mtime = "Now"]],
               fds |-> s.fds, streams |-> s.streams]
      BY <2>2, <2>3, <2>5
    <2>7. t = [names |-> s.names, nodes |-> [a.nodes EXCEPT ![n] = r], fds |-> s.fds, streams |-> s.streams]
      BY <2>4, <2>6
    <2>8. [a.nodes EXCEPT ![n] = r] = [s.nodes EXCEPT ![n] = r]
      BY <2>5 DEF Sound
    <2> QED
      BY <2>7, <2>8
  <1>3. r.kind = q.kind /\ r.data = data /\ r.attrs = q.attrs /\ IsNode(r)
    BY <1>1 DEF IsNode
  <1> HIDE DEF t, r
  <1>4. Changed(s, t, n, r)
    BY <1>2 DEF Changed
  <1>5. Sound(t)
    BY <1>3, <1>4, ChangedSound
  <1>6. /\ t.names = s.names /\ t.fds = s.fds /\ t.streams = s.streams
        /\ t.nodes = [s.nodes EXCEPT ![n] = r]
    BY <1>2
  <1>7. \A m \in Nodes : t.nodes[m] = IF m = n THEN r ELSE s.nodes[m]
    BY <1>6 DEF Sound
  <1> QED
    BY <1>3, <1>5, <1>6, <1>7 DEF t

\* open() takes a descriptor for what the name leads to, or makes a file of that name.
LEMMA OpenDoes ==
  ASSUME NEW s, Sound(s), NEW p, NEW flags, "Read" \in flags \/ "Write" \in flags,
         NEW o \in OsOpen(s, p, flags)
  PROVE  Result(o) /\ (Fails(s, o) \/ OpensFile(s, o, p, flags))
  <1> DEFINE n == Node(s, p)
             errors == IF n = 0
                THEN If("Create" \notin flags, ENOENT) \cup NoParent(s, p) \cup If(Spare(s) = {}, ENOSPC)
                ELSE If(s.nodes[n].kind = "Directory" /\ flags \cap {"Write", "Create", "Truncate"} # {}, EISDIR)
                     \cup If(~s.nodes[n].writable /\ flags \cap {"Write", "Truncate"} # {}, EACCES)
             spare  == {d \in Fds : s.fds[d] = ClosedFd}
             all    == errors \cup If(spare = {}, EMFILE)
             found  == IF n = 0 THEN Make(s, p, "File") ELSE s
             h      == Min(spare)
             m      == Node(found, p)
             desc   == [node |-> m, pos |-> 0, append |-> "Append" \in flags,
                        read |-> "Read" \in flags, write |-> "Write" \in flags]
             opened == [found EXCEPT !.fds[h] = desc]
             after  == IF "Truncate" \in flags THEN Store(opened, m, <<>>) ELSE opened
  <1>1. o \in Outcomes(s, all, Faulty(s, "open", EIO) \cup {Out(after, h)})
    BY DEF OsOpen
  <1>2. all \subseteq Nat \ {0} /\ EIO \in Nat \ {0}
    BY NoParentErrors DEF If, ENOENT, ENOSPC, EISDIR, EACCES, EMFILE, EIO
  <1>3. (Result(o) /\ Fails(s, o)) \/ (all = {} /\ o = Out(after, h))
    <2> DEFINE x == Out(after, h)
               success == Faulty(s, "open", EIO) \cup {x}
    <2>1. o \in Outcomes(s, all, success) /\ OneOutcome(s, "open", EIO, success, x)
      BY <1>1 DEF OneOutcome
    <2> HIDE DEF all, x, success
    <2>2. Host(s)
      BY DEF Sound
    <2>3. (Result(o) /\ Fails(s, o)) \/ (all = {} /\ o = x)
      BY <1>2, <2>1, <2>2, SimpleOutcomes
    <2> QED
      BY <2>3 DEF x
  <1>4. ASSUME all = {}, o = Out(after, h)
        PROVE  Result(o) /\ OpensFile(s, o, p, flags)
    <2>1. h \in Fds \ OpenFds(s)
      <3>1. spare # {} /\ spare \subseteq Nat
        BY <1>4, HostAssumption DEF If
      <3>2. h \in spare
        BY <3>1, LeastIsMember
      <3> QED
        BY <3>2 DEF OpenFds
    <2>2. n = 0 => p \in Paths /\ Spare(s) # {} /\ "Create" \in flags
      <3>1. n = 0 => NoParent(s, p) = {} /\ Spare(s) # {} /\ "Create" \in flags
        BY <1>4 DEF If
      <3>2. NoParent(s, p) = {} => p \in Paths
        BY HostAssumption DEF NoParent, If
      <3> QED
        BY <3>1, <3>2
    <2>3. p \in Paths
      BY <2>2 DEF Node
    <2>4. /\ Sound(found) /\ found.fds = s.fds /\ There(found, m)
          /\ "Create" \notin flags => found = s
      <3>1. CASE n = 0
        <4>1. found = Make(s, p, "File")
          BY <3>1
        <4> QED
          BY <2>2, <3>1, <4>1, MakeSound
      <3>2. CASE n # 0
        BY <3>2, SoundFacts
      <3> QED
        BY <3>1, <3>2
    <2>5. Desc(desc) /\ desc # ClosedFd /\ desc.node = m /\ desc.pos = 0
      BY DEF Desc, ClosedFd
    <2>6. flags \cap {"Create", "Truncate"} = {} => found = s
      <3>1. flags \cap {"Create", "Truncate"} = {} => "Create" \notin flags
        OBVIOUS
      <3> QED
        BY <2>4, <3>1
    <2> HIDE DEF found, desc, h
    <2>7. h \in Fds \ OpenFds(found) /\ 0 \in Nat
      BY <2>1, <2>4 DEF OpenFds
    <2>8. /\ Sound(opened) /\ opened.names = found.names /\ opened.nodes = found.nodes
          /\ opened.fds = [found.fds EXCEPT ![h] = desc]
      BY <2>4, <2>5, <2>7, TakenSound
    <2> HIDE DEF opened
    <2>9. IsContent(<<>>)
      BY EmptySeq, HostAssumption DEF IsContent
    <2>10. m \in Nodes /\ m # 0
      BY <2>4, SoundFacts DEF There
    <2>11. /\ Sound(after) /\ after.names = opened.names /\ after.fds = opened.fds
           /\ "Truncate" \notin flags => after.nodes = opened.nodes
           /\ "Truncate" \in flags => after.nodes[m].data = <<>>
      <3>1. CASE "Truncate" \in flags
        <4>1. after = Store(opened, m, <<>>)
          BY <3>1
        <4> QED
          BY <2>8, <2>9, <2>10, <3>1, <4>1, StoreChanges
      <3>2. CASE "Truncate" \notin flags
        <4>1. after = opened
          BY <3>2
        <4> QED
          BY <2>8, <3>2, <4>1
      <3> QED
        BY <3>1, <3>2
    <2>12. Result(o) /\ o.os = after /\ o.ret = h
      <3> HIDE DEF after
      <3> QED
        BY <1>4, OutIsResult
    <2>13. Node(after, p) = m
      <3>1. Node(after, p) = Node(found, p)
        BY <2>8, <2>11 DEF Node
      <3> QED
        BY <3>1
    <2> HIDE DEF after, m
    <2>14. after.fds[h].node = m
      BY <2>1, <2>4, <2>5, <2>8, <2>11 DEF Sound, Host
    <2>15. "Truncate" \in flags => ContentOf(after, h) = <<>>
      BY <2>11, <2>14 DEF ContentOf
    <2>16. "Create" \notin flags => after.names = s.names
      BY <2>4, <2>8, <2>11
    <2>17. flags \cap {"Create", "Truncate"} = {} => after.nodes = s.nodes
      BY <2>6, <2>8, <2>11
    <2>18. after.fds = [s.fds EXCEPT ![h] = [node |-> m, pos |-> 0, append |-> "Append" \in flags,
                                             read |-> "Read" \in flags, write |-> "Write" \in flags]]
      BY <2>4, <2>8, <2>11 DEF desc
    <2> QED
      BY <2>1, <2>3, <2>10, <2>11, <2>12, <2>13, <2>15, <2>16, <2>17, <2>18 DEF OpensFile
  <1> QED
    <2> HIDE DEF all, after, h
    <2> QED
      BY <1>3, <1>4

\* A descriptor is free, and what has a name is as it was.
Frees(s, t, h) ==
  /\ \A g \in Fds : t.fds[g] = IF g = h THEN ClosedFd ELSE s.fds[g]
  /\ \A n \in Nodes : (\E p \in Paths : s.names[p] = n) => t.nodes[n] = s.nodes[n]

\* close() frees what nothing leads to any more.
LEMMA CloseDoes ==
  ASSUME NEW s, Sound(s), NEW d, NEW o \in OsClose(s, d)
  PROVE  /\ Result(o) /\ o.ret \in Int /\ Sound(o.os) /\ Leaves(s, o.os, {d})
         /\ o.os.names = s.names
         /\ Frees(s, o.os, d)
  <1>1. CASE ~Opened(s, d)
    <2>1. o = Out(s, -EBADF)
      BY <1>1 DEF OsClose
    <2>2. o.os = s /\ o.ret \in Int /\ Result(o)
      BY <2>1, OutIsResult DEF EBADF
    <2>3. d \in Fds => s.fds[d] = ClosedFd
      BY <1>1 DEF Opened
    <2>4. Frees(s, o.os, d)
      BY <2>2, <2>3 DEF Frees
    <2> QED
      BY <2>2, <2>4, SameLeaves
  <1>2. CASE Opened(s, d)
    <2> DEFINE t == [s EXCEPT !.fds[d] = ClosedFd]
    <2>1. t = [names |-> s.names, nodes |-> s.nodes, fds |-> [s.fds EXCEPT ![d] = ClosedFd],
               streams |-> s.streams]
      BY DEF Sound, Host
    <2>2. o = Out(Reap(t), 0)
      BY <1>2 DEF OsClose
    <2> HIDE DEF t
    <2>3. t.names = s.names /\ t.nodes = s.nodes /\ t.fds = [s.fds EXCEPT ![d] = ClosedFd] /\ t.streams = s.streams
      BY <2>1
    <2>4. d \in Fds /\ \A g \in Fds : t.fds[g] = IF g = d THEN ClosedFd ELSE s.fds[g]
      BY <1>2, <2>3 DEF Sound, Host, Opened
    <2>5. Desc(ClosedFd)
      BY DEF Desc, ClosedFd
    <2>6. Host(t) /\ OpenFds(t) = OpenFds(s) \ {d}
      BY <2>1, <2>3, <2>4, <2>5 DEF Sound, Host, OpenFds
    <2>7. Sound(t)
      <3>1. \A g \in OpenFds(t) : There(t, t.fds[g].node) /\ t.fds[g].pos \in Nat
        BY <2>3, <2>4, <2>6 DEF Sound, There, OpenFds
      <3> QED
        BY <2>3, <2>6, <3>1 DEF Sound, There
    <2>8. /\ Sound(Reap(t)) /\ Leaves(t, Reap(t), {}) /\ Reap(t).names = t.names /\ Reap(t).fds = t.fds
      BY <2>7, ReapSound
    <2>9. \A n \in Nodes : (\E p \in Paths : s.names[p] = n) => Reap(t).nodes[n] = s.nodes[n]
      <3>1. 0 \notin Nodes
        BY HostAssumption
      <3> QED
        BY <2>3, <2>8, <3>1 DEF Leaves
    <2>10. Leaves(s, Reap(t), {d})
      BY <2>3, <2>4, <2>8 DEF Leaves
    <2>11. o.os = Reap(t) /\ o.ret = 0 /\ Result(o)
      BY <2>2, OutIsResult
    <2>12. \A g \in Fds : Reap(t).fds[g] = IF g = d THEN ClosedFd ELSE s.fds[g]
      BY <2>4, <2>8
    <2>13. Sound(o.os) /\ Leaves(s, o.os, {d}) /\ o.os.names = s.names
      BY <2>3, <2>8, <2>10, <2>11
    <2>14. o.ret \in Int
      BY <2>11
    <2>15. Frees(s, o.os, d)
      BY <2>9, <2>11, <2>12 DEF Frees
    <2> QED
      BY <2>11, <2>13, <2>14, <2>15
  <1> QED
    BY <1>1, <1>2, Zenon

\* A call that fails leaves a sound state as it is.
LEMMA FailsSound ==
  ASSUME NEW s, Sound(s), NEW o, Fails(s, o), NEW ds
  PROVE  Sound(o.os) /\ Leaves(s, o.os, ds) /\ o.ret \in Int
  BY SameLeaves DEF Fails

\* So does an error that is given at once.
LEMMA OutFails ==
  ASSUME NEW s, NEW e \in Nat \ {0}
  PROVE  Result(Out(s, -e)) /\ Fails(s, Out(s, -e))
  BY OutIsResult DEF Fails

\* What is read, from the cursor on.
ReadsOn(s, o, h, size) ==
  LET pos == s.fds[h].pos
  IN  /\ s.fds[h].read
      /\ o.data = Part(ContentOf(s, h), pos + 1, pos + size)
      /\ o.ret = Len(o.data) /\ Turned(s, o.os, h, pos + Len(o.data))

\* read() gives a part of what the file holds.
LEMMA ReadDoes ==
  ASSUME NEW s, Sound(s), NEW h, NEW size \in Int, NEW o \in OsRead(s, h, size)
  PROVE  /\ o = [os |-> o.os, ret |-> o.ret, fault |-> o.fault, data |-> o.data]
         /\ o.ret \in Int /\ o.data \in Seq(Blocks)
         /\ Sound(o.os) /\ Leaves(s, o.os, {h})
         /\ (Fails(s, o) /\ o.data = <<>>) \/ (o.ret >= 0 /\ ReadsOn(s, o, h, size))
  <1> DEFINE errors == IF ~Opened(s, h) THEN {EBADF}
                       ELSE If(~s.fds[h].read, EBADF) \cup If(s.nodes[s.fds[h].node].kind = "Directory", EISDIR)
             success == Faulty(s, "read", EIO)
             pos   == s.fds[h].pos
             got   == Part(ContentOf(s, h), pos + 1, pos + size)
             after == [s EXCEPT !.fds[h].pos = @ + Len(got)]
  <1>1. \/ \E x \in Outcomes(s, errors, success) : o = WithData(x, <<>>)
        \/ errors = {} /\ o = WithData(Out(after, Len(got)), got)
    BY DEF OsRead
  <1>2. errors \subseteq Nat \ {0} /\ EIO \in Nat \ {0} /\ Host(s)
    BY DEF If, EBADF, EISDIR, EIO, Sound
  <1>3. ASSUME NEW x \in Outcomes(s, errors, success), o = WithData(x, <<>>)
        PROVE  /\ o = [os |-> o.os, ret |-> o.ret, fault |-> o.fault, data |-> o.data]
               /\ Fails(s, o) /\ o.data = <<>>
    <2>1. x \in success => Result(x) /\ Fails(s, x)
      BY <1>2, FaultyOutcomes DEF Fails
    <2> HIDE DEF errors, success
    <2>2. Result(x) /\ Fails(s, x)
      BY <1>2, <1>3, <2>1, OutcomeCases DEF Fails
    <2> QED
      BY <1>3, <2>2 DEF Fails, WithData
  <1>4. ASSUME errors = {}, o = WithData(Out(after, Len(got)), got)
        PROVE  /\ o = [os |-> o.os, ret |-> o.ret, fault |-> o.fault, data |-> o.data]
               /\ o.data \in Seq(Blocks) /\ o.ret \in Nat /\ pos + Len(o.data) \in Nat
               /\ ReadsOn(s, o, h, size)
    <2>1. Opened(s, h) /\ s.fds[h].read
      BY <1>4 DEF If
    <2>2. pos \in Nat /\ ContentOf(s, h) \in Seq(Blocks)
      BY <2>1, SoundFacts DEF IsContent
    <2> HIDE DEF pos
    <2>3. got \in Seq(Blocks) /\ Len(got) \in Nat
      BY <2>2, PartIs
    <2>4. after = [names |-> s.names, nodes |-> s.nodes, streams |-> s.streams,
                   fds |-> [s.fds EXCEPT ![h] = [s.fds[h] EXCEPT !.pos = pos + Len(got)]]]
      BY <2>1 DEF Sound, Host, pos, Opened
    <2>5. /\ o = [os |-> after, ret |-> Len(got), fault |-> FALSE, data |-> got]
      BY <1>4 DEF WithData, Out
    <2> HIDE DEF after, got
    <2>6. o.os = after /\ o.ret = Len(got) /\ o.data = got /\ o.fault = FALSE
      BY <2>5
    <2>7. Turned(s, o.os, h, pos + Len(o.data))
      BY <2>1, <2>4, <2>6 DEF Turned
    <2> QED
      BY <2>1, <2>2, <2>3, <2>5, <2>6, <2>7 DEF ReadsOn, pos, got
  <1>5. CASE errors = {} /\ o = WithData(Out(after, Len(got)), got)
    <2> HIDE DEF got, after, errors
    <2>1. /\ o = [os |-> o.os, ret |-> o.ret, fault |-> o.fault, data |-> o.data]
          /\ o.data \in Seq(Blocks) /\ o.ret \in Nat /\ pos + Len(o.data) \in Nat
          /\ ReadsOn(s, o, h, size)
      BY <1>4, <1>5
    <2>2. Turned(s, o.os, h, pos + Len(o.data))
      BY <2>1 DEF ReadsOn
    <2> HIDE DEF pos
    <2>3. Sound(o.os) /\ Leaves(s, o.os, {h})
      BY <2>1, <2>2, TurnedSound
    <2> QED
      BY <2>1, <2>3
  <1>6. CASE \E x \in Outcomes(s, errors, success) : o = WithData(x, <<>>)
    <2>1. /\ o = [os |-> o.os, ret |-> o.ret, fault |-> o.fault, data |-> o.data]
          /\ Fails(s, o) /\ o.data = <<>>
      BY <1>3, <1>6
    <2>2. o.data \in Seq(Blocks)
      BY <2>1, EmptySeq
    <2> QED
      BY <2>1, <2>2, FailsSound
  <1> QED
    BY <1>1, <1>5, <1>6

\* Where lseek() counts from.
Origin(s, h, origin) ==
  CASE origin = "Start" -> 0 [] origin = "Current" -> s.fds[h].pos [] origin = "End" -> Len(ContentOf(s, h))

\* lseek() moves the cursor, to no position below the start.
LEMMA SeekDoes ==
  ASSUME NEW s, Sound(s), NEW h, NEW offset \in Int, NEW origin \in {"Start", "Current", "End"},
         NEW o \in OsSeek(s, h, offset, origin)
  PROVE  /\ Result(o) /\ o.ret \in Int /\ Sound(o.os) /\ Leaves(s, o.os, {h})
         /\ Fails(s, o) \/ (/\ o.ret \in Nat /\ o.ret = offset + Origin(s, h, origin)
                            /\ Turned(s, o.os, h, o.ret))
         /\ Opened(s, h) /\ offset + Origin(s, h, origin) >= 0 => ~Fails(s, o)
  <1> DEFINE from == Origin(s, h, origin)
             at == offset + from
             after == [s EXCEPT !.fds[h].pos = at]
  <1>1. CASE ~Opened(s, h)
    <2>1. o = Out(s, -EBADF) /\ EBADF \in Nat \ {0}
      BY <1>1 DEF OsSeek, EBADF
    <2> QED
      BY <1>1, <2>1, OutFails, FailsSound
  <1>2. CASE Opened(s, h)
    <2>1. s.fds[h].pos \in Nat /\ Len(ContentOf(s, h)) \in Nat
      BY <1>2, SoundFacts DEF IsContent
    <2>2. from \in Nat
      BY <2>1 DEF Origin
    <2>3. o = IF at < 0 THEN Out(s, -EINVAL) ELSE Out(after, at)
      BY <1>2 DEF OsSeek, Origin
    <2>4. after = [names |-> s.names, nodes |-> s.nodes, streams |-> s.streams,
                   fds |-> [s.fds EXCEPT ![h] = [s.fds[h] EXCEPT !.pos = at]]]
      BY <1>2 DEF Sound, Host, Opened
    <2> HIDE DEF after, from
    <2>5. CASE at < 0
      <3>1. o = Out(s, -EINVAL) /\ EINVAL \in Nat \ {0} /\ ~(offset + Origin(s, h, origin) >= 0)
        BY <2>2, <2>3, <2>5 DEF EINVAL, from
      <3> QED
        BY <3>1, OutFails, FailsSound
    <2>6. CASE ~(at < 0)
      <3>1. at \in Nat
        BY <2>2, <2>6
      <3>2. o.os = after /\ o.ret = at /\ Result(o)
        BY <2>3, <2>6, OutIsResult
      <3>3. Turned(s, o.os, h, at)
        BY <1>2, <2>4, <3>2 DEF Turned
      <3>4. at = offset + Origin(s, h, origin)
        BY DEF from
      <3> HIDE DEF at
      <3>5. Sound(o.os) /\ Leaves(s, o.os, {h})
        BY <3>1, <3>3, TurnedSound
      <3>6. ~Fails(s, o)
        BY <3>1, <3>2 DEF Fails
      <3> QED
        BY <3>1, <3>2, <3>3, <3>4, <3>5, <3>6
    <2> QED
      BY <2>5, <2>6
  <1> QED
    BY <1>1, <1>2

\* What is written at a position, by which the cursor gets behind it.
Wrote(s, t, h, at, data) ==
  /\ Opened(s, h) /\ s.fds[h].write
  /\ t.names = s.names
  /\ t.fds = [s.fds EXCEPT ![h] = [s.fds[h] EXCEPT !.pos = at + Len(data)]]
  /\ t.nodes[s.fds[h].node].data = Overwrite(ContentOf(s, h), at, data)
  /\ \A n \in Nodes : /\ t.nodes[n].kind = s.nodes[n].kind
                      /\ n # s.fds[h].node => t.nodes[n] = s.nodes[n]

\* Where write() writes.
WritesAt(s, h) == IF s.fds[h].append THEN Len(ContentOf(s, h)) ELSE s.fds[h].pos

\* write() writes some of the data, within the bounds of a file, or nothing.
LEMMA WriteDoes ==
  ASSUME NEW s, Sound(s), NEW h, NEW data \in Seq(Blocks), NEW o \in OsWrite(s, h, data)
  PROVE  /\ Result(o) /\ o.ret \in Int /\ Sound(o.os)
         /\ \/ o.os = s /\ (o.ret < 0 \/ (data = <<>> /\ o.ret = 0))
            \/ /\ o.ret \in 1..Len(data) /\ WritesAt(s, h) + o.ret <= MaxBlocks
               /\ Wrote(s, o.os, h, WritesAt(s, h), SubSeq(data, 1, o.ret))
         /\ o.ret # Len(data) => \/ o.fault \/ ~Opened(s, h) \/ ~s.fds[h].write
                                 \/ WritesAt(s, h) + Len(data) > MaxBlocks
         /\ o.ret >= 0 /\ o.ret < Len(data) => o.fault \/ WritesAt(s, h) + o.ret = MaxBlocks
  <1>1. CASE ~Opened(s, h) \/ ~s.fds[h].write
    <2>1. o = Out(s, -EBADF) /\ EBADF \in Nat \ {0}
      BY <1>1 DEF OsWrite, EBADF
    <2>2. Result(o) /\ Fails(s, o)
      BY <2>1, OutFails
    <2> QED
      BY <1>1, <2>2 DEF Fails
  <1>2. CASE Opened(s, h) /\ s.fds[h].write
    <2> DEFINE at   == WritesAt(s, h)
               left == MaxBlocks - at
               some == IF Len(data) <= left THEN Len(data) ELSE left
               room == IF 0 >= some THEN 0 ELSE some
               n0   == s.fds[h].node
    <2>1. /\ s.fds[h].pos \in Nat /\ ContentOf(s, h) \in Seq(Blocks) /\ Len(ContentOf(s, h)) \in Nat
          /\ Len(ContentOf(s, h)) <= MaxBlocks /\ n0 \in Nodes /\ h \in Fds
      BY <1>2, SoundFacts DEF IsContent, There
    <2>2. at \in Nat /\ MaxBlocks \in Nat /\ Len(data) \in Nat
      BY <2>1, HostAssumption DEF WritesAt
    <2>3. Max({0, Min({Len(data), MaxBlocks - at})}) = room
      <3>1. MaxBlocks - at \in Int /\ Len(data) \in Int /\ 0 \in Int
        BY <2>2
      <3>2. Min({Len(data), MaxBlocks - at}) = some
        BY <3>1, LeastOfTwo
      <3>3. some \in Int
        BY <3>1
      <3> QED
        BY <3>1, <3>2, <3>3, GreatestOfTwo
    <2>4. room \in Nat /\ room <= Len(data) /\ (room > 0 => at + room <= MaxBlocks)
          /\ (room < Len(data) => at + Len(data) > MaxBlocks /\ (room > 0 => at + room = MaxBlocks))
      BY <2>2
    <2> DEFINE Moved(n) == [s EXCEPT !.fds[h].pos = at + n]
               After(n) == IF n = 0 THEN s ELSE Store(Moved(n), n0, Overwrite(ContentOf(s, h), at, SubSeq(data, 1, n)))
    <2>5. PICK n \in 0..room : /\ o = [os |-> After(n), ret |-> IF n = 0 /\ data # <<>> THEN -ENOSPC ELSE n,
                                       fault |-> n < room]
      <3> DEFINE most == Max({0, Min({Len(data), MaxBlocks - at})})
                 less == IF "write" \in Unreliable THEN 0..most ELSE {most}
      <3>1. o \in {[os |-> After(n), ret |-> IF n = 0 /\ data # <<>> THEN -ENOSPC ELSE n, fault |-> n < most] : n \in less}
        BY <1>2, Zenon DEF OsWrite, WritesAt
      <3>2. most = room
        BY <2>3
      <3> HIDE DEF After, most, room
      <3>3. \E n \in less : o = [os |-> After(n), ret |-> IF n = 0 /\ data # <<>> THEN -ENOSPC ELSE n, fault |-> n < most]
        BY <3>1, Zenon
      <3>4. less \subseteq 0..room
        BY <2>4, <3>2
      <3> HIDE DEF less
      <3> QED
        BY <3>2, <3>3, <3>4
    <2> HIDE DEF at, room, left, some
    <2>6. /\ o.os = After(n) /\ o.ret = IF n = 0 /\ data # <<>> THEN -ENOSPC ELSE n
          /\ o.fault = (n < room) /\ Result(o)
      BY <2>5 DEF Result
    <2>60. n < room => o.fault
      <3> DEFINE short == n < room
      <3>1. o.fault = short
        BY <2>6
      <3>2. short => o.fault
        <4> HIDE DEF short
        <4> QED
          BY <3>1, Zenon
      <3> QED
        BY <3>2
    <2>61. n \in Nat /\ n <= room
      BY <2>4
    <2>7. CASE n = 0
      <3>1. o.os = s /\ o.ret = IF data # <<>> THEN -28 ELSE 0
        BY <2>6, <2>7 DEF ENOSPC
      <3>2. o.ret # Len(data) /\ room = 0 => at + Len(data) > MaxBlocks
        BY <2>2, <2>4, <3>1
      <3>3. o.fault \/ room = 0
        BY <2>4, <2>60, <2>7
      <3>4. data = <<>> => Len(data) = 0
        OBVIOUS
      <3>5. /\ o.os = s /\ (o.ret < 0 \/ (data = <<>> /\ o.ret = 0)) /\ o.ret \in Int
            /\ o.ret >= 0 => Len(data) = 0 /\ o.ret = 0
        BY <3>1, <3>4
      <3> QED
        BY <2>6, <3>2, <3>3, <3>5 DEF at
    <2>8. CASE n # 0
      <3> DEFINE part == SubSeq(data, 1, n)
                 new == Overwrite(ContentOf(s, h), at, part)
                 t == Moved(n)
      <3>1. n \in 1..Len(data) /\ n <= room /\ n \in Nat
        BY <2>2, <2>4, <2>8
      <3>2. part \in Seq(Blocks) /\ Len(part) = n
        <4>1. \A i \in 1..n : data[i] \in Blocks
          BY <2>2, <3>1
        <4> QED
          BY <3>1, <4>1, SubSeqProperties
      <3>3. at + n <= MaxBlocks /\ at + n \in Nat
        BY <2>2, <2>4, <3>1
      <3>4. IsContent(new)
        <4> HIDE DEF part
        <4>1. new \in Seq(Blocks) /\ Len(new) = IF Len(ContentOf(s, h)) >= at + Len(part) THEN Len(ContentOf(s, h)) ELSE at + Len(part)
          BY <2>1, <2>2, <3>2, OverwriteIs
        <4> QED
          BY <2>1, <3>2, <3>3, <4>1 DEF IsContent
      <3>5. t = [names |-> s.names, nodes |-> s.nodes, streams |-> s.streams,
                 fds |-> [s.fds EXCEPT ![h] = [s.fds[h] EXCEPT !.pos = at + n]]]
        BY <1>2 DEF Sound, Host, Opened
      <3>6. o.os = Store(t, n0, new) /\ o.ret = n
        BY <2>6, <2>8
      <3> HIDE DEF t, new, part
      <3>7. Turned(s, t, h, at + n)
        BY <1>2, <3>5 DEF Turned
      <3>8. Sound(t)
        BY <3>3, <3>7, TurnedSound
      <3>9. t.names = s.names /\ t.nodes = s.nodes /\ t.fds = [s.fds EXCEPT ![h] = [s.fds[h] EXCEPT !.pos = at + n]]
        BY <3>5
      <3>10. /\ Sound(o.os) /\ o.os.names = t.names /\ o.os.fds = t.fds /\ o.os.nodes[n0].data = new
             /\ \A m \in Nodes : /\ o.os.nodes[m].kind = t.nodes[m].kind
                                 /\ m # n0 => o.os.nodes[m] = t.nodes[m]
        BY <2>1, <3>4, <3>6, <3>8, StoreChanges
      <3>11. Wrote(s, o.os, h, at, part)
        BY <1>2, <3>2, <3>9, <3>10 DEF Wrote, new
      <3>12. o.ret # Len(data) => o.fault \/ at + Len(data) > MaxBlocks
        <4>1. n # Len(data) => n < room \/ room < Len(data)
          BY <2>2, <2>4, <3>1
        <4> QED
          BY <2>4, <2>60, <3>6, <4>1
      <3>13. o.ret < Len(data) => o.fault \/ at + o.ret = MaxBlocks
        <4>1. n < Len(data) => n < room \/ (room < Len(data) /\ room = n /\ room > 0)
          BY <2>2, <2>4, <2>61, <3>1
        <4> QED
          BY <2>4, <2>60, <3>6, <4>1
      <3>14. Wrote(s, o.os, h, at, SubSeq(data, 1, o.ret))
        BY <3>6, <3>11 DEF part
      <3>15. Result(o) /\ o.ret \in Int /\ o.ret \in 1..Len(data) /\ at + o.ret <= MaxBlocks
        BY <2>6, <3>1, <3>3, <3>6
      <3> QED
        BY <3>10, <3>12, <3>13, <3>14, <3>15, Zenon DEF at
    <2> QED
      BY <2>7, <2>8
  <1> QED
    BY <1>1, <1>2

\* A change of what is left alone, after another.
LEMMA LeavesOn ==
  ASSUME NEW s, NEW t, NEW u, NEW ds, Leaves(s, t, ds), Leaves(t, u, ds)
  PROVE  Leaves(s, u, ds)
  BY DEF Leaves

\* Leaving more alone.
LEMMA LeavesMore ==
  ASSUME NEW s, NEW t, NEW ds, NEW es, ds \subseteq es, Leaves(s, t, ds)
  PROVE  Leaves(s, t, es)
  BY DEF Leaves

\* ftruncate() cuts the file, or extends it.
LEMMA TruncateDoes ==
  ASSUME NEW s, Sound(s), NEW h, NEW size \in Int, NEW o \in OsTruncate(s, h, size)
  PROVE  /\ Result(o) /\ o.ret \in Int /\ Sound(o.os)
         /\ \/ Fails(s, o)
            \/ /\ o.ret = 0 /\ Opened(s, h) /\ size \in Nat
               /\ o.os = Store(s, s.fds[h].node, Overwrite(Part(ContentOf(s, h), 1, size), size, <<>>))
  <1> DEFINE n == s.fds[h].node
             part == Part(ContentOf(s, h), 1, size)
             data == Overwrite(part, size, <<>>)
             after == Store(s, n, data)
  <1>1. /\ EBADF \in Nat \ {0} /\ EINVAL \in Nat \ {0} /\ EFBIG \in Nat \ {0} /\ EIO \in Nat \ {0}
        /\ Host(s)
    BY DEF EBADF, EINVAL, EFBIG, EIO, Sound
  <1>2. \/ o = Out(s, -EBADF) \/ o = Out(s, -EINVAL) \/ o = Out(s, -EFBIG)
        \/ o \in Faulty(s, "truncate", EIO)
        \/ Opened(s, h) /\ ~(size < 0) /\ ~(size > MaxBlocks) /\ o = Out(after, 0)
    BY DEF OsTruncate
  <1>3. ASSUME Opened(s, h), ~(size < 0), ~(size > MaxBlocks), o = Out(after, 0)
        PROVE  Result(o) /\ o.ret = 0 /\ size \in Nat /\ o.os = after /\ Sound(o.os)
    <2>1. ContentOf(s, h) \in Seq(Blocks) /\ n \in Nodes /\ size \in Nat /\ size <= MaxBlocks /\ 1 \in Nat \ {0}
      BY <1>3, SoundFacts, HostAssumption DEF IsContent, There
    <2>2. part \in Seq(Blocks) /\ Len(part) \in Nat /\ Len(part) <= size
      <3>1. /\ part \in Seq(Blocks) /\ Len(part) \in Nat
            /\ Len(part) = LET m == IF size <= Len(ContentOf(s, h)) THEN size ELSE Len(ContentOf(s, h))
                           IN  IF 1 <= m THEN m - 1 + 1 ELSE 0
        BY <2>1, PartIs
      <3>2. Len(ContentOf(s, h)) \in Nat
        BY <2>1
      <3> QED
        BY <2>1, <3>1, <3>2
    <2> HIDE DEF part, n
    <2>3. IsContent(data)
      <3> DEFINE e == <<>>
      <3>1. e \in Seq(Blocks) /\ Len(e) = 0 /\ data = Overwrite(part, size, e)
        BY EmptySeq
      <3> HIDE DEF e, data
      <3>2. part \in Seq(Blocks) /\ size \in Nat /\ e \in Seq(Blocks)
        BY <2>1, <2>2, <3>1
      <3> DEFINE all == Overwrite(part, size, e)
      <3>3. all \in Seq(Blocks) /\ Len(all) = IF Len(part) >= size + Len(e) THEN Len(part) ELSE size + Len(e)
        BY <3>2, OverwriteIs
      <3>4. data = all
        BY <3>1
      <3> HIDE DEF all
      <3> QED
        BY <2>1, <2>2, <3>1, <3>3, <3>4 DEF IsContent
    <2> HIDE DEF data
    <2>4. Sound(after)
      BY <2>1, <2>3, StoreChanges
    <2> HIDE DEF after
    <2> QED
      BY <1>3, <2>1, <2>4, OutIsResult
  <1> HIDE DEF after
  <1>4. o \in Faulty(s, "truncate", EIO) => Result(o) /\ Fails(s, o)
    BY <1>1, FaultyOutcomes DEF Fails
  <1>5. /\ \A e \in Nat \ {0} : o = Out(s, -e) => Result(o) /\ Fails(s, o)
    BY OutFails
  <1>6. Fails(s, o) => Sound(o.os) /\ o.ret \in Int
    BY DEF Fails
  <1> QED
    BY <1>1, <1>2, <1>3, <1>4, <1>5, <1>6 DEF after

\* mkdir() makes a directory of that name, which was none.
LEMMA MkdirDoes ==
  ASSUME NEW s, Sound(s), NEW p, NEW o \in OsMkdir(s, p)
  PROVE  /\ Result(o) /\ o.ret \in Int /\ Sound(o.os)
         /\ Fails(s, o) \/ (/\ o.ret = 0 /\ p \in Paths /\ Spare(s) # {} /\ Node(s, p) = 0
                            /\ o.os = Make(s, p, "Directory"))
  <1> DEFINE errors  == If(Node(s, p) # 0, EEXIST) \cup NoParent(s, p) \cup If(Spare(s) = {}, ENOSPC)
             x       == Out(Make(s, p, "Directory"), 0)
             success == Faulty(s, "mkdir", EIO) \cup {x}
  <1>1. errors \subseteq Nat \ {0} /\ EIO \in Nat \ {0} /\ Host(s)
    BY NoParentErrors DEF If, EEXIST, ENOSPC, EIO, Sound
  <1>2. o \in Outcomes(s, errors, success) /\ OneOutcome(s, "mkdir", EIO, success, x)
    BY DEF OsMkdir, OneOutcome
  <1>3. errors = {} => p \in Paths /\ Spare(s) # {} /\ Node(s, p) = 0
    <2>1. NoParent(s, p) = {} => p \in Paths
      BY HostAssumption DEF NoParent, If
    <2> QED
      BY <2>1 DEF If
  <1> HIDE DEF errors, x, success
  <1>4. (Result(o) /\ Fails(s, o)) \/ (errors = {} /\ o = x)
    BY <1>1, <1>2, SimpleOutcomes
  <1>5. CASE Result(o) /\ Fails(s, o)
    BY <1>5 DEF Fails
  <1>6. CASE errors = {} /\ o = x
    <2>1. Result(o) /\ o.ret = 0 /\ o.os = Make(s, p, "Directory")
      BY <1>6, OutIsResult DEF x
    <2>2. Sound(Make(s, p, "Directory"))
      BY <1>3, <1>6, MakeSound
    <2> QED
      BY <1>3, <1>6, <2>1, <2>2
  <1> QED
    BY <1>4, <1>5, <1>6

\* Names may lead elsewhere.
LEMMA RenamedSound ==
  ASSUME NEW s, Sound(s), NEW names \in [Paths -> Nodes \cup {0}],
         \A p \in Paths : names[p] # 0 => There(s, names[p])
  PROVE  Sound([s EXCEPT !.names = names]) /\ Sound(Reap([s EXCEPT !.names = names]))
  <1> DEFINE t == [s EXCEPT !.names = names]
  <1>1. t = [names |-> names, nodes |-> s.nodes, fds |-> s.fds, streams |-> s.streams]
    BY DEF Sound, Host
  <1> HIDE DEF t
  <1>2. t.names = names /\ t.nodes = s.nodes /\ t.fds = s.fds /\ t.streams = s.streams
    BY <1>1
  <1>3. Host(t) /\ OpenFds(t) = OpenFds(s)
    BY <1>1, <1>2 DEF Sound, Host, OpenFds
  <1>4. Sound(t)
    BY <1>2, <1>3 DEF Sound, There
  <1>5. Sound(Reap(t))
    BY <1>4, ReapSound
  <1> QED
    BY <1>4, <1>5 DEF t

\* remove() takes a name away.
LEMMA RemoveDoes ==
  ASSUME NEW s, Sound(s), NEW p, NEW o \in OsRemove(s, p)
  PROVE  Result(o) /\ o.ret \in Int /\ Sound(o.os)
  <1> DEFINE errors  == If(Node(s, p) = 0, ENOENT) \cup If(Children(s, p) # {} \/ p = <<>>, ENOTEMPTY)
             names   == [s.names EXCEPT ![p] = 0]
             x       == Out(Reap([s EXCEPT !.names[p] = 0]), 0)
             success == {x}
  <1>1. errors \subseteq Nat \ {0} /\ EIO \in Nat \ {0} /\ Host(s)
    BY DEF If, ENOENT, ENOTEMPTY, EIO, Sound
  <1>2. o \in Outcomes(s, errors, success) /\ OneOutcome(s, "remove", EIO, success, x)
    BY DEF OsRemove, OneOutcome
  <1>3. Result(x) /\ x.os = Reap([s EXCEPT !.names = names]) /\ x.ret = 0
    BY OutIsResult
  <1> HIDE DEF errors, x, success
  <1>4. (Result(o) /\ Fails(s, o)) \/ (errors = {} /\ o = x)
    BY <1>1, <1>2, SimpleOutcomes
  <1>5. names \in [Paths -> Nodes \cup {0}] /\ \A q \in Paths : names[q] # 0 => There(s, names[q])
    BY DEF Sound
  <1> HIDE DEF names
  <1>6. Sound(Reap([s EXCEPT !.names = names]))
    BY <1>5, RenamedSound
  <1>7. CASE Result(o) /\ Fails(s, o)
    BY <1>7 DEF Fails
  <1>8. CASE errors = {} /\ o = x
    BY <1>3, <1>6, <1>8
  <1> QED
    BY <1>4, <1>7, <1>8

\* rename() moves a name, and all those under it.
LEMMA RenameDoes ==
  ASSUME NEW s, Sound(s), NEW p, NEW q, NEW o \in OsRename(s, p, q)
  PROVE  Result(o) /\ o.ret \in Int /\ Sound(o.os)
  <1> DEFINE errors == If(Node(s, p) = 0, ENOENT) \cup NoParent(s, q)
                \cup If(Under(q, p) \/ p = <<>>, EINVAL)
                \cup If(\E x \in Children(s, p) : q \o SubSeq(x, Len(p) + 1, Len(x)) \notin Paths, EACCES)
                \cup (IF Node(s, q) = 0 \/ Node(s, p) = 0 \/ p = q THEN {}
                      ELSE If(Kind(s, p) = "File" /\ Kind(s, q) = "Directory", EISDIR)
                           \cup If(Kind(s, p) = "Directory" /\ Kind(s, q) = "File", ENOTDIR)
                           \cup If(Children(s, q) # {}, ENOTEMPTY))
             From(x) == p \o SubSeq(x, Len(q) + 1, Len(x))
             Moved(x) == IF x = q \/ Under(x, q) THEN Node(s, From(x))
                         ELSE IF x = p \/ Under(x, p) THEN 0 ELSE s.names[x]
             moved   == [x \in Paths |-> Moved(x)]
             x       == Out(IF p = q THEN s ELSE Reap([s EXCEPT !.names = moved]), 0)
             success == {x}
  <1>1. errors \subseteq Nat \ {0} /\ EIO \in Nat \ {0} /\ Host(s)
    BY NoParentErrors DEF If, ENOENT, ENOTEMPTY, EINVAL, EACCES, EISDIR, ENOTDIR, EIO, Sound
  <1>2. o \in Outcomes(s, errors, success) /\ OneOutcome(s, "rename", EIO, success, x)
    BY DEF OsRename, OneOutcome
  <1>3. \A y \in Paths : Moved(y) \in Nodes \cup {0} /\ (Moved(y) # 0 => There(s, Moved(y)))
    <2>1. \A y : Node(s, y) \in Nodes \cup {0} /\ (Node(s, y) # 0 => There(s, Node(s, y)))
      BY SoundFacts
    <2>2. \A y \in Paths : s.names[y] \in Nodes \cup {0} /\ (s.names[y] # 0 => There(s, s.names[y]))
      BY DEF Sound
    <2> HIDE DEF From
    <2> QED
      BY <2>1, <2>2
  <1> HIDE DEF Moved
  <1>4. moved \in [Paths -> Nodes \cup {0}] /\ \A y \in Paths : moved[y] # 0 => There(s, moved[y])
    BY <1>3
  <1> HIDE DEF moved, errors
  <1>5. Sound(Reap([s EXCEPT !.names = moved]))
    BY <1>4, RenamedSound
  <1>6. Result(x) /\ Sound(x.os) /\ x.ret = 0
    BY <1>5, OutIsResult
  <1> HIDE DEF x, success
  <1>7. (Result(o) /\ Fails(s, o)) \/ (errors = {} /\ o = x)
    BY <1>1, <1>2, SimpleOutcomes
  <1>8. CASE Result(o) /\ Fails(s, o)
    BY <1>8 DEF Fails
  <1>9. CASE errors = {} /\ o = x
    BY <1>6, <1>9
  <1> QED
    BY <1>7, <1>8, <1>9

\* A stream changes, and no file.
LEMMA StreamsSame ==
  ASSUME NEW s, Host(s), NEW d, NEW r
  PROVE  SameFiles(s, [s EXCEPT !.streams[d] = r])
  <1> DEFINE t == [s EXCEPT !.streams[d] = r]
  <1>1. t = [names |-> s.names, nodes |-> s.nodes, fds |-> s.fds, streams |-> [s.streams EXCEPT ![d] = r]]
    BY DEF Host
  <1> HIDE DEF t
  <1>2. SameFiles(s, t)
    BY <1>1 DEF SameFiles
  <1> QED
    BY <1>2 DEF t

\* readdir() gives a name.
LEMMA ReaddirDoes ==
  ASSUME NEW s, Sound(s), NEW d, NEW o \in OsReaddir(s, d)
  PROVE  /\ Sound(o.os) /\ Leaves(s, o.os, {}) /\ o.ret \in Int
         /\ o = WithName(o, o.name) /\ (o.ret < 0 \/ o.ret = 0)
  <1> DEFINE left == s.streams[d].left
             Left(x) == [s EXCEPT !.streams[d].left = x]
  <1>1. \/ \E x : o = WithName(Out(Left(x), 0), o.name)
        \/ \E x \in Faulty(s, "readdir", EIO) : o = WithName(x, "")
    <2>1. \/ \E i \in 1..Len(left) : o = WithName(Out(Left(SubSeq(left, i + 1, Len(left))), 0), left[i])
          \/ o = WithName(Out(Left(<<>>), 0), "")
          \/ \E x \in Faulty(s, "readdir", EIO) : o = WithName(x, "")
      BY DEF OsReaddir
    <2> HIDE DEF Left
    <2>2. \A x, y : o = WithName(Out(x, 0), y) => o = WithName(Out(x, 0), o.name)
      BY DEF WithName
    <2> QED
      BY <2>1, <2>2
  <1>2. Host(s)
    BY DEF Sound
  <1>3. o = WithName(o, o.name) /\ Host(o.os)
    BY <1>2, ReaddirOutcomes DEF Keeps
  <1>4. ASSUME NEW x, o = WithName(Out(Left(x), 0), o.name)
        PROVE  SameFiles(s, o.os) /\ o.ret = 0
    <2> DEFINE r == [s.streams[d] EXCEPT !.left = x]
    <2>1. Left(x) = [s EXCEPT !.streams[d] = r]
      OBVIOUS
    <2> HIDE DEF r
    <2>2. SameFiles(s, Left(x))
      BY <1>2, <2>1, StreamsSame
    <2> HIDE DEF Left
    <2>3. o.os = Left(x) /\ o.ret = 0
      BY <1>4 DEF WithName, Out
    <2> QED
      BY <2>2, <2>3
  <1>5. ASSUME NEW x \in Faulty(s, "readdir", EIO), o = WithName(x, "")
        PROVE  SameFiles(s, o.os) /\ o.ret \in Int /\ o.ret < 0
    <2>1. x.ret \in Int /\ x.ret < 0 /\ x.os = s
      BY <1>2, FaultyOutcomes DEF EIO
    <2> QED
      BY <1>5, <2>1 DEF WithName, SameFiles
  <1> HIDE DEF Left
  <1>6. SameFiles(s, o.os) /\ o.ret \in Int /\ (o.ret < 0 \/ o.ret = 0)
    <2>1. CASE \E x : o = WithName(Out(Left(x), 0), o.name)
      <3>1. SameFiles(s, o.os) /\ o.ret = 0
        BY <1>4, <2>1, Zenon
      <3> QED
        BY <3>1
    <2>2. CASE \E x \in Faulty(s, "readdir", EIO) : o = WithName(x, "")
      <3>1. PICK x \in Faulty(s, "readdir", EIO) : o = WithName(x, "")
        BY <2>2
      <3> QED
        BY <1>5, <3>1
    <2> QED
      BY <1>1, <2>1, <2>2
  <1> QED
    BY <1>3, <1>6, SameFilesSound

\* Rewinding and ending a stream.
LEMMA StreamsDo ==
  ASSUME NEW s, Sound(s), NEW d
  PROVE  /\ d \in OpenStreams(s) \/ d \notin Streams => Sound(OsRewinddir(s, d))
         /\ Sound(OsClosedir(s, d))
  <1>1. Host(s)
    BY DEF Sound
  <1>2. ASSUME d \in OpenStreams(s) \/ d \notin Streams
        PROVE  Sound(OsRewinddir(s, d))
    <2> DEFINE r == [s.streams[d] EXCEPT !.left = Entries(s, s.streams[d].dir)]
    <2>1. OsRewinddir(s, d) = [s EXCEPT !.streams[d] = r]
      BY DEF OsRewinddir
    <2> HIDE DEF r
    <2>2. SameFiles(s, OsRewinddir(s, d))
      BY <1>1, <2>1, StreamsSame
    <2>3. Host(OsRewinddir(s, d))
      BY <1>1, <1>2, RewindKeeps DEF Keeps
    <2> QED
      BY <2>2, <2>3, SameFilesSound
  <1>3. Sound(OsClosedir(s, d))
    <2> DEFINE t == [s EXCEPT !.streams[d] = NoStream]
    <2>1. SameFiles(s, t)
      BY <1>1, StreamsSame
    <2>2. Stream(NoStream)
      BY DEF Stream, NoStream
    <2>3. Host(t)
      BY <1>1, <2>2, StreamReplaced
    <2>4. OsClosedir(s, d) = Reap(t)
      BY DEF OsClosedir
    <2> HIDE DEF t
    <2>5. Sound(t)
      BY <2>1, <2>3, SameFilesSound
    <2> QED
      BY <2>4, <2>5, ReapSound
  <1> QED
    BY <1>2, <1>3

\* opendir() opens a stream.
LEMMA OpendirDoes ==
  ASSUME NEW s, Sound(s), NEW p, NEW o \in OsOpendir(s, p)
  PROVE  Result(o) /\ GivesStream(s, o) /\ Sound(o.os)
  <1> DEFINE spare   == {d \in Streams : s.streams[d] = NoStream}
             errors  == If(Node(s, p) = 0, ENOENT) \cup If(Kind(s, p) = "File", ENOTDIR) \cup If(spare = {}, EMFILE)
             d       == Min(spare)
             r       == [path |-> <<>>, dir |-> Node(s, p), left |-> Listing(s, p)]
             after   == [s EXCEPT !.streams[d] = r]
             x       == Out(after, d)
             success == Faulty(s, "opendir", EIO) \cup {x}
  <1>1. errors \subseteq Nat \ {0} /\ EIO \in Nat \ {0} /\ Host(s)
    BY DEF If, ENOENT, ENOTDIR, EMFILE, EIO, Sound
  <1>2. o \in Outcomes(s, errors, success) /\ OneOutcome(s, "opendir", EIO, success, x)
    BY DEF OsOpendir, OneOutcome
  <1>3. Result(o) /\ GivesStream(s, o)
    BY <1>1, OpendirOutcomes
  <1>4. Host(o.os)
    BY <1>3 DEF GivesStream, Keeps
  <1> HIDE DEF r, d, errors
  <1>5. SameFiles(s, after)
    BY <1>1, StreamsSame
  <1> HIDE DEF after
  <1>6. x.os = after
    BY OutIsResult
  <1> HIDE DEF x, success
  <1>7. (Result(o) /\ Fails(s, o)) \/ (errors = {} /\ o = x)
    BY <1>1, <1>2, SimpleOutcomes
  <1>8. SameFiles(s, o.os)
    BY <1>5, <1>6, <1>7 DEF Fails, SameFiles
  <1> QED
    BY <1>3, <1>4, <1>8, SameFilesSound

\* What is known of a node besides its kind and content may change.
LEMMA NodeSound ==
  ASSUME NEW s, Sound(s), NEW n \in Nodes, NEW r, IsNode(r), r.kind = s.nodes[n].kind
  PROVE  Sound([s EXCEPT !.nodes[n] = r])
  <1> DEFINE t == [s EXCEPT !.nodes[n] = r]
  <1>1. Changed(s, t, n, r)
    BY DEF Changed, Sound, Host
  <1> HIDE DEF t
  <1>2. Sound(t)
    BY <1>1, ChangedSound
  <1> QED
    BY <1>2 DEF t

\* The time of modification, protection and attributes are.
LEMMA MarkedSound ==
  ASSUME NEW s, Sound(s), NEW n \in Nodes, NEW x, NEW tag
  PROVE  /\ Sound([s EXCEPT !.nodes[n].mtime = x])
         /\ Sound([s EXCEPT !.nodes[n].writable = x])
         /\ Sound([s EXCEPT !.nodes[n].attrs[tag] = x])
  <1> DEFINE q == s.nodes[n]
             a == [q.attrs EXCEPT ![tag] = x]
             r1 == [q EXCEPT !.mtime = x]
             r2 == [q EXCEPT !.writable = x]
             r3 == [q EXCEPT !.attrs = a]
  <1>1. IsNode(q)
    BY DEF Sound
  <1>2. /\ [s EXCEPT !.nodes[n].mtime = x] = [s EXCEPT !.nodes[n] = r1]
        /\ [s EXCEPT !.nodes[n].writable = x] = [s EXCEPT !.nodes[n] = r2]
        /\ [s EXCEPT !.nodes[n].attrs[tag] = x] = [s EXCEPT !.nodes[n] = r3]
    OBVIOUS
  <1> HIDE DEF a
  <1>3. ASSUME NEW r, NEW w, IsNode(r)
        PROVE  /\ IsNode([r EXCEPT !.mtime = w]) /\ [r EXCEPT !.mtime = w].kind = r.kind
               /\ IsNode([r EXCEPT !.writable = w]) /\ [r EXCEPT !.writable = w].kind = r.kind
               /\ IsNode([r EXCEPT !.attrs = w]) /\ [r EXCEPT !.attrs = w].kind = r.kind
    BY <1>3 DEF IsNode
  <1>4. /\ IsNode(r1) /\ r1.kind = q.kind /\ IsNode(r2) /\ r2.kind = q.kind
        /\ IsNode(r3) /\ r3.kind = q.kind
    <2> HIDE DEF q
    <2> QED
      BY <1>1, <1>3
  <1> HIDE DEF r1, r2, r3
  <1> QED
    BY <1>2, <1>4, NodeSound

-----------------------------------------------------------------------------
(* What each method of Host::FileSystem does to such a state.              *)

\* CHECK_MOUNTED: the outcome of the host's call, with an error for an error.
LEMMA CheckedDoes ==
  ASSUME NEW s, NEW outcomes, \A x \in outcomes : Result(x) /\ x.ret \in Int, NEW o \in Checked(s, outcomes)
  PROVE  /\ Result(o) /\ o.ret \in Int
         /\ \/ ~mounted /\ Fails(s, o)
            \/ /\ mounted
               /\ \E x \in outcomes : /\ o.os = x.os /\ o.fault = x.fault
                                      /\ x.ret < 0 => o.ret < 0
                                      /\ x.ret >= 0 => o.ret = x.ret
  <1>1. CASE mounted
    <2>1. PICK x \in outcomes : o = [x EXCEPT !.ret = SysErr(@)]
      BY <1>1 DEF Checked
    <2>2. Result(x) /\ x.ret \in Int
      OBVIOUS
    <2>3. o.os = x.os /\ o.fault = x.fault /\ o.ret = SysErr(x.ret) /\ Result(o)
      BY <2>1, <2>2 DEF Result
    <2>4. o.ret \in Int /\ (x.ret < 0 => o.ret < 0) /\ (x.ret >= 0 => o.ret = x.ret)
      BY <2>2, <2>3, SysErrSign
    <2> QED
      BY <1>1, <2>3, <2>4
  <1>2. CASE ~mounted
    <2>1. o = Out(s, -5)
      BY <1>2 DEF Checked, NotMounted
    <2>2. Result(o) /\ Fails(s, o)
      BY <2>1, OutFails
    <2> QED
      BY <1>2, <2>2 DEF Fails
  <1> QED
    BY <1>1, <1>2

\* open() takes a descriptor for what the path leads to.
LEMMA HostOpenDoes ==
  ASSUME NEW s, Sound(s), NEW path, NEW flags, NEW o \in HostOpen(s, path, flags)
  PROVE  /\ Result(o) /\ o.ret \in Int
         /\ Fails(s, o) \/ (mounted /\ o.ret \in Nat /\ OpensFile(s, o, ResolvePath(path), MapFlags(flags)))
  <1> DEFINE p == ResolvePath(path)
             f == MapFlags(flags)
             outcomes == OsOpen(s, p, f)
  <1>1. "Read" \in f \/ "Write" \in f
    BY DEF MapFlags
  <1>2. o \in Checked(s, outcomes)
    BY DEF HostOpen
  <1> HIDE DEF p, f
  <1>3. ASSUME NEW x \in outcomes
        PROVE  /\ Result(x) /\ x.ret \in Int
               /\ Fails(s, x) \/ (x.ret \in Nat /\ OpensFile(s, x, p, f))
    <2>1. Result(x) /\ (Fails(s, x) \/ OpensFile(s, x, p, f))
      BY <1>1, OpenDoes
    <2>2. OpensFile(s, x, p, f) => x.ret \in Nat
      BY HostAssumption DEF OpensFile
    <2> QED
      BY <2>1, <2>2 DEF Fails
  <1> HIDE DEF outcomes
  <1>4. /\ Result(o) /\ o.ret \in Int
        /\ \/ ~mounted /\ Fails(s, o)
           \/ /\ mounted
              /\ \E x \in outcomes : /\ o.os = x.os /\ o.fault = x.fault
                                     /\ x.ret < 0 => o.ret < 0
                                     /\ x.ret >= 0 => o.ret = x.ret
    BY <1>2, <1>3, CheckedDoes
  <1>5. ASSUME mounted, NEW x \in outcomes, o.os = x.os, x.ret < 0 => o.ret < 0, x.ret >= 0 => o.ret = x.ret
        PROVE  Fails(s, o) \/ (mounted /\ o.ret \in Nat /\ OpensFile(s, o, p, f))
    <2>1. CASE Fails(s, x)
      BY <1>4, <1>5, <2>1 DEF Fails
    <2>2. CASE x.ret \in Nat /\ OpensFile(s, x, p, f)
      <3>1. o.ret = x.ret /\ o.os = x.os
        BY <1>5, <2>2
      <3>2. OpensFile(s, o, p, f)
        BY <2>2, <3>1 DEF OpensFile
      <3> QED
        BY <1>5, <2>2, <3>1, <3>2
    <2> QED
      BY <1>3, <2>1, <2>2
  <1> QED
    BY <1>4, <1>5 DEF p, f

\* close() ends the use of a descriptor, and frees what is reached no more.
LEMMA HostCloseDoes ==
  ASSUME NEW s, Sound(s), NEW h, NEW o \in HostClose(s, h)
  PROVE  /\ o.os.names = s.names /\ Sound(o.os) /\ Leaves(s, o.os, {h})
         /\ mounted \/ OpenFds(s) = {} => Frees(s, o.os, h)
  <1>1. ASSUME o.os = s, ~mounted \/ h < 0
        PROVE  /\ o.os.names = s.names /\ Sound(o.os) /\ Leaves(s, o.os, {h})
               /\ mounted \/ OpenFds(s) = {} => Frees(s, o.os, h)
    <2>1. h \in Fds => ~(h < 0)
      <3>1. h \in Fds => h \in Nat
        BY HostAssumption
      <3> QED
        BY <3>1
    <2>2. mounted \/ OpenFds(s) = {} => Frees(s, o.os, h)
      BY <1>1, <2>1 DEF OpenFds, Frees
    <2>3. Leaves(s, o.os, {h})
      BY <1>1, SameLeaves
    <2> QED
      BY <1>1, <2>2, <2>3
  <1>2. CASE mounted /\ h < 0
    <2>1. o = Out(s, InvalidHandle)
      BY <1>2 DEF HostClose
    <2>2. o.os = s
      BY <2>1, OutIsResult
    <2> QED
      BY <1>1, <1>2, <2>2
  <1>3. CASE ~(mounted /\ h < 0)
    <2>1. o \in Checked(s, OsClose(s, h))
      BY <1>3 DEF HostClose
    <2>2. \A x \in OsClose(s, h) : Result(x) /\ x.ret \in Int
      BY CloseDoes
    <2>3. \/ ~mounted /\ Fails(s, o)
          \/ \E x \in OsClose(s, h) : o.os = x.os
      BY <2>1, <2>2, CheckedDoes
    <2>4. CASE ~mounted /\ Fails(s, o)
      BY <1>1, <2>4 DEF Fails
    <2>5. ASSUME NEW x \in OsClose(s, h), o.os = x.os
          PROVE  o.os.names = s.names /\ Sound(o.os) /\ Leaves(s, o.os, {h}) /\ Frees(s, o.os, h)
      BY <2>5, CloseDoes
    <2> QED
      BY <2>3, <2>4, <2>5
  <1> QED
    BY <1>2, <1>3

\* read() gives a part of what the file holds.
LEMMA HostReadDoes ==
  ASSUME NEW s, Sound(s), NEW h, NEW size \in Int, NEW o \in HostRead(s, h, size)
  PROVE  /\ o.ret \in Int /\ o.data \in Seq(Blocks) /\ Sound(o.os) /\ Leaves(s, o.os, {h})
         /\ (Fails(s, o) /\ o.data = <<>>) \/ (o.ret >= 0 /\ mounted /\ ReadsOn(s, o, h, size))
  <1>1. CASE mounted
    <2>1. PICK x \in OsRead(s, h, size) : o = [x EXCEPT !.ret = SysErr(@)]
      BY <1>1 DEF HostRead
    <2>2. /\ x = [os |-> x.os, ret |-> x.ret, fault |-> x.fault, data |-> x.data]
          /\ x.ret \in Int /\ x.data \in Seq(Blocks)
          /\ Sound(x.os) /\ Leaves(s, x.os, {h})
          /\ (Fails(s, x) /\ x.data = <<>>) \/ (x.ret >= 0 /\ ReadsOn(s, x, h, size))
      BY ReadDoes
    <2>3. o.os = x.os /\ o.ret = SysErr(x.ret) /\ o.data = x.data
      BY <2>1, <2>2
    <2>4. o.ret \in Int /\ (x.ret < 0 => o.ret < 0) /\ (x.ret >= 0 => o.ret = x.ret)
      BY <2>2, <2>3, SysErrSign
    <2>5. CASE Fails(s, x) /\ x.data = <<>>
      BY <2>2, <2>3, <2>4, <2>5 DEF Fails
    <2>6. CASE x.ret >= 0 /\ ReadsOn(s, x, h, size)
      <3>1. ReadsOn(s, o, h, size)
        BY <2>3, <2>4, <2>6 DEF ReadsOn
      <3> QED
        BY <1>1, <2>2, <2>3, <2>4, <2>6, <3>1
    <2> QED
      BY <2>2, <2>5, <2>6
  <1>2. CASE ~mounted
    <2>1. o = WithData(Out(s, -5), <<>>)
      BY <1>2 DEF HostRead, NotMounted
    <2>2. o.os = s /\ o.ret = -5 /\ o.data = <<>>
      BY <2>1 DEF WithData, Out
    <2>3. <<>> \in Seq(Blocks)
      BY EmptySeq
    <2> QED
      BY <2>2, <2>3, SameLeaves DEF Fails
  <1> QED
    BY <1>1, <1>2

\* write() writes some of the data, within the bounds of a file, or nothing.
LEMMA HostWriteDoes ==
  ASSUME NEW s, Sound(s), NEW h, NEW data \in Seq(Blocks), NEW o \in HostWrite(s, h, data)
  PROVE  Result(o) /\ o.ret \in Int /\ Sound(o.os)
  <1>1. o \in Checked(s, OsWrite(s, h, data))
    BY DEF HostWrite
  <1>2. \A x \in OsWrite(s, h, data) : Result(x) /\ x.ret \in Int /\ Sound(x.os)
    BY WriteDoes
  <1>3. Result(o) /\ o.ret \in Int /\ (Fails(s, o) \/ \E x \in OsWrite(s, h, data) : o.os = x.os)
    BY <1>1, <1>2, CheckedDoes
  <1> QED
    BY <1>2, <1>3 DEF Fails

\* Where lseek() goes.
Target(s, h, offset, origin) == offset + Origin(s, h, origin)

\* A position that is not negative, if it is counted from one.
LEMMA TargetIs ==
  ASSUME NEW s, Sound(s), NEW h, Opened(s, h)
  PROVE  /\ \A offset \in Int : Target(s, h, offset, "Start") = offset
         /\ Target(s, h, 0, "Current") = s.fds[h].pos /\ s.fds[h].pos \in Nat
         /\ Target(s, h, 0, "End") = Len(ContentOf(s, h)) /\ Len(ContentOf(s, h)) \in Nat
         /\ \A offset \in Int, origin \in {"Start", "Current", "End"} : Target(s, h, offset, origin) \in Int
  <1>1. s.fds[h].pos \in Nat /\ Len(ContentOf(s, h)) \in Nat
    BY SoundFacts DEF IsContent
  <1>2. /\ Origin(s, h, "Start") = 0 /\ Origin(s, h, "Current") = s.fds[h].pos
        /\ Origin(s, h, "End") = Len(ContentOf(s, h))
    BY DEF Origin
  <1> QED
    BY <1>1, <1>2 DEF Target

\* lseek() moves the cursor; a position that is too great is moved to as well, but not told.
LEMMA HostSeekDoes ==
  ASSUME NEW s, Sound(s), NEW h, NEW offset \in Int, NEW origin \in {"Start", "Current", "End"},
         NEW o \in HostSeek(s, h, offset, origin)
  PROVE  /\ o.ret \in Int /\ Sound(o.os) /\ Leaves(s, o.os, {h})
         /\ o.ret >= 0 => mounted /\ Opened(s, h) /\ o.ret = Target(s, h, offset, origin)
         /\ o.ret < 0 => \/ ~mounted \/ ~Opened(s, h) \/ Target(s, h, offset, origin) < 0
                         \/ Target(s, h, offset, origin) >= OffsetRange
         /\ mounted /\ Opened(s, h) /\ Target(s, h, offset, origin) >= 0 =>
              Turned(s, o.os, h, Target(s, h, offset, origin))
  <1> DEFINE there == Target(s, h, offset, origin)
  <1>1. PICK c \in Checked(s, OsSeek(s, h, offset, origin)) :
          o = [c EXCEPT !.ret = IF @ < 0 THEN @ ELSE ToOffset(@)]
    BY DEF HostSeek
  <1>2. \A x \in OsSeek(s, h, offset, origin) : Result(x) /\ x.ret \in Int
    BY SeekDoes
  <1>3. /\ Result(c) /\ c.ret \in Int
        /\ \/ ~mounted /\ Fails(s, c)
           \/ /\ mounted
              /\ \E x \in OsSeek(s, h, offset, origin) : /\ c.os = x.os /\ c.fault = x.fault
                                                         /\ x.ret < 0 => c.ret < 0
                                                         /\ x.ret >= 0 => c.ret = x.ret
    BY <1>2, CheckedDoes
  <1>4. o.os = c.os /\ o.ret = IF c.ret < 0 THEN c.ret ELSE ToOffset(c.ret)
    BY <1>1, <1>3 DEF Result
  <1>5. CASE ~mounted /\ Fails(s, c)
    <2>1. o.os = s /\ o.ret \in Int /\ o.ret < 0
      BY <1>4, <1>5 DEF Fails
    <2> HIDE DEF there
    <2> QED
      BY <1>5, <2>1, SameLeaves
  <1>6. ASSUME mounted, NEW x \in OsSeek(s, h, offset, origin), c.os = x.os,
               x.ret < 0 => c.ret < 0, x.ret >= 0 => c.ret = x.ret
        PROVE  /\ o.ret \in Int /\ Sound(o.os) /\ Leaves(s, o.os, {h})
               /\ o.ret >= 0 => mounted /\ Opened(s, h) /\ o.ret = there
               /\ o.ret < 0 => ~mounted \/ ~Opened(s, h) \/ there < 0 \/ there >= OffsetRange
               /\ mounted /\ Opened(s, h) /\ there >= 0 => Turned(s, o.os, h, there)
    <2>1. /\ Result(x) /\ x.ret \in Int /\ Sound(x.os) /\ Leaves(s, x.os, {h})
          /\ Fails(s, x) \/ (x.ret \in Nat /\ x.ret = there /\ Turned(s, x.os, h, x.ret))
          /\ Opened(s, h) /\ there >= 0 => ~Fails(s, x)
      BY SeekDoes DEF Target
    <2>2. Opened(s, h) => there \in Int
      BY TargetIs
    <2> HIDE DEF there
    <2>3. CASE Fails(s, x)
      <3>1. o.ret \in Int /\ o.ret < 0 /\ o.os = x.os
        BY <1>3, <1>4, <1>6, <2>3 DEF Fails
      <3>2. Opened(s, h) => there < 0
        BY <2>1, <2>2, <2>3
      <3>3. Sound(o.os) /\ Leaves(s, o.os, {h})
        BY <2>1, <3>1
      <3> QED
        BY <2>2, <3>1, <3>2, <3>3
    <2>4. CASE x.ret \in Nat /\ x.ret = there /\ Turned(s, x.os, h, x.ret)
      <3>1. o.os = x.os /\ o.ret = ToOffset(there) /\ there \in Nat
        BY <1>4, <1>6, <2>4
      <3>2. OffsetRange \in Nat
        BY OffsetAssumption
      <3>3. o.ret = IF there >= 2 * OffsetRange THEN -28 ELSE IF there >= OffsetRange THEN there - 2 * OffsetRange ELSE there
        BY <3>1 DEF ToOffset, TooBig
      <3>4. o.ret \in Int /\ (o.ret >= 0 => o.ret = there) /\ (o.ret < 0 => there >= OffsetRange)
        BY <3>1, <3>2, <3>3
      <3>5. Opened(s, h) /\ Turned(s, o.os, h, there)
        BY <2>4, <3>1 DEF Turned
      <3>6. Sound(o.os) /\ Leaves(s, o.os, {h})
        BY <2>1, <3>1
      <3> QED
        BY <1>6, <3>4, <3>5, <3>6
    <2> QED
      BY <2>1, <2>3, <2>4
  <1> QED
    BY <1>3, <1>5, <1>6

\* From where the cursor is, the end and a position.
LEMMA HostSeekForms ==
  ASSUME NEW s, Sound(s), NEW h
  PROVE  /\ \A o \in HostSeek(s, h, 0, "Current") :
              /\ o.ret \in Int /\ Sound(o.os) /\ Leaves(s, o.os, {h})
              /\ o.ret >= 0 => mounted /\ Opened(s, h) /\ o.ret = s.fds[h].pos
              /\ o.ret < 0 => ~mounted \/ ~Opened(s, h) \/ s.fds[h].pos >= OffsetRange
              /\ mounted /\ Opened(s, h) => Turned(s, o.os, h, s.fds[h].pos)
         /\ \A o \in HostSeek(s, h, 0, "End") :
              /\ o.ret \in Int /\ Sound(o.os) /\ Leaves(s, o.os, {h})
              /\ o.ret >= 0 => mounted /\ Opened(s, h) /\ o.ret = Len(ContentOf(s, h))
              /\ o.ret < 0 => ~mounted \/ ~Opened(s, h) \/ Len(ContentOf(s, h)) >= OffsetRange
              /\ mounted /\ Opened(s, h) => Turned(s, o.os, h, Len(ContentOf(s, h)))
         /\ \A at \in Int : \A o \in HostSeek(s, h, at, "Start") :
              /\ o.ret \in Int /\ Sound(o.os) /\ Leaves(s, o.os, {h})
              /\ o.ret >= 0 => mounted /\ Opened(s, h) /\ o.ret = at
              /\ o.ret < 0 => ~mounted \/ ~Opened(s, h) \/ at < 0 \/ at >= OffsetRange
              /\ mounted /\ Opened(s, h) /\ at >= 0 => Turned(s, o.os, h, at)
  <1>1. /\ 0 \in Int /\ "Start" \in {"Start", "Current", "End"} /\ "Current" \in {"Start", "Current", "End"}
        /\ "End" \in {"Start", "Current", "End"}
    OBVIOUS
  <1>2. Opened(s, h) =>
          /\ \A at \in Int : Target(s, h, at, "Start") = at
          /\ Target(s, h, 0, "Current") = s.fds[h].pos /\ s.fds[h].pos \in Nat
          /\ Target(s, h, 0, "End") = Len(ContentOf(s, h)) /\ Len(ContentOf(s, h)) \in Nat
    BY TargetIs
  <1>3. ASSUME NEW at \in Int, NEW origin \in {"Start", "Current", "End"}, NEW there, Opened(s, h) => there = Target(s, h, at, origin),
               Opened(s, h) => there \in Int,
               NEW o \in HostSeek(s, h, at, origin)
        PROVE  /\ o.ret \in Int /\ Sound(o.os) /\ Leaves(s, o.os, {h})
               /\ o.ret >= 0 => mounted /\ Opened(s, h) /\ o.ret = there
               /\ o.ret < 0 => ~mounted \/ ~Opened(s, h) \/ there < 0 \/ there >= OffsetRange
               /\ mounted /\ Opened(s, h) /\ there >= 0 => Turned(s, o.os, h, there)
    BY <1>3, HostSeekDoes
  <1>4. ASSUME NEW o \in HostSeek(s, h, 0, "Current")
        PROVE  /\ o.ret \in Int /\ Sound(o.os) /\ Leaves(s, o.os, {h})
               /\ o.ret >= 0 => mounted /\ Opened(s, h) /\ o.ret = s.fds[h].pos
               /\ o.ret < 0 => ~mounted \/ ~Opened(s, h) \/ s.fds[h].pos >= OffsetRange
               /\ mounted /\ Opened(s, h) => Turned(s, o.os, h, s.fds[h].pos)
    <2> DEFINE there == s.fds[h].pos
    <2>1. Opened(s, h) => there = Target(s, h, 0, "Current") /\ there \in Nat
      BY <1>2
    <2> HIDE DEF there
    <2>2. Opened(s, h) => there \in Int /\ ~(there < 0) /\ there >= 0
      BY <2>1
    <2>3. /\ o.ret \in Int /\ Sound(o.os) /\ Leaves(s, o.os, {h})
          /\ o.ret >= 0 => mounted /\ Opened(s, h) /\ o.ret = there
          /\ o.ret < 0 => ~mounted \/ ~Opened(s, h) \/ there < 0 \/ there >= OffsetRange
          /\ mounted /\ Opened(s, h) /\ there >= 0 => Turned(s, o.os, h, there)
      BY <1>1, <1>3, <2>1, <2>2, Zenon
    <2> QED
      BY <2>2, <2>3 DEF there
  <1>5. ASSUME NEW o \in HostSeek(s, h, 0, "End")
        PROVE  /\ o.ret \in Int /\ Sound(o.os) /\ Leaves(s, o.os, {h})
               /\ o.ret >= 0 => mounted /\ Opened(s, h) /\ o.ret = Len(ContentOf(s, h))
               /\ o.ret < 0 => ~mounted \/ ~Opened(s, h) \/ Len(ContentOf(s, h)) >= OffsetRange
               /\ mounted /\ Opened(s, h) => Turned(s, o.os, h, Len(ContentOf(s, h)))
    <2> DEFINE there == Len(ContentOf(s, h))
    <2>1. Opened(s, h) => there = Target(s, h, 0, "End") /\ there \in Nat
      BY <1>2
    <2> HIDE DEF there
    <2>2. Opened(s, h) => there \in Int /\ ~(there < 0) /\ there >= 0
      BY <2>1
    <2>3. /\ o.ret \in Int /\ Sound(o.os) /\ Leaves(s, o.os, {h})
          /\ o.ret >= 0 => mounted /\ Opened(s, h) /\ o.ret = there
          /\ o.ret < 0 => ~mounted \/ ~Opened(s, h) \/ there < 0 \/ there >= OffsetRange
          /\ mounted /\ Opened(s, h) /\ there >= 0 => Turned(s, o.os, h, there)
      BY <1>1, <1>3, <2>1, <2>2, Zenon
    <2> QED
      BY <2>2, <2>3 DEF there
  <1>6. ASSUME NEW at \in Int, NEW o \in HostSeek(s, h, at, "Start")
        PROVE  /\ o.ret \in Int /\ Sound(o.os) /\ Leaves(s, o.os, {h})
               /\ o.ret >= 0 => mounted /\ Opened(s, h) /\ o.ret = at
               /\ o.ret < 0 => ~mounted \/ ~Opened(s, h) \/ at < 0 \/ at >= OffsetRange
               /\ mounted /\ Opened(s, h) /\ at >= 0 => Turned(s, o.os, h, at)
    BY <1>1, <1>2, <1>3, <1>6, Zenon
  <1> QED
    BY <1>4, <1>5, <1>6

\* Moving a cursor again.
LEMMA TurnedAgain ==
  ASSUME NEW s, Sound(s), NEW h, NEW a \in Nat, NEW b \in Nat, NEW t, Turned(s, t, h, a), NEW u, Turned(t, u, h, b)
  PROVE  Turned(s, u, h, b) /\ (b = s.fds[h].pos => u.fds = s.fds)
  <1> DEFINE f == [s.fds[h] EXCEPT !.pos = a]
             g == [s.fds[h] EXCEPT !.pos = b]
  <1>1. Opened(s, h) /\ h \in Fds /\ Desc(s.fds[h]) /\ s.fds = [x \in Fds |-> s.fds[x]]
    BY DEF Turned, Opened, Sound, Host
  <1>2. t = [names |-> s.names, nodes |-> s.nodes, streams |-> s.streams, fds |-> [s.fds EXCEPT ![h] = f]]
    BY DEF Turned
  <1>3. u = [names |-> t.names, nodes |-> t.nodes, streams |-> t.streams,
             fds |-> [t.fds EXCEPT ![h] = [t.fds[h] EXCEPT !.pos = b]]]
    BY DEF Turned
  <1>4. [f EXCEPT !.pos = b] = g /\ (b = s.fds[h].pos => g = s.fds[h])
    BY <1>1 DEF Desc
  <1> HIDE DEF f, g
  <1>5. t.fds = [s.fds EXCEPT ![h] = f] /\ t.fds[h] = f /\ t.names = s.names /\ t.nodes = s.nodes /\ t.streams = s.streams
    BY <1>1, <1>2
  <1>6. [t.fds EXCEPT ![h] = g] = [s.fds EXCEPT ![h] = g]
    BY <1>1, <1>5
  <1>7. u = [names |-> s.names, nodes |-> s.nodes, streams |-> s.streams, fds |-> [s.fds EXCEPT ![h] = g]]
    BY <1>3, <1>4, <1>5, <1>6
  <1>8. u.fds = [s.fds EXCEPT ![h] = g]
    BY <1>7
  <1>9. b = s.fds[h].pos => u.fds = s.fds
    BY <1>1, <1>4, <1>8
  <1> QED
    BY <1>1, <1>7, <1>9 DEF Turned, g

\* The size by handle is found by going to the end and back.
LEMMA SizeOfDoes ==
  ASSUME NEW s, Sound(s), NEW h, NEW o \in SizeOf(s, h)
  PROVE  /\ o.ret \in Nat /\ Sound(o.os) /\ Leaves(s, o.os, {h})
         /\ mounted /\ Opened(s, h) /\ s.fds[h].pos < OffsetRange =>
              /\ o.os.fds[h] = s.fds[h]
              /\ Len(ContentOf(s, h)) < OffsetRange => o.ret = Len(ContentOf(s, h))
  <1>1. PICK at \in HostSeek(s, h, 0, "Current"), end \in HostSeek(s, h, 0, "End") :
          \E back \in HostSeek(end.os, h, at.ret, "Start") :
            o = [os |-> back.os, ret |-> IF end.ret > 0 THEN end.ret ELSE 0, fault |-> FALSE]
    BY SMTT(30) DEF SizeOf
  <1>2. PICK back \in HostSeek(end.os, h, at.ret, "Start") :
          o = [os |-> back.os, ret |-> IF end.ret > 0 THEN end.ret ELSE 0, fault |-> FALSE]
    BY <1>1
  <1>3. /\ at.ret \in Int
        /\ at.ret >= 0 => at.ret = s.fds[h].pos
        /\ at.ret < 0 => ~mounted \/ ~Opened(s, h) \/ s.fds[h].pos >= OffsetRange
    BY HostSeekForms, ZenonT(30)
  <1>4. /\ end.ret \in Int /\ Sound(end.os) /\ Leaves(s, end.os, {h})
        /\ end.ret >= 0 => end.ret = Len(ContentOf(s, h))
        /\ end.ret < 0 => ~mounted \/ ~Opened(s, h) \/ Len(ContentOf(s, h)) >= OffsetRange
        /\ mounted /\ Opened(s, h) => Turned(s, end.os, h, Len(ContentOf(s, h)))
    BY HostSeekForms, Zenon
  <1>5. /\ Sound(back.os) /\ Leaves(end.os, back.os, {h})
        /\ mounted /\ Opened(end.os, h) /\ at.ret >= 0 => Turned(end.os, back.os, h, at.ret)
    BY <1>3, <1>4, HostSeekForms, Zenon
  <1>6. o.os = back.os /\ o.ret = IF end.ret > 0 THEN end.ret ELSE 0
    BY <1>2
  <1>7. Leaves(s, o.os, {h})
    BY <1>4, <1>5, <1>6, LeavesOn
  <1>8. o.ret \in Nat
    BY <1>4, <1>6
  <1>9. ASSUME mounted, Opened(s, h), s.fds[h].pos < OffsetRange
        PROVE  /\ o.os.fds[h] = s.fds[h]
               /\ Len(ContentOf(s, h)) < OffsetRange => o.ret = Len(ContentOf(s, h))
    <2>1. s.fds[h].pos \in Nat /\ Len(ContentOf(s, h)) \in Nat /\ OffsetRange \in Nat
      <3>1. s.fds[h].pos \in Nat /\ IsContent(ContentOf(s, h))
        BY <1>9, SoundFacts
      <3>2. Len(ContentOf(s, h)) \in Nat
        BY <3>1 DEF IsContent
      <3> QED
        BY <3>1, <3>2, OffsetAssumption
    <2>2. at.ret = s.fds[h].pos /\ at.ret >= 0
      BY <1>3, <1>9, <2>1
    <2>3. Turned(s, end.os, h, Len(ContentOf(s, h)))
      BY <1>4, <1>9
    <2>4. Opened(end.os, h)
      <3> DEFINE len == Len(ContentOf(s, h))
                 t == end.os
      <3>1. len \in Nat /\ Turned(s, t, h, len)
        BY <2>1, <2>3
      <3> HIDE DEF len, t
      <3>2. OpenFds(t) = OpenFds(s)
        BY <3>1, TurnedSound
      <3> QED
        BY <1>9, <3>2 DEF Opened, OpenFds, t
    <2>5. Turned(end.os, back.os, h, at.ret)
      BY <1>5, <1>9, <2>2, <2>4
    <2>6. back.os.fds = s.fds
      <3> DEFINE a == Len(ContentOf(s, h))
                 b == at.ret
                 t == end.os
                 u == back.os
      <3>1. a \in Nat /\ b \in Nat /\ b = s.fds[h].pos /\ Turned(s, t, h, a) /\ Turned(t, u, h, b)
        BY <1>3, <2>1, <2>2, <2>3, <2>5
      <3> HIDE DEF a, b, t, u
      <3>2. u.fds = s.fds
        BY <3>1, TurnedAgain
      <3> QED
        BY <3>2 DEF u
    <2>7. Len(ContentOf(s, h)) < OffsetRange => o.ret = Len(ContentOf(s, h))
      BY <1>4, <1>6, <1>9, <2>1
    <2> QED
      BY <1>6, <2>6, <2>7
  <1> QED
    BY <1>5, <1>6, <1>7, <1>8, <1>9

\* What a checked call of the host does, if the host's call leaves such a state.
LEMMA CheckedSound ==
  ASSUME NEW s, Sound(s), NEW outcomes, \A x \in outcomes : Result(x) /\ x.ret \in Int /\ Sound(x.os),
         NEW o \in Checked(s, outcomes)
  PROVE  Result(o) /\ o.ret \in Int /\ Sound(o.os)
  <1>1. Result(o) /\ o.ret \in Int /\ (Fails(s, o) \/ \E x \in outcomes : o.os = x.os)
    BY CheckedDoes
  <1> QED
    BY <1>1 DEF Fails

\* Methods that change files by handle or by name.
LEMMA HostChangesSound ==
  ASSUME NEW s, Sound(s)
  PROVE  /\ \A h : \A size \in Int : \A o \in HostTruncate(s, h, size) : o.ret \in Int /\ Sound(o.os)
         /\ \A p : \A o \in HostMkdir(s, p) : o.ret \in Int /\ Sound(o.os)
         /\ \A p : \A o \in HostRemove(s, p) : o.ret \in Int /\ Sound(o.os)
         /\ \A p, q : \A o \in HostRename(s, p, q) : o.ret \in Int /\ Sound(o.os)
  <1>1. ASSUME NEW h, NEW size \in Int, NEW o \in HostTruncate(s, h, size)
        PROVE  o.ret \in Int /\ Sound(o.os)
    <2>1. \A x \in OsTruncate(s, h, size) : Result(x) /\ x.ret \in Int /\ Sound(x.os)
      BY TruncateDoes
    <2> QED
      BY <2>1, CheckedSound DEF HostTruncate
  <1>2. ASSUME NEW p, NEW o \in HostMkdir(s, p)
        PROVE  o.ret \in Int /\ Sound(o.os)
    <2>1. \A x \in OsMkdir(s, ResolvePath(p)) : Result(x) /\ x.ret \in Int /\ Sound(x.os)
      BY MkdirDoes
    <2> QED
      BY <2>1, CheckedSound DEF HostMkdir
  <1>3. ASSUME NEW p, NEW o \in HostRemove(s, p)
        PROVE  o.ret \in Int /\ Sound(o.os)
    <2>1. \A x \in OsRemove(s, ResolvePath(p)) : Result(x) /\ x.ret \in Int /\ Sound(x.os)
      BY RemoveDoes
    <2> QED
      BY <2>1, CheckedSound DEF HostRemove
  <1>4. ASSUME NEW p, NEW q, NEW o \in HostRename(s, p, q)
        PROVE  o.ret \in Int /\ Sound(o.os)
    <2>1. \A x \in OsRename(s, ResolvePath(p), ResolvePath(q)) : Result(x) /\ x.ret \in Int /\ Sound(x.os)
      BY RenameDoes
    <2> QED
      BY <2>1, CheckedSound DEF HostRename
  <1> QED
    BY <1>1, <1>2, <1>3, <1>4

\* An attribute is set by handle.
LEMMA SetXAttrSound ==
  ASSUME NEW s, Sound(s), NEW h, NEW tag, NEW attr, NEW o \in OsSetXAttr(s, h, tag, attr)
  PROVE  Result(o) /\ o.ret \in Int /\ Sound(o.os)
  <1> DEFINE n == s.fds[h].node
             t == [s EXCEPT !.nodes[n].attrs[tag] = attr]
  <1>1. CASE ~Opened(s, h)
    <2>1. o = Out(s, -9)
      BY <1>1 DEF OsSetXAttr, EBADF
    <2>2. 9 \in Nat \ {0}
      OBVIOUS
    <2>3. Result(o) /\ Fails(s, o)
      BY <2>1, <2>2, OutFails
    <2> QED
      BY <2>3 DEF Fails
  <1>2. CASE Opened(s, h)
    <2>1. There(s, n)
      BY <1>2, SoundFacts
    <2>2. n \in Nodes
      BY <2>1 DEF There
    <2> HIDE DEF n
    <2>3. Sound(t)
      BY <2>2, MarkedSound
    <2>4. o \in Faulty(s, "setxattr", ENOSPC) \/ o = Out(t, 0)
      BY <1>2 DEF OsSetXAttr, n
    <2> HIDE DEF t
    <2>5. ASSUME o \in Faulty(s, "setxattr", ENOSPC)
          PROVE  Result(o) /\ o.ret \in Int /\ Sound(o.os)
      BY <2>5 DEF Faulty, Result, ENOSPC
    <2>6. ASSUME o = Out(t, 0)
          PROVE  Result(o) /\ o.ret \in Int /\ Sound(o.os)
      BY <2>3, <2>6, OutIsResult
    <2> QED
      BY <2>4, <2>5, <2>6
  <1> QED
    BY <1>1, <1>2

\* So it is by the file system, the time of modification among them.
LEMMA HostFsetxattrSound ==
  ASSUME NEW s, Sound(s), NEW h, NEW tag, NEW attr, NEW o \in HostFsetxattr(s, h, tag, attr)
  PROVE  o.ret \in Int /\ Sound(o.os)
  <1> DEFINE n == s.fds[h].node
             t == [s EXCEPT !.nodes[n].mtime = attr.value]
  <1>1. \/ \E r \in Int : o = Out(s, r)
        \/ Opened(s, h) /\ o = Out(t, 0)
        \/ o \in Checked(s, OsSetXAttr(s, h, tag, attr))
    <2>1. SysErr(-9) \in Int
      BY DEF SysErr, SYSTEM
    <2> QED
      BY <2>1 DEF HostFsetxattr, NotMounted, BadParam, EBADF, FS_OK
  <1>2. CASE \E r \in Int : o = Out(s, r)
    BY <1>2, OutIsResult
  <1>3. CASE Opened(s, h) /\ o = Out(t, 0)
    <2>1. There(s, n)
      BY <1>3, SoundFacts
    <2>2. n \in Nodes
      BY <2>1 DEF There
    <2> HIDE DEF n
    <2>3. Sound(t)
      BY <2>2, MarkedSound
    <2> HIDE DEF t
    <2> QED
      BY <1>3, <2>3, OutIsResult
  <1>4. CASE o \in Checked(s, OsSetXAttr(s, h, tag, attr))
    <2>1. \A x \in OsSetXAttr(s, h, tag, attr) : Result(x) /\ x.ret \in Int /\ Sound(x.os)
      BY SetXAttrSound
    <2> QED
      BY <1>4, <2>1, CheckedSound
  <1> QED
    BY <1>1, <1>2, <1>3, <1>4

\* Methods that look at attributes change nothing.
LEMMA AttributesLookedAt ==
  ASSUME NEW s, Sound(s), NEW h, NEW tag, NEW size
  PROVE  /\ \A o \in OsGetXAttr(s, h, tag, size) : o.os = s
         /\ \A o \in HostFgetxattr(s, h, tag, size) : o.os = s
  <1>1. ASSUME NEW o \in OsGetXAttr(s, h, tag, size)
        PROVE  Result(o) /\ o.os = s
    <2>1. \E r : o = Out(s, r)
      BY DEF OsGetXAttr
    <2> QED
      BY <2>1, OutIsResult
  <1>2. ASSUME NEW o \in HostFgetxattr(s, h, tag, size)
        PROVE  o.os = s
    <2>1. o = Out(s, AttrSize[tag]) \/ o \in Checked(s, OsGetXAttr(s, h, tag, size))
      BY DEF HostFgetxattr
    <2>2. o \in Checked(s, OsGetXAttr(s, h, tag, size)) => o.os = s
      BY <1>1, CheckedOutcomes, OutIsResult
    <2> QED
      BY <2>1, <2>2, OutIsResult
  <1> QED
    BY <1>1, <1>2

\* File information, with the size.
IsStat(r) == "size" \in DOMAIN r /\ r.size \in Nat

\* That of a node, and of one whose attributes were read.
LEMMA StatsAre ==
  ASSUME NEW s, Sound(s)
  PROVE  /\ \A n \in Nodes : \A x : IsStat([FillStat(s, n) EXCEPT !.name = x])
         /\ \A h, r : IsStat(r) => IsStat(GetExtendedAttributes(s, h, r))
  <1>1. ASSUME NEW n \in Nodes, NEW x
        PROVE  IsStat([FillStat(s, n) EXCEPT !.name = x])
    <2> DEFINE r == FillStat(s, n)
    <2>1. Len(s.nodes[n].data) \in Nat
      BY DEF Sound, IsNode, IsContent
    <2>2. "size" \in DOMAIN r /\ r.size = Len(s.nodes[n].data)
      BY DEF FillStat
    <2> HIDE DEF r
    <2>3. IsStat([r EXCEPT !.name = x])
      BY <2>1, <2>2 DEF IsStat
    <2> QED
      BY <2>3 DEF r
  <1>2. ASSUME NEW h, NEW r, IsStat(r)
        PROVE  IsStat(GetExtendedAttributes(s, h, r))
    <2> DEFINE a == s.nodes[s.fds[h].node].attrs
               Or(tag, other) == IF a[tag] = Absent THEN other ELSE a[tag].value
               x == Or("ReadAce", r.readAce)
               y == Or("WriteAce", r.writeAce)
               z == (Or("FileAttributes", r.attr) \ {"Compressed"})
                      \cup If(Or("Compression", "none") # "none", "Compressed")
               q == [r EXCEPT !.readAce = x, !.writeAce = y, !.attr = z]
    <2>1. GetExtendedAttributes(s, h, r) = q
      BY DEF GetExtendedAttributes
    <2> HIDE DEF x, y, z
    <2>2. DOMAIN q = DOMAIN r /\ q.size = r.size
      BY <1>2 DEF IsStat
    <2> HIDE DEF q
    <2>3. IsStat(q)
      BY <1>2, <2>2 DEF IsStat
    <2> QED
      BY <2>1, <2>3 DEF q
  <1> QED
    BY <1>1, <1>2

\* fstat() changes nothing.
LEMMA HostFstatDoes ==
  ASSUME NEW s, NEW h, NEW o \in HostFstat(s, h)
  PROVE  o.os = s
  BY DEF HostFstat

\* opendir(), rewinddir() and closedir() work on streams.
LEMMA HostStreamsDo ==
  ASSUME NEW s, Sound(s)
  PROVE  /\ \A path : \A o \in HostOpendir(s, path) : Sound(o.os) /\ GivesStream(s, o)
         /\ \A d : d \in OpenStreams(s) \/ d \notin Streams => \A o \in HostRewinddir(s, d) : Sound(o.os)
         /\ \A d : \A o \in HostClosedir(s, d) : Sound(o.os)
  <1>1. Host(s)
    BY DEF Sound
  <1>2. ASSUME NEW path, NEW o \in HostOpendir(s, path)
        PROVE  Sound(o.os) /\ GivesStream(s, o)
    <2> DEFINE outcomes == OsOpendir(s, ResolvePath(path))
    <2>1. PICK c \in Checked(s, outcomes) :
            o = [c EXCEPT !.os = IF c.ret > 0 THEN [@ EXCEPT !.streams[c.ret].path = path] ELSE @]
      BY DEF HostOpendir
    <2>2. \A x \in outcomes : Result(x) /\ x.ret \in Int /\ Sound(x.os)
      BY OpendirDoes DEF GivesStream
    <2> HIDE DEF outcomes
    <2>3. Result(c) /\ c.ret \in Int /\ Sound(c.os)
      BY <2>2, CheckedSound
    <2>4. o.os = IF c.ret > 0 THEN [c.os EXCEPT !.streams[c.ret].path = path] ELSE c.os
      BY <2>1, <2>3 DEF Result
    <2>5. GivesStream(s, o)
      BY <1>1, HostOpendirOutcomes
    <2>6. Host(o.os)
      BY <2>5 DEF GivesStream, Keeps
    <2>7. CASE c.ret > 0
      <3> DEFINE r == [c.os.streams[c.ret] EXCEPT !.path = path]
                 t == [c.os EXCEPT !.streams[c.ret] = r]
      <3>1. o.os = t
        BY <2>4, <2>7
      <3>2. SameFiles(c.os, t)
        <4> HIDE DEF r
        <4> QED
          BY <2>3, StreamsSame DEF Sound
      <3> HIDE DEF t
      <3> QED
        BY <2>3, <2>5, <2>6, <3>1, <3>2, SameFilesSound
    <2>8. CASE ~(c.ret > 0)
      BY <2>3, <2>4, <2>5, <2>8
    <2> QED
      BY <2>7, <2>8
  <1>3. ASSUME NEW d, d \in OpenStreams(s) \/ d \notin Streams, NEW o \in HostRewinddir(s, d)
        PROVE  Sound(o.os)
    <2>1. (\E r : o = Out(s, r)) \/ o = Out(OsRewinddir(s, d), FS_OK)
      BY DEF HostRewinddir
    <2> QED
      BY <1>3, <2>1, OutIsResult, StreamsDo
  <1>4. ASSUME NEW d, NEW o \in HostClosedir(s, d)
        PROVE  Sound(o.os)
    <2>1. (\E r : o = Out(s, r)) \/ o = Out(OsClosedir(s, d), FS_OK)
      BY DEF HostClosedir
    <2> QED
      BY <2>1, OutIsResult, StreamsDo
  <1> QED
    BY <1>2, <1>3, <1>4

\* Mounting looks at the root.
LEMMA HostMountDoes ==
  ASSUME Sound(os), NEW o \in HostMount
  PROVE  o.os = os
  <1>1. o = Out(os, FS_OK) \/ \E x \in OsStat(os, <<>>) : \E r : o = [x EXCEPT !.ret = r]
    BY DEF HostMount
  <1>2. ASSUME NEW x \in OsStat(os, <<>>), NEW r, o = [x EXCEPT !.ret = r]
        PROVE  o.os = os
    <2>1. Result(x) /\ x.os = os
      BY StatDoes
    <2> QED
      BY <1>2, <2>1, RetChanges
  <1> QED
    BY <1>1, <1>2, OutIsResult

-----------------------------------------------------------------------------
(* What a call has. *)

\* Numbers and blocks; an enumeration of attributes, and getxattr(), have others.
CallData(c) ==
  /\ c.n \in Int
  /\ c.fn \notin {"fenumxattr", "getxattr"} => c.data \in Seq(Blocks) /\ c.got \in Seq(Blocks)

\* What next() has of an entry when it has found one.
StatOk(c) ==
  c.fn = "next" /\ (c.at \in {"statopen", "xattrs", "close"} \/ (c.at = "return" /\ c.ret = FS_OK)) => IsStat(c.stat)

\* A call that has come further with the same data.
SameData(c, d) == IsCall(d) /\ d.fn = c.fn /\ d.n = c.n /\ d.data = c.data /\ d.got = c.got

\* Fields that are set without a change of them.
LEMMA SameChanges ==
  ASSUME NEW c, IsCall(c), NEW x, NEW y
  PROVE  /\ SameData(c, c)
         /\ SameData(c, [c EXCEPT !.ret = x])
         /\ SameData(c, [c EXCEPT !.path = x])
         /\ SameData(c, [c EXCEPT !.stat = x])
         /\ SameData(c, [c EXCEPT !.fd = x])
         /\ SameData(c, [c EXCEPT !.fd = x, !.h = y])
         /\ SameData(c, [c EXCEPT !.ret = x, !.stat = y])
         /\ SameData(c, [c EXCEPT !.foreign = x, !.before = y])
         /\ SameData(c, [c EXCEPT !.at = x, !.fault = y])
  BY ZenonT(60) DEF IsCall, SameData, NoCall

\* A step of three.
LEMMA SameChangesOfThree ==
  ASSUME NEW c, IsCall(c), NEW x, NEW y, NEW z
  PROVE  SameData(c, [c EXCEPT !.stat = x, !.at = y, !.ret = z])
  BY ZenonT(60) DEF IsCall, SameData, NoCall

\* The same data are those of a call.
LEMMA SameDataKept ==
  ASSUME NEW c, CallData(c), NEW d, SameData(c, d)
  PROVE  IsCall(d) /\ CallData(d) /\ d.fn = c.fn
  BY DEF CallData, SameData

\* A number is set.
LEMMA NumberSet ==
  ASSUME NEW c, IsCall(c), CallData(c), NEW x \in Int, NEW d, d = [c EXCEPT !.n = x]
  PROVE  IsCall(d) /\ CallData(d) /\ d.fn = c.fn /\ d.fd = c.fd
  <1>1. IsCall(d) /\ d.fn = c.fn /\ d.fd = c.fd /\ d.n = x /\ d.data = c.data /\ d.got = c.got
    BY ZenonT(60) DEF IsCall, NoCall
  <1> QED
    BY <1>1 DEF CallData

\* What was got is set, and a result.
HasGot(c, d, x, y) ==
  d = [c EXCEPT !.got = x] \/ d = [c EXCEPT !.got = x, !.ret = y] \/ d = [c EXCEPT !.ret = y, !.got = x]

\* It is a call with its data.
LEMMA GotSet ==
  ASSUME NEW c, IsCall(c), CallData(c), NEW x \in Seq(Blocks), NEW y, NEW d, HasGot(c, d, x, y)
  PROVE  IsCall(d) /\ CallData(d) /\ d.fn = c.fn /\ d.fd = c.fd
  <1>1. CASE d = [c EXCEPT !.got = x]
    <2>1. IsCall(d) /\ d.fn = c.fn /\ d.fd = c.fd /\ d.n = c.n /\ d.data = c.data /\ d.got = x
      BY <1>1, ZenonT(60) DEF IsCall, NoCall
    <2> QED
      BY <2>1 DEF CallData
  <1>2. CASE d = [c EXCEPT !.got = x, !.ret = y]
    <2>1. IsCall(d) /\ d.fn = c.fn /\ d.fd = c.fd /\ d.n = c.n /\ d.data = c.data /\ d.got = x
      BY <1>2, ZenonT(60) DEF IsCall, NoCall
    <2> QED
      BY <2>1 DEF CallData
  <1>3. CASE d = [c EXCEPT !.ret = y, !.got = x]
    <2>1. IsCall(d) /\ d.fn = c.fn /\ d.fd = c.fd /\ d.n = c.n /\ d.data = c.data /\ d.got = x
      BY <1>3, ZenonT(60) DEF IsCall, NoCall
    <2> QED
      BY <2>1 DEF CallData
  <1> QED
    BY <1>1, <1>2, <1>3 DEF HasGot

-----------------------------------------------------------------------------
(* What a step of a call does to files. *)

\* The calls that ask for something.
Asking ==
  {"getSize", "getContent", "getContentBuffer", "readContent", "readContentSize", "readContentByName",
   "fileGetContent", "eof", "fstat", "stat", "getxattr", "fenumxattr", "next", "deviceRead"}

Quiet == call.fn \in Asking => Leaves(os, os', {call.h, call.fd, call'.fd})

Works == Sound(os') /\ CallData(call') /\ call'.fn = call.fn /\ StatOk(call') /\ Quiet

\* What is known of the files, and of the call, before each step.
Typed == Sound(os) /\ IsCall(call) /\ CallData(call) /\ StatOk(call)

\* An outcome is taken by a call with its data.
LEMMA TakeWorks ==
  ASSUME NEW o, NEW at, NEW c, IsCall(c), CallData(c), c.fn = call.fn, Take(o, at, c), Sound(o.os),
         call.fn = "next" => IsStat(c.stat) \/ at \notin {"statopen", "xattrs", "close", "return"}
                             \/ (at = "return" /\ c.ret # FS_OK),
         call.fn \in Asking => Leaves(os, o.os, {call.h, call.fd, c.fd})
  PROVE  Works
  <1> DEFINE f == c.fault \/ o.fault
             d == [c EXCEPT !.at = at, !.fault = f]
  <1>1. os' = o.os /\ call' = d
    BY DEF Take
  <1>2. SameData(c, d) /\ d.fd = c.fd /\ d.at = at /\ d.ret = c.ret /\ d.stat = c.stat
    <2> HIDE DEF f
    <2>1. SameData(c, d)
      BY SameChanges
    <2>2. d.fd = c.fd /\ d.at = at /\ d.ret = c.ret /\ d.stat = c.stat
      BY ZenonT(60) DEF IsCall, NoCall
    <2> QED
      BY <2>1, <2>2
  <1> HIDE DEF d
  <1>3. CallData(d) /\ d.fn = c.fn
    BY <1>2, SameDataKept
  <1>4. StatOk(d)
    BY <1>2, <1>3 DEF StatOk
  <1>5. Quiet
    BY <1>1, <1>2 DEF Quiet
  <1> QED
    BY <1>1, <1>3, <1>4, <1>5 DEF Works

\* By a call that is not that of a Directory, with its descriptor.
LEMMA TakenWorks ==
  ASSUME NEW o, NEW at, NEW c, IsCall(c), CallData(c), c.fn = call.fn, c.fd = call.fd, call.fn # "next",
         Take(o, at, c), Sound(o.os), call.fn \in Asking => Leaves(os, o.os, {call.h}) \/ Leaves(os, o.os, {call.fd})
  PROVE  Works
  <1>1. call.fn \in Asking => Leaves(os, o.os, {call.h, call.fd, c.fd})
    <2>1. {call.h} \subseteq {call.h, call.fd, c.fd} /\ {call.fd} \subseteq {call.h, call.fd, c.fd}
      OBVIOUS
    <2> QED
      BY <2>1, LeavesMore
  <1>2. call.fn = "next" => IsStat(c.stat) \/ at \notin {"statopen", "xattrs", "close", "return"}
                            \/ (at = "return" /\ c.ret # FS_OK)
    OBVIOUS
  <1> QED
    BY <1>1, <1>2, TakeWorks, Zenon

\* A result is set.
LEMMA RetWorks ==
  ASSUME Typed, NEW o, NEW at, NEW x, call.fn # "next", Take(o, at, [call EXCEPT !.ret = x]), Sound(o.os),
         call.fn \in Asking => Leaves(os, o.os, {call.h}) \/ Leaves(os, o.os, {call.fd})
  PROVE  Works
  <1> DEFINE c == [call EXCEPT !.ret = x]
  <1>1. SameData(call, c) /\ c.fd = call.fd
    <2>1. IsCall(call)
      BY DEF Typed
    <2>2. SameData(call, c)
      BY <2>1, SameChanges
    <2>3. c.fd = call.fd
      BY <2>1, FieldChanges DEF Like
    <2> QED
      BY <2>2, <2>3
  <1> HIDE DEF c
  <1>2. IsCall(c) /\ CallData(c) /\ c.fn = call.fn
    BY <1>1, SameDataKept DEF Typed
  <1> QED
    BY <1>1, <1>2, TakenWorks DEF c

\* A call returns.
LEMMA ReturnWorks ==
  ASSUME Typed, NEW o, NEW x, Return(o, x), Sound(o.os), call.fn = "next" => x # FS_OK \/ IsStat(call.stat),
         call.fn \in Asking => Leaves(os, o.os, {call.h}) \/ Leaves(os, o.os, {call.fd})
  PROVE  Works
  <1> DEFINE c == [call EXCEPT !.ret = x]
  <1>1. SameData(call, c) /\ c.fd = call.fd
    <2>1. IsCall(call)
      BY DEF Typed
    <2>2. SameData(call, c)
      BY <2>1, SameChanges
    <2>3. c.fd = call.fd
      BY <2>1, FieldChanges DEF Like
    <2> QED
      BY <2>2, <2>3
  <1>2. Take(o, "return", c)
    BY DEF Return
  <1>3. c.ret = x /\ c.stat = call.stat
    BY ZenonT(60) DEF Typed, IsCall, NoCall
  <1> HIDE DEF c
  <1>4. IsCall(c) /\ CallData(c) /\ c.fn = call.fn
    BY <1>1, SameDataKept DEF Typed
  <1>5. call.fn \in Asking => Leaves(os, o.os, {call.h, call.fd, c.fd})
    <2>1. {call.h} \subseteq {call.h, call.fd, c.fd} /\ {call.fd} \subseteq {call.h, call.fd, c.fd}
      OBVIOUS
    <2> QED
      BY <2>1, LeavesMore
  <1> QED
    BY <1>1, <1>2, <1>3, <1>4, <1>5, TakeWorks

\* A number is set.
LEMMA NumberWorks ==
  ASSUME Typed, NEW o, NEW at, NEW x \in Int, call.fn # "next", Take(o, at, [call EXCEPT !.n = x]), Sound(o.os),
         call.fn \in Asking => Leaves(os, o.os, {call.h}) \/ Leaves(os, o.os, {call.fd})
  PROVE  Works
  <1> DEFINE c == [call EXCEPT !.n = x]
  <1>1. IsCall(c) /\ CallData(c) /\ c.fn = call.fn /\ c.fd = call.fd
    BY NumberSet DEF Typed
  <1> HIDE DEF c
  <1> QED
    BY <1>1, TakenWorks DEF c

\* What was got is.
LEMMA GotWorks ==
  ASSUME Typed, NEW o, NEW at, NEW x \in Seq(Blocks), NEW y, call.fn # "next", Sound(o.os),
         \/ Take(o, at, [call EXCEPT !.got = x])
         \/ Take(o, at, [call EXCEPT !.got = x, !.ret = y])
         \/ Take(o, at, [call EXCEPT !.ret = y, !.got = x]),
         call.fn \in Asking => Leaves(os, o.os, {call.h}) \/ Leaves(os, o.os, {call.fd})
  PROVE  Works
  <1>1. PICK c : Take(o, at, c) /\ HasGot(call, c, x, y)
    BY DEF HasGot
  <1>2. IsCall(c) /\ CallData(c) /\ c.fn = call.fn /\ c.fd = call.fd
    <2>1. IsCall(call) /\ CallData(call)
      BY DEF Typed
    <2> QED
      BY <1>1, <2>1, GotSet
  <1> QED
    BY <1>1, <1>2, TakenWorks

\* Opening a file to read it leaves the others.
LEMMA OpenLeaves ==
  ASSUME NEW s, Sound(s), NEW o, NEW p, NEW flags, OpensFile(s, o, p, flags)
  PROVE  /\ Sound(o.os)
         /\ flags \cap {"Create", "Truncate"} = {} /\ "Create" \notin flags => Leaves(s, o.os, {o.ret})
  <1>1. /\ Sound(o.os) /\ o.ret \in Fds
        /\ o.os.fds = [s.fds EXCEPT ![o.ret] =
             [node |-> Node(o.os, p), pos |-> 0, append |-> "Append" \in flags,
              read |-> "Read" \in flags, write |-> "Write" \in flags]]
        /\ "Create" \notin flags => o.os.names = s.names
        /\ flags \cap {"Create", "Truncate"} = {} => o.os.nodes = s.nodes
    BY DEF OpensFile
  <1>2. \A h \in Fds \ {o.ret} : o.os.fds[h] = s.fds[h]
    BY <1>1 DEF Sound, Host
  <1> QED
    BY <1>1, <1>2 DEF Leaves

\* A call begins with open().
LEMMA OpeningWorks ==
  ASSUME Typed, NEW fn, NEW flags, NEW next, NEW told, Opening(fn, flags, next, told), fn # "next",
         fn \in Asking => flags = {"Read"}
  PROVE  Works
  <1>1. PICK o \in HostOpen(os, call.path, flags) :
          IF o.ret < 0 THEN Return(o, IF told THEN o.ret ELSE 0) ELSE Take(o, next, [call EXCEPT !.fd = o.ret])
    BY DEF Opening
  <1>2. Sound(os) /\ IsCall(call) /\ CallData(call) /\ call.fn = fn
    BY DEF Typed, Opening, At
  <1>3. /\ Result(o) /\ o.ret \in Int
        /\ Fails(os, o) \/ (mounted /\ o.ret \in Nat /\ OpensFile(os, o, ResolvePath(call.path), MapFlags(flags)))
    BY <1>2, HostOpenDoes
  <1>4. CASE o.ret < 0
    <2>1. Fails(os, o)
      BY <1>3, <1>4
    <2>2. Sound(o.os) /\ Leaves(os, o.os, {call.h})
      BY <1>2, <2>1, FailsSound
    <2> DEFINE x == IF told THEN o.ret ELSE 0
    <2>3. Return(o, x)
      BY <1>1, <1>4
    <2> HIDE DEF x
    <2> QED
      BY <1>2, <2>2, <2>3, ReturnWorks
  <1>5. CASE ~(o.ret < 0)
    <2> DEFINE p == ResolvePath(call.path)
               f == MapFlags(flags)
               c == [call EXCEPT !.fd = o.ret]
    <2>1. OpensFile(os, o, p, f)
      BY <1>3, <1>5 DEF Fails
    <2>2. Take(o, next, c)
      BY <1>1, <1>5
    <2>3. SameData(call, c) /\ c.fd = o.ret
      BY <1>2, SameChanges, FieldChanges
    <2>4. fn \in Asking => f \cap {"Create", "Truncate"} = {} /\ "Create" \notin f
      BY DEF MapFlags
    <2> HIDE DEF p, f, c
    <2>5. IsCall(c) /\ CallData(c) /\ c.fn = call.fn
      BY <1>2, <2>3, SameDataKept
    <2>6. Sound(o.os) /\ (fn \in Asking => Leaves(os, o.os, {o.ret}))
      BY <1>2, <2>1, <2>4, OpenLeaves
    <2>7. fn \in Asking => Leaves(os, o.os, {call.h, call.fd, c.fd})
      <3>1. {o.ret} \subseteq {call.h, call.fd, c.fd}
        BY <2>3
      <3> QED
        BY <2>6, <3>1, LeavesMore
    <2> QED
      BY <1>2, <2>2, <2>5, <2>6, <2>7, TakeWorks
  <1> QED
    BY <1>4, <1>5

-----------------------------------------------------------------------------
(* Each call, step by step. *)

\* lseek() and read() by a call leave all but its handle.
LEMMA MovesWork ==
  ASSUME Typed, NEW h
  PROVE  /\ \A origin \in {"Current", "End"} : \A o \in HostSeek(os, h, 0, origin) :
              o.ret \in Int /\ Sound(o.os) /\ Leaves(os, o.os, {h})
         /\ \A at \in Int : \A o \in HostSeek(os, h, at, "Start") : o.ret \in Int /\ Sound(o.os) /\ Leaves(os, o.os, {h})
         /\ \A size \in Int : \A o \in HostRead(os, h, size) :
              /\ o.ret \in Int /\ o.data \in Seq(Blocks) /\ Sound(o.os) /\ Leaves(os, o.os, {h})
         /\ \A s : Sound(s) /\ Leaves(os, s, {h}) =>
              /\ \A at \in Int : \A o \in HostSeek(s, h, at, "Start") :
                   o.ret \in Int /\ Sound(o.os) /\ Leaves(os, o.os, {h})
              /\ \A size \in Int : \A o \in HostRead(s, h, size) :
                   o.ret \in Int /\ o.data \in Seq(Blocks) /\ Sound(o.os) /\ Leaves(os, o.os, {h})
  <1>1. Sound(os)
    BY DEF Typed
  <1>2. ASSUME NEW s, Sound(s), Leaves(os, s, {h}), NEW at \in Int, NEW o \in HostSeek(s, h, at, "Start")
        PROVE  o.ret \in Int /\ Sound(o.os) /\ Leaves(os, o.os, {h})
    <2>1. o.ret \in Int /\ Sound(o.os) /\ Leaves(s, o.os, {h})
      BY <1>2, HostSeekForms, Zenon
    <2> QED
      BY <1>2, <2>1, LeavesOn
  <1>3. ASSUME NEW s, Sound(s), Leaves(os, s, {h}), NEW size \in Int, NEW o \in HostRead(s, h, size)
        PROVE  o.ret \in Int /\ o.data \in Seq(Blocks) /\ Sound(o.os) /\ Leaves(os, o.os, {h})
    <2>1. o.ret \in Int /\ o.data \in Seq(Blocks) /\ Sound(o.os) /\ Leaves(s, o.os, {h})
      BY <1>3, HostReadDoes
    <2> QED
      BY <1>3, <2>1, LeavesOn
  <1>4. Leaves(os, os, {h})
    BY SameLeaves
  <1>5. ASSUME NEW o \in HostSeek(os, h, 0, "Current")
        PROVE  o.ret \in Int /\ Sound(o.os) /\ Leaves(os, o.os, {h})
    BY <1>1, HostSeekForms, Zenon
  <1>6. ASSUME NEW o \in HostSeek(os, h, 0, "End")
        PROVE  o.ret \in Int /\ Sound(o.os) /\ Leaves(os, o.os, {h})
    BY <1>1, HostSeekForms, Zenon
  <1>7. ASSUME NEW at \in Int, NEW o \in HostSeek(os, h, at, "Start")
        PROVE  o.ret \in Int /\ Sound(o.os) /\ Leaves(os, o.os, {h})
    BY <1>1, <1>2, <1>4
  <1>8. ASSUME NEW size \in Int, NEW o \in HostRead(os, h, size)
        PROVE  o.ret \in Int /\ o.data \in Seq(Blocks) /\ Sound(o.os) /\ Leaves(os, o.os, {h})
    BY <1>1, <1>3, <1>4
  <1> QED
    BY <1>2, <1>3, <1>5, <1>6, <1>7, <1>8, Zenon

\* getSize(), truncate() and setContent() by name.
LEMMA ByNameWorks ==
  ASSUME Typed, GetSizeByName \/ TruncateByName \/ SetContent
  PROVE  Works
  <1>1. CASE GetSizeByName
    <2>1. CASE Opening("getSize", {"Read"}, "end", FALSE)
      BY <2>1, OpeningWorks
    <2>2. ASSUME call.fn = "getSize", NEW o \in HostSeek(os, call.fd, 0, "End"),
                 Take(o, "close", [call EXCEPT !.ret = IF o.ret > 0 THEN o.ret ELSE 0])
          PROVE  Works
      <3>1. Sound(o.os) /\ Leaves(os, o.os, {call.fd})
        BY MovesWork, Zenon
      <3> QED
        BY <2>2, <3>1, RetWorks
    <2> QED
      BY <1>1, <2>1, <2>2 DEF GetSizeByName, At
  <1>2. CASE TruncateByName
    <2>1. CASE Opening("truncate", {"Write"}, "cut", TRUE)
      BY <2>1, OpeningWorks DEF Asking
    <2>2. ASSUME call.fn = "truncate", NEW o \in HostTruncate(os, call.fd, call.n),
                 Take(o, "close", [call EXCEPT !.ret = o.ret])
          PROVE  Works
      <3>1. call.n \in Int /\ Sound(os)
        BY DEF Typed, CallData
      <3>2. Sound(o.os)
        BY <3>1, HostChangesSound, Zenon
      <3> QED
        BY <2>2, <3>2, RetWorks DEF Asking
    <2> QED
      BY <1>2, <2>1, <2>2 DEF TruncateByName, At
  <1>3. CASE SetContent
    <2>1. CASE Opening("setContent", {"Create", "Truncate", "Write"}, "write", TRUE)
      <3> DEFINE flags == {"Create", "Truncate", "Write"}
      <3>1. Opening("setContent", flags, "write", TRUE) /\ "setContent" \notin Asking /\ "setContent" # "next"
        BY <2>1 DEF Asking
      <3> HIDE DEF flags
      <3> QED
        BY <3>1, OpeningWorks
    <2>2. ASSUME call.fn = "setContent", NEW o \in HostWrite(os, call.fd, call.data),
                 Take(o, "close", [call EXCEPT !.ret = o.ret])
          PROVE  Works
      <3>1. call.data \in Seq(Blocks) /\ Sound(os)
        BY <2>2 DEF Typed, CallData
      <3>2. Sound(o.os)
        BY <3>1, HostWriteDoes
      <3> QED
        BY <2>2, <3>2, RetWorks DEF Asking
    <2> QED
      BY <1>3, <2>1, <2>2 DEF SetContent, At
  <1> QED
    BY <1>1, <1>2, <1>3

\* getContent() in its forms.
LEMMA GetContentWorks ==
  ASSUME Typed, GetContent \/ GetContentBuffer
  PROVE  Works
  <1>1. CASE Opening("getContent", {"Read"}, "end", FALSE) \/ Opening("getContentBuffer", {"Read"}, "end", FALSE)
    BY <1>1, OpeningWorks
  <1>2. ASSUME call.fn # "next", NEW o \in HostSeek(os, call.fd, 0, "End"),
               \/ Take(o, "close", [call EXCEPT !.got = <<>>, !.ret = 1])
               \/ Take(o, "close", [call EXCEPT !.ret = 0])
               \/ \E start \in HostSeek(o.os, call.fd, 0, "Start") : Take(start, "read", [call EXCEPT !.n = o.ret])
        PROVE  Works
    <2>1. o.ret \in Int /\ Sound(o.os) /\ Leaves(os, o.os, {call.fd})
      BY MovesWork, Zenon
    <2>2. CASE Take(o, "close", [call EXCEPT !.got = <<>>, !.ret = 1])
      <3>1. <<>> \in Seq(Blocks)
        BY EmptySeq
      <3> QED
        BY <1>2, <2>1, <2>2, <3>1, GotWorks
    <2>3. CASE Take(o, "close", [call EXCEPT !.ret = 0])
      BY <1>2, <2>1, <2>3, RetWorks
    <2>4. ASSUME NEW start \in HostSeek(o.os, call.fd, 0, "Start"), Take(start, "read", [call EXCEPT !.n = o.ret])
          PROVE  Works
      <3>1. 0 \in Int
        OBVIOUS
      <3>2. Sound(start.os) /\ Leaves(os, start.os, {call.fd})
        BY <2>1, <3>1, MovesWork, Zenon
      <3> QED
        BY <1>2, <2>1, <2>4, <3>2, NumberWorks
    <2> QED
      BY <1>2, <2>2, <2>3, <2>4
  <1>3. ASSUME call.fn # "next", NEW o \in HostRead(os, call.fd, call.n), NEW x, NEW y,
               Take(o, "close", [call EXCEPT !.ret = x, !.got = y]), y = o.data \/ y = <<>>
        PROVE  Works
    <2>1. call.n \in Int /\ <<>> \in Seq(Blocks)
      BY EmptySeq DEF Typed, CallData
    <2>2. o.data \in Seq(Blocks) /\ Sound(o.os) /\ Leaves(os, o.os, {call.fd})
      BY <2>1, MovesWork, Zenon
    <2>3. y \in Seq(Blocks)
      BY <1>3, <2>1, <2>2
    <2> QED
      BY <1>3, <2>2, <2>3, GotWorks
  <1>4. CASE GetContent
    BY <1>1, <1>2, <1>3, <1>4 DEF GetContent, At
  <1>5. CASE GetContentBuffer
    BY <1>1, <1>2, <1>3, <1>5 DEF GetContentBuffer, At
  <1> QED
    BY <1>4, <1>5

\* readContent() in its forms.
LEMMA ReadingWorks ==
  ASSUME Typed, NEW fn, NEW size \in Int, NEW next, Reading(fn, size, next),
         fn \notin {"next", "fenumxattr", "getxattr"}
  PROVE  Works
  <1>1. PICK o \in HostRead(os, call.h, size) :
          \/ Take(o, next, [call EXCEPT !.ret = o.ret])
          \/ Take(o, next, [call EXCEPT !.ret = Len(call.got)])
          \/ Take(o, "read", [call EXCEPT !.got = @ \o o.data])
          \/ Take(o, next, [call EXCEPT !.got = @ \o o.data, !.ret = UserError])
    BY DEF Reading
  <1>2. call.fn = fn /\ call.fn # "next" /\ call.got \in Seq(Blocks)
    BY DEF Reading, At, Typed, CallData
  <1>3. o.ret \in Int /\ o.data \in Seq(Blocks) /\ Sound(o.os) /\ Leaves(os, o.os, {call.h})
    BY MovesWork, Zenon
  <1>4. call.got \o o.data \in Seq(Blocks)
    BY <1>2, <1>3
  <1>5. CASE Take(o, next, [call EXCEPT !.ret = o.ret])
    BY <1>2, <1>3, <1>5, RetWorks
  <1>6. CASE Take(o, next, [call EXCEPT !.ret = Len(call.got)])
    BY <1>2, <1>3, <1>6, RetWorks
  <1>7. ASSUME Take(o, "read", [call EXCEPT !.got = @ \o o.data])
               \/ Take(o, next, [call EXCEPT !.got = @ \o o.data, !.ret = UserError])
        PROVE  Works
    <2> DEFINE x == call.got \o o.data
               y == UserError
    <2>1. Take(o, "read", [call EXCEPT !.got = x]) \/ Take(o, next, [call EXCEPT !.got = x, !.ret = y])
      BY <1>7
    <2>2. x \in Seq(Blocks)
      BY <1>4
    <2> HIDE DEF x, y
    <2> QED
      BY <1>2, <1>3, <2>1, <2>2, GotWorks
  <1> QED
    BY <1>1, <1>5, <1>6, <1>7

\* A call that returns without one of the host.
LEMMA IdleWorks ==
  ASSUME Typed, NEW x, NEW y, Return(Out(os, x), y), call.fn # "next" \/ y # FS_OK
  PROVE  Works
  <1>1. Out(os, x).os = os /\ Sound(os) /\ Leaves(os, os, {call.h})
    BY OutIsResult, SameLeaves DEF Typed
  <1> QED
    BY <1>1, ReturnWorks

\* readContent() by handle, in a given size and by name.
LEMMA ReadContentWorks ==
  ASSUME Typed, ReadContent \/ ReadContentSize \/ ReadContentByName
  PROVE  Works
  <1>1. BufSize \in Int
    BY WrappersAssumption
  <1>2. CASE ReadContent
    BY <1>1, <1>2, ReadingWorks DEF ReadContent
  <1>3. CASE ReadContentSize
    <2> DEFINE left == call.n - Len(call.got)
               size == Min({left, BufSize})
    <2>1. CASE Reading("readContentSize", size, "return")
      <3>1. call.fn = "readContentSize"
        BY <2>1 DEF Reading, At
      <3>2. call.n \in Int /\ call.got \in Seq(Blocks)
        BY <3>1 DEF Typed, CallData
      <3>3. left \in Int
        BY <3>2
      <3>4. size \in Int
        <4> HIDE DEF left
        <4> QED
          BY <1>1, <3>3, LeastOfTwo
      <3> HIDE DEF size
      <3> QED
        BY <2>1, <3>4, ReadingWorks
    <2>2. CASE At("readContentSize", "read") /\ Return(Out(os, 0), call.n)
      BY <2>2, IdleWorks DEF At
    <2> QED
      BY <1>3, <2>1, <2>2 DEF ReadContentSize
  <1>4. CASE ReadContentByName
    <2>1. CASE Reading("readContentByName", BufSize, "close")
      BY <1>1, <2>1, ReadingWorks
    <2>2. ASSUME At("readContentByName", "begin"), NEW o \in HostOpen(os, call.path, {"Read"}),
                 IF o.ret < 0 THEN Return(o, o.ret) ELSE Take(o, "read", [call EXCEPT !.fd = o.ret, !.h = o.ret])
          PROVE  Works
      <3>1. Sound(os) /\ IsCall(call) /\ CallData(call) /\ call.fn = "readContentByName"
        BY <2>2 DEF Typed, At
      <3>2. /\ Result(o) /\ o.ret \in Int
            /\ Fails(os, o) \/ OpensFile(os, o, ResolvePath(call.path), MapFlags({"Read"}))
        BY <3>1, HostOpenDoes
      <3>3. CASE o.ret < 0
        <4>1. Fails(os, o) => Sound(o.os) /\ Leaves(os, o.os, {call.h})
          BY <3>1, FailsSound
        <4>2. OpensFile(os, o, ResolvePath(call.path), MapFlags({"Read"})) => o.ret \in Nat
          BY HostAssumption DEF OpensFile
        <4>3. Return(o, o.ret) /\ Sound(o.os) /\ Leaves(os, o.os, {call.h})
          BY <2>2, <3>2, <3>3, <4>1, <4>2
        <4> QED
          BY <3>1, <4>3, ReturnWorks
      <3>4. CASE ~(o.ret < 0)
        <4> DEFINE p == ResolvePath(call.path)
                   f == MapFlags({"Read"})
                   c == [call EXCEPT !.fd = o.ret, !.h = o.ret]
        <4>1. OpensFile(os, o, p, f)
          BY <3>2, <3>4 DEF Fails
        <4>2. Take(o, "read", c)
          BY <2>2, <3>4
        <4>3. SameData(call, c) /\ c.fd = o.ret
          <5>1. SameData(call, c)
            BY <3>1, SameChanges
          <5>2. c.fd = o.ret
            BY <3>1, ZenonT(60) DEF IsCall, NoCall
          <5> QED
            BY <5>1, <5>2
        <4>4. f \cap {"Create", "Truncate"} = {} /\ "Create" \notin f
          BY DEF MapFlags
        <4> HIDE DEF p, f, c
        <4>5. IsCall(c) /\ CallData(c) /\ c.fn = call.fn
          BY <3>1, <4>3, SameDataKept
        <4>6. Sound(o.os) /\ Leaves(os, o.os, {o.ret})
          BY <3>1, <4>1, <4>4, OpenLeaves
        <4>7. Leaves(os, o.os, {call.h, call.fd, c.fd})
          <5>1. {o.ret} \subseteq {call.h, call.fd, c.fd}
            BY <4>3
          <5> QED
            BY <4>6, <5>1, LeavesMore
        <4> QED
          BY <3>1, <4>2, <4>5, <4>6, <4>7, TakeWorks
      <3> QED
        BY <3>3, <3>4
    <2> QED
      BY <1>4, <2>1, <2>2 DEF ReadContentByName
  <1> QED
    BY <1>2, <1>3, <1>4

\* makedirs().
LEMMA MakedirsWorks ==
  ASSUME Typed, Makedirs
  PROVE  Works
  <1>1. call.fn = "makedirs" /\ call.n \in Int /\ Sound(os)
    BY DEF Makedirs, At, Typed, CallData
  <1>2. CASE Return(Out(os, 0), FS_OK)
    BY <1>1, <1>2, IdleWorks
  <1>3. ASSUME NEW o \in HostMkdir(os, SubSeq(call.path, 1, call.n + 1)),
               Return(o, o.ret) \/ Take(o, "begin", [call EXCEPT !.n = @ + 1])
        PROVE  Works
    <2>1. Sound(o.os)
      BY <1>1, HostChangesSound, Zenon
    <2>2. Return(o, o.ret) => Works
      BY <1>1, <2>1, ReturnWorks DEF Asking
    <2> DEFINE n == call.n + 1
    <2>3. n \in Int /\ (Return(o, o.ret) \/ Take(o, "begin", [call EXCEPT !.n = n]))
      BY <1>1, <1>3
    <2> HIDE DEF n
    <2>4. Take(o, "begin", [call EXCEPT !.n = n]) => Works
      BY <1>1, <2>1, <2>3, NumberWorks DEF Asking
    <2> QED
      BY <2>2, <2>3, <2>4
  <1> QED
    BY <1>2, <1>3 DEF Makedirs

\* Calls by handle.
LEMMA HandleCallWorks ==
  ASSUME Typed, FileEof \/ Fsetxattr \/ Setacl \/ Fstat
  PROVE  Works
  <1>1. Sound(os) /\ IsCall(call) /\ CallData(call)
    BY DEF Typed
  <1>2. CASE FileEof
    <2>1. PICK r : Return(Out(os, 0), r)
      BY <1>2 DEF FileEof
    <2>2. call.fn # "next"
      BY <1>2 DEF FileEof, At
    <2> QED
      BY <2>1, <2>2, IdleWorks
  <1>3. ASSUME call.fn \notin Asking, NEW tag, NEW o \in HostFsetxattr(os, call.h, tag, call.attr), NEW ret,
               Return(o, ret) \/ Take(o, "second", [call EXCEPT !.ret = ret])
        PROVE  Works
    <2>1. Sound(o.os)
      BY <1>1, HostFsetxattrSound
    <2>2. call.fn # "next"
      BY <1>3 DEF Asking
    <2> QED
      BY <1>3, <2>1, <2>2, ReturnWorks, RetWorks
  <1>4. CASE Fsetxattr
    <2>1. call.fn \notin Asking
      BY <1>4 DEF Fsetxattr, At, Asking
    <2> QED
      BY <1>3, <1>4, <2>1 DEF Fsetxattr
  <1>5. CASE Setacl
    <2>1. call.fn \notin Asking
      BY <1>5 DEF Setacl, At, Asking
    <2> QED
      BY <1>3, <1>5, <2>1 DEF Setacl
  <1>6. CASE Fstat
    <2>1. PICK o \in HostFstat(os, call.h) : Take(o, "return", [call EXCEPT !.ret = o.ret, !.stat = o.stat])
      BY <1>6 DEF Fstat
    <2>2. o.os = os /\ call.fn = "fstat"
      BY <1>6, HostFstatDoes DEF Fstat, At
    <2> DEFINE c == [call EXCEPT !.ret = o.ret, !.stat = o.stat]
    <2>3. SameData(call, c) /\ c.fd = call.fd
      <3>1. SameData(call, c)
        BY <1>1, SameChanges
      <3>2. c.fd = call.fd
        BY <1>1, ZenonT(60) DEF IsCall, NoCall
      <3> QED
        BY <3>1, <3>2
    <2>4. Take(o, "return", c)
      BY <2>1
    <2> HIDE DEF c
    <2>5. IsCall(c) /\ CallData(c) /\ c.fn = call.fn
      BY <1>1, <2>3, SameDataKept
    <2> QED
      BY <1>1, <2>2, <2>3, <2>4, <2>5, SameLeaves, TakenWorks
  <1> QED
    BY <1>2, <1>4, <1>5, <1>6

\* File::getContent().
LEMMA FileGetContentWorks ==
  ASSUME Typed, FileGetContent
  PROVE  Works
  <1>1. Sound(os) /\ call.n \in Int /\ call.fn = "fileGetContent"
    BY DEF Typed, CallData, FileGetContent, At
  <1>2. ASSUME NEW o \in SizeOf(os, call.h), Take(o, "read", [call EXCEPT !.n = o.ret])
        PROVE  Works
    <2>1. o.ret \in Nat /\ Sound(o.os) /\ Leaves(os, o.os, {call.h})
      BY <1>1, SizeOfDoes
    <2>2. o.ret \in Int
      BY <2>1
    <2> QED
      BY <1>1, <1>2, <2>1, <2>2, NumberWorks
  <1>3. ASSUME NEW o \in HostRead(os, call.h, call.n), NEW x, NEW y,
               Take(o, "return", [call EXCEPT !.ret = x, !.got = y]), y = o.data \/ y = <<>>
        PROVE  Works
    <2>1. o.data \in Seq(Blocks) /\ Sound(o.os) /\ Leaves(os, o.os, {call.h})
      BY <1>1, MovesWork, Zenon
    <2>2. y \in Seq(Blocks)
      BY <1>3, <2>1, EmptySeq
    <2> QED
      BY <1>1, <1>3, <2>1, <2>2, GotWorks
  <1> QED
    BY <1>2, <1>3 DEF FileGetContent

\* Calls of a device.
LEMMA DeviceWorks ==
  ASSUME Typed, DeviceRead \/ DeviceWrite \/ DeviceErase
  PROVE  Works
  <1>1. Sound(os) /\ call.n \in Int /\ call.data \in Seq(Blocks) /\ call.got \in Seq(Blocks) /\ call.fn # "next"
    BY DEF Typed, CallData, DeviceRead, DeviceWrite, DeviceErase, At
  <1>2. ASSUME NEW at \in HostSeek(os, call.h, call.n, "Start")
        PROVE  Sound(at.os) /\ Leaves(os, at.os, {call.h})
    BY <1>1, MovesWork, Zenon
  <1>3. ASSUME NEW o, Sound(o.os), call.fn \in Asking => Leaves(os, o.os, {call.h}), NEW ret, Return(o, ret)
        PROVE  Works
    BY <1>1, <1>3, ReturnWorks
  <1>4. ASSUME DeviceRead
        PROVE  Works
    <2>1. PICK at \in HostSeek(os, call.h, call.n, "Start") :
            IF at.ret # call.n THEN Return(at, 0)
            ELSE \E o \in HostRead(at.os, call.h, Len(call.data)) :
                   Take(o, "return", [call EXCEPT !.got = o.data, !.ret = IF o.ret = Len(call.data) THEN 1 ELSE 0])
      BY <1>4 DEF DeviceRead
    <2>2. Sound(at.os) /\ Leaves(os, at.os, {call.h})
      BY <1>2
    <2>3. ASSUME NEW o \in HostRead(at.os, call.h, Len(call.data)), NEW ret,
                 Take(o, "return", [call EXCEPT !.got = o.data, !.ret = ret])
          PROVE  Works
      <3>1. Len(call.data) \in Int
        BY <1>1
      <3>2. o.data \in Seq(Blocks) /\ Sound(o.os) /\ Leaves(os, o.os, {call.h})
        BY <2>2, <3>1, MovesWork, Zenon
      <3> QED
        BY <1>1, <2>3, <3>2, GotWorks
    <2>4. CASE at.ret # call.n
      BY <1>3, <2>1, <2>2, <2>4
    <2>5. CASE ~(at.ret # call.n)
      BY <2>1, <2>3, <2>5
    <2> QED
      BY <2>4, <2>5
  <1>5. ASSUME DeviceWrite
        PROVE  Works
    <2>1. PICK at \in HostSeek(os, call.h, call.n, "Start") :
            IF at.ret # call.n THEN Return(at, 0)
            ELSE \E o \in HostWrite(at.os, call.h, call.data) : \E ret : Return(o, ret)
      BY <1>5 DEF DeviceWrite
    <2>2. Sound(at.os) /\ Leaves(os, at.os, {call.h})
      BY <1>2
    <2>3. call.fn \notin Asking
      BY <1>5 DEF DeviceWrite, At, Asking
    <2>4. ASSUME NEW o \in HostWrite(at.os, call.h, call.data), NEW ret, Return(o, ret)
          PROVE  Works
      <3>1. Sound(o.os)
        BY <1>1, <2>2, HostWriteDoes
      <3> QED
        BY <1>3, <2>3, <2>4, <3>1
    <2>5. CASE at.ret # call.n
      BY <1>3, <2>1, <2>2, <2>5
    <2>6. CASE ~(at.ret # call.n)
      BY <2>1, <2>4, <2>6
    <2> QED
      BY <2>5, <2>6
  <1>6. ASSUME NEW at \in HostSeek(os, call.h, call.n, "Start"), Take(at, "erase", [call EXCEPT !.got = call.data])
        PROVE  Works
    <2>1. Sound(at.os) /\ Leaves(os, at.os, {call.h})
      BY <1>2
    <2> QED
      BY <1>1, <1>6, <2>1, GotWorks
  <1>7. ASSUME DeviceErase
        PROVE  Works
    <2> DEFINE n == EraseLength(Len(call.got))
               some == [i \in 1..n |-> Erased]
               rest == SubSeq(call.got, Len(some) + 1, Len(call.got))
    <2>1. n \in Nat /\ n <= Len(call.got)
      <3>1. Len(call.got) \in Nat /\ BufSize \in Nat
        BY <1>1, WrappersAssumption
      <3>2. n = IF Len(call.got) <= BufSize THEN Len(call.got) ELSE BufSize
        BY <3>1, LeastOfTwo DEF EraseLength
      <3> QED
        BY <3>1, <3>2
    <2>2. Erased \in Blocks
      BY WrappersAssumption
    <2>3. \/ \E at \in HostSeek(os, call.h, call.n, "Start") :
               Return(at, 0) \/ Take(at, "erase", [call EXCEPT !.got = call.data])
          \/ Return(Out(os, 0), 1)
          \/ \E o \in HostWrite(os, call.h, some) : Return(o, 0) \/ Take(o, "erase", [call EXCEPT !.got = rest])
      BY <1>7, Zenon DEF DeviceErase
    <2> HIDE DEF n
    <2>4. some \in Seq(Blocks) /\ Len(some) = n
      BY <2>1, <2>2
    <2>5. rest \in Seq(Blocks)
      <3> HIDE DEF some
      <3>1. \A i \in Len(some) + 1..Len(call.got) : call.got[i] \in Blocks
        BY <1>1, <2>1, <2>4
      <3> QED
        BY <1>1, <2>1, <2>4, <3>1, SubSeqProperties
    <2> HIDE DEF some, rest
    <2>6. call.fn \notin Asking
      BY <1>7 DEF DeviceErase, At, Asking
    <2>7. ASSUME NEW at \in HostSeek(os, call.h, call.n, "Start"),
                 Return(at, 0) \/ Take(at, "erase", [call EXCEPT !.got = call.data])
          PROVE  Works
      BY <1>2, <1>3, <1>6, <2>7
    <2>8. ASSUME NEW o \in HostWrite(os, call.h, some), Return(o, 0) \/ Take(o, "erase", [call EXCEPT !.got = rest])
          PROVE  Works
      <3>1. Sound(o.os)
        BY <1>1, <2>4, HostWriteDoes
      <3> QED
        BY <1>1, <1>3, <2>5, <2>6, <2>8, <3>1, GotWorks
    <2>9. Return(Out(os, 0), 1) => Works
      BY <1>1, IdleWorks
    <2> QED
      BY <2>3, <2>7, <2>8, <2>9
  <1> QED
    BY <1>4, <1>5, <1>7

\* An outcome is taken that leaves the files, and the arguments and the information of the call.
LEMMA KeptWorks ==
  ASSUME Typed, NEW o, NEW at, NEW c, Take(o, at, c), o.os = os, SameData(call, c),
         call.fn = "next" => IsStat(c.stat) \/ at \notin {"statopen", "xattrs", "close", "return"}
                             \/ (at = "return" /\ c.ret # FS_OK)
  PROVE  Works
  <1>1. IsCall(call) /\ CallData(call) /\ Sound(o.os)
    BY DEF Typed
  <1>2. IsCall(c) /\ CallData(c) /\ c.fn = call.fn
    BY <1>1, SameDataKept
  <1>3. Leaves(os, o.os, {call.h, call.fd, c.fd})
    BY SameLeaves
  <1> QED
    BY <1>1, <1>2, <1>3, TakeWorks

\* stat(), and the end of readdir().
LEMMA StattingWorks ==
  ASSUME Typed, NEW fn, Statting(fn)
  PROVE  Works
  <1> DEFINE p == ResolvePath(call.path)
  <1>1. Sound(os) /\ IsCall(call) /\ CallData(call) /\ StatOk(call)
    BY DEF Typed
  <1>2. ASSUME NEW o \in Checked(os, OsStat(os, p)),
               IF o.ret < 0 THEN Return(o, o.ret)
               ELSE Take(o, "statopen", [call EXCEPT !.stat = [FillStat(os, Node(os, p)) EXCEPT !.name = Last(call.path)]])
        PROVE  Works
    <2> HIDE DEF p
    <2>1. \A x \in OsStat(os, p) : Result(x) /\ x.os = os /\ x.ret \in Int /\ (x.ret >= 0 => Node(os, p) # 0)
      BY <1>1, StatDoes
    <2> DEFINE outcomes == OsStat(os, p)
    <2>2. \A x \in outcomes : Result(x) /\ x.ret \in Int
      BY <2>1
    <2>3. o \in Checked(os, outcomes)
      BY <1>2
    <2>4. \A x \in outcomes : x.os = os /\ x.ret \in Int /\ (x.ret >= 0 => Node(os, p) # 0)
      BY <2>1
    <2> HIDE DEF outcomes
    <2>5. /\ o.ret \in Int
          /\ \/ ~mounted /\ Fails(os, o)
             \/ \E x \in outcomes : o.os = x.os /\ (x.ret < 0 => o.ret < 0)
      BY <2>2, <2>3, CheckedDoes
    <2>6. o.os = os /\ o.ret \in Int /\ (o.ret < 0 \/ Node(os, p) # 0)
      BY <2>4, <2>5 DEF Fails
    <2>7. CASE o.ret < 0
      <3>1. Return(o, o.ret) /\ o.ret # FS_OK
        BY <1>2, <2>7 DEF FS_OK
      <3>2. Sound(o.os) /\ Leaves(os, o.os, {call.h})
        BY <1>1, <2>6, SameLeaves
      <3> QED
        BY <3>1, <3>2, ReturnWorks
    <2>8. CASE ~(o.ret < 0)
      <3> DEFINE st == [FillStat(os, Node(os, p)) EXCEPT !.name = Last(call.path)]
                 c == [call EXCEPT !.stat = st]
      <3>1. Node(os, p) \in Nodes
        BY <1>1, <2>6, <2>8, SoundFacts
      <3>2. IsStat(st)
        BY <1>1, <3>1, StatsAre
      <3>3. Take(o, "statopen", c)
        BY <1>2, <2>8
      <3> HIDE DEF st
      <3>4. SameData(call, c)
        BY <1>1, SameChanges
      <3>5. c.stat = st
        BY <1>1, ZenonT(60) DEF IsCall, NoCall
      <3> HIDE DEF c
      <3> QED
        BY <2>6, <3>2, <3>3, <3>4, <3>5, KeptWorks
    <2> QED
      BY <2>7, <2>8
  <1>3. ASSUME call.at = "statopen", NEW o \in OsOpen(os, p, {"Read"}),
               IF o.ret < 0 THEN Return(o, FS_OK) ELSE Take(o, "xattrs", [call EXCEPT !.fd = o.ret])
        PROVE  Works
    <2>1. call.fn = "next" => IsStat(call.stat)
      BY <1>1, <1>3 DEF StatOk
    <2> DEFINE flags == {"Read"}
    <2> HIDE DEF p
    <2>2. Fails(os, o) \/ OpensFile(os, o, p, flags)
      BY <1>1, <1>3, OpenDoes
    <2>3. CASE o.ret < 0
      <3>1. Fails(os, o)
        <4>1. OpensFile(os, o, p, flags) => o.ret \in Fds
          BY DEF OpensFile
        <4>2. Fds \subseteq Nat
          BY HostAssumption
        <4>3. \A x \in Nat : ~(x < 0)
          OBVIOUS
        <4> QED
          BY <2>2, <2>3, <4>1, <4>2, <4>3, Zenon
      <3>2. Sound(o.os) /\ Leaves(os, o.os, {call.h})
        BY <1>1, <3>1, FailsSound
      <3> QED
        BY <1>3, <2>1, <2>3, <3>2, ReturnWorks
    <2>4. CASE ~(o.ret < 0)
      <3> DEFINE c == [call EXCEPT !.fd = o.ret]
      <3>1. OpensFile(os, o, p, flags)
        BY <2>2, <2>4 DEF Fails
      <3>2. flags \cap {"Create", "Truncate"} = {} /\ "Create" \notin flags
        OBVIOUS
      <3>3. Take(o, "xattrs", c)
        BY <1>3, <2>4
      <3>4. SameData(call, c)
        BY <1>1, SameChanges
      <3>5. c.fd = o.ret /\ c.stat = call.stat
        BY <1>1, ZenonT(60) DEF IsCall, NoCall
      <3> HIDE DEF c, flags
      <3>6. IsCall(c) /\ CallData(c) /\ c.fn = call.fn
        BY <1>1, <3>4, SameDataKept
      <3>7. Sound(o.os) /\ Leaves(os, o.os, {o.ret})
        BY <1>1, <3>1, <3>2, OpenLeaves
      <3>8. Leaves(os, o.os, {call.h, call.fd, c.fd})
        <4>1. {o.ret} \subseteq {call.h, call.fd, c.fd}
          BY <3>5
        <4> QED
          BY <3>7, <4>1, LeavesMore
      <3> QED
        BY <2>1, <3>3, <3>5, <3>6, <3>7, <3>8, TakeWorks
    <2> QED
      BY <2>3, <2>4
  <1>4. ASSUME call.at = "xattrs", os' = os,
               call' = [call EXCEPT !.stat = GetExtendedAttributes(os, call.fd, @), !.at = "close", !.ret = FS_OK]
        PROVE  Works
    <2> DEFINE st == GetExtendedAttributes(os, call.fd, call.stat)
               d == [call EXCEPT !.stat = st, !.at = "close", !.ret = FS_OK]
    <2>1. call' = d
      BY <1>4
    <2>2. call.fn = "next" => IsStat(call.stat)
      BY <1>1, <1>4 DEF StatOk
    <2>3. call.fn = "next" => IsStat(st)
      BY <1>1, <2>2, StatsAre
    <2> HIDE DEF st
    <2>4. SameData(call, d)
      BY <1>1, SameChangesOfThree
    <2>5. d.stat = st
      BY <1>1, ZenonT(60) DEF IsCall, NoCall
    <2> HIDE DEF d
    <2>6. IsCall(d) /\ CallData(d) /\ d.fn = call.fn
      BY <1>1, <2>4, SameDataKept
    <2>7. StatOk(d)
      BY <2>3, <2>5, <2>6 DEF StatOk
    <2>8. Quiet
      BY <1>4, SameLeaves DEF Quiet
    <2> QED
      BY <1>1, <1>4, <2>1, <2>6, <2>7, <2>8 DEF Works
  <1>5. CASE At(fn, "stat") /\ \E o \in Checked(os, OsStat(os, p)) :
               IF o.ret < 0 THEN Return(o, o.ret)
               ELSE Take(o, "statopen", [call EXCEPT !.stat = [FillStat(os, Node(os, p)) EXCEPT !.name = Last(call.path)]])
    BY <1>2, <1>5
  <1>6. CASE At(fn, "statopen") /\ \E o \in OsOpen(os, p, {"Read"}) :
               IF o.ret < 0 THEN Return(o, FS_OK) ELSE Take(o, "xattrs", [call EXCEPT !.fd = o.ret])
    BY <1>3, <1>6 DEF At
  <1>7. CASE /\ At(fn, "xattrs") /\ UNCHANGED os
             /\ call' = [call EXCEPT !.stat = GetExtendedAttributes(os, call.fd, @), !.at = "close", !.ret = FS_OK]
    BY <1>4, <1>7 DEF At
  <1> QED
    BY <1>5, <1>6, <1>7, Zenon DEF Statting

\* readdir(), for next().
LEMMA ReaddirWorks ==
  ASSUME Typed, Readdir("next")
  PROVE  Works
  <1>1. CASE Statting("next")
    BY <1>1, StattingWorks
  <1>2. CASE ~mounted /\ Return(Out(os, 0), NotMounted)
    BY <1>2, IdleWorks DEF NotMounted, FS_OK
  <1>3. CASE Return(Out(os, 0), InvalidHandle)
    BY <1>3, IdleWorks DEF InvalidHandle, FS_OK
  <1>4. ASSUME NEW o \in OsReaddir(os, call.h),
               IF o.ret < 0 THEN Return(o, SysErr(o.ret))
               ELSE IF o.name = "" THEN Return(o, NoMoreFiles)
               ELSE Take(o, "stat", [call EXCEPT !.path = os.streams[call.h].path \o <<o.name>>])
        PROVE  Works
    <2>1. Sound(os) /\ IsCall(call) /\ CallData(call)
      BY DEF Typed
    <2>2. Sound(o.os) /\ Leaves(os, o.os, {}) /\ o.ret \in Int
      BY <2>1, ReaddirDoes
    <2>3. Leaves(os, o.os, {call.h})
      <3>1. {} \subseteq {call.h}
        OBVIOUS
      <3> QED
        BY <2>2, <3>1, LeavesMore
    <2>4. ASSUME NEW x, x # FS_OK, Return(o, x)
          PROVE  Works
      BY <2>2, <2>3, <2>4, ReturnWorks
    <2>5. CASE o.ret < 0
      <3>1. SysErr(o.ret) # FS_OK
        BY <2>2, <2>5 DEF SysErr, SYSTEM, FS_OK
      <3> QED
        BY <1>4, <2>4, <2>5, <3>1
    <2>6. CASE Return(o, NoMoreFiles)
      BY <2>4, <2>6 DEF NoMoreFiles, FS_OK
    <2>7. CASE Take(o, "stat", [call EXCEPT !.path = os.streams[call.h].path \o <<o.name>>])
      <3> DEFINE x == os.streams[call.h].path \o <<o.name>>
                 c == [call EXCEPT !.path = x]
      <3>1. Take(o, "stat", c)
        BY <2>7
      <3> HIDE DEF x
      <3>2. SameData(call, c)
        BY <2>1, SameChanges
      <3> HIDE DEF c
      <3>3. IsCall(c) /\ CallData(c) /\ c.fn = call.fn
        BY <2>1, <3>2, SameDataKept
      <3>4. Leaves(os, o.os, {call.h, call.fd, c.fd})
        <4>1. {} \subseteq {call.h, call.fd, c.fd}
          OBVIOUS
        <4> QED
          BY <2>2, <4>1, LeavesMore
      <3> QED
        BY <2>2, <3>1, <3>3, <3>4, TakeWorks
    <2> QED
      BY <1>4, <2>5, <2>6, <2>7, Zenon
  <1>5. CASE \E o \in OsReaddir(os, call.h) :
               IF o.ret < 0 THEN Return(o, SysErr(o.ret))
               ELSE IF o.name = "" THEN Return(o, NoMoreFiles)
               ELSE Take(o, "stat", [call EXCEPT !.path = os.streams[call.h].path \o <<o.name>>])
    BY <1>4, <1>5
  <1> QED
    BY <1>1, <1>2, <1>3, <1>5, Zenon DEF Readdir

\* A call about attributes leaves the files.
LEMMA LookedWorks ==
  ASSUME Typed, call.fn \in {"getxattr", "fenumxattr"}, NEW o, NEW at, NEW c, Take(o, at, c), o.os = os,
         IsCall(c), c.fn = call.fn, c.n = call.n
  PROVE  Works
  <1>1. Sound(o.os) /\ CallData(c) /\ call.fn # "next"
    BY DEF Typed, CallData
  <1>2. Leaves(os, o.os, {call.h, call.fd, c.fd})
    BY SameLeaves
  <1> QED
    BY <1>1, <1>2, TakeWorks

\* Attributes by name.
LEMMA AttributeWorks ==
  ASSUME Typed, Setxattr \/ Getxattr
  PROVE  Works
  <1>1. Sound(os) /\ IsCall(call) /\ CallData(call)
    BY DEF Typed
  <1>2. ASSUME call.fn = "setxattr", NEW n \in Nodes, Return(Out([os EXCEPT !.nodes[n].mtime = call.attr.value], 0), FS_OK)
        PROVE  Works
    <2> DEFINE o == Out([os EXCEPT !.nodes[n].mtime = call.attr.value], 0)
    <2>1. Sound(o.os)
      BY <1>1, MarkedSound DEF Out
    <2>2. Return(o, FS_OK)
      BY <1>2
    <2> HIDE DEF o
    <2> QED
      BY <1>2, <2>1, <2>2, ReturnWorks DEF Asking
  <1>3. CASE Setxattr
    <2> DEFINE n == Node(os, ResolvePath(call.path))
    <2>1. CASE At("setxattr", "begin") /\
               (IF ~mounted THEN Return(Out(os, 0), NotMounted)
                ELSE IF call.attr.size < AttrSize[call.tag] THEN Return(Out(os, 0), BadParam)
                ELSE IF n = 0 THEN Return(Out(os, 0), SysErr(-ENOENT))
                ELSE Return(Out([os EXCEPT !.nodes[n].mtime = call.attr.value], 0), FS_OK))
      <3>1. call.fn = "setxattr" /\ (n = 0 \/ n \in Nodes)
        BY <1>1, <2>1, SoundFacts DEF At
      <3> HIDE DEF n
      <3>2. ASSUME NEW x, Return(Out(os, 0), x)
            PROVE  Works
        BY <3>1, <3>2, IdleWorks
      <3>3. \/ \E x : Return(Out(os, 0), x)
            \/ n # 0 /\ Return(Out([os EXCEPT !.nodes[n].mtime = call.attr.value], 0), FS_OK)
        BY <2>1, Zenon
      <3> QED
        BY <1>2, <3>1, <3>2, <3>3, Zenon
    <2>2. CASE Opening("setxattr", {"Read", "Write"}, "set", TRUE)
      <3> DEFINE flags == {"Read", "Write"}
      <3>1. Opening("setxattr", flags, "set", TRUE) /\ "setxattr" \notin Asking /\ "setxattr" # "next"
        BY <2>2 DEF Asking
      <3> HIDE DEF flags
      <3> QED
        BY <3>1, OpeningWorks
    <2>3. ASSUME call.fn = "setxattr", NEW o \in HostFsetxattr(os, call.fd, call.tag, call.attr),
                 Take(o, "close", [call EXCEPT !.ret = o.ret])
          PROVE  Works
      <3>1. Sound(o.os)
        BY <1>1, <2>3, HostFsetxattrSound
      <3> QED
        BY <2>3, <3>1, RetWorks DEF Asking
    <2> QED
      BY <1>3, <2>1, <2>2, <2>3, Zenon DEF Setxattr, At
  <1>4. CASE Getxattr
    <2>1. CASE Opening("getxattr", {"Read"}, "get", TRUE)
      BY <2>1, OpeningWorks
    <2>2. ASSUME call.fn = "getxattr", NEW o \in HostFgetxattr(os, call.fd, call.tag, call.n),
                 Take(o, "close", [call EXCEPT !.ret = o.ret,
                                               !.got = IF o.ret < 0 THEN <<>> ELSE <<ValueOf(os, call.fd, call.tag)>>])
          PROVE  Works
      <3> DEFINE x == o.ret
                 y == IF o.ret < 0 THEN <<>> ELSE <<ValueOf(os, call.fd, call.tag)>>
                 c == [call EXCEPT !.ret = x, !.got = y]
      <3>1. o.os = os
        BY <1>1, <2>2, AttributesLookedAt
      <3>2. Take(o, "close", c)
        BY <2>2
      <3> HIDE DEF x, y
      <3>3. IsCall(c) /\ c.fn = call.fn /\ c.n = call.n
        BY <1>1, ZenonT(60) DEF IsCall, NoCall
      <3> HIDE DEF c
      <3> QED
        BY <2>2, <3>1, <3>2, <3>3, LookedWorks
    <2> QED
      BY <1>4, <2>1, <2>2 DEF Getxattr, At
  <1> QED
    BY <1>3, <1>4

\* fenumxattr().
LEMMA FenumxattrWorks ==
  ASSUME Typed, Fenumxattr
  PROVE  Works
  <1>1. call.fn = "fenumxattr" /\ Sound(os) /\ IsCall(call)
    BY DEF Typed, Fenumxattr, At
  <1>2. ASSUME NEW x, Return(Out(os, 0), x)
        PROVE  Works
    BY <1>1, <1>2, IdleWorks
  <1>3. ASSUME NEW go \in BOOLEAN,
               Take(Out(os, 0), IF go THEN "list" ELSE "return",
                    [call EXCEPT !.got = <<"ModifiedTime">>, !.data = TagOrder, !.ret = 1])
        PROVE  Works
    <2> DEFINE o == Out(os, 0)
               at == IF go THEN "list" ELSE "return"
               x == <<"ModifiedTime">>
               c == [call EXCEPT !.got = x, !.data = TagOrder, !.ret = 1]
    <2>1. o.os = os /\ Take(o, at, c)
      BY <1>3 DEF Out
    <2> HIDE DEF o, at, x
    <2>2. IsCall(c) /\ c.fn = call.fn /\ c.n = call.n
      BY <1>1, ZenonT(60) DEF IsCall, NoCall
    <2> HIDE DEF c
    <2> QED
      BY <1>1, <2>1, <2>2, LookedWorks
  <1>4. ASSUME Take(Out(os, 0), "next", [call EXCEPT !.data = OsListXAttr(os, call.h)])
        PROVE  Works
    <2> DEFINE o == Out(os, 0)
               x == OsListXAttr(os, call.h)
               c == [call EXCEPT !.data = x]
    <2>1. o.os = os /\ Take(o, "next", c)
      BY <1>4 DEF Out
    <2> HIDE DEF o, x
    <2>2. IsCall(c) /\ c.fn = call.fn /\ c.n = call.n
      BY <1>1, ZenonT(60) DEF IsCall, NoCall
    <2> HIDE DEF c
    <2> QED
      BY <1>1, <2>1, <2>2, LookedWorks
  <1> DEFINE rest == [call EXCEPT !.data = Tail(@)]
  <1>5. IsCall(rest) /\ rest.fn = call.fn /\ rest.n = call.n
    <2> DEFINE x == Tail(call.data)
    <2>1. rest = [call EXCEPT !.data = x]
      OBVIOUS
    <2> HIDE DEF x
    <2> QED
      BY <1>1, <2>1, ZenonT(60) DEF IsCall, NoCall
  <1>6. ASSUME NEW o \in OsGetXAttr(os, call.h, Head(call.data), call.n), NEW at,
               \/ Take(o, at, rest)
               \/ Take(o, at, [rest EXCEPT !.got = Append(@, Head(call.data))])
        PROVE  Works
    <2> DEFINE x == Append(rest.got, Head(call.data))
               c == [rest EXCEPT !.got = x]
    <2>1. o.os = os
      BY <1>1, <1>6, AttributesLookedAt
    <2>2. Take(o, at, rest) \/ Take(o, at, c)
      BY <1>6
    <2> HIDE DEF x, rest
    <2>3. IsCall(c) /\ c.fn = rest.fn /\ c.n = rest.n
      BY <1>5, ZenonT(60) DEF IsCall, NoCall
    <2> HIDE DEF c
    <2> QED
      BY <1>1, <1>5, <2>1, <2>2, <2>3, LookedWorks
  <1>7. CASE \E go \in BOOLEAN :
               Take(Out(os, 0), IF go THEN "list" ELSE "return",
                    [call EXCEPT !.got = <<"ModifiedTime">>, !.data = TagOrder, !.ret = 1])
    BY <1>3, <1>7
  <1>8. CASE \E o \in OsGetXAttr(os, call.h, Head(call.data), call.n), go \in BOOLEAN :
               IF Head(call.data) \notin DOMAIN AttrSize \/ o.ret < 0 THEN go /\ Take(o, "next", rest)
               ELSE Take(o, IF go THEN "next" ELSE "return", [rest EXCEPT !.got = Append(@, Head(call.data))])
    <2> HIDE DEF rest
    <2> QED
      BY <1>6, <1>8
  <1> QED
    BY <1>2, <1>4, <1>7, <1>8, Zenon DEF Fenumxattr

\* The end of a call that has opened a file.
LEMMA ClosingWorks ==
  ASSUME Typed, Closing
  PROVE  Works
  <1>1. Sound(os) /\ IsCall(call) /\ CallData(call) /\ StatOk(call) /\ call.at = "close"
    BY DEF Typed, Closing
  <1> DEFINE c == [call EXCEPT !.fd = -1]
  <1>2. PICK o \in HostClose(os, call.fd) : Take(o, "return", c)
    BY DEF Closing
  <1>3. SameData(call, c)
    BY <1>1, SameChanges
  <1>4. c.stat = call.stat
    <2> DEFINE x == -1
    <2>1. c = [call EXCEPT !.fd = x]
      OBVIOUS
    <2> HIDE DEF x, c
    <2> QED
      BY <1>1, <2>1, ZenonT(60) DEF IsCall, NoCall
  <1> HIDE DEF c
  <1>5. IsCall(c) /\ CallData(c) /\ c.fn = call.fn
    BY <1>1, <1>3, SameDataKept
  <1>6. call.fn = "next" => IsStat(c.stat)
    BY <1>1, <1>4 DEF StatOk
  <1>7. Sound(o.os) /\ Leaves(os, o.os, {call.fd})
    BY <1>1, HostCloseDoes
  <1>8. Leaves(os, o.os, {call.h, call.fd, c.fd})
    <2>1. {call.fd} \subseteq {call.h, call.fd, c.fd}
      OBVIOUS
    <2> QED
      BY <1>7, <2>1, LeavesMore
  <1> QED
    BY <1>2, <1>5, <1>6, <1>7, <1>8, TakeWorks

\* Each step of a call.
LEMMA StepWorks ==
  ASSUME Typed, Step
  PROVE  Works
  <1>1. CASE GetSizeByName \/ TruncateByName \/ SetContent
    BY <1>1, ByNameWorks
  <1>2. CASE GetContent \/ GetContentBuffer
    BY <1>2, GetContentWorks
  <1>3. CASE ReadContent \/ ReadContentSize \/ ReadContentByName
    BY <1>3, ReadContentWorks
  <1>4. CASE Makedirs
    BY <1>4, MakedirsWorks
  <1>5. CASE FileEof \/ Fsetxattr \/ Setacl \/ Fstat
    BY <1>5, HandleCallWorks
  <1>6. CASE FileGetContent
    BY <1>6, FileGetContentWorks
  <1>7. CASE DeviceRead \/ DeviceWrite \/ DeviceErase
    BY <1>7, DeviceWorks
  <1>8. CASE Stat
    BY <1>8, StattingWorks DEF Stat
  <1>9. CASE Setxattr \/ Getxattr
    BY <1>9, AttributeWorks
  <1>10. CASE Fenumxattr
    BY <1>10, FenumxattrWorks
  <1>11. CASE Readdir("next")
    BY <1>11, ReaddirWorks
  <1>12. CASE Closing
    BY <1>12, ClosingWorks
  <1> QED
    BY <1>1, <1>2, <1>3, <1>4, <1>5, <1>6, <1>7, <1>8, <1>9, <1>10, <1>11, <1>12 DEF Step

-----------------------------------------------------------------------------
(* The types of the values, as an invariant. *)

\* What a File has is a descriptor or an error, and what the application has is a descriptor.
HandlesAre == mine \subseteq Fds /\ \A f \in Files : files[f] \in Int /\ (files[f] < 0 \/ files[f] \in Fds)

\* A Directory has a stream or none, and counts on from the greatest index so far.
IsCounting(r) ==
  /\ r.stream \in Streams \cup {0}
  /\ r.index \in Int /\ r.max \in Int /\ r.index <= r.max /\ -1 <= r.max
  /\ r.total \in Nat

Counting == \A d \in Dirs : IsCounting(dirs[d])

Values == Typed /\ HandlesAre /\ Counting

\* A call ends, or nothing is asked for, and the files are sound: so are the values of the call.
LEMMA DoneTyped ==
  ASSUME Typed, NEW o, Done(o), Sound(o.os)
  PROVE  Typed'
  BY DEF Typed, Done

\* A step of a call.
LEMMA StepKeepsValues ==
  ASSUME IInv, Values, Step
  PROVE  Values'
  <1>1. Works
    BY StepWorks DEF Values
  <1>2. IsCall(call')
    BY StepKeepsOwners DEF IInv, Phase
  <1>3. UNCHANGED <<files, mine, dirs>>
    BY DEF Step, objects
  <1> QED
    BY <1>1, <1>2, <1>3 DEF Works, Values, Typed, HandlesAre, Counting

\* A call that begins has the values of its request.
LEMMA BeginKeepsValues ==
  ASSUME IInv, Values, Begin
  PROVE  Values'
  <1>1. UNCHANGED <<os, files, mine, dirs>>
    BY DEF Begin, objects
  <1>2. PICK r \in Requests : /\ r.fn # "next"
                              /\ \/ \E h : call' = [r EXCEPT !.h = h]
                                 \/ \E h, b : call' = [r EXCEPT !.h = h, !.before = b]
                                 \/ \E b : call' = [r EXCEPT !.before = b]
    BY DEF Begin
  <1>3. /\ IsCall(r) /\ r.n \in Int /\ r.data \in Seq(Blocks) /\ r.got = <<>>
    BY CallBounds, WrappersAssumption
  <1>4. IsCall(call') /\ call'.fn = r.fn /\ call'.n = r.n /\ call'.data = r.data /\ call'.got = r.got
    BY <1>2, <1>3, ZenonT(60) DEF IsCall, NoCall
  <1>5. <<>> \in Seq(Blocks)
    OBVIOUS
  <1>6. CallData(call') /\ StatOk(call')
    BY <1>2, <1>3, <1>4, <1>5 DEF CallData, StatOk
  <1> QED
    BY <1>1, <1>4, <1>6 DEF Values, Typed, HandlesAre, Counting

\* No call.
LEMMA NoCallTyped ==
  /\ IsCall(NoCall) /\ CallData(NoCall) /\ StatOk(NoCall)
  /\ \A h, tag : LET c == [NoCall EXCEPT !.fn = "next", !.h = h, !.tag = tag]
                 IN  IsCall(c) /\ CallData(c) /\ StatOk(c)
  <1>1. IsCall(NoCall)
    BY CallBounds
  <1>2. NoCall.n = 0 /\ NoCall.data = <<>> /\ NoCall.got = <<>> /\ NoCall.fn = "none" /\ NoCall.at = "begin"
    BY DEF NoCall
  <1>3. <<>> \in Seq(Blocks) /\ 0 \in Int
    OBVIOUS
  <1>4. ASSUME NEW h, NEW tag, NEW c, c = [NoCall EXCEPT !.fn = "next", !.h = h, !.tag = tag]
        PROVE  IsCall(c) /\ CallData(c) /\ StatOk(c)
    <2>1. IsCall(c) /\ c.n = NoCall.n /\ c.data = NoCall.data /\ c.got = NoCall.got /\ c.at = NoCall.at
      BY <1>4 DEF IsCall, NoCall
    <2> QED
      BY <1>2, <1>3, <2>1 DEF CallData, StatOk
  <1>5. CallData(NoCall) /\ StatOk(NoCall)
    BY <1>2, <1>3 DEF CallData, StatOk
  <1> QED
    BY <1>1, <1>4, <1>5

\* An entry is counted.
LEMMA CountedIs ==
  ASSUME NEW r, IsDir(r), IsCounting(r), NEW stat, IsStat(stat)
  PROVE  IsCounting(Counted(r, stat))
  <1> DEFINE i == r.index + 1
             m == IF i > r.max THEN i ELSE r.max
             t == IF i > r.max THEN r.total + stat.size ELSE r.total
             c == Counted(r, stat)
  <1>1. c.stream = r.stream /\ c.index = i /\ c.max = m /\ c.total = t
    BY DEF IsDir, ClosedDir, Counted
  <1>2. r.index \in Int /\ r.max \in Int /\ r.index <= r.max /\ -1 <= r.max /\ r.total \in Nat /\ stat.size \in Nat
    BY DEF IsCounting, IsStat
  <1>3. i \in Int /\ m \in Int /\ i <= m /\ -1 <= m /\ t \in Nat
    BY <1>2
  <1> HIDE DEF i, m, t, c
  <1>4. c.stream \in Streams \cup {0}
    BY <1>1 DEF IsCounting
  <1>5. IsCounting(c)
    BY <1>1, <1>3, <1>4 DEF IsCounting
  <1> QED
    BY <1>5 DEF c

\* What next() has found is counted when it has returned.
LEMMA FinishKeepsValues ==
  ASSUME IInv, Values, Finish
  PROVE  Values'
  <1>1. /\ call.at = "return" /\ call' = NoCall /\ UNCHANGED <<os, files, mine>>
        /\ dirs' = IF call.fn = "next" /\ call.ret = FS_OK
                   THEN [dirs EXCEPT ![call.tag] = Counted(@, call.stat)] ELSE dirs
    BY DEF Finish
  <1>2. call.fn = "next" /\ call.ret = FS_OK => IsStat(call.stat)
    BY <1>1 DEF Values, Typed, StatOk
  <1>3. \A d \in Dirs : IsDir(dirs[d]) /\ IsCounting(dirs[d])
    BY DEF IInv, AreDirs, Values, Counting
  <1>4. IsStat(call.stat) => \A d \in Dirs : IsCounting(Counted(dirs[d], call.stat))
    BY <1>3, CountedIs
  <1>5. Counting'
    BY <1>1, <1>2, <1>3, <1>4 DEF IInv, AreDirs, Counting
  <1>6. Typed'
    BY <1>1, NoCallTyped DEF Values, Typed
  <1> QED
    BY <1>1, <1>5, <1>6 DEF Values, HandlesAre

\* Other programs.
LEMMA ForeignKeepsValues ==
  ASSUME IInv, Values, Foreign
  PROVE  Values'
  <1>1. UNCHANGED <<files, mine, dirs>> /\ call' = [call EXCEPT !.foreign = TRUE, !.before = <<>>]
    BY DEF Foreign, objects
  <1>2. Sound(os) /\ IsCall(call) /\ CallData(call) /\ StatOk(call)
    BY DEF Values, Typed
  <1>3. IsCall(call') /\ CallData(call') /\ StatOk(call')
    <2> DEFINE y == <<>>
               c == [call EXCEPT !.foreign = TRUE, !.before = y]
    <2>1. call' = c
      BY <1>1
    <2> HIDE DEF y
    <2>2. SameData(call, c)
      BY <1>2, SameChanges
    <2>3. c.at = call.at /\ c.ret = call.ret /\ c.stat = call.stat
      BY <1>2, ZenonT(60) DEF IsCall, NoCall
    <2> HIDE DEF c
    <2>4. IsCall(c) /\ CallData(c) /\ c.fn = call.fn
      BY <1>2, <2>2, SameDataKept
    <2>5. StatOk(c)
      BY <1>2, <2>3, <2>4 DEF StatOk
    <2> QED
      BY <2>1, <2>4, <2>5
  <1>4. PICK p \in Paths \ {<<>>} :
          LET n == os.names[p]
          IN  \/ Spare(os) # {} /\ os' = Make(os, p, "File")
              \/ \E o \in OsRemove(os, p) : os' = o.os
              \/ n # 0 /\ \E data \in Contents : os' = Store(os, n, data)
              \/ n # 0 /\ os' = [os EXCEPT !.nodes[n].writable = ~@]
              \/ n # 0 /\ \E t \in Tags \ DOMAIN AttrSize : os' = [os EXCEPT !.nodes[n].attrs[t] = OtherAttr]
    BY DEF Foreign
  <1> DEFINE n == os.names[p]
  <1>5. p \in Paths /\ n \in Nodes \cup {0}
    BY <1>2, <1>4 DEF Sound
  <1> HIDE DEF n
  <1>6. Spare(os) # {} /\ os' = Make(os, p, "File") => Sound(os')
    <2>1. Spare(os) # {} => Sound(Make(os, p, "File"))
      BY <1>2, <1>5, MakeSound
    <2> QED
      BY <2>1
  <1>7. (\E o \in OsRemove(os, p) : os' = o.os) => Sound(os')
    <2>1. \A o \in OsRemove(os, p) : Sound(o.os)
      BY <1>2, RemoveDoes
    <2> QED
      BY <2>1
  <1>8. ASSUME NEW data \in Contents, n # 0, os' = Store(os, n, data)
        PROVE  Sound(os')
    <2>1. IsContent(data) /\ n \in Nodes
      BY <1>5, <1>8, WrappersAssumption
    <2>2. Sound(Store(os, n, data))
      BY <1>2, <2>1, StoreChanges
    <2> QED
      BY <1>8, <2>2
  <1>9. ASSUME n # 0, os' = [os EXCEPT !.nodes[n].writable = ~@]
        PROVE  Sound(os')
    <2> DEFINE w == ~os.nodes[n].writable
    <2>1. os' = [os EXCEPT !.nodes[n].writable = w]
      BY <1>9
    <2> HIDE DEF w
    <2>2. Sound([os EXCEPT !.nodes[n].writable = w])
      BY <1>2, <1>5, <1>9, MarkedSound
    <2> QED
      BY <2>1, <2>2
  <1>10. ASSUME n # 0, NEW t, os' = [os EXCEPT !.nodes[n].attrs[t] = OtherAttr]
         PROVE  Sound(os')
    <2>1. Sound([os EXCEPT !.nodes[n].attrs[t] = OtherAttr])
      BY <1>2, <1>5, <1>10, MarkedSound
    <2> QED
      BY <1>10, <2>1
  <1>11. Sound(os')
    BY <1>4, <1>6, <1>7, <1>8, <1>9, <1>10 DEF n
  <1> QED
    BY <1>1, <1>3, <1>11 DEF Values, Typed, HandlesAre, Counting

\* Calls that are over at once and work on names or on a handle.
LEMMA SingleCallsKeepValues ==
  ASSUME IInv, Values, NEW h, Mount \/ MakeDirectory \/ RemovePath \/ RenamePath \/ Transfer(h)
  PROVE  Values'
  <1>1. UNCHANGED <<files, mine, dirs>>
    BY DEF Mount, MakeDirectory, RemovePath, RenamePath, Transfer, objects
  <1>2. Sound(os) /\ Typed
    BY DEF Values, Typed
  <1>3. ASSUME NEW o, Sound(o.os), Done(o)
        PROVE  Values'
    BY <1>1, <1>2, <1>3, DoneTyped DEF Values, HandlesAre, Counting
  <1>4. CASE Mount
    <2>1. PICK o \in HostMount : Done(o)
      BY <1>4 DEF Mount
    <2>2. Sound(o.os)
      BY <1>2, HostMountDoes
    <2> QED
      BY <1>3, <2>1, <2>2
  <1>5. CASE MakeDirectory
    BY <1>2, <1>3, <1>5, HostChangesSound DEF MakeDirectory
  <1>6. CASE RemovePath
    BY <1>2, <1>3, <1>6, HostChangesSound DEF RemovePath
  <1>7. CASE RenamePath
    BY <1>2, <1>3, <1>7, HostChangesSound DEF RenamePath
  <1>8. CASE Transfer(h)
    <2>1. \A n \in Offsets : n \in Int
      BY WrappersAssumption
    <2>2. \A data \in Contents : data \in Seq(Blocks)
      BY WrappersAssumption DEF IsContent
    <2>3. ASSUME NEW n \in Int, NEW o \in HostTruncate(os, h, n)
          PROVE  Sound(o.os)
      BY <1>2, <2>3, HostChangesSound, Zenon
    <2>4. CASE \E o \in HostRead(os, h, 1) : Done(o)
      <3>1. PICK o \in HostRead(os, h, 1) : Done(o)
        BY <2>4
      <3>2. 1 \in Int
        OBVIOUS
      <3>3. Sound(o.os)
        BY <1>2, <3>2, HostReadDoes
      <3> QED
        BY <1>3, <3>1, <3>3
    <2>5. CASE \E data \in Contents : \E o \in HostWrite(os, h, data) : Done(o)
      <3>1. PICK data \in Contents : \E o \in HostWrite(os, h, data) : Done(o)
        BY <2>5
      <3>2. PICK o \in HostWrite(os, h, data) : Done(o)
        BY <3>1
      <3>3. Sound(o.os)
        BY <1>2, <2>2, HostWriteDoes
      <3> QED
        BY <1>3, <3>2, <3>3
    <2>6. CASE \E n \in Offsets : \E o \in HostSeek(os, h, n, "Start") : Done(o)
      <3>1. PICK n \in Offsets : \E o \in HostSeek(os, h, n, "Start") : Done(o)
        BY <2>6
      <3>2. PICK o \in HostSeek(os, h, n, "Start") : Done(o)
        BY <3>1
      <3>3. Sound(o.os)
        BY <1>2, <2>1, <3>2, HostSeekForms, Zenon
      <3> QED
        BY <1>3, <3>2, <3>3
    <2>7. CASE \E n \in Offsets : \E o \in HostTruncate(os, h, n) : Done(o)
      BY <1>3, <2>1, <2>3, <2>7
    <2>8. CASE \E at \in HostSeek(os, h, 0, "Current") :
                 IF at.ret < 0 THEN Done(at) ELSE \E o \in HostTruncate(os, h, at.ret) : Done(o)
      <3>1. PICK at \in HostSeek(os, h, 0, "Current") :
              IF at.ret < 0 THEN Done(at) ELSE \E o \in HostTruncate(os, h, at.ret) : Done(o)
        BY <2>8
      <3>2. at.ret \in Int /\ Sound(at.os)
        BY <1>2, <3>1, HostSeekForms, Zenon
      <3> QED
        BY <1>3, <2>3, <3>1, <3>2, Zenon
    <2> QED
      BY <1>8, <2>4, <2>5, <2>6, <2>7, <2>8 DEF Transfer
  <1> QED
    BY <1>4, <1>5, <1>6, <1>7, <1>8

\* Descriptors are opened, closed and given away.
LEMMA FilesKeepValues ==
  ASSUME IInv, Values, \/ \E f \in Files : FileOpen(f) \/ FileClose(f) \/ FileRelease(f) \/ DeviceOpen(f)
                       \/ \E h \in Held : CloseMine(h)
                       \/ DeviceClose
  PROVE  Values'
  <1>1. Sound(os) /\ Typed /\ HandlesAre /\ Counting /\ AreFiles(files)
    BY DEF Values, Typed, IInv
  <1>2. ASSUME NEW o, Sound(o.os), Done(o), UNCHANGED dirs, HandlesAre'
        PROVE  Values'
    BY <1>1, <1>2, DoneTyped DEF Values, Counting
  <1>3. ASSUME NEW f \in Files, NEW x \in Int, x < 0 \/ x \in Fds, files' = [files EXCEPT ![f] = x], mine' \subseteq Fds
        PROVE  HandlesAre'
    BY <1>1, <1>3 DEF HandlesAre, AreFiles
  <1>4. -1 \in Int /\ -1 < 0
    OBVIOUS
  <1>5. ASSUME NEW f \in Files, FileOpen(f)
        PROVE  Values'
    <2>1. UNCHANGED <<mine, dirs>>
      BY <1>5 DEF FileOpen
    <2>2. PICK r \in Requests, flags \in FlagSets : \E closed \in HostClose(os, files[f]) :
            \E o \in HostOpen(closed.os, r.path, flags) : Done(o) /\ files' = [files EXCEPT ![f] = o.ret]
      BY <1>5 DEF FileOpen
    <2>3. PICK closed \in HostClose(os, files[f]) :
            \E o \in HostOpen(closed.os, r.path, flags) : Done(o) /\ files' = [files EXCEPT ![f] = o.ret]
      BY <2>2
    <2>4. PICK o \in HostOpen(closed.os, r.path, flags) : Done(o) /\ files' = [files EXCEPT ![f] = o.ret]
      BY <2>3
    <2>5. Sound(closed.os)
      BY <1>1, HostCloseDoes
    <2> DEFINE s == closed.os
    <2> HIDE DEF s
    <2>6. /\ o.ret \in Int
          /\ Fails(s, o) \/ OpensFile(s, o, ResolvePath(r.path), MapFlags(flags))
      BY <2>4, <2>5, HostOpenDoes DEF s
    <2>7. Sound(o.os) /\ (o.ret < 0 \/ o.ret \in Fds)
      BY <2>5, <2>6 DEF Fails, OpensFile, s
    <2>8. HandlesAre'
      BY <1>1, <1>3, <2>1, <2>4, <2>6, <2>7 DEF HandlesAre
    <2> QED
      BY <1>2, <2>1, <2>4, <2>7, <2>8
  <1>6. ASSUME NEW f \in Files, FileClose(f)
        PROVE  Values'
    <2>1. UNCHANGED <<mine, dirs>> /\ files' = [files EXCEPT ![f] = -1]
      BY <1>6 DEF FileClose
    <2>2. PICK o \in HostClose(os, files[f]) : Done(o)
      BY <1>6 DEF FileClose
    <2>3. Sound(o.os)
      BY <1>1, HostCloseDoes
    <2>4. HandlesAre'
      BY <1>1, <1>3, <1>4, <2>1 DEF HandlesAre
    <2> QED
      BY <1>2, <2>1, <2>2, <2>3, <2>4
  <1>7. ASSUME NEW f \in Files, FileRelease(f)
        PROVE  Values'
    <2>1. /\ UNCHANGED <<os, call, dirs>> /\ files' = [files EXCEPT ![f] = -1] /\ mine' = mine \cup {files[f]}
          /\ files[f] >= 0
      BY <1>7 DEF FileRelease, hostVars
    <2>2. files[f] \in Fds
      BY <1>1, <2>1 DEF HandlesAre
    <2>3. HandlesAre'
      BY <1>1, <1>3, <1>4, <2>1, <2>2 DEF HandlesAre
    <2> QED
      BY <1>1, <2>1, <2>3 DEF Values, Typed, Counting
  <1>8. ASSUME NEW f \in Files, DeviceOpen(f)
        PROVE  Values'
    <2>1. UNCHANGED <<mine, dirs>> /\ files' = [files EXCEPT ![f] = -1]
      BY <1>8 DEF DeviceOpen
    <2>2. PICK o \in SizeOf(os, files[f]) : Done(o)
      BY <1>8 DEF DeviceOpen
    <2>3. Sound(o.os)
      BY <1>1, SizeOfDoes
    <2>4. HandlesAre'
      BY <1>1, <1>3, <1>4, <2>1 DEF HandlesAre
    <2> QED
      BY <1>2, <2>1, <2>2, <2>3, <2>4
  <1>9. ASSUME NEW h, CloseMine(h)
        PROVE  Values'
    <2>1. UNCHANGED <<files, dirs>> /\ mine' = mine \ {h}
      BY <1>9 DEF CloseMine
    <2>2. PICK o \in HostClose(os, h) : Done(o)
      BY <1>9 DEF CloseMine
    <2>3. Sound(o.os)
      BY <1>1, HostCloseDoes
    <2>4. HandlesAre'
      BY <1>1, <2>1 DEF HandlesAre
    <2> QED
      BY <1>2, <2>1, <2>2, <2>3, <2>4
  <1>10. ASSUME DeviceClose
         PROVE  Values'
    <2>1. UNCHANGED <<files, mine, dirs>>
      BY <1>10 DEF DeviceClose
    <2>2. PICK o \in HostClose(os, device.h) : Done(o)
      BY <1>10 DEF DeviceClose
    <2>3. Sound(o.os)
      BY <1>1, HostCloseDoes
    <2>4. HandlesAre'
      BY <1>1, <2>1 DEF HandlesAre
    <2> QED
      BY <1>2, <2>1, <2>2, <2>3, <2>4
  <1> QED
    BY <1>5, <1>6, <1>7, <1>8, <1>9, <1>10

\* Directory::open(), close(), next() and rewind().
LEMMA DirsKeepValues ==
  ASSUME IInv, Values, NEW d \in Dirs, DirOpen(d) \/ DirClose(d) \/ DirNext(d) \/ DirRewind(d)
  PROVE  Values'
  <1>1. Sound(os) /\ Typed /\ HandlesAre /\ Counting /\ AreDirs(dirs) /\ StreamedOnce(OpenStreams(os), dirs)
    BY DEF Values, Typed, IInv
  <1>2. UNCHANGED <<files, mine>>
    BY DEF DirOpen, DirClose, DirNext, DirRewind, objects
  <1>3. ASSUME NEW o, Sound(o.os), Done(o), Counting'
        PROVE  Values'
    BY <1>1, <1>2, <1>3, DoneTyped DEF Values, HandlesAre
  <1>4. ASSUME NEW r, IsCounting(r), dirs' = [dirs EXCEPT ![d] = r]
        PROVE  Counting'
    BY <1>1, <1>4 DEF AreDirs, Counting
  <1>5. IsDir(dirs[d]) /\ IsCounting(dirs[d])
    BY <1>1 DEF AreDirs, Counting
  <1>6. ASSUME DirOpen(d)
        PROVE  Values'
    <2>1. PICK r \in Requests : \E o \in HostOpendir(os, r.path) :
            IF o.ret < 0 THEN Done(o) /\ UNCHANGED dirs
            ELSE /\ IF dirs[d].stream = 0 THEN Done(o)
                    ELSE \E closed \in HostClosedir(o.os, dirs[d].stream) : Done(closed)
                 /\ dirs' = [dirs EXCEPT ![d].stream = o.ret, ![d].path = ResolvePath(r.path),
                                         ![d].listed = <<>>, ![d].reused = (dirs[d].max >= 0)]
      BY <1>6 DEF DirOpen
    <2>2. PICK o \in HostOpendir(os, r.path) :
            IF o.ret < 0 THEN Done(o) /\ UNCHANGED dirs
            ELSE /\ IF dirs[d].stream = 0 THEN Done(o)
                    ELSE \E closed \in HostClosedir(o.os, dirs[d].stream) : Done(closed)
                 /\ dirs' = [dirs EXCEPT ![d].stream = o.ret, ![d].path = ResolvePath(r.path),
                                         ![d].listed = <<>>, ![d].reused = (dirs[d].max >= 0)]
      BY <2>1
    <2>3. Sound(o.os) /\ GivesStream(os, o)
      BY <1>1, HostStreamsDo
    <2>4. CASE o.ret < 0
      <3>1. Counting'
        BY <1>1, <2>2, <2>4 DEF Counting
      <3> QED
        BY <1>3, <2>2, <2>3, <2>4, <3>1
    <2>5. CASE ~(o.ret < 0)
      <3>1. o.ret \in Streams
        BY <2>3, <2>5 DEF GivesStream
      <3> DEFINE path == ResolvePath(r.path)
                 reused == (dirs[d].max >= 0)
                 x == dirs[d]
                 y == [x EXCEPT !.stream = o.ret, !.path = path, !.listed = <<>>, !.reused = reused]
      <3>2. dirs' = [dirs EXCEPT ![d].stream = o.ret, ![d].path = path, ![d].listed = <<>>, ![d].reused = reused]
        BY <2>2, <2>5
      <3> HIDE DEF path, reused
      <3>3. dirs' = [dirs EXCEPT ![d] = y]
        BY <3>2
      <3> HIDE DEF x
      <3>4. IsDir(x) /\ IsCounting(x)
        BY <1>5 DEF x
      <3>5. y.stream = o.ret /\ y.index = x.index /\ y.max = x.max /\ y.total = x.total
        BY <3>4 DEF IsDir, ClosedDir
      <3> HIDE DEF y
      <3>6. IsCounting(y)
        BY <3>1, <3>4, <3>5 DEF IsCounting
      <3>7. Counting'
        BY <1>4, <3>3, <3>6
      <3>8. ASSUME NEW closed \in HostClosedir(o.os, dirs[d].stream), Done(closed)
            PROVE  Values'
        <4>1. Sound(closed.os)
          BY <2>3, <3>8, HostStreamsDo
        <4> QED
          BY <1>3, <3>7, <3>8, <4>1
      <3> QED
        BY <1>3, <2>2, <2>3, <2>5, <3>7, <3>8
    <2> QED
      BY <2>4, <2>5
  <1>7. ASSUME DirClose(d)
        PROVE  Values'
    <2>1. PICK o \in HostClosedir(os, dirs[d].stream) : Done(o)
      BY <1>7 DEF DirClose
    <2>2. Sound(o.os)
      BY <1>1, HostStreamsDo
    <2> DEFINE x == dirs[d]
               y == [x EXCEPT !.stream = 0]
    <2>3. dirs' = [dirs EXCEPT ![d] = y]
      BY <1>7 DEF DirClose
    <2> HIDE DEF x
    <2>4. IsDir(x) /\ IsCounting(x)
      BY <1>5 DEF x
    <2>5. y.stream = 0 /\ y.index = x.index /\ y.max = x.max /\ y.total = x.total
      BY <2>4 DEF IsDir, ClosedDir
    <2> HIDE DEF y
    <2>6. IsCounting(y)
      BY <2>4, <2>5 DEF IsCounting
    <2> QED
      BY <1>3, <1>4, <2>1, <2>2, <2>3, <2>6
  <1>8. ASSUME DirRewind(d)
        PROVE  Values'
    <2>1. PICK o \in HostRewinddir(os, dirs[d].stream) : Done(o)
      BY <1>8 DEF DirRewind
    <2>2. dirs[d].stream \in OpenStreams(os) \/ dirs[d].stream \notin Streams
      BY <1>1 DEF StreamedOnce
    <2>3. Sound(o.os)
      BY <1>1, <2>2, HostStreamsDo
    <2> DEFINE x == dirs[d]
               y == [x EXCEPT !.index = -1, !.listed = <<>>]
    <2>4. dirs' = [dirs EXCEPT ![d].index = -1, ![d].listed = <<>>]
      BY <1>8 DEF DirRewind
    <2>5. dirs' = [dirs EXCEPT ![d] = y]
      BY <2>4
    <2> HIDE DEF x
    <2>6. IsDir(x) /\ IsCounting(x)
      BY <1>5 DEF x
    <2>7. y.stream = x.stream /\ y.index = -1 /\ y.max = x.max /\ y.total = x.total
      BY <2>6 DEF IsDir, ClosedDir
    <2> HIDE DEF y
    <2>8. IsCounting(y)
      BY <2>6, <2>7 DEF IsCounting
    <2> QED
      BY <1>3, <1>4, <2>1, <2>3, <2>5, <2>8
  <1>9. ASSUME DirNext(d)
        PROVE  Values'
    <2>1. UNCHANGED <<os, dirs>> /\ call' = [NoCall EXCEPT !.fn = "next", !.h = dirs[d].stream, !.tag = d]
      BY <1>9 DEF DirNext, objects
    <2>2. IsCall(call') /\ CallData(call') /\ StatOk(call')
      BY <2>1, NoCallTyped
    <2> QED
      BY <1>1, <1>2, <2>1, <2>2 DEF Values, Typed, HandlesAre, Counting
  <1> QED
    BY <1>6, <1>7, <1>8, <1>9

\* The files that are there at first.
LEMMA InitSound ==
  ASSUME Init
  PROVE  Sound(os)
  <1>1. PICK scope \in Scopes :
          os = [names |-> [p \in Paths |-> IF p \in DOMAIN scope.tree THEN scope.tree[p].node ELSE 0],
                nodes |-> [n \in Nodes |->
                  IF \E p \in DOMAIN scope.tree : scope.tree[p].node = n
                  THEN [New((CHOOSE x \in Range(scope.tree) : x.node = n).kind)
                          EXCEPT !.data = (CHOOSE x \in Range(scope.tree) : x.node = n).data]
                  ELSE Free],
                fds |-> [d \in Fds |-> ClosedFd],
                streams |-> [d \in Streams |-> NoStream]]
    BY DEF Init
  <1> DEFINE tree == scope.tree
             What(n) == CHOOSE x \in Range(tree) : x.node = n
             Used(n) == \E p \in DOMAIN tree : tree[p].node = n
  <1>2. \A p \in DOMAIN tree : /\ tree[p].node \in Nodes /\ tree[p].kind \in {"File", "Directory"}
                               /\ IsContent(tree[p].data)
    BY WrappersAssumption
  <1> HIDE DEF tree
  <1>3. ASSUME NEW n \in Nodes, Used(n)
        PROVE  What(n).kind \in {"File", "Directory"} /\ IsContent(What(n).data)
    <2>1. \E x \in Range(tree) : x.node = n
      BY <1>3 DEF Range
    <2>2. What(n) \in Range(tree)
      BY <2>1
    <2>3. PICK p \in DOMAIN tree : What(n) = tree[p]
      BY <2>2 DEF Range
    <2> QED
      BY <1>2, <2>3
  <1>4. IsNode(Free) /\ Free.kind = "Free"
    <2>1. <<>> \in Seq(Blocks) /\ Len(<<>>) = 0
      OBVIOUS
    <2>2. IsContent(<<>>)
      BY <2>1, HostAssumption DEF IsContent
    <2> QED
      BY <2>2 DEF Free, IsNode
  <1>5. ASSUME NEW kind \in {"File", "Directory"}, NEW data, IsContent(data)
        PROVE  IsNode([New(kind) EXCEPT !.data = data]) /\ [New(kind) EXCEPT !.data = data].kind = kind
    <2> DEFINE r == New(kind)
               x == [r EXCEPT !.data = data]
    <2>1. /\ r = [kind |-> r.kind, data |-> r.data, writable |-> r.writable, mtime |-> r.mtime, attrs |-> r.attrs]
          /\ r.kind = kind
      <3> DEFINE f == Free
      <3>1. f = [kind |-> f.kind, data |-> f.data, writable |-> f.writable, mtime |-> f.mtime, attrs |-> f.attrs]
        BY DEF Free
      <3>2. r = [f EXCEPT !.kind = kind]
        BY DEF New
      <3> HIDE DEF f, r
      <3> QED
        BY <3>1, <3>2
    <2> HIDE DEF r
    <2>2. /\ x = [kind |-> x.kind, data |-> x.data, writable |-> x.writable, mtime |-> x.mtime, attrs |-> x.attrs]
          /\ x.kind = kind /\ x.data = data
      BY <2>1
    <2> HIDE DEF x
    <2>3. IsNode(x) /\ x.kind = kind
      BY <1>5, <2>2 DEF IsNode
    <2> QED
      BY <2>3 DEF x, r
  <1>6. /\ os = [names |-> os.names, nodes |-> os.nodes, fds |-> os.fds, streams |-> os.streams]
        /\ os.names = [p \in Paths |-> IF p \in DOMAIN tree THEN tree[p].node ELSE 0]
        /\ os.nodes = [n \in Nodes |-> IF Used(n) THEN [New(What(n).kind) EXCEPT !.data = What(n).data] ELSE Free]
        /\ os.fds = [d \in Fds |-> ClosedFd]
    BY <1>1 DEF tree
  <1> HIDE DEF What
  <1>7. ASSUME NEW n \in Nodes
        PROVE  IsNode(os.nodes[n]) /\ (Used(n) => os.nodes[n].kind # "Free")
    <2>1. CASE Used(n)
      <3> DEFINE kind == What(n).kind
                 data == What(n).data
      <3>1. kind \in {"File", "Directory"} /\ IsContent(data)
        BY <1>3, <2>1
      <3>2. os.nodes[n] = [New(kind) EXCEPT !.data = data]
        BY <1>6, <2>1
      <3> HIDE DEF kind, data
      <3>3. IsNode(os.nodes[n]) /\ os.nodes[n].kind = kind
        BY <1>5, <3>1, <3>2
      <3> QED
        BY <3>1, <3>3
    <2>2. CASE ~Used(n)
      <3>1. os.nodes[n] = Free
        BY <1>6, <2>2
      <3> QED
        BY <1>4, <2>2, <3>1
    <2> QED
      BY <2>1, <2>2
  <1>8. os.nodes = [n \in Nodes |-> os.nodes[n]]
    BY <1>6
  <1>9. os.names \in [Paths -> Nodes \cup {0}]
    BY <1>2, <1>6
  <1>10. ASSUME NEW p \in Paths, os.names[p] # 0
         PROVE  There(os, os.names[p])
    <2>1. p \in DOMAIN tree /\ os.names[p] = tree[p].node
      BY <1>6, <1>10
    <2>2. os.names[p] \in Nodes /\ Used(os.names[p])
      BY <1>2, <2>1
    <2> QED
      BY <1>7, <2>2 DEF There
  <1>11. OpenFds(os) = {}
    BY <1>6 DEF OpenFds
  <1>12. Host(os)
    BY InitOwners DEF IInv
  <1> QED
    BY <1>7, <1>8, <1>9, <1>10, <1>11, <1>12 DEF Sound

\* At first nothing is asked for, and nothing was counted.
LEMMA InitValues ==
  ASSUME Init
  PROVE  Values
  <1>1. /\ call = NoCall /\ files = [f \in Files |-> -1] /\ mine = {} /\ dirs = [d \in Dirs |-> ClosedDir]
    BY DEF Init
  <1>2. IsCounting(ClosedDir)
    BY DEF IsCounting, ClosedDir
  <1>3. Counting
    BY <1>1, <1>2 DEF Counting
  <1>4. HandlesAre
    BY <1>1 DEF HandlesAre
  <1> QED
    BY <1>1, <1>3, <1>4, InitSound, NoCallTyped DEF Values, Typed

\* Every step keeps the types of the values.
LEMMA NextKeepsValues ==
  ASSUME IInv, Values, [Next]_vars
  PROVE  Values'
  <1>1. CASE Step \/ Begin \/ Finish \/ Foreign
    BY <1>1, StepKeepsValues, BeginKeepsValues, FinishKeepsValues, ForeignKeepsValues
  <1>2. CASE Mount \/ MakeDirectory \/ RemovePath \/ RenamePath \/ \E h \in Held : Transfer(h)
    BY <1>2, SingleCallsKeepValues
  <1>3. CASE \/ \E f \in Files : FileOpen(f) \/ FileClose(f) \/ FileRelease(f) \/ DeviceOpen(f)
             \/ \E h \in Held : CloseMine(h)
             \/ DeviceClose
    BY <1>3, FilesKeepValues
  <1>4. CASE \E d \in Dirs : DirOpen(d) \/ DirClose(d) \/ DirNext(d) \/ DirRewind(d)
    BY <1>4, DirsKeepValues
  <1>5. CASE UNCHANGED vars
    <2>1. UNCHANGED <<os, call, files, mine, dirs>>
      BY <1>5 DEF vars, hostVars
    <2> QED
      BY <2>1 DEF Values, Typed, HandlesAre, Counting
  <1> QED
    BY <1>1, <1>2, <1>3, <1>4, <1>5 DEF Next

\* What has these types has those of TypeOK.
LEMMA ValuesTyped ==
  ASSUME Values
  PROVE  TypeOK
  <1>1. Sound(os)
    BY DEF Values, Typed
  <1>2. \A p \in Paths : os.names[p] # 0 => os.nodes[os.names[p]].kind # "Free"
    BY <1>1 DEF Sound, There
  <1>3. \A d \in Fds : os.fds[d] # ClosedFd => os.nodes[os.fds[d].node].kind # "Free" /\ os.fds[d].pos \in Nat
    BY <1>1 DEF Sound, There, OpenFds
  <1>4. \A n \in Nodes : os.nodes[n].kind \in {"Free", "File", "Directory"} /\ Len(os.nodes[n].data) <= MaxBlocks
    BY <1>1 DEF Sound, IsNode, IsContent
  <1>5. \A d \in Dirs : dirs[d].stream \in Streams \cup {0} /\ dirs[d].index <= dirs[d].max /\ dirs[d].total \in Nat
    BY DEF Values, Counting, IsCounting
  <1> QED
    BY <1>2, <1>3, <1>4, <1>5 DEF TypeOK, Values, HandlesAre

\* Values have the types of the code: a handle is a descriptor or an error, what leads to a
\* file leads to one that exists, and the counts of a Directory are in order.
THEOREM ValuesAreTyped == Spec => []TypeOK
  <1>1. Init => IInv /\ Values
    BY InitOwners, InitValues
  <1>2. IInv /\ Values /\ [Next]_vars => IInv' /\ Values'
    BY NextKeepsOwners, NextKeepsValues
  <1>3. Values => TypeOK
    BY ValuesTyped
  <1> QED
    BY <1>1, <1>2, <1>3, PTL DEF Spec

\* The calls that ask for something of an open file at its handle, at their first step.
LEMMA FirstStepOfQuery ==
  ASSUME Step, call.at = "begin", call.fn \in {"fileGetContent", "eof", "fstat", "fenumxattr"}
  PROVE  FileGetContent \/ FileEof \/ Fstat \/ Fenumxattr
  <1>1. ~GetSizeByName /\ ~TruncateByName /\ ~SetContent /\ ~GetContent /\ ~GetContentBuffer
    BY DEF GetSizeByName, TruncateByName, SetContent, GetContent, GetContentBuffer, Opening, At
  <1>2. ~ReadContent /\ ~ReadContentSize /\ ~ReadContentByName /\ ~Makedirs
    BY DEF ReadContent, ReadContentSize, ReadContentByName, Makedirs, Reading, At
  <1>3. ~Fsetxattr /\ ~Setacl /\ ~DeviceRead /\ ~DeviceWrite /\ ~DeviceErase
    BY DEF Fsetxattr, Setacl, DeviceRead, DeviceWrite, DeviceErase, At
  <1>4. ~Stat /\ ~Readdir("next") /\ ~Closing
    BY DEF Stat, Statting, Readdir, Closing, At
  <1>5. ~Setxattr /\ ~Getxattr
    BY DEF Setxattr, Getxattr, Opening, At
  <1> QED
    BY <1>1, <1>2, <1>3, <1>4, <1>5, Zenon DEF Step

\* That step leaves the handle as it is.
LEMMA QueryKeepsHandle ==
  ASSUME IInv, Values, Step, call.at = "begin", Opened(os, call.h), os.fds[call.h].pos < OffsetRange,
         call.fn \in {"fileGetContent", "eof", "fstat", "fenumxattr"}
  PROVE  os'.fds[call.h] = os.fds[call.h]
  <1>1. Sound(os)
    BY DEF Values, Typed
  <1>2. mounted
    <2>1. call.h \in OpenFds(os)
      BY <1>1, SoundFacts
    <2> QED
      BY <2>1 DEF IInv, NothingOpen
  <1>3. CASE FileGetContent
    <2>1. PICK o \in SizeOf(os, call.h) : Take(o, "read", [call EXCEPT !.n = o.ret])
      BY <1>3 DEF FileGetContent, At
    <2>2. o.os.fds[call.h] = os.fds[call.h]
      BY <1>1, <1>2, SizeOfDoes
    <2> QED
      BY <2>1, <2>2 DEF Take
  <1>4. CASE FileEof
    BY <1>4 DEF FileEof, Return, Take, Out
  <1>5. CASE Fstat
    BY <1>5, HostFstatDoes DEF Fstat, Take
  <1>6. CASE Fenumxattr
    <2>1. mounted /\ \E go \in BOOLEAN :
               Take(Out(os, 0), IF go THEN "list" ELSE "return",
                    [call EXCEPT !.got = <<"ModifiedTime">>, !.data = TagOrder, !.ret = 1])
      BY <1>2, <1>6 DEF Fenumxattr, At
    <2> QED
      BY <2>1 DEF Take, Out
  <1> QED
    BY <1>3, <1>4, <1>5, <1>6, FirstStepOfQuery

\* A call that asks for something changes no file that has a name, and moves the cursor of
\* its own handle only; one that asks for the size of an open file, its end, information or
\* attributes leaves that as it was (File::getContent, eof, stat, enumAttributes, and the
\* calls by name).
THEOREM QueriesLeaveFiles == Spec => QueriesChangeNothing
  <1>1. Init => IInv /\ Values
    BY InitOwners, InitValues
  <1>2. IInv /\ Values /\ [Next]_vars => IInv' /\ Values'
    BY NextKeepsOwners, NextKeepsValues
  <1>3. IInv /\ Values =>
          [ Step /\ call.fn \in {"getSize", "getContent", "getContentBuffer", "readContent", "readContentSize",
                                  "readContentByName", "fileGetContent", "eof", "fstat", "stat", "getxattr",
                                  "fenumxattr", "next", "deviceRead"} =>
              /\ os'.names = os.names
              /\ \A p \in Paths : os.names[p] # 0 => os'.nodes[os.names[p]] = os.nodes[os.names[p]]
              /\ \A h \in Fds \ {call.h, call.fd, call'.fd} : os'.fds[h] = os.fds[h]
              /\ call.at = "begin" /\ Opened(os, call.h) /\ os.fds[call.h].pos < OffsetRange
                   /\ call.fn \in {"fileGetContent", "eof", "fstat", "fenumxattr"} =>
                   os'.fds[call.h] = os.fds[call.h] ]_vars
    <2>1. ASSUME IInv, Values, Step, call.fn \in Asking
          PROVE  /\ Leaves(os, os', {call.h, call.fd, call'.fd})
                 /\ call.at = "begin" /\ Opened(os, call.h) /\ os.fds[call.h].pos < OffsetRange
                      /\ call.fn \in {"fileGetContent", "eof", "fstat", "fenumxattr"} =>
                      os'.fds[call.h] = os.fds[call.h]
      <3>1. Works
        BY <2>1, StepWorks DEF Values
      <3> QED
        BY <2>1, <3>1, QueryKeepsHandle DEF Works, Quiet
    <2> QED
      BY <2>1 DEF Leaves, Asking
  <1> QED
    BY <1>1, <1>2, <1>3, PTL DEF Spec, QueriesChangeNothing

=============================================================================
