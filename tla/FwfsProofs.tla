----------------------------- MODULE FwfsProofs -----------------------------
(***************************************************************************)
(* Proofs about Fwfs, for every image and every value of the parameters.   *)
(***************************************************************************)
EXTENDS Fwfs, TLAPS, SequenceTheorems, WellFoundedInduction

\* What an entry of a child table carries, by its kind.
LEMMA EntryType ==
  ASSUME NEW o \in Objects, NEW i \in 1..Len(Table(o))
  PROVE  /\ Table(o)[i] \in Entry
         /\ Table(o)[i].kind = "data" => Table(o)[i].off \in Nat /\ Table(o)[i].len \in Nat
  <1>1. Table(o)[i] \in Entry
    BY ImageAssumption DEF Table
  <1> QED
    BY <1>1 DEF Entry

\* A child table has a length.
LEMMA TableLength ==
  ASSUME NEW o \in Objects
  PROVE  Len(Table(o)) \in Nat
  BY ImageAssumption DEF Table

\* A call that ends at once changes nothing but its result.
LEMMA FailFrame ==
  ASSUME NEW err, Fail(err)
  PROVE  UNCHANGED <<mounted, fds, volumes, dirs, call, live, inner, held, listed>>
  BY DEF Fail, outside, history

\* Unsigned subtraction gives a natural number.
LEMMA MinusType ==
  ASSUME NEW a \in Int, NEW b \in Int
  PROVE  Minus(a, b) \in Nat
  BY ParametersAssumption DEF Minus

\* Joining the bytes of one more data object.
LEMMA BytesType ==
  ASSUME NEW s \in Seq(Nat), NEW off \in Nat, NEW n \in Nat
  PROVE  s \o Bytes(off, n) \in Seq(Nat)
  <1>1. Bytes(off, n) \in Seq(Nat)
    BY DEF Bytes
  <1> QED
    BY <1>1

-----------------------------------------------------------------------------
(***************************************************************************)
(* Type correctness, one lemma per call that changes the state.            *)
(***************************************************************************)
LEMMA InitType == Init => TypeOK
  <1> SUFFICES ASSUME Init PROVE TypeOK
    OBVIOUS
  <1>1. call.kind = "idle"
    BY DEF Init, Idle
  <1>2. fds \in [Slots -> {Free}] /\ dirs \in [DirIds -> {Free}]
        /\ volumes \in [Volumes -> {NoFs}] /\ inner \in [Mounted -> SUBSET Tokens]
    BY DEF Init
  <1> QED
    BY <1>1, <1>2 DEF Init, TypeOK

\* setVolume() keeps the volumes and what is known of their file systems well typed.
LEMMA SetVolumeType ==
  ASSUME TypeOK, NEW i \in 0..MaxVolumes, NEW f \in Mounted \cup {NoFs, Self}, SetVolume(i, f),
         call.kind = "idle"
  PROVE  TypeOK'
  <1>1. CASE i \notin Volumes \/ f = Self
    BY <1>1, FailFrame DEF SetVolume, TypeOK
  <1>2. CASE ~(i \notin Volumes \/ f = Self)
    BY <1>2 DEF SetVolume, TypeOK, history
  <1> QED BY <1>1, <1>2

\* A descriptor that open() fills in, and the handle it returns, are well typed.
LEMMA OpenedType ==
  ASSUME TypeOK, call.kind = "idle", NEW s \in Slots, NEW desc \in FileDescs \cup LinkDescs, Opened(s, desc),
         live' \subseteq Mounted, inner' \in [Mounted -> SUBSET Tokens]
  PROVE  TypeOK'
  <1>1. HandleMin + s \in Handles
    BY ParametersAssumption DEF Slots, Handles, HandleMax
  <1> QED
    BY <1>1 DEF Opened, TypeOK

\* A handle opened behind a mount point is one of a file system that is alive.
LEMMA InnerOpenType ==
  ASSUME TypeOK, NEW f, NEW t, InnerOpen(f, t)
  PROVE  live' \subseteq Mounted /\ inner' \in [Mounted -> SUBSET Tokens]
         /\ f \in Mounted /\ t \in Tokens
  BY DEF InnerOpen, TypeOK

\* Closing a handle behind a mount point keeps the table of its open handles well typed.
LEMMA InnerCloseType ==
  ASSUME TypeOK, NEW f, NEW t, InnerClose(f, t)
  PROVE  live' \subseteq Mounted /\ inner' \in [Mounted -> SUBSET Tokens]
  BY DEF InnerClose, TypeOK

\* A descriptor that open() gives back is free, and no read() was using it.
LEMMA OpenResetType ==
  ASSUME TypeOK, call.kind = "idle", NEW s \in Slots, NEW err, OpenReset(s, err)
  PROVE  TypeOK'
  BY DEF OpenReset, TypeOK, outside, history, Free

\* open() keeps the state well typed.
LEMMA OpenType ==
  ASSUME TypeOK, call.kind = "idle", NEW path, NEW flags, Open(path, flags)
  PROVE  TypeOK'
  <1>1. CASE BadPath(path)
    BY <1>1, FailFrame DEF BadPath, TypeOK
  <1>2. ASSUME NEW err, Fail(err) PROVE TypeOK'
    BY <1>2, FailFrame DEF TypeOK
  <1>3. ASSUME NEW s \in Slots, NEW o \in Objects, OpenLink(s, o)
        PROVE  TypeOK'
    <2>1. CASE OpenReset(s, ResolveError(o)) \/ OpenReset(s, "InnerError")
      BY <2>1, OpenResetType
    <2>2. ASSUME NEW t \in Tokens, InnerOpen(ResolvedFs(o), t),
                 Opened(s, LinkDesc(ResolvedFs(o), t))
          PROVE  TypeOK'
      <3>1. LinkDesc(ResolvedFs(o), t) \in LinkDescs
        BY <2>2, InnerOpenType DEF LinkDesc, LinkDescs
      <3> QED BY <3>1, <2>2, InnerOpenType, OpenedType
    <2> QED BY <1>3, <2>1, <2>2 DEF OpenLink
  <1>4. ASSUME NEW s \in Slots, NEW o \in Objects, OpenObject(s, o, flags)
        PROVE  TypeOK'
    <2>1. CASE OpenReset(s, "ReadOnly")
      BY <2>1, OpenResetType
    <2>2. ASSUME NEW size \in 0..MediaSize, Opened(s, FileDesc(o, size, 0)), UNCHANGED outside
          PROVE  TypeOK'
      <3>1. FileDesc(o, size, 0) \in FileDescs
        BY <2>2, ImageAssumption DEF FileDesc, FileDescs
      <3>2. live' \subseteq Mounted /\ inner' \in [Mounted -> SUBSET Tokens]
        BY <2>2 DEF TypeOK, outside
      <3> QED BY <3>1, <3>2, <2>2, OpenedType
    <2> QED BY <1>4, <2>1, <2>2 DEF OpenObject
  <1> QED BY <1>1, <1>2, <1>3, <1>4 DEF Open

\* close() keeps the state well typed.
LEMMA CloseType ==
  ASSUME TypeOK, call.kind = "idle", NEW h \in AnyHandle, Close(h)
  PROVE  TypeOK'
  <1>1. CASE BadHandle(h)
    BY <1>1, FailFrame DEF BadHandle, TypeOK
  <1>2. ASSUME NEW s \in Slots, fds' = [fds EXCEPT ![s] = Free], held' = held \ {h},
               live' \subseteq Mounted, inner' \in [Mounted -> SUBSET Tokens],
               UNCHANGED <<mounted, volumes, dirs, call, listed>>
        PROVE  TypeOK'
    BY <1>2 DEF TypeOK, Free
  <1>3. ASSUME NEW s \in Slots, InnerClose(fds[s].fs, fds[s].token)
        PROVE  live' \subseteq Mounted /\ inner' \in [Mounted -> SUBSET Tokens]
    BY <1>3, InnerCloseType
  <1>4. ASSUME UNCHANGED outside
        PROVE  live' \subseteq Mounted /\ inner' \in [Mounted -> SUBSET Tokens]
    BY <1>4 DEF outside, TypeOK
  <1> QED BY <1>1, <1>2, <1>3, <1>4 DEF Close

\* A read() begins on a descriptor of a file.
LEMMA ReadType ==
  ASSUME TypeOK, call.kind = "idle", NEW h \in AnyHandle, NEW n \in Sizes, Read(h, n)
  PROVE  TypeOK'
  <1>1. CASE BadHandle(h) \/ PassedOn(h)
    BY <1>1, FailFrame DEF BadHandle, PassedOn, TypeOK
  <1>2. ASSUME NEW s \in Slots, Uses(s, h), fds[s].kind # "link",
               call' = [kind |-> "read", slot |-> s, size |-> n,
                        child |-> 1, start |-> 0, bytes |-> <<>>],
               UNCHANGED <<mounted, fds, volumes, dirs, ret, outside, history>>
        PROVE  TypeOK'
    <2>1. n \in Nat
      BY ParametersAssumption
    <2>2. call' \in Calls
      BY <1>2, <2>1 DEF Calls
    <2>3. h \in Int /\ Allocated(s)
      BY <1>2, ParametersAssumption DEF Uses, HandleError, AnyHandle, HandleMax, Slots
    <2>4. fds[s].kind = "file"
      BY <1>2, <2>3 DEF TypeOK, Allocated, FileDescs, LinkDescs, Free
    <2> QED BY <1>2, <2>2, <2>4 DEF TypeOK, outside, history, Calls
  <1> QED BY <1>1, <1>2 DEF Read

\* lseek() leaves the cursor a natural number.
LEMMA SeekType ==
  ASSUME TypeOK, call.kind = "idle", NEW h \in AnyHandle, NEW origin, NEW offset \in Int,
         Seek(h, origin, offset)
  PROVE  TypeOK'
  <1>1. CASE BadHandle(h) \/ PassedOn(h)
    BY <1>1, FailFrame DEF BadHandle, PassedOn, TypeOK
  <1>2. ASSUME NEW err, Fail(err) PROVE TypeOK'
    BY <1>2, FailFrame DEF TypeOK
  <1>3. ASSUME NEW s \in Slots, Uses(s, h), fds[s].kind # "link",
               NEW to \in 0..fds[s].size, fds' = [fds EXCEPT ![s].cursor = to],
               UNCHANGED <<mounted, volumes, dirs, call, outside, history>>
        PROVE  TypeOK'
    <2>1. Allocated(s)
      BY <1>3, ParametersAssumption DEF Uses, HandleError, AnyHandle, HandleMax, Slots
    <2>2. fds[s] \in FileDescs
      BY <1>3, <2>1 DEF TypeOK, Allocated, FileDescs, LinkDescs, Free
    <2>3. to \in Nat
      BY <1>3, <2>2 DEF FileDescs
    <2>4. [fds[s] EXCEPT !.cursor = to] \in FileDescs
      BY <2>2, <2>3 DEF FileDescs
    <2> QED BY <1>3, <2>4 DEF TypeOK, outside, history
  <1> QED BY <1>1, <1>2, <1>3 DEF Seek

\* opendir() keeps the state well typed.
LEMMA OpendirType ==
  ASSUME TypeOK, call.kind = "idle", NEW path, Opendir(path)
  PROVE  TypeOK'
  <1>1. CASE BadPath(path)
    BY <1>1, FailFrame DEF BadPath, TypeOK
  <1>2. ASSUME NEW err, Fail(err) PROVE TypeOK'
    BY <1>2, FailFrame DEF TypeOK
  <1>3. ASSUME NEW d \in DirIds, NEW desc \in DirDescs \cup LinkDescs,
               dirs' = [dirs EXCEPT ![d] = desc],
               UNCHANGED <<mounted, fds, volumes, call, held>>,
               live' \subseteq Mounted, inner' \in [Mounted -> SUBSET Tokens]
        PROVE  TypeOK'
    BY <1>3 DEF TypeOK
  <1>4. ASSUME NEW o \in Objects PROVE DirDesc(o, 1) \in DirDescs
    BY DEF DirDesc, DirDescs
  <1>5. ASSUME NEW o \in Objects, NEW t \in Tokens, InnerOpen(ResolvedFs(o), t)
        PROVE  /\ LinkDesc(ResolvedFs(o), t) \in LinkDescs
               /\ live' \subseteq Mounted /\ inner' \in [Mounted -> SUBSET Tokens]
    BY <1>5, InnerOpenType DEF LinkDesc, LinkDescs
  <1>6. ASSUME UNCHANGED outside
        PROVE  live' \subseteq Mounted /\ inner' \in [Mounted -> SUBSET Tokens]
    BY <1>6 DEF outside, TypeOK
  <1> QED BY <1>1, <1>2, <1>3, <1>4, <1>5, <1>6 DEF Opendir

\* readdir() leaves the place in the child table a natural number.
LEMMA ReaddirType ==
  ASSUME TypeOK, call.kind = "idle", NEW d \in DirIds, Readdir(d)
  PROVE  TypeOK'
  <1>1. ASSUME NEW err, Fail(err) PROVE TypeOK'
    BY <1>1, FailFrame DEF TypeOK
  <1>2. ASSUME dirs[d].kind = "dir", NEW i \in Nat,
               dirs' = [dirs EXCEPT ![d].child = i],
               UNCHANGED <<mounted, fds, volumes, call, outside, held>>
        PROVE  TypeOK'
    <2>1. dirs[d] \in DirDescs
      BY <1>2 DEF TypeOK, DirDescs, LinkDescs, Free
    <2>2. [dirs[d] EXCEPT !.child = i] \in DirDescs
      BY <1>2, <2>1 DEF DirDescs
    <2> QED BY <1>2, <2>2 DEF TypeOK, outside
  <1>3. ASSUME dirs[d].kind = "dir", NEW i \in NextNamed(dirs[d].obj, dirs[d].child)
        PROVE  i + 1 \in Nat
    <2>1. dirs[d] \in DirDescs
      BY <1>3 DEF TypeOK, DirDescs, LinkDescs, Free
    <2>2. Len(Table(dirs[d].obj)) \in Nat
      BY <2>1, ImageAssumption DEF DirDescs, Table
    <2> QED BY <1>3, <2>1, <2>2 DEF NextNamed, DirDescs
  <1>4. ASSUME dirs[d].kind = "dir" PROVE Len(Table(dirs[d].obj)) + 1 \in Nat
    <2>1. dirs[d] \in DirDescs
      BY <1>4 DEF TypeOK, DirDescs, LinkDescs, Free
    <2> QED BY <2>1, ImageAssumption DEF DirDescs, Table
  <1> QED BY <1>1, <1>2, <1>3, <1>4 DEF Readdir, history

\* rewinddir() keeps the state well typed.
LEMMA RewinddirType ==
  ASSUME TypeOK, call.kind = "idle", NEW d \in DirIds, Rewinddir(d)
  PROVE  TypeOK'
  <1>1. ASSUME NEW err, Fail(err) PROVE TypeOK'
    BY <1>1, FailFrame DEF TypeOK
  <1>2. ASSUME dirs[d].kind = "dir", dirs' = [dirs EXCEPT ![d].child = 1],
               UNCHANGED <<mounted, fds, volumes, call, outside, held>>
        PROVE  TypeOK'
    <2>1. dirs[d] \in DirDescs
      BY <1>2 DEF TypeOK, DirDescs, LinkDescs, Free
    <2>2. [dirs[d] EXCEPT !.child = 1] \in DirDescs
      BY <2>1 DEF DirDescs
    <2> QED BY <1>2, <2>2 DEF TypeOK, outside
  <1> QED BY <1>1, <1>2 DEF Rewinddir

\* closedir() keeps the state well typed.
LEMMA ClosedirType ==
  ASSUME TypeOK, call.kind = "idle", NEW d \in DirIds, Closedir(d)
  PROVE  TypeOK'
  <1>1. live' \subseteq Mounted /\ inner' \in [Mounted -> SUBSET Tokens]
    <2>1. CASE dirs[d].kind = "link"
      BY <2>1, InnerCloseType DEF Closedir
    <2>2. CASE dirs[d].kind # "link"
      BY <2>2 DEF Closedir, outside, TypeOK
    <2> QED BY <2>1, <2>2
  <1> QED BY <1>1 DEF Closedir, TypeOK

\* The loop of read() keeps its place, and the cursor, within the naturals.
LEMMA ReadStepType ==
  ASSUME TypeOK, ReadStep
  PROVE  TypeOK'
  <1> DEFINE d == fds[call.slot]
             e == Table(d.obj)[call.child]
  <1>1. call \in Calls /\ call.slot \in Slots /\ d \in FileDescs
    BY DEF ReadStep, TypeOK, Calls, Idle, FileDescs, LinkDescs, Free
  <1>2. ASSUME NEW err, NEW bytes, ReadReturn(err, bytes),
               NEW x \in FileDescs, fds' = [fds EXCEPT ![call.slot] = x]
        PROVE  TypeOK'
    BY <1>1, <1>2 DEF ReadReturn, TypeOK, Idle, outside, history
  <1>3. ASSUME NEW c \in Nat \ {0}, NEW start \in Nat, NEW bytes \in Seq(Nat),
               call' = [call EXCEPT !.child = c, !.start = start, !.bytes = bytes],
               NEW x \in FileDescs, fds' = [fds EXCEPT ![call.slot] = x],
               UNCHANGED <<mounted, volumes, dirs, outside, history>>
        PROVE  TypeOK'
    <2>1. call' \in Calls /\ call'.slot = call.slot
      BY <1>1, <1>3 DEF Calls
    <2>2. fds' \in [Slots -> {Free} \cup FileDescs \cup LinkDescs]
          /\ fds'[call.slot].kind = "file"
      BY <1>1, <1>3 DEF TypeOK, FileDescs
    <2> QED BY <1>3, <2>1, <2>2 DEF TypeOK, outside, history
  <1>a. ASSUME NEW x \in FileDescs, NEW f, f.len \in Nat, NEW bytes \in Seq(Nat),
               fds' = [fds EXCEPT ![call.slot] = x], ReadNext(x, f, bytes)
        PROVE  TypeOK'
    <2>1. CASE ReadReturn("OK", bytes)
      BY <1>2, <1>a, <2>1
    <2>2. CASE /\ call' = [call EXCEPT !.child = @ + 1, !.start = @ + f.len, !.bytes = bytes]
               /\ UNCHANGED <<mounted, volumes, dirs, ret, outside, history>>
      <3>1. call' = [call EXCEPT !.child = call.child + 1, !.start = call.start + f.len,
                                 !.bytes = bytes]
        BY <1>1, <2>2 DEF Calls
      <3>2. call.child + 1 \in Nat \ {0} /\ call.start + f.len \in Nat
        BY <1>1, <1>a DEF Calls
      <3>3. UNCHANGED <<mounted, volumes, dirs, outside, history>>
        BY <2>2
      <3> HIDE DEF d, e
      <3> QED BY <1>3, <1>a, <3>1, <3>2, <3>3
    <2> QED BY <1>a, <2>1, <2>2 DEF ReadNext
  <1>4. fds = [fds EXCEPT ![call.slot] = d]
    BY <1>1 DEF TypeOK
  <1>5. CASE ReadEnd
    BY <1>1, <1>2, <1>4, <1>5 DEF ReadEnd
  <1>6. CASE ReadSkip
    <2>1. call' = [call EXCEPT !.child = call.child + 1, !.start = call.start, !.bytes = call.bytes]
      BY <1>1, <1>6 DEF ReadSkip, Calls
    <2>2. call.child + 1 \in Nat \ {0} /\ call.start \in Nat /\ call.bytes \in Seq(Nat)
      BY <1>1 DEF Calls
    <2> QED BY <1>1, <1>3, <1>4, <1>6, <2>1, <2>2 DEF ReadSkip
  <1>7. CASE ReadData
    <2> DEFINE n     == ReadLength(d, e)
               got   == call.bytes \o Bytes(e.off + (d.cursor - call.start), n)
               moved == [d EXCEPT !.cursor = @ + n]
    <2>1. /\ d.obj \in Objects /\ d.cursor \in Nat /\ call.child \in Nat \ {0}
          /\ call.start \in Nat /\ call.bytes \in Seq(Nat) /\ call.size \in Nat
      BY <1>1 DEF FileDescs, Calls
    <2>2. Len(Table(d.obj)) \in Nat
      BY <2>1, TableLength
    <2>3. call.child \in 1..Len(Table(d.obj)) /\ e.kind = "data"
      BY <1>7, <2>1, <2>2 DEF ReadData
    <2>4. e.off \in Nat /\ e.len \in Nat
      BY <2>1, <2>3, EntryType
    <2> HIDE DEF d, e
    <2>5. n \in Nat
      <3>0. d.cursor \in Int /\ call.start \in Int /\ call.size \in Int
            /\ Len(call.bytes) \in Int /\ e.len \in Int
        BY <2>1, <2>4
      <3>1. Minus(d.cursor, call.start) \in Nat /\ Minus(call.size, Len(call.bytes)) \in Nat
        BY <3>0, MinusType
      <3>2. ASSUME NEW k \in Int, NEW m \in Nat PROVE Minus(k, m) \in Nat
        BY MinusType
      <3>3. Minus(e.len, Minus(d.cursor, call.start)) \in Nat
        BY <3>0, <3>1, <3>2
      <3> QED BY <3>1, <3>3 DEF ReadLength, Least
    <2>6. moved \in FileDescs
      <3> HIDE DEF n
      <3>1. d.cursor + n \in Nat
        BY <2>1, <2>5
      <3>2. d \in FileDescs
        BY <1>1
      <3> QED
        BY <3>1, <3>2 DEF FileDescs
    <2>7. d.cursor >= call.start => got \in Seq(Nat)
      <3> SUFFICES ASSUME d.cursor >= call.start PROVE got \in Seq(Nat)
        OBVIOUS
      <3>1. e.off + (d.cursor - call.start) \in Nat
        BY <2>1, <2>4
      <3> HIDE DEF n
      <3> QED BY <2>1, <2>5, <3>1, BytesType
    <2>10. CASE d.cursor < call.start /\ UNCHANGED fds /\ ReadNext(d, e, call.bytes)
      BY <1>1, <1>a, <1>4, <2>1, <2>4, <2>10
    <2>11. CASE d.cursor >= call.start /\ fds' = [fds EXCEPT ![call.slot] = moved]
                /\ ReadNext(moved, e, got)
      BY <1>a, <2>4, <2>6, <2>7, <2>11
    <2>12. CASE UNCHANGED fds /\ ReadReturn("ReadFailure", <<>>)
      BY <1>1, <1>2, <1>4, <2>12
    <2> QED BY <1>7, <2>10, <2>11, <2>12 DEF ReadData, d, e
  <1> QED BY <1>5, <1>6, <1>7 DEF ReadStep

\* The calls that leave everything but their result alone, mount() apart.
LEMMA InertCalls ==
  ASSUME NEW p, NEW q, NEW h, NEW err,
         ModifyPath(p) \/ Rename(p, q) \/ Stat(p) \/ Query(h, err)
  PROVE  \E e : Fail(e)
  BY DEF ModifyPath, Rename, Stat, Query, BadPath, BadHandle, PassedOn

\* mount() changes nothing but the flag.
LEMMA MountType ==
  ASSUME TypeOK, Mount
  PROVE  TypeOK'
  BY FailFrame DEF Mount, TypeOK, outside, history

\* Every call keeps the state well typed.
LEMMA CallType ==
  ASSUME TypeOK, call.kind = "idle", Call
  PROVE  TypeOK'
  <1>1. ASSUME NEW err, Fail(err) PROVE TypeOK'
    BY <1>1, FailFrame DEF TypeOK
  <1>2. CASE Mount
    BY <1>2, MountType
  <1>3. CASE \E i \in 0..MaxVolumes, f \in Mounted \cup {NoFs, Self} : SetVolume(i, f)
    BY <1>3, SetVolumeType
  <1>4. ASSUME NEW p \in Paths, NEW flags, Open(p, flags) \/ Opendir(p) PROVE TypeOK'
    BY <1>4, OpenType, OpendirType
  <1>5. ASSUME NEW p, NEW q, NEW h, NEW err,
               ModifyPath(p) \/ Rename(p, q) \/ Stat(p) \/ Query(h, err)
        PROVE  TypeOK'
    BY <1>1, <1>5, InertCalls
  <1>6. ASSUME NEW h \in AnyHandle, Close(h) PROVE TypeOK'
    BY <1>6, CloseType
  <1>7. ASSUME NEW h \in AnyHandle, NEW n \in Sizes, Read(h, n) PROVE TypeOK'
    BY <1>7, ReadType
  <1>8. ASSUME NEW h \in AnyHandle, NEW origin, NEW offset \in -1..MediaSize, Seek(h, origin, offset)
        PROVE  TypeOK'
    <2>1. offset \in Int
      BY ImageAssumption
    <2> QED BY <1>8, <2>1, SeekType
  <1>9. ASSUME NEW d \in DirIds, Readdir(d) \/ Rewinddir(d) \/ Closedir(d) PROVE TypeOK'
    BY <1>9, ReaddirType, RewinddirType, ClosedirType
  <1> QED BY <1>2, <1>3, <1>4, <1>5, <1>6, <1>7, <1>8, <1>9 DEF Call

\* Every state the file system reaches is well typed; in particular a read()
\* in progress always works on an allocated descriptor of a file.
THEOREM TypeCorrect == Spec => []TypeOK
  <1>1. Init => TypeOK
    BY InitType
  <1>2. TypeOK /\ [Next]_vars => TypeOK'
    <2> SUFFICES ASSUME TypeOK, [Next]_vars PROVE TypeOK'
      OBVIOUS
    <2>1. CASE call.kind = "idle" /\ Call
      BY <2>1, CallType
    <2>2. CASE ReadStep
      BY <2>2, ReadStepType
    <2>3. CASE UNCHANGED vars
      BY <2>3 DEF vars, TypeOK
    <2> QED BY <2>1, <2>2, <2>3 DEF Next
  <1> QED BY <1>1, <1>2, PTL DEF Spec

-----------------------------------------------------------------------------
(***************************************************************************)
(* Ownership of descriptors and of the handles behind mount points.        *)
(* Everything that follows depends on a step only through what it does to  *)
(* the descriptors, the directory objects and the file systems outside;    *)
(* a step is one of the following.                                         *)
(***************************************************************************)
Quiet == UNCHANGED <<volumes, dirs, live, inner, held>>

\* A file descriptor changes its cursor.
CursorMoves ==
  /\ Quiet
  /\ \E s \in Slots, x \in FileDescs :
       fds[s].kind = "file" /\ fds' = [fds EXCEPT ![s] = x]

\* A descriptor is allocated, for a file or for a handle opened behind a mount point.
Allocates ==
  \E s \in Slots :
    /\ ~Allocated(s)
    /\ held' = held \cup {HandleMin + s}
    /\ UNCHANGED <<volumes, dirs>>
    /\ \/ \E x \in FileDescs : fds' = [fds EXCEPT ![s] = x] /\ UNCHANGED <<live, inner>>
       \/ \E f \in Mounted, t \in Tokens :
            InnerOpen(f, t) /\ fds' = [fds EXCEPT ![s] = LinkDesc(f, t)]

\* A descriptor is released, and with it what it stands for.
Releases ==
  \E s \in Slots :
    /\ Allocated(s)
    /\ held' = held \ {HandleMin + s}
    /\ fds' = [fds EXCEPT ![s] = Free]
    /\ UNCHANGED <<volumes, dirs>>
    /\ IF fds[s].kind = "link" THEN InnerClose(fds[s].fs, fds[s].token)
                               ELSE UNCHANGED <<live, inner>>

\* The same for directory objects.
DirMoves ==
  /\ UNCHANGED <<fds, volumes, live, inner, held>>
  /\ \E d \in DirIds, x \in DirDescs :
       dirs[d].kind # "link" /\ dirs' = [dirs EXCEPT ![d] = x]

DirAllocates ==
  \E d \in DirIds, f \in Mounted, t \in Tokens :
    /\ dirs[d] = Free
    /\ InnerOpen(f, t)
    /\ dirs' = [dirs EXCEPT ![d] = LinkDesc(f, t)]
    /\ UNCHANGED <<fds, volumes, held>>

DirReleases ==
  \E d \in DirIds :
    /\ dirs' = [dirs EXCEPT ![d] = Free]
    /\ UNCHANGED <<fds, volumes, held>>
    /\ IF dirs[d].kind = "link" THEN InnerClose(dirs[d].fs, dirs[d].token)
                                ELSE UNCHANGED <<live, inner>>

\* A volume is replaced.
Replaces ==
  \E i \in Volumes, f \in live \cup {NoFs} :
    LET old == volumes[i] IN
    /\ volumes' = [volumes EXCEPT ![i] = f]
    /\ live' = live \ {old}
    /\ inner' = [g \in Mounted |-> IF g = old THEN {} ELSE inner[g]]
    /\ UNCHANGED <<fds, dirs, held>>

Effect ==
  \/ Quiet /\ UNCHANGED fds
  \/ CursorMoves \/ Allocates \/ Releases
  \/ DirMoves \/ DirAllocates \/ DirReleases
  \/ Replaces

\* A call that fails has one of the effects.
LEMMA FailEffect ==
  ASSUME NEW err, Fail(err)
  PROVE  Effect
  BY FailFrame DEF Effect, Quiet

\* A call that gets past the checks of its handle works on an allocated descriptor.
LEMMA UsesAllocated ==
  ASSUME NEW h \in AnyHandle, NEW s \in Slots, Uses(s, h)
  PROVE  Allocated(s) /\ h = HandleMin + s
  BY ParametersAssumption DEF Uses, HandleError, AnyHandle, HandleMax, Slots

\* open() has one of the effects.
LEMMA OpenEffect ==
  ASSUME TypeOK, NEW path, NEW flags, Open(path, flags)
  PROVE  Effect
  <1>1. ASSUME NEW s \in Slots, NEW err, ~Allocated(s), OpenReset(s, err)
        PROVE  Effect
    <2>1. fds[s] = Free
      BY <1>1 DEF TypeOK, Allocated, FileDescs, LinkDescs
    <2>2. fds' = fds
      BY <1>1, <2>1 DEF OpenReset, TypeOK
    <2> QED BY <1>1, <2>2 DEF OpenReset, Effect, Quiet, outside, history
  <1>2. ASSUME NEW s \in Slots, NEW o \in Objects, ~Allocated(s), OpenLink(s, o)
        PROVE  Effect
    <2>1. ASSUME NEW t \in Tokens, InnerOpen(ResolvedFs(o), t),
                 Opened(s, LinkDesc(ResolvedFs(o), t))
          PROVE  Allocates
      BY <1>2, <2>1, InnerOpenType DEF Opened, Allocates
    <2> QED BY <1>1, <1>2, <2>1 DEF OpenLink, Effect
  <1>3. ASSUME NEW s \in Slots, NEW o \in Objects, ~Allocated(s), OpenObject(s, o, flags)
        PROVE  Effect
    <2>1. ASSUME NEW size \in 0..MediaSize, Opened(s, FileDesc(o, size, 0)), UNCHANGED outside
          PROVE  Allocates
      <3>1. FileDesc(o, size, 0) \in FileDescs
        BY ImageAssumption DEF FileDesc, FileDescs
      <3> QED BY <1>3, <2>1, <3>1 DEF Opened, Allocates, outside
    <2> QED BY <1>1, <1>3, <2>1 DEF OpenObject, Effect
  <1> QED BY <1>2, <1>3, FailEffect DEF Open, BadPath, UnusedDescriptor

\* close() has one of the effects.
LEMMA CloseEffect ==
  ASSUME TypeOK, NEW h \in AnyHandle, Close(h)
  PROVE  Effect
  <1>1. CASE BadHandle(h)
    BY <1>1, FailEffect DEF BadHandle
  <1>2. ASSUME NEW s \in Slots, Uses(s, h), fds' = [fds EXCEPT ![s] = Free], held' = held \ {h},
               IF fds[s].kind = "link" THEN InnerClose(fds[s].fs, fds[s].token)
                                       ELSE UNCHANGED outside,
               UNCHANGED <<volumes, dirs>>
        PROVE  Releases
    BY <1>2, UsesAllocated DEF Releases, outside
  <1> QED BY <1>1, <1>2 DEF Close, Effect

\* lseek() has one of the effects.
LEMMA SeekEffect ==
  ASSUME TypeOK, NEW h \in AnyHandle, NEW origin, NEW offset \in Int, Seek(h, origin, offset)
  PROVE  Effect
  <1>1. ASSUME NEW s \in Slots, Uses(s, h), fds[s].kind # "link",
               NEW to \in 0..fds[s].size, fds' = [fds EXCEPT ![s].cursor = to],
               UNCHANGED <<mounted, volumes, dirs, call, outside, history>>
        PROVE  CursorMoves
    <2>1. fds[s] \in FileDescs /\ fds[s].kind = "file"
      BY <1>1, UsesAllocated DEF TypeOK, Allocated, FileDescs, LinkDescs, Free
    <2>2. [fds[s] EXCEPT !.cursor = to] \in FileDescs
      BY <1>1, <2>1 DEF FileDescs
    <2> QED BY <1>1, <2>1, <2>2 DEF CursorMoves, Quiet, TypeOK, outside, history
  <1> QED BY <1>1, FailEffect DEF Seek, BadHandle, PassedOn, Effect

\* opendir() has one of the effects.
LEMMA OpendirEffect ==
  ASSUME TypeOK, NEW path, Opendir(path)
  PROVE  Effect
  <1>1. ASSUME NEW d \in DirIds, dirs[d] = Free, NEW o \in Objects,
               dirs' = [dirs EXCEPT ![d] = DirDesc(o, 1)],
               UNCHANGED <<fds, volumes, held, outside>>
        PROVE  DirMoves
    <2>1. DirDesc(o, 1) \in DirDescs /\ dirs[d].kind # "link"
      BY <1>1 DEF DirDesc, DirDescs, Free
    <2> QED BY <1>1, <2>1 DEF DirMoves, outside
  <1>2. ASSUME NEW d \in DirIds, dirs[d] = Free, NEW o \in Objects, NEW t \in Tokens,
               InnerOpen(ResolvedFs(o), t),
               dirs' = [dirs EXCEPT ![d] = LinkDesc(ResolvedFs(o), t)],
               UNCHANGED <<fds, volumes, held>>
        PROVE  DirAllocates
    BY <1>2, InnerOpenType DEF DirAllocates
  <1> QED BY <1>1, <1>2, FailEffect DEF Opendir, BadPath, Effect

\* readdir(), rewinddir() and closedir() have one of the effects.
LEMMA DirectoryEffect ==
  ASSUME TypeOK, TypeOK', NEW d \in DirIds, Readdir(d) \/ Rewinddir(d) \/ Closedir(d)
  PROVE  Effect
  <1>1. ASSUME dirs[d].kind = "dir", NEW i, dirs' = [dirs EXCEPT ![d].child = i],
               UNCHANGED <<mounted, fds, volumes, call, outside, held>>
        PROVE  DirMoves
    <2> DEFINE x == [dirs[d] EXCEPT !.child = i]
    <2>1. dirs' = [dirs EXCEPT ![d] = x] /\ dirs[d] \in DirDescs
      BY <1>1 DEF TypeOK, DirDescs, LinkDescs, Free
    <2>2. dirs'[d] = x /\ x.kind = "dir"
      BY <2>1 DEF TypeOK, DirDescs
    <2>3. x \in DirDescs
      BY <2>2 DEF TypeOK, LinkDescs, Free
    <2>4. UNCHANGED <<fds, volumes, live, inner, held>>
      BY <1>1 DEF outside
    <2> HIDE DEF x
    <2> QED BY <1>1, <2>1, <2>3, <2>4 DEF DirMoves
  <1>2. CASE Readdir(d)
    BY <1>1, <1>2, FailEffect DEF Readdir, Effect, history
  <1>3. CASE Rewinddir(d)
    BY <1>1, <1>3, FailEffect DEF Rewinddir, Effect
  <1>4. CASE Closedir(d)
    BY <1>4 DEF Closedir, DirReleases, Effect, outside
  <1> QED BY <1>2, <1>3, <1>4

\* A step of read() has one of the effects.
LEMMA ReadStepEffect ==
  ASSUME TypeOK, TypeOK', ReadStep
  PROVE  Effect
  <1>1. call.slot \in Slots /\ fds[call.slot].kind = "file" /\ fds[call.slot] \in FileDescs
    BY DEF ReadStep, TypeOK, Calls, Idle, FileDescs, LinkDescs, Free
  <1>2. Quiet
    BY DEF ReadStep, ReadEnd, ReadSkip, ReadData, ReadNext, ReadReturn, Quiet, outside, history
  <1>3. UNCHANGED fds \/ \E n : fds' = [fds EXCEPT ![call.slot] = [fds[call.slot] EXCEPT !.cursor = n]]
    BY DEF ReadStep, ReadEnd, ReadSkip, ReadData
  <1>4. ASSUME NEW n, fds' = [fds EXCEPT ![call.slot] = [fds[call.slot] EXCEPT !.cursor = n]]
        PROVE  CursorMoves
    <2> DEFINE x == [fds[call.slot] EXCEPT !.cursor = n]
    <2>1. fds'[call.slot] = x /\ x.kind = "file"
      BY <1>1, <1>4 DEF TypeOK, FileDescs
    <2>2. x \in FileDescs
      BY <1>1, <2>1 DEF TypeOK, LinkDescs, Free
    <2> HIDE DEF x
    <2> QED BY <1>1, <1>2, <1>4, <2>2 DEF CursorMoves, x
  <1> QED BY <1>2, <1>3, <1>4 DEF Effect

\* Every step has one of the effects.
LEMMA NextEffect ==
  ASSUME TypeOK, TypeOK', [Next]_vars
  PROVE  Effect
  <1>1. CASE UNCHANGED vars \/ Mount
    BY <1>1, FailEffect DEF vars, Mount, Effect, Quiet, outside, history
  <1>2. ASSUME NEW i \in 0..MaxVolumes, NEW f \in Mounted \cup {NoFs, Self}, SetVolume(i, f)
        PROVE  Effect
    BY <1>2, FailEffect DEF SetVolume, Effect, Replaces, history
  <1>3. ASSUME NEW p, NEW q, NEW h, NEW err,
               ModifyPath(p) \/ Rename(p, q) \/ Stat(p) \/ Query(h, err)
        PROVE  Effect
    BY <1>3, InertCalls, FailEffect
  <1>4. ASSUME NEW h \in AnyHandle, NEW n \in Sizes, Read(h, n) PROVE Effect
    BY <1>4, FailEffect DEF Read, BadHandle, PassedOn, Effect, Quiet, outside, history
  <1>5. ASSUME NEW h \in AnyHandle, NEW origin, NEW offset \in -1..MediaSize, Seek(h, origin, offset)
        PROVE  Effect
    <2>1. offset \in Int
      BY ImageAssumption
    <2> QED BY <1>5, <2>1, SeekEffect
  <1>6. CASE Call
    BY <1>1, <1>2, <1>3, <1>4, <1>5, <1>6, OpenEffect, OpendirEffect, CloseEffect, DirectoryEffect
       DEF Call
  <1> QED BY <1>1, <1>6, ReadStepEffect DEF Next

-----------------------------------------------------------------------------
(***************************************************************************)
(* Descriptors are owned: whatever way open() ends, no descriptor stays    *)
(* allocated that no application can close, and none that is held is       *)
(* handed out again.                                                       *)
(***************************************************************************)
LEMMA DescriptorsOwnedStep ==
  ASSUME TypeOK, DescriptorsOwned, Effect
  PROVE  DescriptorsOwned'
  <1>1. \A r, s \in Slots : HandleMin + r = HandleMin + s => r = s
    BY ParametersAssumption DEF Slots
  <1>2. CASE Quiet /\ UNCHANGED fds
    BY <1>2 DEF Quiet, DescriptorsOwned, Allocated
  <1>3. CASE CursorMoves
    BY <1>3 DEF CursorMoves, Quiet, DescriptorsOwned, Allocated, TypeOK, FileDescs
  <1>4. CASE Allocates
    BY <1>1, <1>4 DEF Allocates, DescriptorsOwned, Allocated, TypeOK, FileDescs, LinkDesc
  <1>5. CASE Releases
    BY <1>1, <1>5 DEF Releases, DescriptorsOwned, Allocated, TypeOK, Free
  <1>6. CASE DirMoves \/ DirAllocates \/ DirReleases \/ Replaces
    BY <1>6 DEF DirMoves, DirAllocates, DirReleases, Replaces, DescriptorsOwned, Allocated
  <1> QED BY <1>2, <1>3, <1>4, <1>5, <1>6 DEF Effect

\* The descriptors in use are the ones whose handles applications hold: open()
\* does not leak one when it fails, in the image or behind a mount point.
THEOREM DescriptorOwnership == Spec => []DescriptorsOwned
  <1>1. Init => DescriptorsOwned
    BY DEF Init, DescriptorsOwned, Allocated, Free
  <1>2. TypeOK /\ TypeOK' /\ DescriptorsOwned /\ [Next]_vars => DescriptorsOwned'
    BY NextEffect, DescriptorsOwnedStep
  <1> QED BY <1>1, <1>2, TypeCorrect, PTL DEF Spec

(***************************************************************************)
(* The same for the handles behind mount points.                           *)
(***************************************************************************)
LEMMA InnerHandlesOwnedStep ==
  ASSUME TypeOK, InnerHandlesOwned, Effect
  PROVE  InnerHandlesOwned'
  <1> SUFFICES ASSUME NEW f \in live', NEW t \in Tokens
               PROVE  /\ t \in inner'[f] <=> \/ \E s \in Slots : Refers(fds'[s], f, t)
                                            \/ \E d \in DirIds : Refers(dirs'[d], f, t)
                      /\ \A s1, s2 \in Slots :
                           Refers(fds'[s1], f, t) /\ Refers(fds'[s2], f, t) => s1 = s2
                      /\ \A d1, d2 \in DirIds :
                           Refers(dirs'[d1], f, t) /\ Refers(dirs'[d2], f, t) => d1 = d2
                      /\ \A s \in Slots, d \in DirIds :
                           ~(Refers(fds'[s], f, t) /\ Refers(dirs'[d], f, t))
    BY DEF InnerHandlesOwned, Refers
  <1> USE DEF Refers
  <1>1. f \in live /\ f \in Mounted
    BY DEF Effect, Quiet, CursorMoves, Allocates, Releases, DirMoves, DirAllocates, DirReleases,
           Replaces, InnerOpen, InnerClose, TypeOK
  <1>2. CASE Quiet /\ UNCHANGED fds
    BY <1>1, <1>2 DEF Quiet, InnerHandlesOwned
  <1>3. CASE CursorMoves
    BY <1>1, <1>3 DEF CursorMoves, Quiet, InnerHandlesOwned, TypeOK, FileDescs
  <1>4. CASE Allocates
    BY <1>1, <1>4 DEF Allocates, InnerOpen, InnerHandlesOwned, TypeOK, FileDescs, LinkDesc, Allocated
  <1>5. CASE Releases
    BY <1>1, <1>5 DEF Releases, InnerClose, InnerHandlesOwned, TypeOK, Free, Allocated
  <1>6. CASE DirMoves
    BY <1>1, <1>6 DEF DirMoves, InnerHandlesOwned, TypeOK, DirDescs
  <1>7. CASE DirAllocates
    BY <1>1, <1>7 DEF DirAllocates, InnerOpen, InnerHandlesOwned, TypeOK, LinkDesc, Free
  <1>8. CASE DirReleases
    BY <1>1, <1>8 DEF DirReleases, InnerClose, InnerHandlesOwned, TypeOK, Free
  <1>9. CASE Replaces
    BY <1>1, <1>9 DEF Replaces, InnerHandlesOwned, TypeOK
  <1> QED BY <1>2, <1>3, <1>4, <1>5, <1>6, <1>7, <1>8, <1>9 DEF Effect

\* Each handle open in a file system behind a mount point is reachable through
\* exactly one descriptor or directory object, and is closed with it.
THEOREM InnerHandleOwnership == Spec => []InnerHandlesOwned
  <1>1. Init => InnerHandlesOwned
    BY DEF Init, InnerHandlesOwned, Refers, Free
  <1>2. TypeOK /\ TypeOK' /\ InnerHandlesOwned /\ [Next]_vars => InnerHandlesOwned'
    BY NextEffect, InnerHandlesOwnedStep
  <1> QED BY <1>1, <1>2, TypeCorrect, PTL DEF Spec

(***************************************************************************)
(* Content and listings: rows of sequences that are joined.                *)
(***************************************************************************)
\* A set of numbers has a least.
LEMMA LeastExists ==
  ASSUME NEW S, S \subseteq Nat, S # {}
  PROVE  \E x \in S : \A y \in S : x <= y
  <1>1. PICK x \in S : \A y \in S : <<y, x>> \notin OpToRel(<, Nat)
    BY NatLessThanWellFounded, WFMin, Zenon
  <1>2. x \in Nat /\ \A y \in S : y \in Nat
    OBVIOUS
  <1>3. \A y \in S : ~(y < x)
    BY <1>1, <1>2, Zenon DEF OpToRel
  <1> QED
    BY <1>2, <1>3

\* The function by which FlattenSeq() joins the first n of a row.
IsFlat(f, p, n) == f = [i \in 1..n |-> IF i = 1 THEN p[i] ELSE f[i - 1] \o p[i]]

\* What it gives.
LEMMA FlatAt ==
  ASSUME NEW f, NEW p, NEW n, IsFlat(f, p, n), NEW k \in 1..n
  PROVE  f[k] = IF k = 1 THEN p[k] ELSE f[k - 1] \o p[k]
  BY DEF IsFlat

\* There is one as long as may be.
LEMMA FlatExists ==
  ASSUME NEW p, NEW n \in Nat
  PROVE  \E f : IsFlat(f, p, n)
  <1> DEFINE T == { m \in Nat : ~\E f : IsFlat(f, p, m) }
  <1> SUFFICES ASSUME T # {} PROVE FALSE
    OBVIOUS
  <1>1. PICK m \in T : \A y \in T : m <= y
    <2>1. T \subseteq Nat
      OBVIOUS
    <2> HIDE DEF T
    <2> QED
      BY <2>1, LeastExists
  <1>2. m # 0
    <2> DEFINE f0 == [i \in 1..0 |-> p[i]]
    <2>1. f0 = [i \in 1..0 |-> IF i = 1 THEN p[i] ELSE f0[i - 1] \o p[i]]
      OBVIOUS
    <2>2. IsFlat(f0, p, 0)
      BY <2>1 DEF IsFlat
    <2> QED
      BY <2>2
  <1>3. m - 1 \in Nat /\ m - 1 \notin T /\ m \in Nat
    BY <1>1, <1>2
  <1>4. PICK f : IsFlat(f, p, m - 1)
    BY <1>3
  <1> DEFINE next == [i \in 1..m |-> IF i < m THEN f[i]
                                     ELSE IF i = 1 THEN p[i] ELSE f[m - 1] \o p[m]]
  <1>5. ASSUME NEW i \in 1..m
        PROVE  next[i] = IF i = 1 THEN p[i] ELSE next[i - 1] \o p[i]
    <2>1. CASE i = m
      BY <1>3, <2>1
    <2>2. CASE i < m
      <3>1. i \in 1..(m - 1) /\ next[i] = f[i]
        BY <1>3, <2>2
      <3>2. f[i] = IF i = 1 THEN p[i] ELSE f[i - 1] \o p[i]
        BY <1>4, <3>1 DEF IsFlat
      <3>3. i # 1 => next[i - 1] = f[i - 1]
        BY <1>3, <3>1
      <3> QED
        BY <3>1, <3>2, <3>3
    <2> QED
      BY <1>3, <2>1, <2>2
  <1>6. IsFlat(next, p, m)
    <2>1. next = [i \in 1..m |-> next[i]]
      OBVIOUS
    <2> HIDE DEF next
    <2>2. [i \in 1..m |-> next[i]] = [i \in 1..m |-> IF i = 1 THEN p[i] ELSE next[i - 1] \o p[i]]
      BY <1>5
    <2> QED
      BY <2>1, <2>2 DEF IsFlat
  <1> QED
    BY <1>1, <1>6

\* Rows that begin alike are joined alike.
LEMMA FlatsAgree ==
  ASSUME NEW p, NEW q, NEW m \in Nat \ {0}, NEW n \in Nat, m <= n,
         \A i \in 1..m : q[i] = p[i],
         NEW f, NEW g, IsFlat(f, p, m), IsFlat(g, q, n)
  PROVE  f[m] = g[m]
  <1> DEFINE T == { k \in 1..m : f[k] # g[k] }
  <1> SUFFICES ASSUME T # {} PROVE FALSE
    OBVIOUS
  <1>1. PICK k \in T : \A y \in T : k <= y
    <2>1. T \subseteq Nat
      OBVIOUS
    <2> HIDE DEF T
    <2> QED
      BY <2>1, LeastExists
  <1>a. k \in 1..m /\ k \in 1..n /\ f[k] # g[k] /\ q[k] = p[k]
    BY <1>1
  <1>2. /\ f[k] = IF k = 1 THEN p[k] ELSE f[k - 1] \o p[k]
        /\ g[k] = IF k = 1 THEN q[k] ELSE g[k - 1] \o q[k]
    BY <1>a, FlatAt
  <1>3. k # 1 => f[k - 1] = g[k - 1]
    BY <1>1
  <1> HIDE DEF T
  <1> QED
    BY <1>a, <1>2, <1>3

\* FlattenSeq() joins them all.
LEMMA FlattenIs ==
  ASSUME NEW p, NEW n \in Nat \ {0}, Len(p) = n
  PROVE  \E f : IsFlat(f, p, n) /\ FlattenSeq(p) = f[n]
  <1>1. \E f : IsFlat(f, p, n)
    BY FlatExists
  <1> QED
    BY <1>1 DEF FlattenSeq, IsFlat

\* A row of N sequences, and the first n of them joined.
Row(S, N) == [1..N -> Seq(S)]
Joined(row, n) == FlattenSeq([i \in 1..n |-> row[i]])

\* They are joined one after the other.
LEMMA JoinedStep ==
  ASSUME NEW S, NEW N \in Nat, NEW row \in Row(S, N), NEW n \in 1..N
  PROVE  Joined(row, n) = Joined(row, n - 1) \o row[n]
  <1> DEFINE p == [i \in 1..n |-> row[i]]
             q == [i \in 1..(n - 1) |-> row[i]]
  <1>0. row \in [1..N -> Seq(S)]
    BY DEF Row
  <1>1. n \in Nat \ {0} /\ n - 1 \in Nat /\ row[n] \in Seq(S)
    BY <1>0
  <1>2. Len(p) = n /\ Len(q) = n - 1
    <2>1. p \in Seq(Seq(S)) /\ q \in Seq(Seq(S))
      BY <1>0
    <2> QED
      BY <1>1
  <1>3. \A i \in 1..n : p[i] = row[i]
    OBVIOUS
  <1>4. \A i \in 1..(n - 1) : p[i] = q[i]
    OBVIOUS
  <1>5. n - 1 = 0 => q = <<>>
    OBVIOUS
  <1> HIDE DEF p, q
  <1>6. PICK f : IsFlat(f, p, n) /\ FlattenSeq(p) = f[n]
    BY <1>1, <1>2, FlattenIs
  <1>9. n \in 1..n
    BY <1>1
  <1>10. f[n] = IF n = 1 THEN p[n] ELSE f[n - 1] \o p[n]
    BY <1>6, <1>9, FlatAt
  <1>11. p[n] = row[n]
    BY <1>3, <1>9
  <1>7. CASE n = 1
    <2>1. FlattenSeq(p) = row[n]
      BY <1>6, <1>7, <1>10, <1>11
    <2>2. FlattenSeq(q) = <<>>
      BY <1>2, <1>5, <1>7 DEF FlattenSeq
    <2>3. <<>> \o row[n] = row[n]
      BY <1>1
    <2> QED
      BY <2>1, <2>2, <2>3 DEF Joined, p, q
  <1>8. CASE n # 1
    <2> DEFINE m == n - 1
    <2>1. m \in Nat \ {0} /\ m <= n /\ Len(q) = m /\ \A i \in 1..m : p[i] = q[i]
      BY <1>1, <1>2, <1>4, <1>8
    <2>2. f[n] = f[m] \o row[n]
      BY <1>8, <1>10, <1>11
    <2> HIDE DEF m
    <2>3. PICK g : IsFlat(g, q, m) /\ FlattenSeq(q) = g[m]
      BY <2>1, FlattenIs
    <2>4. g[m] = f[m]
      BY <1>1, <1>6, <2>1, <2>3, FlatsAgree
    <2>5. FlattenSeq(p) = FlattenSeq(q) \o row[n]
      BY <1>6, <2>2, <2>3, <2>4
    <2> QED
      BY <2>5 DEF Joined, p, q
  <1> QED
    BY <1>7, <1>8

\* They make up a sequence.
LEMMA JoinedType ==
  ASSUME NEW S, NEW N \in Nat, NEW row \in Row(S, N), NEW n \in 0..N
  PROVE  Joined(row, n) \in Seq(S)
  <1> DEFINE T == { m \in 0..N : Joined(row, m) \notin Seq(S) }
  <1> SUFFICES ASSUME T # {} PROVE FALSE
    OBVIOUS
  <1>1. PICK m \in T : \A y \in T : m <= y
    <2>1. T \subseteq Nat
      OBVIOUS
    <2> HIDE DEF T
    <2> QED
      BY <2>1, LeastExists
  <1>2. m # 0
    <2>1. Joined(row, 0) \in Seq(S)
      BY DEF Joined, FlattenSeq
    <2> QED
      BY <1>1, <2>1
  <1>3. m \in 1..N /\ m - 1 \in 0..N /\ m - 1 \notin T
    BY <1>1, <1>2
  <1>4. Joined(row, m) = Joined(row, m - 1) \o row[m]
    BY <1>3, JoinedStep
  <1>5. Joined(row, m - 1) \in Seq(S) /\ row[m] \in Seq(S)
    BY <1>3 DEF Row
  <1>6. Joined(row, m) \in Seq(S)
    BY <1>4, <1>5
  <1> QED
    BY <1>1, <1>6

\* Sequences without elements add nothing.
LEMMA JoinedSame ==
  ASSUME NEW S, NEW N \in Nat, NEW row \in Row(S, N), NEW n \in 0..N, NEW m \in 0..n,
         \A i \in (m + 1)..n : row[i] = <<>>
  PROVE  Joined(row, n) = Joined(row, m)
  <1> DEFINE T == { k \in m..n : Joined(row, k) # Joined(row, m) }
  <1> SUFFICES ASSUME T # {} PROVE FALSE
    OBVIOUS
  <1>1. PICK k \in T : \A y \in T : k <= y
    <2>1. T \subseteq Nat
      OBVIOUS
    <2> HIDE DEF T
    <2> QED
      BY <2>1, LeastExists
  <1>2. k # m
    BY <1>1
  <1>3. k \in 1..N /\ k \in (m + 1)..n /\ k - 1 \in m..n /\ k - 1 \notin T /\ k - 1 \in 0..N
    BY <1>1, <1>2
  <1>4. Joined(row, k) = Joined(row, k - 1) \o row[k]
    <2>1. k \in 1..N
      BY <1>3
    <2> QED
      BY <2>1, JoinedStep
  <1>5. Joined(row, k - 1) \in Seq(S) /\ row[k] = <<>>
    BY <1>3, JoinedType
  <1>6. Joined(row, k) = Joined(row, k - 1)
    BY <1>4, <1>5
  <1> QED
    BY <1>1, <1>3, <1>6

\* What is joined stays at the beginning when more is added.
LEMMA JoinedPrefix ==
  ASSUME NEW S, NEW N \in Nat, NEW row \in Row(S, N), NEW n \in 0..N, NEW m \in 0..n
  PROVE  /\ Len(Joined(row, m)) <= Len(Joined(row, n))
         /\ \A j \in 1..Len(Joined(row, m)) : Joined(row, n)[j] = Joined(row, m)[j]
  <1> DEFINE P(k) == /\ Len(Joined(row, m)) <= Len(Joined(row, k))
                     /\ \A j \in 1..Len(Joined(row, m)) : Joined(row, k)[j] = Joined(row, m)[j]
             T == { k \in m..n : ~P(k) }
  <1> SUFFICES ASSUME T # {} PROVE FALSE
    OBVIOUS
  <1>0. Joined(row, m) \in Seq(S)
    BY JoinedType
  <1>1. PICK k \in T : \A y \in T : k <= y
    <2>1. T \subseteq Nat
      OBVIOUS
    <2> HIDE DEF T
    <2> QED
      BY <2>1, LeastExists
  <1>2. k # m
    <2>1. P(m)
      BY <1>0
    <2> QED
      BY <1>1, <2>1
  <1>3. k \in 1..N /\ k - 1 \in m..n /\ k - 1 \notin T /\ k - 1 \in 0..N
    BY <1>1, <1>2
  <1>4. Joined(row, k) = Joined(row, k - 1) \o row[k]
    <2>1. k \in 1..N
      BY <1>3
    <2> QED
      BY <2>1, JoinedStep
  <1>5. Joined(row, k - 1) \in Seq(S) /\ row[k] \in Seq(S)
    BY <1>3, JoinedType DEF Row
  <1>6. P(k - 1)
    BY <1>3
  <1>7. P(k)
    <2> DEFINE a == Joined(row, m)
               b == Joined(row, k - 1)
               c == Joined(row, k)
    <2>1. a \in Seq(S) /\ b \in Seq(S) /\ c = b \o row[k]
      BY <1>0, <1>4, <1>5
    <2>2. Len(a) <= Len(b) /\ \A j \in 1..Len(a) : b[j] = a[j]
      BY <1>6
    <2> HIDE DEF a, b, c
    <2>3. Len(c) = Len(b) + Len(row[k]) /\ \A j \in 1..Len(b) : c[j] = b[j]
      BY <1>5, <2>1
    <2>4. Len(a) <= Len(c) /\ \A j \in 1..Len(a) : c[j] = a[j]
      BY <1>5, <2>1, <2>2, <2>3
    <2> QED
      BY <2>4 DEF a, c
  <1> QED
    BY <1>1, <1>7

\* What the entries of a child table contribute to the content, and to a listing.
DataRow(o) == [i \in 1..Len(Table(o)) |-> DataOf(Table(o)[i])]
NameRow(o) == [i \in 1..Len(Table(o)) |-> NameOf(Table(o)[i])]

\* A run of bytes.
LEMMA BytesAre ==
  ASSUME NEW off \in Nat, NEW n \in Nat
  PROVE  /\ Bytes(off, n) \in Seq(Nat) /\ Len(Bytes(off, n)) = n
         /\ \A j \in 1..n : Bytes(off, n)[j] = off + j - 1
  BY DEF Bytes

\* The content of a file and the listing of a directory are rows joined.
LEMMA RowsJoined ==
  ASSUME NEW o \in Objects, NEW n \in 0..Len(Table(o))
  PROVE  /\ Len(Table(o)) \in Nat
         /\ DataRow(o) \in Row(Nat, Len(Table(o))) /\ ContentUpTo(o, n) = Joined(DataRow(o), n)
         /\ NameRow(o) \in Row(Names, Len(Table(o))) /\ NamesUpTo(o, n) = Joined(NameRow(o), n)
  <1>1. Len(Table(o)) \in Nat
    BY TableLength
  <1>2. ASSUME NEW i \in 1..Len(Table(o))
        PROVE  DataOf(Table(o)[i]) \in Seq(Nat) /\ NameOf(Table(o)[i]) \in Seq(Names)
    <2>1. Table(o)[i] \in Entry
      BY EntryType
    <2>2. NameOf(Table(o)[i]) \in Seq(Names)
      BY <2>1 DEF NameOf, Entry
    <2>3. DataOf(Table(o)[i]) \in Seq(Nat)
      <3>1. Table(o)[i].kind = "data" => Table(o)[i].off \in Nat /\ Table(o)[i].len \in Nat
        BY EntryType
      <3>2. CASE Table(o)[i].kind = "data"
        BY <3>1, <3>2, BytesAre DEF DataOf
      <3>3. CASE Table(o)[i].kind # "data"
        BY <3>3 DEF DataOf
      <3> QED
        BY <3>2, <3>3
    <2> QED
      BY <2>2, <2>3
  <1>3. DataRow(o) \in Row(Nat, Len(Table(o))) /\ NameRow(o) \in Row(Names, Len(Table(o)))
    BY <1>2 DEF DataRow, NameRow, Row
  <1>4. \A i \in 1..n : i \in 1..Len(Table(o))
    BY <1>1
  <1>5. [i \in 1..n |-> DataOf(Table(o)[i])] = [i \in 1..n |-> DataRow(o)[i]]
    BY <1>4 DEF DataRow
  <1>6. [i \in 1..n |-> NameOf(Table(o)[i])] = [i \in 1..n |-> NameRow(o)[i]]
    BY <1>4 DEF NameRow
  <1> QED
    BY <1>1, <1>3, <1>5, <1>6 DEF ContentUpTo, NamesUpTo, Joined

\* The content grows by what the next entry has.
LEMMA ContentStep ==
  ASSUME NEW o \in Objects, NEW n \in 0..Len(Table(o))
  PROVE  /\ ContentUpTo(o, n) \in Seq(Nat) /\ SizeUpTo(o, n) \in Nat
         /\ n # 0 => ContentUpTo(o, n) = ContentUpTo(o, n - 1) \o DataOf(Table(o)[n])
  <1>1. ContentUpTo(o, n) \in Seq(Nat)
    BY RowsJoined, JoinedType
  <1>2. ASSUME n # 0
        PROVE  ContentUpTo(o, n) = ContentUpTo(o, n - 1) \o DataOf(Table(o)[n])
    <2>1. n \in 1..Len(Table(o)) /\ n - 1 \in 0..Len(Table(o))
      BY <1>2, RowsJoined
    <2>2. ContentUpTo(o, n) = Joined(DataRow(o), n) /\ ContentUpTo(o, n - 1) = Joined(DataRow(o), n - 1)
      BY <2>1, RowsJoined
    <2>3. Joined(DataRow(o), n) = Joined(DataRow(o), n - 1) \o DataRow(o)[n]
      BY <2>1, RowsJoined, JoinedStep
    <2>4. DataRow(o)[n] = DataOf(Table(o)[n])
      BY <2>1 DEF DataRow
    <2> QED
      BY <2>2, <2>3, <2>4
  <1> QED
    BY <1>1, <1>2 DEF SizeUpTo

\* Its size grows by that of the data object, if the entry is one.
LEMMA SizeStep ==
  ASSUME NEW o \in Objects, NEW n \in 1..Len(Table(o))
  PROVE  /\ SizeUpTo(o, 0) = 0
         /\ SizeUpTo(o, n) \in Nat /\ SizeUpTo(o, n - 1) \in Nat
         /\ Table(o)[n].kind = "data" => SizeUpTo(o, n) = SizeUpTo(o, n - 1) + Table(o)[n].len
         /\ Table(o)[n].kind # "data" => SizeUpTo(o, n) = SizeUpTo(o, n - 1)
  <1>1. SizeUpTo(o, 0) = 0
    BY DEF SizeUpTo, ContentUpTo, FlattenSeq
  <1>2. n \in 0..Len(Table(o)) /\ n - 1 \in 0..Len(Table(o)) /\ n # 0
    BY RowsJoined
  <1>3. /\ ContentUpTo(o, n) = ContentUpTo(o, n - 1) \o DataOf(Table(o)[n])
        /\ ContentUpTo(o, n - 1) \in Seq(Nat)
        /\ SizeUpTo(o, n) \in Nat /\ SizeUpTo(o, n - 1) \in Nat
    BY <1>2, ContentStep
  <1>4. CASE Table(o)[n].kind = "data"
    <2>1. Table(o)[n].len \in Nat /\ Table(o)[n].off \in Nat
      BY <1>4, EntryType
    <2>2. DataOf(Table(o)[n]) \in Seq(Nat) /\ Len(DataOf(Table(o)[n])) = Table(o)[n].len
      BY <1>4, <2>1, BytesAre DEF DataOf
    <2> DEFINE a == ContentUpTo(o, n - 1)
               b == DataOf(Table(o)[n])
    <2>3. a \in Seq(Nat) /\ b \in Seq(Nat)
      BY <1>3, <2>2
    <2> HIDE DEF a, b
    <2>4. Len(a \o b) = Len(a) + Len(b)
      BY <2>3, ConcatProperties
    <2> QED
      BY <1>1, <1>3, <1>4, <2>2, <2>4 DEF SizeUpTo, a, b
  <1>5. CASE Table(o)[n].kind # "data"
    <2>1. DataOf(Table(o)[n]) = <<>>
      BY <1>5 DEF DataOf
    <2> QED
      BY <1>1, <1>3, <1>5, <2>1 DEF SizeUpTo
  <1> QED
    BY <1>4, <1>5

\* What the first entries contribute stays at the beginning.
LEMMA ContentPrefix ==
  ASSUME NEW o \in Objects, NEW n \in 0..Len(Table(o)), NEW m \in 0..n
  PROVE  /\ SizeUpTo(o, m) <= SizeUpTo(o, n)
         /\ \A j \in 1..SizeUpTo(o, m) : ContentUpTo(o, n)[j] = ContentUpTo(o, m)[j]
  <1>1. m \in 0..Len(Table(o))
    BY RowsJoined
  <1>2. /\ Len(Joined(DataRow(o), m)) <= Len(Joined(DataRow(o), n))
        /\ \A j \in 1..Len(Joined(DataRow(o), m)) : Joined(DataRow(o), n)[j] = Joined(DataRow(o), m)[j]
    BY RowsJoined, JoinedPrefix
  <1>3. ContentUpTo(o, n) = Joined(DataRow(o), n) /\ ContentUpTo(o, m) = Joined(DataRow(o), m)
    BY <1>1, RowsJoined
  <1> QED
    BY <1>2, <1>3 DEF SizeUpTo

\* Whether there is no data object among the first n entries.
NoData(o, n) == \A j \in 1..n : Table(o)[j].kind # "data"

\* Then there is no content.
LEMMA NoDataNoSize ==
  ASSUME NEW o \in Objects, NEW n \in 0..Len(Table(o)), NoData(o, n)
  PROVE  SizeUpTo(o, n) = 0
  <1>1. Len(Table(o)) \in Nat
    BY TableLength
  <1>2. \A i \in (0 + 1)..n : DataRow(o)[i] = <<>>
    BY <1>1 DEF NoData, DataRow, DataOf
  <1>3. 0 \in 0..n
    BY <1>1
  <1>4. Joined(DataRow(o), n) = Joined(DataRow(o), 0)
    BY <1>2, <1>3, RowsJoined, JoinedSame
  <1>5. Joined(DataRow(o), 0) = <<>>
    BY DEF Joined, FlattenSeq
  <1> QED
    BY <1>4, <1>5, RowsJoined DEF SizeUpTo

\* Whether a run of bytes stands in a sequence after b elements.
HasRun(c, b, k, off) == \A j \in 1..k : c[b + j] = off + j - 1

\* A data object's bytes stand in the content where the ones before it end.
LEMMA ContentOfEntry ==
  ASSUME NEW o \in Objects, NEW i \in 1..Len(Table(o)), Table(o)[i].kind = "data"
  PROVE  /\ Content(o) \in Seq(Nat) /\ Len(Content(o)) = DataSize(o) /\ DataSize(o) \in Nat
         /\ SizeUpTo(o, i - 1) + Table(o)[i].len <= DataSize(o)
         /\ HasRun(Content(o), SizeUpTo(o, i - 1), Table(o)[i].len, Table(o)[i].off)
  <1> DEFINE T == Len(Table(o))
             e == Table(o)[i]
             a == ContentUpTo(o, i - 1)
             b == ContentUpTo(o, i)
  <1>1. T \in Nat /\ T \in 0..T /\ i \in 0..T /\ i \in 0..T /\ i - 1 \in 0..T /\ i # 0
    BY TableLength
  <1>2. e.off \in Nat /\ e.len \in Nat
    BY EntryType
  <1>3. Content(o) \in Seq(Nat) /\ Len(Content(o)) = DataSize(o) /\ DataSize(o) \in Nat
    BY <1>1, ContentStep DEF Content, DataSize, SizeUpTo
  <1>4. SizeUpTo(o, i) = SizeUpTo(o, i - 1) + e.len /\ SizeUpTo(o, i - 1) \in Nat
    BY SizeStep
  <1>5. /\ SizeUpTo(o, i) <= DataSize(o)
        /\ \A j \in 1..SizeUpTo(o, i) : Content(o)[j] = b[j]
    BY <1>1, ContentPrefix DEF Content, DataSize
  <1>6. a \in Seq(Nat) /\ b = a \o Bytes(e.off, e.len) /\ Len(a) = SizeUpTo(o, i - 1)
    BY <1>1, ContentStep DEF DataOf, SizeUpTo
  <1> HIDE DEF a, b, e
  <1>7. ASSUME NEW j \in 1..e.len PROVE b[Len(a) + j] = e.off + j - 1
    <2> DEFINE r == Bytes(e.off, e.len)
    <2>1. r \in Seq(Nat) /\ Len(r) = e.len /\ r[j] = e.off + j - 1
      BY <1>2, BytesAre
    <2>2. b = a \o r
      BY <1>6
    <2> HIDE DEF r
    <2>3. Len(a) \in Nat /\ Len(a) + j \in 1..(Len(a) + Len(r)) /\ Len(a) + j > Len(a)
          /\ (Len(a) + j) - Len(a) = j
      <3> DEFINE x == Len(a)
                 y == Len(r)
      <3>1. x \in Nat /\ y = e.len /\ j \in 1..e.len
        BY <1>6, <2>1
      <3> HIDE DEF x, y
      <3>2. x \in Nat /\ x + j \in 1..(x + y) /\ x + j > x /\ (x + j) - x = j
        BY <1>2, <3>1
      <3> QED
        BY <3>2 DEF x, y
    <2>4. \A k \in 1..(Len(a) + Len(r)) : (a \o r)[k] = IF k <= Len(a) THEN a[k] ELSE r[k - Len(a)]
      BY <1>6, <2>1, ConcatProperties
    <2> DEFINE k == Len(a) + j
    <2>5. k \in 1..(Len(a) + Len(r)) /\ ~(k <= Len(a)) /\ k - Len(a) = j
      BY <2>3
    <2> HIDE DEF k
    <2>6. b[k] = r[j]
      BY <2>2, <2>4, <2>5
    <2> QED
      BY <2>1, <2>6 DEF k
  <1>8. ASSUME NEW j \in 1..e.len PROVE Content(o)[SizeUpTo(o, i - 1) + j] = e.off + j - 1
    <2>1. SizeUpTo(o, i - 1) + j \in 1..SizeUpTo(o, i)
      BY <1>2, <1>4
    <2> QED
      BY <1>5, <1>6, <1>7, <2>1
  <1> QED
    BY <1>3, <1>4, <1>5, <1>8 DEF e, HasRun

\* Whether the part of a sequence from a to b and a run of k bytes are the part to b + k.
Grows(c, a, b, k, off) == SubSeq(c, a + 1, b) \o Bytes(off, k) = SubSeq(c, a + 1, b + k)

\* A part of a sequence and the run of bytes that follow it there.
LEMMA PartGrows ==
  ASSUME NEW c \in Seq(Nat), NEW a \in Nat, NEW b \in Nat, NEW k \in Nat, NEW off \in Nat,
         a <= b, b + k <= Len(c), HasRun(c, b, k, off)
  PROVE  Grows(c, a, b, k, off)
  <1> DEFINE l == SubSeq(c, a + 1, b)
             r == Bytes(off, k)
             w == SubSeq(c, a + 1, b + k)
  <1>1. l \in Seq(Nat) /\ Len(l) = b - a /\ \A j \in 1..(b - a) : l[j] = c[a + j]
    BY SubSeqProperties
  <1>2. w \in Seq(Nat) /\ Len(w) = b + k - a /\ \A j \in 1..(b + k - a) : w[j] = c[a + j]
    BY SubSeqProperties
  <1>3. r \in Seq(Nat) /\ Len(r) = k /\ \A j \in 1..k : r[j] = off + j - 1
    BY BytesAre
  <1> HIDE DEF l, r, w
  <1>4. /\ l \o r \in Seq(Nat) /\ Len(l \o r) = b + k - a
        /\ \A j \in 1..(b + k - a) : (l \o r)[j] = IF j <= b - a THEN l[j] ELSE r[j - (b - a)]
    <2>1. l \o r \in Seq(Nat)
      BY <1>1, <1>3
    <2>2. Len(l) + Len(r) = b + k - a
      BY <1>1, <1>3
    <2>3. /\ Len(l \o r) = Len(l) + Len(r)
          /\ \A j \in 1..(Len(l) + Len(r)) : (l \o r)[j] = IF j <= Len(l) THEN l[j] ELSE r[j - Len(l)]
      <3>1. l \in Seq(Nat) /\ r \in Seq(Nat)
        BY <1>1, <1>3
      <3> QED
        BY <3>1, ConcatProperties
    <2>4. Len(l) = b - a
      BY <1>1
    <2> QED
      BY <2>1, <2>2, <2>3, <2>4
  <1> DEFINE x == l \o r
  <1>5. ASSUME NEW j \in 1..(b + k - a) PROVE x[j] = w[j]
    <2>0. x[j] = IF j <= b - a THEN l[j] ELSE r[j - (b - a)]
      BY <1>4
    <2>1. w[j] = c[a + j]
      BY <1>2
    <2> HIDE DEF x
    <2>2. CASE j <= b - a
      BY <1>1, <2>0, <2>1, <2>2
    <2>3. CASE ~(j <= b - a)
      <3>1. j - (b - a) \in 1..k /\ b + (j - (b - a)) = a + j
        BY <2>3
      <3>2. c[b + (j - (b - a))] = off + (j - (b - a)) - 1
        BY <3>1 DEF HasRun
      <3>3. r[j - (b - a)] = off + (j - (b - a)) - 1
        BY <1>3, <3>1
      <3> QED
        BY <2>0, <2>1, <2>3, <3>1, <3>2, <3>3
    <2> QED
      BY <2>2, <2>3
  <1>6. l \o r = w
    BY <1>2, <1>4, <1>5, SeqEqual
  <1> QED
    BY <1>6 DEF l, r, w, Grows

(***************************************************************************)
(* What a call does to the descriptors: it answers, opens, closes, seeks   *)
(* or begins a read().                                                     *)
(***************************************************************************)
Answers == UNCHANGED <<fds, call>> /\ ret'.bytes = <<>>

Fresh(x) ==
  \/ x = Free
  \/ \E f, t : x = LinkDesc(f, t)
  \/ \E o \in Objects, size \in 0..MediaSize : ObjectDataSize(o, size) /\ x = FileDesc(o, size, 0)

\* A descriptor that is free is filled in, or one in use is released.
Sets ==
  /\ \E x : /\ Fresh(x)
            /\ \E s \in Slots : (x # Free => ~Allocated(s)) /\ fds' = [fds EXCEPT ![s] = x]
  /\ UNCHANGED call
  /\ ret'.bytes = <<>>

Seeks ==
  /\ \E s \in Slots : /\ fds[s].kind = "file"
                      /\ \E to \in 0..fds[s].size : fds' = [fds EXCEPT ![s].cursor = to]
  /\ UNCHANGED call
  /\ ret'.bytes = <<>>

Begins ==
  /\ \E s \in Slots, n \in Sizes :
       /\ fds[s].kind = "file"
       /\ call' = [kind |-> "read", slot |-> s, size |-> n, child |-> 1, start |-> 0, bytes |-> <<>>]
  /\ UNCHANGED <<fds, ret>>

\* A call that fails answers.
LEMMA FailAnswers ==
  ASSUME NEW err, Fail(err)
  PROVE  Answers
  BY DEF Fail, Done, Result, Answers

\* Every call is one of these.
LEMMA CallEffect ==
  ASSUME TypeOK, Call
  PROVE  Answers \/ Sets \/ Seeks \/ Begins
  <1>1. CASE Mount
    BY <1>1, FailAnswers DEF Mount, Done, Result, Answers
  <1>2. ASSUME NEW i, NEW f, SetVolume(i, f)
        PROVE  Answers
    BY <1>2, FailAnswers DEF SetVolume, Done, Result, Answers
  <1>3. ASSUME NEW p, NEW q, NEW h, NEW err,
               ModifyPath(p) \/ Rename(p, q) \/ Stat(p) \/ Query(h, err)
        PROVE  Answers
    BY <1>3, InertCalls, FailAnswers
  <1>4. ASSUME NEW p, Opendir(p) PROVE Answers
    BY <1>4, FailAnswers DEF Opendir, BadPath, Done, Result, Answers
  <1>5. ASSUME NEW d, Readdir(d) \/ Rewinddir(d) \/ Closedir(d) PROVE Answers
    BY <1>5, FailAnswers DEF Readdir, Rewinddir, Closedir, Done, Result, Answers
  <1>6. ASSUME NEW p, NEW flags, Open(p, flags) PROVE Answers \/ Sets
    <2>1. ASSUME NEW s \in Slots, NEW err, OpenReset(s, err) PROVE Sets
      BY <2>1 DEF OpenReset, Done, Result, Sets, Fresh
    <2>2. ASSUME NEW s \in Slots, NEW x, ~Allocated(s), Fresh(x), Opened(s, x) PROVE Sets
      BY <2>2 DEF Opened, Done, Result, Sets
    <2>3. ASSUME NEW s \in Slots, NEW o \in Objects, ~Allocated(s), OpenLink(s, o) PROVE Sets
      BY <2>1, <2>2, <2>3 DEF OpenLink, Fresh
    <2>4. ASSUME NEW s \in Slots, NEW o \in Objects, ~Allocated(s), OpenObject(s, o, flags) PROVE Sets
      BY <2>1, <2>2, <2>4 DEF OpenObject, Fresh
    <2> QED
      BY <1>6, <2>3, <2>4, FailAnswers DEF Open, BadPath, UnusedDescriptor
  <1>7. ASSUME NEW h, Close(h) PROVE Answers \/ Sets
    BY <1>7, FailAnswers DEF Close, BadHandle, Done, Result, Sets, Fresh, Uses
  <1>8. ASSUME NEW h \in AnyHandle, NEW s \in Slots, Uses(s, h), fds[s].kind # "link"
        PROVE  fds[s].kind = "file"
    BY <1>8, UsesAllocated DEF TypeOK, Allocated, FileDescs, LinkDescs, Free
  <1>9. ASSUME NEW h \in AnyHandle, NEW n \in Sizes, Read(h, n) PROVE Answers \/ Begins
    BY <1>8, <1>9, FailAnswers DEF Read, BadHandle, PassedOn, Begins
  <1>10. ASSUME NEW h \in AnyHandle, NEW origin, NEW offset, Seek(h, origin, offset)
         PROVE  Answers \/ Seeks
    BY <1>8, <1>10, FailAnswers DEF Seek, BadHandle, PassedOn, Done, Result, Seeks
  <1> QED
    BY <1>1, <1>2, <1>3, <1>4, <1>5, <1>6, <1>7, <1>9, <1>10 DEF Call

(***************************************************************************)
(* The sizes that open() records.                                          *)
(***************************************************************************)
SizesFit ==
  \A s \in Slots : fds[s].kind = "file" =>
    fds[s].size = DataSize(fds[s].obj) /\ fds[s].size <= MediaSize

\* A step of read() moves the cursor of its descriptor at most.
LEMMA ReadStepFrame ==
  ASSUME TypeOK, ReadStep
  PROVE  /\ call \in Calls /\ call.slot \in Slots /\ fds[call.slot] \in FileDescs
         /\ \A s \in Slots : /\ fds'[s].kind = fds[s].kind
                             /\ s # call.slot => fds'[s] = fds[s]
         /\ fds'[call.slot].obj = fds[call.slot].obj
         /\ fds'[call.slot].size = fds[call.slot].size
  <1>1. call \in Calls /\ call.slot \in Slots /\ fds[call.slot] \in FileDescs
    BY DEF ReadStep, TypeOK, Calls, Idle, FileDescs, LinkDescs, Free
  <1>2. UNCHANGED fds \/ \E n : fds' = [fds EXCEPT ![call.slot] = [fds[call.slot] EXCEPT !.cursor = n]]
    BY DEF ReadStep, ReadEnd, ReadSkip, ReadData
  <1>3. ASSUME NEW n, fds' = [fds EXCEPT ![call.slot] = [fds[call.slot] EXCEPT !.cursor = n]]
        PROVE  /\ \A s \in Slots : /\ fds'[s].kind = fds[s].kind
                                   /\ s # call.slot => fds'[s] = fds[s]
               /\ fds'[call.slot].obj = fds[call.slot].obj
               /\ fds'[call.slot].size = fds[call.slot].size
    BY <1>1, <1>3 DEF TypeOK, FileDescs
  <1> QED
    BY <1>1, <1>2, <1>3

\* They are the sizes of the contents if the media can be read.
LEMMA SizesFitStep ==
  ASSUME ~MediaFaults, TypeOK, SizesFit, [Next]_vars
  PROVE  SizesFit'
  <1> USE DEF SizesFit
  <1>1. CASE UNCHANGED fds
    BY <1>1
  <1>2. CASE Sets
    <2>1. PICK x : Fresh(x) /\ \E s \in Slots : fds' = [fds EXCEPT ![s] = x]
      BY <1>2 DEF Sets
    <2>4. PICK s \in Slots : fds' = [fds EXCEPT ![s] = x]
      BY <2>1
    <2>2. x.kind = "file" => x.size = DataSize(x.obj) /\ x.size <= MediaSize
      BY <2>1, ImageAssumption DEF Fresh, Free, LinkDesc, FileDesc, ObjectDataSize
    <2>3. \A r \in Slots : fds'[r] = IF r = s THEN x ELSE fds[r]
      BY <2>4 DEF TypeOK
    <2> QED
      BY <2>2, <2>3
  <1>3. CASE Seeks
    <2>1. PICK s \in Slots : /\ fds[s].kind = "file"
                             /\ \E to \in 0..fds[s].size : fds' = [fds EXCEPT ![s].cursor = to]
      BY <1>3 DEF Seeks
    <2>2. fds[s] \in FileDescs
      BY <2>1 DEF TypeOK, LinkDescs, Free
    <2>3. \A r \in Slots : /\ r # s => fds'[r] = fds[r]
                           /\ fds'[s].obj = fds[s].obj /\ fds'[s].size = fds[s].size
      BY <2>1, <2>2 DEF TypeOK, FileDescs
    <2> QED
      BY <2>1, <2>3
  <1>4. CASE ReadStep
    BY <1>4, ReadStepFrame
  <1> QED
    BY <1>1, <1>2, <1>3, <1>4, CallEffect DEF Next, vars, Answers, Begins

\* open() records the total size of a file's data objects.
THEOREM SizesRecorded ==
  ASSUME ~MediaFaults
  PROVE  Spec => []SizeIsTotal
  <1>1. Init => SizesFit
    BY DEF Init, SizesFit, Free
  <1>2. TypeOK /\ SizesFit /\ [Next]_vars => SizesFit'
    BY SizesFitStep
  <1>3. SizesFit => SizeIsTotal
    BY DEF SizesFit, SizeIsTotal
  <1> QED
    BY <1>1, <1>2, <1>3, TypeCorrect, PTL DEF Spec

-----------------------------------------------------------------------------
(***************************************************************************)
(* Listings.                                                               *)
(***************************************************************************)
\* A listing grows by the next name, and entries of other kinds add nothing.
LEMMA NamesStep ==
  ASSUME NEW o \in Objects, NEW n \in 0..Len(Table(o)), NEW m \in 0..n,
         \A i \in (m + 1)..n : Table(o)[i].kind # "named"
  PROVE  /\ NamesUpTo(o, 0) = <<>>
         /\ NamesUpTo(o, n) = NamesUpTo(o, m)
         /\ NamesUpTo(o, n) \in Seq(Names)
         /\ n + 1 \in 1..Len(Table(o)) /\ Table(o)[n + 1].kind = "named"
              => NamesUpTo(o, n + 1) = Append(NamesUpTo(o, n), Table(o)[n + 1].name)
  <1>1. NamesUpTo(o, 0) = <<>>
    BY DEF NamesUpTo, FlattenSeq
  <1>2. Len(Table(o)) \in Nat /\ m \in 0..Len(Table(o))
    BY TableLength
  <1>3. NamesUpTo(o, n) \in Seq(Names)
    BY RowsJoined, JoinedType
  <1>4. \A i \in (m + 1)..n : NameRow(o)[i] = <<>>
    <2>1. \A i \in (m + 1)..n : i \in 1..Len(Table(o))
      BY <1>2
    <2> QED
      BY <2>1 DEF NameRow, NameOf
  <1>5. Joined(NameRow(o), n) = Joined(NameRow(o), m)
    BY <1>4, RowsJoined, JoinedSame
  <1>6. NamesUpTo(o, n) = NamesUpTo(o, m)
    BY <1>2, <1>5, RowsJoined
  <1>7. ASSUME n + 1 \in 1..Len(Table(o)), Table(o)[n + 1].kind = "named"
        PROVE  NamesUpTo(o, n + 1) = Append(NamesUpTo(o, n), Table(o)[n + 1].name)
    <2> DEFINE k == n + 1
    <2>1. k \in 1..Len(Table(o)) /\ k \in 0..Len(Table(o)) /\ k - 1 = n
      BY <1>7
    <2>2. NameRow(o)[k] = <<Table(o)[k].name>> /\ Table(o)[k].name \in Names
      <3>1. Table(o)[k] \in Entry
        BY <2>1, EntryType
      <3> QED
        BY <1>7, <2>1, <3>1 DEF NameRow, NameOf, Entry
    <2> HIDE DEF k
    <2>3. Joined(NameRow(o), k) = Joined(NameRow(o), k - 1) \o NameRow(o)[k]
      BY <2>1, RowsJoined, JoinedStep
    <2>4. NamesUpTo(o, k) = NamesUpTo(o, n) \o <<Table(o)[k].name>>
      BY <2>1, <2>2, <2>3, RowsJoined
    <2>5. NamesUpTo(o, k) = Append(NamesUpTo(o, n), Table(o)[k].name)
      BY <1>3, <2>2, <2>4
    <2> QED
      BY <2>5 DEF k
  <1> QED
    BY <1>1, <1>3, <1>6, <1>7

\* A directory object has its place within the child table, and what has been listed.
Listings ==
  /\ listed \in [DirIds -> Seq(Names)]
  /\ \A d \in DirIds :
       dirs[d].kind = "dir" => /\ dirs[d].child \in 1..(Len(Table(dirs[d].obj)) + 1)
                               /\ listed[d] = NamesUpTo(dirs[d].obj, dirs[d].child - 1)

\* What is set for one directory object leaves the listings of the others alone.
LEMMA ListingSet ==
  ASSUME TypeOK, Listings, NEW d \in DirIds, NEW x, NEW l \in Seq(Names),
         dirs' = [dirs EXCEPT ![d] = x], listed' = [listed EXCEPT ![d] = l],
         x.kind = "dir" => /\ x.child \in 1..(Len(Table(x.obj)) + 1)
                           /\ l = NamesUpTo(x.obj, x.child - 1)
  PROVE  Listings'
  <1>1. \A c \in DirIds : /\ dirs'[c] = IF c = d THEN x ELSE dirs[c]
                          /\ listed'[c] = IF c = d THEN l ELSE listed[c]
    BY DEF TypeOK, Listings
  <1>2. listed' \in [DirIds -> Seq(Names)]
    BY DEF Listings
  <1> QED
    BY <1>1, <1>2 DEF Listings

\* readdir() adds the next name, whatever entries of other kinds it passes over.
LEMMA ReaddirListing ==
  ASSUME ~MediaFaults, TypeOK, Listings, NEW d \in DirIds, Readdir(d)
  PROVE  Listings'
  <1> DEFINE o == dirs[d].obj
             c == dirs[d].child
             T == Len(Table(o))
  <1>1. CASE UNCHANGED <<dirs, listed>>
    BY <1>1 DEF Listings
  <1>2. ASSUME dirs[d].kind = "dir", NEW i \in NextNamed(o, c), UNCHANGED mounted,
               dirs' = [dirs EXCEPT ![d].child = i + 1],
               listed' = [listed EXCEPT ![d] = Append(@, Table(o)[i].name)]
        PROVE  Listings'
    <2>1. dirs[d] \in DirDescs /\ o \in Objects
      BY <1>2 DEF TypeOK, DirDescs, LinkDescs, Free
    <2>2. T \in Nat /\ c \in 1..(T + 1) /\ listed[d] = NamesUpTo(o, c - 1)
      BY <1>2, <2>1, TableLength DEF Listings
    <2>3. /\ i \in c..T /\ Table(o)[i].kind = "named"
          /\ \A j \in c..T : Table(o)[j].kind = "named" => i <= j
      BY DEF NextNamed
    <2> HIDE DEF o, c, T
    <2> DEFINE n == i - 1
               m == c - 1
    <2>4. n \in 0..T /\ m \in 0..n /\ n + 1 = i /\ i \in 1..T
          /\ \A j \in (m + 1)..n : Table(o)[j].kind # "named"
      BY <2>2, <2>3
    <2> HIDE DEF n, m
    <2>5. /\ NamesUpTo(o, n) = NamesUpTo(o, m) /\ NamesUpTo(o, n) \in Seq(Names)
          /\ NamesUpTo(o, n + 1) = Append(NamesUpTo(o, n), Table(o)[n + 1].name)
      BY <2>1, <2>3, <2>4, NamesStep DEF T
    <2>6. NamesUpTo(o, i) = Append(listed[d], Table(o)[i].name)
      BY <2>2, <2>4, <2>5 DEF m
    <2>7. NamesUpTo(o, i) \in Seq(Names)
      <3>1. i \in 0..Len(Table(o))
        BY <2>4 DEF T
      <3> QED
        BY <2>1, <3>1, RowsJoined, JoinedType
    <2> DEFINE x == [dirs[d] EXCEPT !.child = i + 1]
    <2>8. x.obj = o /\ x.child = i + 1 /\ dirs' = [dirs EXCEPT ![d] = x]
      BY <1>2, <2>1 DEF DirDescs, o
    <2>9. listed' = [listed EXCEPT ![d] = NamesUpTo(o, i)]
      BY <1>2, <2>6 DEF Listings
    <2>10. x.child \in 1..(Len(Table(x.obj)) + 1) /\ x.child - 1 = i
      BY <2>2, <2>4, <2>8 DEF T
    <2> HIDE DEF x
    <2> QED
      BY <2>7, <2>8, <2>9, <2>10, ListingSet
  <1>3. ASSUME dirs[d].kind = "dir", NextNamed(o, c) = {},
               dirs' = [dirs EXCEPT ![d].child = T + 1], UNCHANGED listed
        PROVE  Listings'
    <2>1. dirs[d] \in DirDescs /\ o \in Objects
      BY <1>3 DEF TypeOK, DirDescs, LinkDescs, Free
    <2>2. T \in Nat /\ c \in 1..(T + 1) /\ listed[d] = NamesUpTo(o, c - 1)
      BY <1>3, <2>1, TableLength DEF Listings
    <2>3. \A j \in c..T : Table(o)[j].kind # "named"
      <3> SUFFICES ASSUME { j \in c..T : Table(o)[j].kind = "named" } # {} PROVE FALSE
        OBVIOUS
      <3> DEFINE N == { j \in c..T : Table(o)[j].kind = "named" }
      <3>1. PICK i \in N : \A j \in N : i <= j
        <4>1. N \subseteq Nat /\ N # {}
          BY <2>2
        <4> HIDE DEF N
        <4> QED
          BY <4>1, LeastExists
      <3>2. i \in NextNamed(o, c)
        BY <3>1 DEF NextNamed
      <3> QED
        BY <1>3, <3>2
    <2> HIDE DEF o, c, T
    <2> DEFINE m == c - 1
    <2>4. T \in 0..T /\ m \in 0..T /\ \A j \in (m + 1)..T : Table(o)[j].kind # "named"
      BY <2>2, <2>3
    <2> HIDE DEF m
    <2>5. NamesUpTo(o, T) = NamesUpTo(o, m) /\ NamesUpTo(o, T) \in Seq(Names)
      BY <2>1, <2>4, NamesStep DEF T
    <2> DEFINE x == [dirs[d] EXCEPT !.child = T + 1]
    <2>6. x.obj = o /\ x.child = T + 1 /\ dirs' = [dirs EXCEPT ![d] = x]
      BY <1>3, <2>1 DEF DirDescs, o
    <2>7. listed' = [listed EXCEPT ![d] = NamesUpTo(o, T)]
      BY <1>3, <2>2, <2>5 DEF Listings, m
    <2>8. x.child \in 1..(Len(Table(x.obj)) + 1) /\ x.child - 1 = T
      BY <2>2, <2>6 DEF T
    <2> HIDE DEF x
    <2> QED
      BY <2>5, <2>6, <2>7, <2>8, ListingSet
  <1>4. ASSUME NEW err, Fail(err) PROVE UNCHANGED <<dirs, listed>>
    BY <1>4, FailFrame
  <1> QED
    BY <1>1, <1>2, <1>3, <1>4 DEF Readdir, history

\* Every step keeps the listings.
LEMMA ListingsStep ==
  ASSUME ~MediaFaults, TypeOK, Listings, [Next]_vars
  PROVE  Listings'
  <1>1. CASE UNCHANGED <<dirs, listed>>
    BY <1>1 DEF Listings
  <1>2. ASSUME NEW err, Fail(err) PROVE UNCHANGED <<dirs, listed>>
    BY <1>2, FailFrame
  <1>3. ASSUME NEW p, Opendir(p) PROVE Listings'
    <2>1. ASSUME NEW o \in Objects, NEW d \in DirIds, NEW x,
                 x = DirDesc(o, 1) \/ \E f, t : x = LinkDesc(f, t),
                 dirs' = [dirs EXCEPT ![d] = x], listed' = [listed EXCEPT ![d] = <<>>]
          PROVE  Listings'
      <3>1. x.kind = "dir" => x.child = 1 /\ x.obj = o
        BY <2>1 DEF DirDesc, LinkDesc
      <3>2. 1 \in 1..(Len(Table(o)) + 1) /\ 1 - 1 = 0
        BY TableLength
      <3>3. NamesUpTo(o, 0) = <<>> /\ <<>> \in Seq(Names)
        BY DEF NamesUpTo, FlattenSeq
      <3> QED
        BY <2>1, <3>1, <3>2, <3>3, ListingSet
    <2> QED
      BY <1>1, <1>2, <1>3, <2>1 DEF Opendir, BadPath
  <1>4. ASSUME NEW d \in DirIds, Rewinddir(d) \/ Closedir(d) PROVE Listings'
    <2>1. CASE Closedir(d)
      <3>1. Free.kind # "dir" /\ <<>> \in Seq(Names)
        BY DEF Free
      <3>2. dirs' = [dirs EXCEPT ![d] = Free] /\ listed' = [listed EXCEPT ![d] = <<>>]
        BY <2>1 DEF Closedir
      <3> QED
        BY <3>1, <3>2, ListingSet
    <2>2. CASE Rewinddir(d) /\ dirs[d].kind = "dir"
      <3> DEFINE x == [dirs[d] EXCEPT !.child = 1]
      <3>1. dirs[d] \in DirDescs
        BY <2>2 DEF TypeOK, DirDescs, LinkDescs, Free
      <3>2. dirs' = [dirs EXCEPT ![d] = x] /\ listed' = [listed EXCEPT ![d] = <<>>]
        BY <2>2 DEF Rewinddir
      <3>3. x.obj \in Objects /\ x.child = 1
        BY <3>1 DEF DirDescs
      <3>4. 1 \in 1..(Len(Table(x.obj)) + 1) /\ 1 - 1 = 0
        BY <3>3, TableLength
      <3>5. NamesUpTo(x.obj, 0) = <<>> /\ <<>> \in Seq(Names)
        BY DEF NamesUpTo, FlattenSeq
      <3> HIDE DEF x
      <3> QED
        BY <3>2, <3>3, <3>4, <3>5, ListingSet
    <2> QED
      BY <1>1, <1>2, <1>4, <2>1, <2>2 DEF Rewinddir
  <1>5. ASSUME NEW i, NEW f, SetVolume(i, f) PROVE UNCHANGED <<dirs, listed>>
    BY <1>2, <1>5 DEF SetVolume, history
  <1>6. ASSUME NEW p, NEW flags, Open(p, flags) PROVE UNCHANGED <<dirs, listed>>
    BY <1>2, <1>6 DEF Open, BadPath, OpenLink, OpenObject, Opened, OpenReset, history
  <1>7. ASSUME NEW p, NEW q, NEW h, NEW err,
               ModifyPath(p) \/ Rename(p, q) \/ Stat(p) \/ Query(h, err)
        PROVE  UNCHANGED <<dirs, listed>>
    BY <1>2, <1>7, InertCalls
  <1>8. ASSUME NEW h, NEW n, NEW origin, NEW offset,
               Close(h) \/ Read(h, n) \/ Seek(h, origin, offset)
        PROVE  UNCHANGED <<dirs, listed>>
    BY <1>2, <1>8 DEF Close, Read, Seek, BadHandle, PassedOn, history
  <1>9. CASE Call
    BY <1>1, <1>2, <1>3, <1>4, <1>5, <1>6, <1>7, <1>8, <1>9, ReaddirListing DEF Call, Mount, history
  <1>10. CASE ReadStep
    BY <1>1, <1>10 DEF ReadStep, ReadEnd, ReadSkip, ReadData, ReadNext, ReadReturn, history
  <1> QED
    BY <1>1, <1>9, <1>10 DEF Next, vars

\* While the media can be read, an enumeration produces just the named entries
\* that it has passed, each once and in child table order.
THEOREM ListingsInOrder ==
  ASSUME ~MediaFaults
  PROVE  Spec => []ListingInOrder
  <1>1. Init => Listings
    BY DEF Init, Listings, Free
  <1>2. TypeOK /\ Listings /\ [Next]_vars => Listings'
    BY ListingsStep
  <1>3. Listings => ListingInOrder
    BY DEF Listings, ListingInOrder
  <1> QED
    BY <1>1, <1>2, <1>3, TypeCorrect, PTL DEF Spec

(***************************************************************************)
(* What read() gathers.                                                    *)
(***************************************************************************)
\* Unsigned subtraction where nothing wraps.
LEMMA MinusIs ==
  ASSUME NEW a \in Nat, NEW b \in Nat, b <= a, a - b < WordSize
  PROVE  Minus(a, b) = a - b
  BY ParametersAssumption, SMTT(30) DEF Minus

\* A read() that begins within the content, up to the end of the first data object,
\* has the part of the content from there to the cursor; and it has either come to
\* no data object yet, or the cursor is where the last one ends.
Gathering(o, c, start, from, cursor, bytes) ==
  /\ bytes = SubSeq(Content(o), from + 1, cursor)
  /\ cursor <= DataSize(o)
  /\ cursor # start => from = cursor /\ NoData(o, c - 1)

\* How much of the data object at child c is read.
Taken(len, start, cursor, size, got) ==
  Least(Minus(len, Minus(cursor, start)), Minus(size, got))

\* Whether n is the smaller of two numbers.
IsLeast(n, u, v) == n \in Nat /\ n <= u /\ n <= v /\ (n = u \/ n = v)

\* Where nothing wraps it is the rest of the data object, or of what was asked for.
LEMMA TakenIs ==
  ASSUME NEW len \in Nat, NEW start \in Nat, NEW cursor \in Nat, NEW size \in Nat, NEW got \in Nat,
         start <= cursor, cursor <= start + len, len < WordSize, got <= size, size < WordSize
  PROVE  IsLeast(Taken(len, start, cursor, size, got), len - (cursor - start), size - got)
  <1> DEFINE r == cursor - start
             u == len - r
             v == size - got
  <1>1. WordSize \in Nat
    BY ParametersAssumption
  <1>2. r \in Nat /\ r <= len /\ r < WordSize
    BY <1>1
  <1>3. Minus(cursor, start) = r /\ Minus(size, got) = v
    BY <1>1, <1>2, MinusIs
  <1>4. u \in Nat /\ v \in Nat /\ u < WordSize
    BY <1>1, <1>2
  <1> HIDE DEF r
  <1>5. Minus(len, r) = u
    BY <1>2, <1>4, MinusIs
  <1> HIDE DEF u, v
  <1>6. Taken(len, start, cursor, size, got) = Least(u, v)
    BY <1>3, <1>5 DEF Taken
  <1>7. IsLeast(Least(u, v), u, v)
    BY <1>4 DEF Least, IsLeast
  <1> QED
    BY <1>6, <1>7 DEF u, v, r

\* Bytes of a data object from the cursor on follow in the content.
LEMMA RunFollows ==
  ASSUME NEW d \in Seq(Nat), NEW start \in Nat, NEW len \in Nat, NEW off \in Nat, NEW from \in Nat,
         NEW r \in Nat, NEW n \in Nat, NEW cursor \in Nat, NEW a \in Nat,
         cursor = start + r, a = off + r, from <= cursor,
         r + n <= len, start + len <= Len(d),
         HasRun(d, start, len, off)
  PROVE  Grows(d, from, cursor, n, a) /\ cursor + n <= start + len
  <1>1. cursor + n <= start + len /\ cursor + n <= Len(d)
    OBVIOUS
  <1>2. ASSUME NEW j \in 1..n PROVE d[cursor + j] = a + j - 1
    <2>1. r + j \in 1..len /\ start + (r + j) = cursor + j /\ off + (r + j) - 1 = a + j - 1
      OBVIOUS
    <2>2. d[start + (r + j)] = off + (r + j) - 1
      BY <2>1 DEF HasRun
    <2> QED
      BY <2>1, <2>2
  <1>3. HasRun(d, cursor, n, a)
    BY <1>2 DEF HasRun
  <1>4. Grows(d, from, cursor, n, a)
    BY <1>1, <1>3, PartGrows
  <1> QED
    BY <1>1, <1>4

\* The cursor of such a read() is within the data object that it comes to.
LEMMA CursorWithin ==
  ASSUME NEW o \in Objects, NEW c \in 1..Len(Table(o)), Table(o)[c].kind = "data",
         NEW from \in Nat, NEW cursor \in Nat, NEW bytes,
         Gathering(o, c, SizeUpTo(o, c - 1), from, cursor, bytes), InFirstObject(o, from)
  PROVE  SizeUpTo(o, c - 1) <= cursor /\ cursor <= SizeUpTo(o, c - 1) + Table(o)[c].len
  <1> DEFINE start == SizeUpTo(o, c - 1)
             len == Table(o)[c].len
  <1>1. len \in Nat /\ start \in Nat
    BY EntryType, SizeStep
  <1>2. CASE cursor = start
    BY <1>1, <1>2
  <1>3. CASE cursor # start
    <2>1. from = cursor /\ NoData(o, c - 1)
      BY <1>3 DEF Gathering
    <2>2. c - 1 \in 0..Len(Table(o)) /\ c \in 0..Len(Table(o)) /\ Len(Table(o)) \in Nat
      BY TableLength
    <2>3. start = 0
      BY <2>1, <2>2, NoDataNoSize
    <2>4. PICK i \in 0..Len(Table(o)) : /\ \A j \in 1..(i - 1) : Table(o)[j].kind # "data"
                                        /\ from <= SizeUpTo(o, i)
      BY DEF InFirstObject
    <2>5. i <= c
      BY <2>2, <2>4
    <2>6. SizeUpTo(o, i) <= SizeUpTo(o, c) /\ SizeUpTo(o, i) \in Nat /\ SizeUpTo(o, c) \in Nat
      BY <2>2, <2>4, <2>5, ContentPrefix, ContentStep
    <2>7. SizeUpTo(o, c) = len
      BY <1>1, <2>3, SizeStep
    <2>8. cursor <= len
      BY <2>1, <2>4, <2>6, <2>7
    <2> QED
      BY <1>1, <2>3, <2>8
  <1> QED
    BY <1>2, <1>3

\* The state of the loop, for any read().
Gathered ==
  call.kind = "read" =>
    LET d    == fds[call.slot]
        got  == Len(call.bytes)
        from == d.cursor - got
    IN
    /\ call.size \in 0..(WordSize - 1)
    /\ call.child <= Len(Table(d.obj)) + 1
    /\ call.start = SizeUpTo(d.obj, call.child - 1)
    /\ got <= call.size /\ got <= d.cursor
    /\ InFirstObject(d.obj, from) => Gathering(d.obj, call.child, call.start, from, d.cursor, call.bytes)

\* A read() that begins has gathered nothing.
LEMMA BeginsGathered ==
  ASSUME TypeOK, Begins
  PROVE  Gathered'
  <1>1. PICK s \in Slots, n \in Sizes :
           /\ fds[s].kind = "file"
           /\ call' = [kind |-> "read", slot |-> s, size |-> n, child |-> 1, start |-> 0, bytes |-> <<>>]
    BY DEF Begins
  <1> DEFINE d == fds[s]
  <1>2. d \in FileDescs /\ d.obj \in Objects /\ d.cursor \in Nat /\ fds' = fds
    BY <1>1 DEF Begins, TypeOK, FileDescs, LinkDescs, Free
  <1> HIDE DEF d
  <1>3. n \in 0..(WordSize - 1)
    BY ParametersAssumption
  <1>4. SizeUpTo(d.obj, 0) = 0 /\ Len(Table(d.obj)) \in Nat
    BY <1>2, TableLength DEF SizeUpTo, ContentUpTo, FlattenSeq
  <1>5. ASSUME InFirstObject(d.obj, d.cursor)
        PROVE  Gathering(d.obj, 1, 0, d.cursor, d.cursor, <<>>)
    <2>1. PICK i \in 0..Len(Table(d.obj)) : d.cursor <= SizeUpTo(d.obj, i)
      BY <1>5 DEF InFirstObject
    <2>2. Len(Table(d.obj)) \in 0..Len(Table(d.obj))
      BY <1>4
    <2>3. SizeUpTo(d.obj, i) <= DataSize(d.obj) /\ SizeUpTo(d.obj, i) \in Nat /\ DataSize(d.obj) \in Nat
      BY <1>2, <2>2, ContentPrefix, ContentStep DEF DataSize
    <2>4. SubSeq(Content(d.obj), d.cursor + 1, d.cursor) = <<>>
      BY <1>2, SubSeqEmpty
    <2>5. NoData(d.obj, 0)
      BY DEF NoData
    <2> QED
      BY <1>2, <2>1, <2>3, <2>4, <2>5 DEF Gathering
  <1>6. /\ call'.kind = "read" /\ call'.slot = s /\ call'.size = n /\ call'.child = 1
        /\ call'.start = 0 /\ call'.bytes = <<>> /\ fds'[s] = d
    BY <1>1, <1>2 DEF d
  <1>7. d.cursor - 0 = d.cursor /\ 1 - 1 = 0 /\ Len(<<>>) = 0
    BY <1>2
  <1> QED
    BY <1>2, <1>3, <1>4, <1>5, <1>6, <1>7 DEF Gathered

\* What read() returns, if it began in the first data object.
Returned(o, from, size, bytes) ==
  /\ bytes = SubSeq(Content(o), from + 1, from + Len(bytes))
  /\ Len(bytes) = Least(size, Len(Content(o)) - from)

\* A step of the loop goes on as it should, or returns what it should.
LEMMA ReadStepGathered ==
  ASSUME ~MediaFaults, TypeOK, TypeOK', SizesFit, Gathered, ReadStep
  PROVE  /\ Gathered'
         /\ call'.kind = "idle" /\ ret'.err = "OK" =>
              LET d    == fds'[call.slot]
                  from == d.cursor - Len(ret'.bytes)
              IN  InFirstObject(d.obj, from) => Returned(d.obj, from, call.size, ret'.bytes)
  <1> DEFINE d      == fds[call.slot]
             o      == d.obj
             c      == call.child
             start  == call.start
             bytes  == call.bytes
             size   == call.size
             got    == Len(bytes)
             cursor == d.cursor
             from   == cursor - got
             T      == Len(Table(o))
             e      == Table(o)[c]
  <1>1. call \in Calls /\ call.slot \in Slots /\ d \in FileDescs /\ d.kind = "file" /\ call.kind = "read"
    BY ReadStepFrame DEF FileDescs, ReadStep
  <1>2. /\ o \in Objects /\ T \in Nat /\ cursor \in Nat /\ start \in Nat /\ c \in Nat \ {0}
        /\ bytes \in Seq(Nat) /\ got \in Nat
    BY <1>1, TableLength DEF Calls, FileDescs
  <1>3. /\ size \in 0..(WordSize - 1) /\ c <= T + 1 /\ start = SizeUpTo(o, c - 1)
        /\ got <= size /\ got <= cursor
        /\ InFirstObject(o, from) => Gathering(o, c, start, from, cursor, bytes)
    BY <1>1 DEF Gathered
  <1>4. /\ d.size = DataSize(o) /\ DataSize(o) < WordSize
        /\ DataSize(o) \in Nat /\ Len(Content(o)) = DataSize(o)
    <2>1. d.size = DataSize(o) /\ d.size <= MediaSize
      BY <1>1 DEF SizesFit
    <2>2. T \in 0..T
      BY <1>2
    <2>3. DataSize(o) \in Nat /\ Len(Content(o)) = DataSize(o)
      BY <1>2, <2>2, ContentStep DEF DataSize, SizeUpTo, Content
    <2> QED
      BY <2>1, <2>3, ParametersAssumption, ImageAssumption
  <1>5. /\ from \in Nat /\ from + got = cursor
        /\ WordSize \in Nat
    BY <1>2, <1>3, ParametersAssumption
  \* Going on to the next entry with what has been gathered up to there.
  <1>6. ASSUME c <= T, NEW x \in FileDescs, NEW b \in Seq(Nat), NEW start2,
               x.obj = o, fds'[call.slot] = x,
               call' = [call EXCEPT !.child = c + 1, !.start = start2, !.bytes = b],
               start2 = SizeUpTo(o, c), Len(b) <= size, Len(b) <= x.cursor,
               InFirstObject(o, x.cursor - Len(b)) =>
                 Gathering(o, c + 1, start2, x.cursor - Len(b), x.cursor, b)
        PROVE  Gathered' /\ call'.kind = "read"
    <2>1. /\ call'.kind = "read" /\ call'.slot = call.slot /\ call'.size = size
          /\ call'.child = c + 1 /\ call'.start = start2 /\ call'.bytes = b
      BY <1>1, <1>6 DEF Calls
    <2>2. c + 1 <= T + 1 /\ (c + 1) - 1 = c
      BY <1>2, <1>6
    <2> HIDE DEF d, o, c, start, bytes, size, got, cursor, from, T, e
    <2>3. fds'[call'.slot] = x /\ x.obj = o /\ T = Len(Table(x.obj))
      BY <1>6, <2>1 DEF T
    <2> QED
      BY <1>3, <1>6, <2>1, <2>2, <2>3 DEF Gathered
  \* Returning what has been gathered.
  <1>7. ASSUME NEW x \in FileDescs, NEW b \in Seq(Nat), x.obj = o, fds'[call.slot] = x,
               ReadReturn("OK", b), Len(b) <= size, Len(b) <= x.cursor,
               InFirstObject(o, x.cursor - Len(b)) =>
                 /\ b = SubSeq(Content(o), (x.cursor - Len(b)) + 1, x.cursor)
                 /\ x.cursor <= DataSize(o)
                 /\ Len(b) = size \/ x.cursor >= DataSize(o)
        PROVE  /\ Gathered'
               /\ LET y == fds'[call.slot]
                      f == y.cursor - Len(ret'.bytes)
                  IN  InFirstObject(y.obj, f) => Returned(y.obj, f, call.size, ret'.bytes)
    <2>1. call'.kind = "idle" /\ ret'.bytes = b
      BY <1>7 DEF ReadReturn, Idle, Result
    <2>2. x.cursor \in Nat /\ Len(b) \in Nat
      BY <1>7 DEF FileDescs
    <2> DEFINE f == x.cursor - Len(b)
    <2>3. f + Len(b) = x.cursor /\ f \in Nat
      BY <1>7, <2>2
    <2>4. ASSUME InFirstObject(o, f) PROVE Returned(o, f, size, b)
      <3>1. b = SubSeq(Content(o), f + 1, f + Len(b))
        BY <1>7, <2>3, <2>4
      <3>2. x.cursor <= DataSize(o) /\ (Len(b) = size \/ x.cursor >= DataSize(o))
        BY <1>7, <2>4
      <3>3. Len(b) = Least(size, Len(Content(o)) - f)
        <4> HIDE DEF f
        <4> QED
          BY <1>3, <1>4, <1>5, <1>7, <2>2, <2>3, <3>2 DEF Least
      <3> QED
        BY <3>1, <3>3 DEF Returned
    <2> QED
      BY <1>7, <2>1, <2>4 DEF Gathered
  <1>8. fds'[call.slot] \in FileDescs /\ fds'[call.slot].obj = o
    BY <1>1, ReadStepFrame DEF TypeOK, FileDescs, LinkDescs, Free
  \* The end of the child table.
  <1>9. ASSUME c > T, InFirstObject(o, from)
        PROVE  bytes = SubSeq(Content(o), from + 1, cursor) /\ cursor <= DataSize(o) /\ cursor >= DataSize(o)
    <2>1. c - 1 = T /\ T \in 0..T
      BY <1>2, <1>3, <1>9
    <2>2. start = DataSize(o)
      BY <1>3, <2>1 DEF DataSize
    <2>3. Gathering(o, c, start, from, cursor, bytes)
      BY <1>3, <1>9
    <2>4. CASE cursor # start
      <3>1. NoData(o, T)
        BY <2>1, <2>3, <2>4 DEF Gathering
      <3>2. DataSize(o) = 0
        BY <1>2, <2>1, <3>1, NoDataNoSize DEF DataSize
      <3> QED
        BY <1>2, <2>3, <3>2 DEF Gathering
    <2>5. CASE cursor = start
      BY <1>2, <2>2, <2>3, <2>5 DEF Gathering
    <2> QED
      BY <2>4, <2>5
  <1>10. CASE ReadEnd
    <2> HIDE DEF o, c, start, bytes, size, got, cursor, from, T, e
    <2>1. fds'[call.slot] = d /\ c > T /\ ReadReturn("OK", bytes)
      BY <1>10 DEF ReadEnd, c, T, o, d, bytes
    <2>2. InFirstObject(o, d.cursor - Len(bytes)) =>
            /\ bytes = SubSeq(Content(o), (d.cursor - Len(bytes)) + 1, d.cursor)
            /\ d.cursor <= DataSize(o)
            /\ Len(bytes) = size \/ d.cursor >= DataSize(o)
      BY <1>9, <2>1 DEF from, cursor, got
    <2> HIDE DEF d
    <2> QED
      BY <1>1, <1>2, <1>3, <1>7, <2>1, <2>2 DEF o, got, cursor
  <1>11. CASE ReadSkip
    <2>1. c <= T /\ e.kind # "data" /\ fds' = fds
      BY <1>11 DEF ReadSkip
    <2>2. call' = [call EXCEPT !.child = c + 1, !.start = start, !.bytes = bytes]
      BY <1>1, <1>11 DEF ReadSkip, Calls
    <2>3. c \in 1..T
      BY <1>2, <2>1
    <2>4. start = SizeUpTo(o, c)
      BY <1>2, <1>3, <2>1, <2>3, SizeStep
    <2>5. Gathering(o, c, start, from, cursor, bytes) => Gathering(o, c + 1, start, from, cursor, bytes)
      <3>1. NoData(o, c - 1) => NoData(o, (c + 1) - 1)
        BY <1>2, <2>1, <2>3 DEF NoData
      <3> QED
        BY <3>1 DEF Gathering
    <2> HIDE DEF e
    <2>6. fds'[call.slot] = d
      BY <2>1
    <2> HIDE DEF o, c, start, bytes, size, got, cursor, from, T, d
    <2> QED
      BY <1>1, <1>2, <1>3, <1>6, <2>1, <2>2, <2>4, <2>5, <2>6 DEF o, got, cursor, from
  <1>12. CASE ReadData
    <2>1. c \in 1..T /\ e.kind = "data" /\ e.len \in Nat /\ e.off \in Nat
      <3>1. c \in 1..T /\ e.kind = "data"
        BY <1>2, <1>12 DEF ReadData
      <3> QED
        BY <1>2, <3>1, EntryType
    <2>2. SizeUpTo(o, c) = start + e.len
      BY <1>2, <1>3, <2>1, SizeStep
    <2> DEFINE n     == Taken(e.len, start, cursor, size, got)
               moved == [d EXCEPT !.cursor = @ + n]
               b     == bytes \o Bytes(e.off + (cursor - start), n)
    \* The end of the iteration.
    <2>3. ASSUME NEW x \in FileDescs, NEW w \in Seq(Nat), x.obj = o, x.size = d.size, fds'[call.slot] = x,
                 ReadNext(x, e, w), Len(w) <= size, Len(w) <= x.cursor,
                 InFirstObject(o, x.cursor - Len(w)) =>
                   /\ w = SubSeq(Content(o), (x.cursor - Len(w)) + 1, x.cursor)
                   /\ x.cursor <= DataSize(o)
                   /\ Len(w) = size \/ x.cursor = start + e.len
          PROVE  /\ Gathered'
                 /\ call'.kind = "idle" /\ ret'.err = "OK" =>
                      LET y == fds'[call.slot]
                          f == y.cursor - Len(ret'.bytes)
                      IN  InFirstObject(y.obj, f) => Returned(y.obj, f, call.size, ret'.bytes)
      <3>1. CASE Len(w) = size \/ x.cursor >= d.size
        <4>1. ReadReturn("OK", w)
          BY <2>3, <3>1 DEF ReadNext
        <4>2. InFirstObject(o, x.cursor - Len(w)) =>
                /\ w = SubSeq(Content(o), (x.cursor - Len(w)) + 1, x.cursor)
                /\ x.cursor <= DataSize(o)
                /\ Len(w) = size \/ x.cursor >= DataSize(o)
          BY <1>4, <2>3, <3>1
        <4> HIDE DEF d, o, c, start, bytes, size, got, cursor, from, T, e
        <4> QED
          BY <1>7, <2>3, <4>1, <4>2
      <3>2. CASE ~(Len(w) = size \/ x.cursor >= d.size)
        <4>1. call' = [call EXCEPT !.child = c + 1, !.start = start + e.len, !.bytes = w]
          BY <1>1, <2>3, <3>2 DEF ReadNext, Calls
        <4>2. InFirstObject(o, x.cursor - Len(w)) =>
                Gathering(o, c + 1, start + e.len, x.cursor - Len(w), x.cursor, w)
          BY <2>3, <3>2 DEF Gathering
        <4>3. c <= T
          BY <2>1
        <4> HIDE DEF d, o, c, start, bytes, size, got, cursor, from, T, e
        <4>4. Gathered' /\ call'.kind = "read"
          BY <1>6, <2>2, <2>3, <4>1, <4>2, <4>3
        <4> QED
          BY <4>4
      <3> QED
        BY <3>1, <3>2
    <2>4. CASE cursor < start /\ UNCHANGED fds /\ ReadNext(d, e, bytes)
      <3>1. ~InFirstObject(o, from)
        <4> SUFFICES ASSUME InFirstObject(o, from) PROVE FALSE
          OBVIOUS
        <4>1. Gathering(o, c, start, from, cursor, bytes)
          BY <1>3
        <4>2. NoData(o, c - 1)
          BY <1>2, <2>4, <4>1 DEF Gathering
        <4>3. c - 1 \in 0..T
          BY <1>2, <2>1
        <4>4. start = 0
          BY <1>2, <1>3, <4>2, <4>3, NoDataNoSize
        <4> QED
          BY <1>2, <2>4, <4>4
      <3>2. fds'[call.slot] = d
        BY <2>4
      <3> HIDE DEF o, c, start, bytes, size, e, n, moved, b, T
      <3>3. ~InFirstObject(o, d.cursor - Len(bytes))
        BY <3>1 DEF from, cursor, got
      <3>4. Len(bytes) <= size /\ Len(bytes) <= d.cursor
        BY <1>3
      <3> HIDE DEF d
      <3> QED
        BY <1>1, <1>2, <2>3, <2>4, <3>2, <3>3, <3>4 DEF o
    <2>5. CASE cursor >= start /\ UNCHANGED fds /\ ReadReturn("ReadFailure", <<>>)
      BY <2>5 DEF ReadReturn, Gathered, Idle, Result
    <2>6. CASE /\ cursor >= start
               /\ fds' = [fds EXCEPT ![call.slot] = moved]
               /\ ReadNext(moved, e, b)
      <3>1. n \in Nat /\ n <= size - got
        <4>1. Minus(size, got) = size - got /\ size - got \in Nat
          <5> HIDE DEF size, got, cursor, from, o, c, start, bytes, T
          <5>1. size \in Nat /\ got \in Nat /\ got <= size /\ size - got < WordSize /\ size - got \in Nat
            BY <1>2, <1>3, <1>5
          <5> QED
            BY <5>1, MinusIs
        <4> DEFINE m   == Minus(cursor, start)
                   len == e.len
                   k   == Minus(len, m)
        <4>2. cursor \in Int /\ start \in Int /\ len \in Int
          BY <1>2, <2>1
        <4> HIDE DEF cursor, start, e, size, got, len
        <4>3. m \in Nat
          BY <4>2, MinusType
        <4> HIDE DEF m
        <4>4. k \in Nat
          BY <4>2, <4>3, MinusType
        <4>5. n = Least(k, size - got)
          BY <4>1 DEF Taken, m, len
        <4> HIDE DEF k, n
        <4> QED
          BY <4>1, <4>4, <4>5 DEF Least
      <3> HIDE DEF n
      <3>2. b \in Seq(Nat) /\ Len(b) = got + n
        <4> DEFINE a == e.off + (cursor - start)
                   r == Bytes(a, n)
        <4>1. a \in Nat
          <5> HIDE DEF cursor, start, e
          <5> QED
            BY <1>2, <2>1, <2>6
        <4>2. r \in Seq(Nat) /\ Len(r) = n
          <5> HIDE DEF a
          <5> QED
            BY <3>1, <4>1, BytesAre
        <4> HIDE DEF r, bytes
        <4>3. bytes \o r \in Seq(Nat) /\ Len(bytes \o r) = Len(bytes) + Len(r)
          BY <1>2, <4>2, ConcatProperties
        <4> QED
          BY <4>2, <4>3 DEF r
      <3>3. moved \in FileDescs /\ moved.obj = o /\ moved.size = d.size /\ moved.cursor = cursor + n
            /\ fds'[call.slot] = moved
        <4>1. moved = [d EXCEPT !.cursor = cursor + n] /\ cursor + n \in Nat
          BY <1>1, <1>2, <3>1 DEF FileDescs
        <4>2. fds'[call.slot] = moved
          BY <1>1, <2>6 DEF TypeOK
        <4> HIDE DEF moved, d
        <4> QED
          BY <1>1, <4>1, <4>2 DEF FileDescs, o, cursor
      <3> HIDE DEF moved, b
      <3>4. moved.cursor - Len(b) = from /\ Len(b) <= size /\ Len(b) <= moved.cursor
        <4> HIDE DEF cursor, size, got
        <4> QED
          BY <1>2, <1>3, <3>1, <3>2, <3>3
      <3> HIDE DEF d, o, c, start, bytes, size, got, cursor, T, e
      <3>5. ASSUME InFirstObject(o, from)
            PROVE  /\ b = SubSeq(Content(o), from + 1, moved.cursor)
                   /\ moved.cursor <= DataSize(o)
                   /\ Len(b) = size \/ moved.cursor = start + e.len
        <4>1. Gathering(o, c, start, from, cursor, bytes)
          BY <1>3, <3>5
        <4> HIDE DEF from
        <4>2. c \in 1..Len(Table(o)) /\ Table(o)[c].kind = "data"
          BY <2>1 DEF T, e
        <4> DEFINE len == e.len
                   off == e.off
                   r   == cursor - start
                   a   == off + r
        <4>3. start <= cursor /\ cursor <= start + len /\ len \in Nat /\ off \in Nat
          BY <1>2, <1>3, <1>5, <2>1, <3>5, <4>1, <4>2, CursorWithin DEF e
        <4>4. size \in Nat /\ size < WordSize /\ len < WordSize
          <5>1. start + Table(o)[c].len <= DataSize(o)
            BY <1>2, <1>3, <4>2, ContentOfEntry
          <5>2. start + len <= DataSize(o)
            BY <5>1 DEF e
          <5> HIDE DEF len
          <5> QED
            BY <1>2, <1>3, <1>4, <1>5, <4>3, <5>2
        <4>5. n = Taken(len, start, cursor, size, got)
          BY DEF n
        <4> HIDE DEF len, off
        <4>6. n <= len - (cursor - start) /\ (n = size - got \/ n = len - (cursor - start))
          <5>1. /\ len \in Nat /\ start \in Nat /\ cursor \in Nat /\ size \in Nat /\ got \in Nat
                /\ start <= cursor /\ cursor <= start + len /\ len < WordSize
                /\ got <= size /\ size < WordSize
            BY <1>2, <1>3, <4>3, <4>4
          <5>2. IsLeast(Taken(len, start, cursor, size, got), len - (cursor - start), size - got)
            BY <5>1, TakenIs
          <5> QED
            BY <4>5, <5>2 DEF IsLeast
        <4>7. /\ r \in Nat /\ a \in Nat /\ cursor = start + r /\ r + n <= len /\ from <= cursor
              /\ n = size - got \/ r + n = len
          BY <1>2, <1>5, <3>1, <4>3, <4>6
        <4>8. a = off + r
          OBVIOUS
        <4> DEFINE w == Content(o)
        <4>12. w \in Seq(Nat) /\ Len(w) = DataSize(o) /\ DataSize(o) \in Nat
               /\ start + len <= DataSize(o) /\ HasRun(w, start, len, off)
          BY <1>2, <1>3, <4>2, ContentOfEntry DEF e, len, off
        <4> HIDE DEF r, a, w
        <4>13. Grows(w, from, cursor, n, a) /\ cursor + n <= start + len
          <5>1. /\ w \in Seq(Nat) /\ start \in Nat /\ len \in Nat /\ off \in Nat /\ from \in Nat
                /\ r \in Nat /\ n \in Nat /\ cursor \in Nat /\ a \in Nat
                /\ cursor = start + r /\ a = off + r /\ from <= cursor
                /\ r + n <= len /\ start + len <= Len(w) /\ HasRun(w, start, len, off)
            BY <1>2, <1>5, <3>1, <4>3, <4>7, <4>8, <4>12
          <5> QED
            BY <5>1, RunFollows
        <4>14. cursor + n <= DataSize(o)
          <5> HIDE DEF w
          <5>1. start + len \in Nat /\ cursor + n \in Nat
            BY <1>2, <3>1, <4>3
          <5> QED
            BY <4>12, <4>13, <5>1
        <4>10. b = SubSeq(Content(o), from + 1, cursor + n)
          <5>1. bytes = SubSeq(Content(o), from + 1, cursor)
            BY <4>1 DEF Gathering
          <5>2. b = bytes \o Bytes(a, n)
            BY DEF b, a, r, off
          <5> QED
            BY <4>13, <5>1, <5>2 DEF Grows, w
        <4>11. Len(b) = size \/ cursor + n = start + len
          <5>1. Len(b) = got + n /\ got \in Nat /\ size \in Nat
            BY <1>2, <3>2, <4>4
          <5> QED
            BY <1>2, <3>1, <4>3, <4>7, <5>1
        <4> QED
          BY <3>3, <4>14, <4>10, <4>11 DEF len
      <3> HIDE DEF from
      <3> QED
        BY <2>3, <2>6, <3>2, <3>3, <3>4, <3>5
    <2> QED
      <3>1. ReadLength(d, e) = n
        BY DEF ReadLength, Taken
      <3> QED
        BY <1>12, <2>4, <2>5, <2>6, <3>1 DEF ReadData
  <1> QED
    BY <1>10, <1>11, <1>12 DEF ReadStep

\* The state of the loop is kept.
LEMMA GatheredStep ==
  ASSUME ~MediaFaults, TypeOK, TypeOK', SizesFit, Gathered, [Next]_vars
  PROVE  Gathered'
  <1>1. CASE UNCHANGED <<fds, call>>
    BY <1>1 DEF Gathered
  <1>2. CASE call'.kind = "idle"
    BY <1>2 DEF Gathered
  <1> QED
    BY <1>1, <1>2, CallEffect, BeginsGathered, ReadStepGathered
       DEF Next, vars, Answers, Sets, Seeks

\* While the media can be read, a read() that begins in the first data object of a
\* file returns the file's data, as much of it as was asked for and is there.
THEOREM ReadsFromFirstObject ==
  ASSUME ~MediaFaults
  PROVE  Spec => ReadFromFirstObject
  <1>1. Init => SizesFit /\ Gathered
    BY DEF Init, SizesFit, Gathered, Free, Idle
  <1>2. TypeOK /\ TypeOK' /\ SizesFit /\ Gathered /\ [Next]_vars => SizesFit' /\ Gathered'
    BY SizesFitStep, GatheredStep
  <1>3. TypeOK /\ TypeOK' /\ SizesFit /\ Gathered /\ [Next]_vars =>
          [ call.kind = "read" /\ call'.kind = "idle" /\ ret'.err = "OK" =>
              LET d    == fds'[call.slot]
                  n    == Len(ret'.bytes)
                  from == d.cursor - n
              IN  InFirstObject(d.obj, from) =>
                    /\ ret'.bytes = SubSeq(Content(d.obj), from + 1, from + n)
                    /\ n = Least(call.size, Len(Content(d.obj)) - from) ]_vars
    BY ReadStepGathered DEF Next, Returned, Idle
  <1> QED
    BY <1>1, <1>2, <1>3, TypeCorrect, PTL DEF Spec, ReadFromFirstObject

(***************************************************************************)
(* Files with one data object, as the builder writes them: the file system *)
(* is the store of files that ReadStore promises.                          *)
(***************************************************************************)
OneDataObject ==
  \A o \in Objects :
    /\ \A i, j \in 1..Len(Table(o)) : Table(o)[i].kind = "data" /\ Table(o)[j].kind = "data" => i = j
    /\ DataSize(o) <= MediaSize

\* The data object begins at the start of the content and is all of it.
LEMMA OneIsAll ==
  ASSUME OneDataObject, NEW o \in Objects, NEW c \in 1..Len(Table(o)), Table(o)[c].kind = "data"
  PROVE  SizeUpTo(o, c - 1) = 0 /\ DataSize(o) = Table(o)[c].len
  <1> DEFINE T == Len(Table(o))
  <1>1. T \in Nat /\ T \in 0..T /\ c - 1 \in 0..T /\ c \in 0..T
    BY TableLength
  <1>2. ASSUME NEW j \in 1..T, j # c PROVE Table(o)[j].kind # "data"
    BY <1>2 DEF OneDataObject
  <1>3. NoData(o, c - 1)
    BY <1>1, <1>2 DEF NoData
  <1>4. SizeUpTo(o, c - 1) = 0
    BY <1>1, <1>3, NoDataNoSize
  <1>5. SizeUpTo(o, c) = Table(o)[c].len
    BY <1>4, EntryType, SizeStep
  <1>6. \A j \in (c + 1)..T : DataRow(o)[j] = <<>>
    BY <1>1, <1>2 DEF DataRow, DataOf
  <1>7. /\ T \in Nat /\ DataRow(o) \in Row(Nat, T)
        /\ ContentUpTo(o, T) = Joined(DataRow(o), T) /\ ContentUpTo(o, c) = Joined(DataRow(o), c)
    BY <1>1, RowsJoined
  <1> HIDE DEF T
  <1>8. Joined(DataRow(o), T) = Joined(DataRow(o), c)
    BY <1>1, <1>6, <1>7, JoinedSame
  <1>9. SizeUpTo(o, T) = SizeUpTo(o, c)
    BY <1>7, <1>8 DEF SizeUpTo
  <1> QED
    BY <1>4, <1>5, <1>9 DEF DataSize, T

(***************************************************************************)
(* The state that a read() of such a file is in.                           *)
(***************************************************************************)
Within(d) ==
  d.kind = "file" => d.size <= DataSize(d.obj) /\ d.cursor <= DataSize(d.obj)

Single ==
  /\ \A s \in Slots : Within(fds[s])
  /\ call.kind = "read" => /\ call.bytes = <<>> /\ call.start = 0
                           /\ call.size \in 0..(WordSize - 1)

\* What the holder of a handle sees of its descriptor.
Shown(d) == IF d.kind # "file" THEN Closed ELSE [obj |-> d.obj, pos |-> d.cursor]
Plain(f) == [h \in Handles |-> Shown(f[h - HandleMin])]

\* The position is the cursor, as nothing has been gathered yet.
TabOf(f, c) ==
  [h \in Handles |->
     LET d == f[h - HandleMin] IN
     IF d.kind # "file" THEN Closed
     ELSE [obj |-> d.obj,
           pos |-> IF c.kind = "read" /\ c.slot = h - HandleMin
                   THEN d.cursor - Len(c.bytes) ELSE d.cursor]]

LEMMA TabIsPlain ==
  ASSUME NEW f, NEW c, c.kind = "read" => c.bytes = <<>>,
         \A s \in Slots : f[s].kind = "file" => f[s].cursor \in Nat
  PROVE  TabOf(f, c) = Plain(f)
  <1>1. ASSUME NEW h \in Handles PROVE h - HandleMin \in Slots
    BY ParametersAssumption DEF Handles, HandleMax, Slots
  <1>2. ASSUME NEW h \in Handles, f[h - HandleMin].kind = "file",
               c.kind = "read", c.slot = h - HandleMin
        PROVE  f[h - HandleMin].cursor - Len(c.bytes) = f[h - HandleMin].cursor
    <2>1. Len(c.bytes) = 0
      BY <1>2
    <2>2. f[h - HandleMin].cursor \in Nat
      BY <1>1, <1>2
    <2> QED
      BY <2>1, <2>2
  <1> QED
    BY <1>2 DEF TabOf, Plain, Shown

\* Whether f and g differ in what they show for one handle at most, which shows x in g.
ShowsAt(f, g, s, x) ==
  LET h == HandleMin + s IN
  /\ h \in Handles
  /\ Plain(f)[h] = Shown(f[s])
  /\ Plain(g) = [Plain(f) EXCEPT ![h] = Shown(x)]

\* A change of one descriptor is a change of one handle.
LEMMA PlainExcept ==
  ASSUME NEW f, NEW g, NEW s \in Slots, NEW x,
         \A r \in Slots : g[r] = IF r = s THEN x ELSE f[r]
  PROVE  ShowsAt(f, g, s, x)
  <1> DEFINE k == HandleMin + s
  <1>1. k \in Handles /\ k - HandleMin = s
    BY ParametersAssumption DEF Handles, HandleMax, Slots
  <1>2. ASSUME NEW h \in Handles
        PROVE  h - HandleMin \in Slots /\ (h # k => h - HandleMin # s)
    BY ParametersAssumption DEF Handles, HandleMax, Slots
  <1> HIDE DEF k
  <1>3. Plain(f)[k] = Shown(f[s])
    BY <1>1 DEF Plain
  <1>4. ASSUME NEW h \in Handles
        PROVE  Shown(g[h - HandleMin]) = IF h = k THEN Shown(x) ELSE Shown(f[h - HandleMin])
    BY <1>1, <1>2
  <1>5. Plain(g) = [Plain(f) EXCEPT ![k] = Shown(x)]
    BY <1>4 DEF Plain
  <1> QED
    BY <1>1, <1>3, <1>5 DEF k, ShowsAt

\* A descriptor of a file is an open handle.
LEMMA ShownOpen ==
  ASSUME NEW d \in FileDescs
  PROVE  Shown(d) = [obj |-> d.obj, pos |-> d.cursor] /\ Shown(d) # Closed
  <1>1. d.kind = "file" /\ d.obj \in Objects /\ d.cursor \in Int
    BY DEF FileDescs
  <1>2. [obj |-> d.obj, pos |-> d.cursor] \in [obj : Objects, pos : Int]
    BY <1>1
  <1> QED
    BY <1>1, <1>2, ClosedAssumption DEF Shown

\* A read() of such a file passes over its attributes, comes to nothing, or returns at once.
Passes  == UNCHANGED <<fds, ret>> /\ call'.kind = "read" /\ call'.bytes = <<>>
Nothing == UNCHANGED fds /\ call'.kind = "idle" /\ ret'.bytes = <<>>

Reads(s, n) ==
  LET d == fds[s]
      q == Least(d.cursor + n, DataSize(d.obj))
  IN
  /\ fds' = [fds EXCEPT ![s] = [d EXCEPT !.cursor = q]]
  /\ ret'.bytes = SubSeq(Content(d.obj), d.cursor + 1, q)
  /\ call'.kind = "idle"

\* What a data object that is all of the content gives to a read().
LEMMA TakenAtOnce ==
  ASSUME NEW len \in Nat, NEW cursor \in Nat, NEW size \in Nat,
         cursor <= len, len < WordSize, size < WordSize
  PROVE  /\ cursor + Taken(len, 0, cursor, size, 0) = Least(cursor + size, len)
         /\ Taken(len, 0, cursor, size, 0) = size \/ Least(cursor + size, len) = len
         /\ Taken(len, 0, cursor, size, 0) \in Nat
         /\ Taken(len, 0, cursor, size, 0) <= len - cursor
         /\ Least(cursor + size, len) \in Nat /\ Least(cursor + size, len) <= len
  <1> DEFINE n == Taken(len, 0, cursor, size, 0)
  <1>1. /\ n \in Nat /\ n <= size - 0 /\ n <= len - (cursor - 0)
        /\ n = size - 0 \/ n = len - (cursor - 0)
    <2> DEFINE z == 0
    <2>1. z \in Nat /\ z <= cursor /\ cursor <= z + len /\ z <= size
      OBVIOUS
    <2>2. n = Taken(len, z, cursor, size, z)
      OBVIOUS
    <2> HIDE DEF n, z
    <2>3. /\ n \in Nat /\ n <= size - z /\ n <= len - (cursor - z)
          /\ n = size - z \/ n = len - (cursor - z)
      BY <2>1, <2>2, TakenIs DEF IsLeast
    <2> QED
      BY <2>3 DEF z
  <1> HIDE DEF n
  <1>2. /\ cursor + n = Least(cursor + size, len)
        /\ n = size \/ Least(cursor + size, len) = len
        /\ n <= len - cursor
        /\ Least(cursor + size, len) \in Nat /\ Least(cursor + size, len) <= len
    BY <1>1 DEF Least
  <1> QED
    BY <1>1, <1>2 DEF n

\* The bytes of a run of the content that begins at its start.
LEMMA AllIsRun ==
  ASSUME NEW w \in Seq(Nat), NEW off \in Nat, NEW cursor \in Nat, NEW n \in Nat,
         cursor + n <= Len(w), HasRun(w, 0, Len(w), off)
  PROVE  Bytes(off + cursor, n) = SubSeq(w, cursor + 1, cursor + n)
  <1> DEFINE a == off + cursor
             b == Bytes(a, n)
             l == SubSeq(w, cursor + 1, cursor)
             z == Len(w)
  <1>1. l = <<>>
    BY SubSeqEmpty
  <1>2. a \in Nat /\ a = off + cursor /\ cursor = 0 + cursor /\ cursor <= cursor /\ 0 \in Nat
        /\ z \in Nat /\ cursor + n <= z /\ 0 + z <= Len(w) /\ HasRun(w, 0, z, off)
    OBVIOUS
  <1>3. b \in Seq(Nat)
    BY <1>2, BytesAre
  <1> HIDE DEF z, a
  <1>4. Grows(w, cursor, cursor, n, a)
    BY <1>2, RunFollows
  <1>5. l \o b = SubSeq(w, cursor + 1, cursor + n)
    BY <1>4 DEF Grows
  <1> HIDE DEF l, b
  <1>6. l \o b = b
    BY <1>1, <1>3
  <1> QED
    BY <1>5, <1>6 DEF b, a

LEMMA OneRead ==
  ASSUME OneDataObject, TypeOK, Single, ReadStep
  PROVE  \/ Passes /\ call'.start = 0 /\ call'.size = call.size
         \/ Nothing
         \/ Reads(call.slot, call.size)
  <1> DEFINE d      == fds[call.slot]
             o      == d.obj
             c      == call.child
             size   == call.size
             cursor == d.cursor
             T      == Len(Table(o))
             e      == Table(o)[c]
  <1>1. call \in Calls /\ call.slot \in Slots /\ d \in FileDescs /\ d.kind = "file" /\ call.kind = "read"
    BY ReadStepFrame DEF FileDescs, ReadStep
  <1>2. o \in Objects /\ T \in Nat /\ cursor \in Nat /\ c \in Nat \ {0}
    BY <1>1, TableLength DEF Calls, FileDescs
  <1>3. /\ call.bytes = <<>> /\ call.start = 0 /\ size \in 0..(WordSize - 1)
        /\ d.size <= DataSize(o) /\ cursor <= DataSize(o)
    BY <1>1 DEF Single, Within
  <1>4. CASE ReadEnd
    BY <1>3, <1>4 DEF ReadEnd, ReadReturn, Nothing, Idle, Result
  <1>5. CASE ReadSkip
    BY <1>1, <1>3, <1>5 DEF ReadSkip, Passes, Calls
  <1>6. CASE ReadData
    <2>1. c \in 1..T /\ e.kind = "data"
      BY <1>2, <1>6 DEF ReadData
    <2> DEFINE len   == e.len
               off   == e.off
               n     == Taken(len, 0, cursor, size, 0)
               from  == off + (cursor - 0)
               moved == [d EXCEPT !.cursor = @ + n]
               q     == Least(cursor + size, len)
               w     == Content(o)
    <2>2. len \in Nat /\ off \in Nat /\ DataSize(o) = len
      BY <1>2, <2>1, EntryType, OneIsAll
    <2>3. len < WordSize /\ size \in Nat /\ size < WordSize /\ cursor <= len
      <3>1. DataSize(o) <= MediaSize
        BY <1>2 DEF OneDataObject
      <3> HIDE DEF len, o, size, cursor
      <3> QED
        BY <1>3, <2>2, <3>1, ParametersAssumption, ImageAssumption
    <2>4. ReadLength(d, e) = n
      <3>1. Len(call.bytes) = 0
        BY <1>3
      <3> QED
        BY <1>3, <3>1 DEF ReadLength, Taken
    <2>5. /\ cursor + n = q /\ (n = size \/ q = len) /\ n \in Nat /\ n <= len - cursor
          /\ q \in Nat /\ q <= len
      <3>1. /\ len \in Nat /\ cursor \in Nat /\ size \in Nat
            /\ cursor <= len /\ len < WordSize /\ size < WordSize
        BY <1>2, <2>2, <2>3
      <3> HIDE DEF len, cursor, size
      <3> QED
        BY <3>1, TakenAtOnce
    <2>6. CASE cursor < call.start
      BY <1>2, <1>3, <2>6
    <2>7. CASE UNCHANGED fds /\ ReadReturn("ReadFailure", <<>>)
      BY <2>7 DEF ReadReturn, Nothing, Idle, Result
    <2>8. CASE /\ fds' = [fds EXCEPT ![call.slot] = moved]
               /\ ReadNext(moved, e, call.bytes \o Bytes(from, n))
      <3>1. w \in Seq(Nat) /\ Len(w) = len /\ HasRun(w, 0, len, off)
        BY <1>2, <2>1, <2>2, OneIsAll, ContentOfEntry
      <3>2. from = off + cursor /\ from \in Nat /\ cursor + n <= len
        <4> HIDE DEF off, cursor, n, len
        <4> QED
          BY <1>2, <2>2, <2>5
      <3>3. Bytes(from, n) = SubSeq(w, cursor + 1, q)
        <4>1. Bytes(off + cursor, n) = SubSeq(w, cursor + 1, cursor + n)
          <5>1. /\ w \in Seq(Nat) /\ off \in Nat /\ cursor \in Nat /\ n \in Nat
                /\ cursor + n <= Len(w) /\ HasRun(w, 0, Len(w), off)
            <6> HIDE DEF off, cursor, n, len, w
            <6> QED
              BY <1>2, <2>2, <2>5, <3>1, <3>2
          <5> HIDE DEF off, cursor, n, len, w
          <5> QED
            BY <5>1, AllIsRun
        <4> QED
          BY <2>5, <3>2, <4>1
      <3>4. Bytes(from, n) \in Seq(Nat) /\ Len(Bytes(from, n)) = n
        <4> HIDE DEF from, n
        <4> QED
          BY <2>5, <3>2, BytesAre
      <3>5. call.bytes \o Bytes(from, n) = Bytes(from, n)
        <4> DEFINE b == Bytes(from, n)
        <4>1. b \in Seq(Nat)
          BY <3>4
        <4> HIDE DEF b
        <4>2. <<>> \o b = b
          BY <4>1
        <4> QED
          BY <1>3, <4>2 DEF b
      <3>6. moved = [d EXCEPT !.cursor = q] /\ moved.cursor = q /\ moved.size = d.size
        <4> HIDE DEF n, q
        <4> QED
          BY <1>1, <2>5 DEF FileDescs
      <3>7. d.size \in Nat
        BY <1>1 DEF FileDescs
      <3>8. n = call.size \/ q >= d.size
        <4> HIDE DEF n, q, d, len, o
        <4> QED
          BY <1>3, <2>2, <2>5, <3>7
      <3> HIDE DEF moved, n, q, from
      <3>9. ReadReturn("OK", Bytes(from, n))
        BY <2>8, <3>4, <3>5, <3>6, <3>8 DEF ReadNext
      <3>10. ret'.bytes = SubSeq(w, cursor + 1, q) /\ call'.kind = "idle"
        BY <3>3, <3>9 DEF ReadReturn, Idle, Result
      <3>11. q = Least(d.cursor + call.size, DataSize(d.obj))
        BY <2>2 DEF q
      <3> QED
        BY <2>8, <3>6, <3>10, <3>11 DEF Reads
    <2> QED
      <3>1. e.off + (d.cursor - call.start) = from
        BY <1>3
      <3> QED
        BY <1>6, <2>4, <2>6, <2>7, <2>8, <3>1 DEF ReadData
  <1> QED
    BY <1>4, <1>5, <1>6 DEF ReadStep

\* What open() puts in a descriptor is within the content.
LEMMA FreshWithin ==
  ASSUME NEW x, Fresh(x)
  PROVE  \/ x.kind # "file"
         \/ \E o \in Objects, size \in Nat : x = FileDesc(o, size, 0) /\ size <= DataSize(o)
  <1>1. CASE \E o \in Objects, size \in 0..MediaSize : ObjectDataSize(o, size) /\ x = FileDesc(o, size, 0)
    <2>1. PICK o \in Objects, size \in 0..MediaSize : ObjectDataSize(o, size) /\ x = FileDesc(o, size, 0)
      BY <1>1
    <2>2. Len(Table(o)) \in Nat /\ Len(Table(o)) \in 0..Len(Table(o)) /\ DataSize(o) \in Nat
      BY TableLength, ContentStep DEF DataSize
    <2>3. ASSUME NEW n \in 0..Len(Table(o)), size = SizeUpTo(o, n) PROVE size <= DataSize(o)
      BY <2>2, <2>3, ContentPrefix DEF DataSize
    <2>4. size <= DataSize(o)
      BY <2>1, <2>2, <2>3 DEF ObjectDataSize
    <2>5. size \in Nat
      BY ImageAssumption
    <2> QED
      BY <2>1, <2>4, <2>5
  <1> QED
    BY <1>1 DEF Fresh, Free, LinkDesc

\* No call takes a descriptor out of the content of its file.
LEMMA SingleStep ==
  ASSUME OneDataObject, TypeOK, Single, [Next]_vars
  PROVE  Single'
  <1>1. CASE UNCHANGED <<fds, call>>
    BY <1>1 DEF Single, Within
  <1>2. CASE Sets /\ call.kind = "idle"
    <2>1. PICK x : Fresh(x) /\ \E s \in Slots : fds' = [fds EXCEPT ![s] = x]
      BY <1>2 DEF Sets
    <2>2. PICK s \in Slots : fds' = [fds EXCEPT ![s] = x]
      BY <2>1
    <2>3. Within(x)
      <3>1. CASE x.kind # "file"
        BY <3>1 DEF Within
      <3>2. ASSUME NEW o \in Objects, NEW size \in Nat, x = FileDesc(o, size, 0), size <= DataSize(o)
            PROVE  Within(x)
        <4>1. x.obj = o /\ x.size = size /\ x.cursor = 0
          BY <3>2 DEF FileDesc
        <4>2. DataSize(o) \in Nat
          BY TableLength, ContentStep DEF DataSize
        <4> QED
          BY <3>2, <4>1, <4>2 DEF Within
      <3> QED
        BY <2>1, <3>1, <3>2, FreshWithin
    <2>4. \A r \in Slots : fds'[r] = IF r = s THEN x ELSE fds[r]
      BY <2>2 DEF TypeOK
    <2> QED
      BY <1>2, <2>3, <2>4 DEF Single, Sets, Within
  <1>3. CASE Seeks /\ call.kind = "idle"
    <2>1. PICK s \in Slots : /\ fds[s].kind = "file"
                             /\ \E to \in 0..fds[s].size : fds' = [fds EXCEPT ![s].cursor = to]
      BY <1>3 DEF Seeks
    <2>2. PICK to \in 0..fds[s].size : fds' = [fds EXCEPT ![s].cursor = to]
      BY <2>1
    <2>3. fds[s] \in FileDescs
      BY <2>1 DEF TypeOK, LinkDescs, Free
    <2>4. /\ fds[s].size \in Nat /\ fds[s].size <= DataSize(fds[s].obj) /\ DataSize(fds[s].obj) \in Nat
      <3>1. fds[s].size \in Nat /\ fds[s].obj \in Objects
        BY <2>3 DEF FileDescs
      <3>2. DataSize(fds[s].obj) \in Nat
        BY <3>1, TableLength, ContentStep DEF DataSize
      <3> QED
        BY <2>1, <3>1, <3>2 DEF Single, Within
    <2>5. \A r \in Slots : r # s => fds'[r] = fds[r]
      BY <2>2 DEF TypeOK
    <2>6. fds'[s].obj = fds[s].obj /\ fds'[s].size = fds[s].size /\ fds'[s].cursor = to
      BY <2>2, <2>3 DEF TypeOK, FileDescs
    <2>7. Within(fds'[s])
      BY <2>4, <2>6 DEF Within
    <2> QED
      BY <1>3, <2>5, <2>7 DEF Single, Seeks, Within
  <1>4. CASE Begins /\ call.kind = "idle"
    <2>1. PICK s \in Slots, n \in Sizes :
            call' = [kind |-> "read", slot |-> s, size |-> n, child |-> 1, start |-> 0, bytes |-> <<>>]
      BY <1>4 DEF Begins
    <2>2. n \in 0..(WordSize - 1)
      BY ParametersAssumption
    <2> QED
      BY <1>4, <2>1, <2>2 DEF Single, Begins, Within
  <1>5. CASE ReadStep
    <2>1. CASE Passes /\ call'.start = 0 /\ call'.size = call.size
      BY <1>5, <2>1 DEF Single, Passes, ReadStep, Within
    <2>2. CASE Nothing
      BY <2>2 DEF Single, Nothing, Within
    <2>3. CASE Reads(call.slot, call.size)
      <3> DEFINE s == call.slot
                 d == fds[s]
                 q == Least(d.cursor + call.size, DataSize(d.obj))
      <3>1. s \in Slots /\ d \in FileDescs /\ d.kind = "file"
        BY <1>5, ReadStepFrame DEF FileDescs
      <3>2. fds' = [fds EXCEPT ![s] = [d EXCEPT !.cursor = q]] /\ call'.kind = "idle"
        BY <2>3 DEF Reads
      <3>3. DataSize(d.obj) \in Nat /\ d.cursor \in Nat /\ call.size \in Nat
        <4>1. d.obj \in Objects /\ d.cursor \in Nat
          BY <3>1 DEF FileDescs
        <4>2. DataSize(d.obj) \in Nat
          BY <4>1, TableLength, ContentStep DEF DataSize
        <4>3. call.size \in Nat
          BY <1>5, ReadStepFrame DEF Calls
        <4> QED
          BY <4>1, <4>2, <4>3
      <3>4. q <= DataSize(d.obj)
        BY <3>3 DEF Least
      <3> HIDE DEF q, s
      <3>5. fds'[s] = [d EXCEPT !.cursor = q] /\ \A r \in Slots : r # s => fds'[r] = fds[r]
        BY <3>1, <3>2 DEF TypeOK
      <3>6. fds'[s].obj = d.obj /\ fds'[s].size = d.size /\ fds'[s].cursor = q
        BY <3>1, <3>5 DEF FileDescs
      <3>7. Within(fds'[s])
        BY <3>1, <3>4, <3>6 DEF Within, Single
      <3> QED
        BY <3>2, <3>5, <3>7 DEF Single, Within
    <2> QED
      BY <1>5, <2>1, <2>2, <2>3, OneRead
  <1> QED
    BY <1>1, <1>2, <1>3, <1>4, <1>5, CallEffect DEF Next, vars, Answers

\* What every call and every step of a read() is to the store.
StoreStep == [Store!Next]_(Store!vars)

LEMMA SameTab ==
  ASSUME StoreTab' = StoreTab, ret'.bytes = <<>> \/ ret' = ret
  PROVE  StoreStep
  BY DEF StoreStep, Store!vars, Store!Next, Store!NoEffect

\* The abstract state before and after a step, as the descriptors show it.
LEMMA TabsPlain ==
  ASSUME TypeOK, Single, TypeOK', Single'
  PROVE  StoreTab = Plain(fds) /\ StoreTab' = Plain(fds')
  <1>1. /\ call.kind = "read" => call.bytes = <<>>
        /\ \A s \in Slots : fds[s].kind = "file" => fds[s].cursor \in Nat
    BY DEF Single, TypeOK, FileDescs, LinkDescs, Free
  <1>2. /\ call'.kind = "read" => call'.bytes = <<>>
        /\ \A s \in Slots : fds'[s].kind = "file" => fds'[s].cursor \in Nat
    BY DEF Single, TypeOK, FileDescs, LinkDescs, Free
  <1>3. TabOf(fds, call) = Plain(fds)
    BY <1>1, TabIsPlain
  <1>4. TabOf(fds', call') = Plain(fds')
    BY <1>2, TabIsPlain
  <1> QED
    BY <1>3, <1>4 DEF StoreTab, TabOf

\* A descriptor is filled in, or released.
LEMMA SetsSeen ==
  ASSUME TypeOK, Sets, StoreTab = Plain(fds), StoreTab' = Plain(fds')
  PROVE  StoreStep
  <1>1. PICK x : /\ Fresh(x)
                 /\ \E s \in Slots : (x # Free => ~Allocated(s)) /\ fds' = [fds EXCEPT ![s] = x]
    BY DEF Sets
  <1>2. PICK s \in Slots : (x # Free => ~Allocated(s)) /\ fds' = [fds EXCEPT ![s] = x]
    BY <1>1
  <1> DEFINE h == HandleMin + s
  <1>3. \A r \in Slots : fds'[r] = IF r = s THEN x ELSE fds[r]
    BY <1>2 DEF TypeOK
  <1>4. /\ h \in Handles /\ StoreTab[h] = Shown(fds[s])
        /\ StoreTab' = [StoreTab EXCEPT ![h] = Shown(x)]
    <2> DEFINE f == fds
               g == fds'
    <2>1. \A r \in Slots : g[r] = IF r = s THEN x ELSE f[r]
      BY <1>3
    <2> HIDE DEF f, g
    <2>2. ShowsAt(f, g, s, x)
      BY <2>1, PlainExcept
    <2>3. /\ h \in Handles /\ Plain(f)[h] = Shown(f[s])
          /\ Plain(g) = [Plain(f) EXCEPT ![h] = Shown(x)]
      BY <2>2 DEF h, ShowsAt
    <2>4. StoreTab = Plain(f) /\ StoreTab' = Plain(g) /\ f = fds
      BY DEF f, g
    <2> HIDE DEF h
    <2> QED
      BY <2>3, <2>4
  <1>5. ret'.bytes = <<>> /\ fds[s] \in {Free} \cup FileDescs \cup LinkDescs
    BY DEF Sets, TypeOK
  <1> HIDE DEF h
  <1>6. CASE Shown(x) = Shown(fds[s])
    <2>1. StoreTab' = StoreTab
      BY <1>4, <1>6 DEF Plain
    <2> QED
      BY <1>5, <2>1, SameTab
  <1>7. CASE x.kind # "file" /\ fds[s].kind = "file"
    <2>1. Shown(x) = Closed
      BY <1>7 DEF Shown
    <2>2. fds[s] \in FileDescs
      BY <1>5, <1>7 DEF LinkDescs, Free
    <2>3. StoreTab[h] # Closed
      BY <1>4, <2>2, ShownOpen
    <2>4. Store!Close(h)
      BY <1>4, <1>5, <2>1, <2>3 DEF Store!Close, Store!IsOpen
    <2> QED
      BY <1>4, <2>4 DEF StoreStep, Store!Next
  <1>8. CASE x.kind # "file" /\ fds[s].kind # "file"
    BY <1>6, <1>8 DEF Shown
  <1>9. CASE x.kind = "file"
    <2>1. ~Allocated(s)
      BY <1>2, <1>9 DEF Free
    <2>2. StoreTab[h] = Closed
      BY <1>4, <2>1 DEF Allocated, Shown
    <2>3. PICK o \in Objects, size \in Nat : x = FileDesc(o, size, 0)
      BY <1>1, <1>9, FreshWithin
    <2>4. Shown(x) = [obj |-> o, pos |-> 0]
      BY <2>3 DEF Shown, FileDesc
    <2>5. Store!Open
      BY <1>4, <1>5, <2>2, <2>4 DEF Store!Open, Store!IsOpen
    <2> QED
      BY <2>5 DEF StoreStep, Store!Next
  <1> QED
    BY <1>7, <1>8, <1>9

\* The content of an object, as the store has it.
LEMMA ContentHeld ==
  ASSUME NEW o \in Objects
  PROVE  /\ [p \in Objects |-> Content(p)][o] = Content(o)
         /\ Len(Content(o)) = DataSize(o) /\ DataSize(o) \in Nat
  BY TableLength, ContentStep DEF Content, DataSize, SizeUpTo

\* A change of one cursor.
LEMMA CursorSeen ==
  ASSUME TypeOK, NEW s \in Slots, fds[s] \in FileDescs, NEW q \in Nat,
         fds' = [fds EXCEPT ![s] = [fds[s] EXCEPT !.cursor = q]],
         StoreTab = Plain(fds), StoreTab' = Plain(fds')
  PROVE  LET h == HandleMin + s IN
         /\ h \in Handles /\ StoreTab[h] # Closed
         /\ StoreTab[h] = [obj |-> fds[s].obj, pos |-> fds[s].cursor]
         /\ StoreTab' = [StoreTab EXCEPT ![h].pos = q]
  <1> DEFINE x == [fds[s] EXCEPT !.cursor = q]
             h == HandleMin + s
  <1>1. \A r \in Slots : fds'[r] = IF r = s THEN x ELSE fds[r]
    BY DEF TypeOK
  <1>2. x \in FileDescs /\ x.obj = fds[s].obj /\ x.cursor = q
    BY DEF FileDescs
  <1> HIDE DEF x
  <1>3. /\ h \in Handles /\ StoreTab[h] = Shown(fds[s])
        /\ StoreTab' = [StoreTab EXCEPT ![h] = Shown(x)]
    <2> DEFINE f == fds
               g == fds'
    <2>1. \A r \in Slots : g[r] = IF r = s THEN x ELSE f[r]
      BY <1>1
    <2> HIDE DEF f, g
    <2>2. ShowsAt(f, g, s, x)
      BY <2>1, PlainExcept
    <2>3. /\ h \in Handles /\ Plain(f)[h] = Shown(f[s])
          /\ Plain(g) = [Plain(f) EXCEPT ![h] = Shown(x)]
      BY <2>2 DEF h, ShowsAt
    <2>4. StoreTab = Plain(f) /\ StoreTab' = Plain(g) /\ f = fds
      BY DEF f, g
    <2> HIDE DEF h
    <2> QED
      BY <2>3, <2>4
  <1>4. /\ Shown(fds[s]) = [obj |-> fds[s].obj, pos |-> fds[s].cursor] /\ Shown(fds[s]) # Closed
        /\ Shown(x) = [obj |-> fds[s].obj, pos |-> q]
    BY <1>2, ShownOpen
  <1> HIDE DEF h
  <1>5. Shown(x) = [StoreTab[h] EXCEPT !.pos = q]
    BY <1>3, <1>4
  <1>6. StoreTab' = [StoreTab EXCEPT ![h].pos = q]
    BY <1>3, <1>5
  <1> QED
    BY <1>3, <1>4, <1>6 DEF h

\* The cursor is set within the content.
LEMMA SeeksSeen ==
  ASSUME TypeOK, Single, Seeks, StoreTab = Plain(fds), StoreTab' = Plain(fds')
  PROVE  StoreStep
  <1>1. PICK s \in Slots : /\ fds[s].kind = "file"
                           /\ \E to \in 0..fds[s].size : fds' = [fds EXCEPT ![s].cursor = to]
    BY DEF Seeks
  <1>2. PICK to \in 0..fds[s].size : fds' = [fds EXCEPT ![s].cursor = to]
    BY <1>1
  <1> DEFINE h == HandleMin + s
             o == fds[s].obj
  <1>3. fds[s] \in FileDescs
    BY <1>1 DEF TypeOK, LinkDescs, Free
  <1>4. fds[s].size \in Nat /\ o \in Objects /\ fds[s].size <= DataSize(o)
    BY <1>1, <1>3 DEF FileDescs, Single, Within
  <1>5. Len(Content(o)) = DataSize(o) /\ DataSize(o) \in Nat
    BY <1>4, ContentHeld
  <1>6. to \in Nat /\ to \in 0..Len(Content(o))
    BY <1>4, <1>5
  <1>7. fds' = [fds EXCEPT ![s] = [fds[s] EXCEPT !.cursor = to]]
    BY <1>2 DEF TypeOK
  <1>8. /\ h \in Handles /\ StoreTab[h] # Closed
        /\ StoreTab[h] = [obj |-> fds[s].obj, pos |-> fds[s].cursor]
        /\ StoreTab' = [StoreTab EXCEPT ![h].pos = to]
    BY <1>3, <1>6, <1>7, CursorSeen
  <1> HIDE DEF h
  <1>9. StoreTab[h].obj = o
    BY <1>8
  <1>10. [p \in Objects |-> Content(p)][StoreTab[h].obj] = Content(o)
    BY <1>4, <1>9
  <1>11. Store!Seek(h)
    BY <1>6, <1>8, <1>10 DEF Store!Seek, Store!IsOpen, Seeks
  <1> QED
    BY <1>8, <1>11 DEF StoreStep, Store!Next

\* The bytes from the cursor on are returned.
LEMMA ReadsSeen ==
  ASSUME TypeOK, Single, NEW s \in Slots, fds[s].kind = "file", NEW n \in 0..(WordSize - 1),
         Reads(s, n), StoreTab = Plain(fds), StoreTab' = Plain(fds')
  PROVE  StoreStep
  <1> DEFINE h == HandleMin + s
             o == fds[s].obj
             c == fds[s].cursor
             q == Least(c + n, DataSize(o))
  <1>1. fds[s] \in FileDescs
    BY DEF TypeOK, LinkDescs, Free
  <1>2. o \in Objects /\ c \in Nat /\ n \in Nat
    BY <1>1 DEF FileDescs
  <1>3. Len(Content(o)) = DataSize(o) /\ DataSize(o) \in Nat
    BY <1>2, ContentHeld
  <1>4. q \in Nat /\ q = IF c + n < Len(Content(o)) THEN c + n ELSE Len(Content(o))
    <2> HIDE DEF c, o
    <2> QED
      BY <1>2, <1>3 DEF Least
  <1>5. /\ fds' = [fds EXCEPT ![s] = [fds[s] EXCEPT !.cursor = q]]
        /\ ret'.bytes = SubSeq(Content(o), c + 1, q)
    BY DEF Reads
  <1> HIDE DEF q
  <1>6. /\ h \in Handles /\ StoreTab[h] # Closed
        /\ StoreTab[h] = [obj |-> fds[s].obj, pos |-> fds[s].cursor]
        /\ StoreTab' = [StoreTab EXCEPT ![h].pos = q]
    BY <1>1, <1>4, <1>5, CursorSeen
  <1> HIDE DEF h
  <1>7. StoreTab[h].obj = o /\ StoreTab[h].pos = c
    BY <1>6
  <1>8. [p \in Objects |-> Content(p)][StoreTab[h].obj] = Content(o)
    BY <1>2, <1>7
  <1>9. Store!Read(h, n)
    BY <1>4, <1>5, <1>6, <1>7, <1>8 DEF Store!Read, Store!IsOpen
  <1>10. n \in 0..WordSize
    BY ParametersAssumption
  <1> QED
    BY <1>6, <1>9, <1>10 DEF StoreStep, Store!Next

\* Each step does what the store promises.
LEMMA StepSeen ==
  ASSUME OneDataObject, TypeOK, TypeOK', Single, Single', [Next]_vars
  PROVE  StoreStep
  <1>1. StoreTab = Plain(fds) /\ StoreTab' = Plain(fds')
    BY TabsPlain
  <1>2. CASE UNCHANGED vars
    BY <1>1, <1>2, SameTab DEF vars
  <1>3. CASE Answers
    BY <1>1, <1>3, SameTab DEF Answers
  <1>4. CASE Begins
    BY <1>1, <1>4, SameTab DEF Begins
  <1>5. CASE Sets
    BY <1>1, <1>5, SetsSeen
  <1>6. CASE Seeks
    BY <1>1, <1>6, SeeksSeen
  <1>7. CASE ReadStep
    <2>1. CASE Passes
      BY <1>1, <2>1, SameTab DEF Passes
    <2>2. CASE Nothing
      BY <1>1, <2>2, SameTab DEF Nothing
    <2>3. CASE Reads(call.slot, call.size)
      <3>1. call.slot \in Slots /\ fds[call.slot] \in FileDescs /\ call.kind = "read"
        BY <1>7, ReadStepFrame DEF ReadStep
      <3>2. call.size \in 0..(WordSize - 1) /\ fds[call.slot].kind = "file"
        BY <3>1 DEF Single, FileDescs
      <3> QED
        BY <1>1, <2>3, <3>1, <3>2, ReadsSeen
    <2> QED
      BY <1>7, <2>1, <2>2, <2>3, OneRead
  <1> QED
    BY <1>2, <1>3, <1>4, <1>5, <1>6, <1>7, CallEffect DEF Next

\* Where each file has one data object, the file system is the store of files that
\* ReadStore promises, whatever the media does: a handle is a file and a position
\* in its content, and read() returns the bytes from there on, or nothing.
THEOREM ImplementsStore ==
  OneDataObject => (Spec => StoreSpec)
  <1> SUFFICES ASSUME OneDataObject PROVE Spec => StoreSpec
    OBVIOUS
  <1>1. Init => Single
    BY DEF Init, Single, Within, Free, Idle
  <1>2. Init => Store!Init
    <2> SUFFICES ASSUME Init PROVE Store!Init
      OBVIOUS
    <2>1. ASSUME NEW h \in Handles PROVE fds[h - HandleMin] = Free
      <3>1. h - HandleMin \in Slots
        BY ParametersAssumption DEF Handles, HandleMax, Slots
      <3> QED
        BY <3>1 DEF Init
    <2>2. StoreTab = [h \in Handles |-> Closed]
      BY <2>1 DEF StoreTab, Free
    <2> QED
      BY <2>2 DEF Init, Store!Init, Result
  <1>3. TypeOK /\ Single /\ [Next]_vars => Single'
    BY SingleStep
  <1>4. TypeOK /\ TypeOK' /\ Single /\ Single' /\ [Next]_vars => [Store!Next]_(Store!vars)
    BY StepSeen DEF StoreStep
  <1> QED
    BY <1>1, <1>2, <1>3, <1>4, TypeCorrect, PTL DEF Spec, StoreSpec, Store!Spec
=============================================================================
