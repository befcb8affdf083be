----------------------------- MODULE HyfsProofs -----------------------------
(***************************************************************************)
(* Proofs about Hyfs, for every firmware, every size of the two tables of  *)
(* open files, and whatever the environment does except where a theorem    *)
(* says otherwise.                                                         *)
(* First types, open files, hidden files and enumeration; then the copying *)
(* up of firmware files, and that Hyfs implements Overlay while its media  *)
(* can be read and FWFS has a descriptor to spare.                         *)
(***************************************************************************)
EXTENDS Hyfs, FiniteSetTheorems, TLAPS

(***************************************************************************)
(* What files hold.                                                        *)
(***************************************************************************)
\* The contents of files are the sequences of blocks of at most MaxBlocks.
LEMMA DataIsSeq ==
  /\ \A data \in Data : data \in Seq(Blocks) /\ Len(data) \in 0..MaxBlocks
  /\ \A data \in Seq(Blocks) : Len(data) <= MaxBlocks => data \in Data
  <1>1. MaxBlocks \in Nat
    BY HyfsAssumption
  <1>2. ASSUME NEW data \in Data
        PROVE  data \in Seq(Blocks) /\ Len(data) \in 0..MaxBlocks
    <2>1. PICK n \in 0..MaxBlocks : data \in [1..n -> Blocks]
      BY DEF Data
    <2> QED
      BY <1>1, <2>1
  <1>3. ASSUME NEW data \in Seq(Blocks), Len(data) <= MaxBlocks
        PROVE  data \in Data
    <2>1. Len(data) \in 0..MaxBlocks /\ data \in [1..Len(data) -> Blocks]
      BY <1>1, <1>3
    <2> QED
      BY <2>1 DEF Data
  <1> QED
    BY <1>2, <1>3

\* A new file holds nothing.
LEMMA EmptyIsData == <<>> \in Data
  <1>1. <<>> \in Seq(Blocks) /\ Len(<<>>) <= MaxBlocks
    BY HyfsAssumption
  <1> QED
    BY <1>1, DataIsSeq

\* What Held() and fwfs->open() find of the firmware.
LEMMA FwTyped ==
  /\ \A p \in InFw : Fw[p] \in Data /\ \A i \in 1..Len(Fw[p]) : Fw[p][i] \in Blocks
  /\ \A p \in Paths \ InFw : Fw[p] = Absent
  /\ InFw \subseteq Paths
  <1>1. InFw \subseteq Paths
    BY HyfsAssumption DEF InFw, Range
  <1>2. ASSUME NEW p \in InFw
        PROVE  Fw[p] \in Data /\ \A i \in 1..Len(Fw[p]) : Fw[p][i] \in Blocks
    <2>1. Fw[p] = FwData[p]
      BY <1>1 DEF Fw
    <2>2. Fw[p] \in Data
      BY <2>1, HyfsAssumption
    <2> QED
      BY <2>2, DataIsSeq
  <1> QED
    BY <1>1, <1>2 DEF Fw

\* A position is within the data or at its end.
LEMMA PositionWithin ==
  ASSUME NEW f \in Files, NEW data \in Data
  PROVE  Position(f, data) \in 0..Len(data)
  BY DataIsSeq DEF Position, Files

\* Writing a block at a position within the data, or at its end.
LEMMA PutTyped ==
  ASSUME NEW data \in Data, NEW at \in 0..Len(data), NEW b \in Blocks,
         at < MaxBlocks
  PROVE  /\ Put(data, at, b) \in Data
         /\ Len(Put(data, at, b)) = IF at < Len(data) THEN Len(data) ELSE at + 1
         /\ \A i \in 1..Len(Put(data, at, b)) :
              Put(data, at, b)[i] = IF i = at + 1 THEN b ELSE data[i]
  <1> DEFINE n == IF at < Len(data) THEN Len(data) ELSE at + 1
  <1>1. data \in Seq(Blocks) /\ Len(data) \in 0..MaxBlocks /\ MaxBlocks \in Nat
    BY DataIsSeq, HyfsAssumption
  <1>2. n \in 0..MaxBlocks
    BY <1>1
  <1>3. ASSUME NEW i \in 1..n, i # at + 1
        PROVE  data[i] \in Blocks
    <2>1. i \in 1..Len(data)
      BY <1>1, <1>3
    <2> QED
      BY <1>1, <2>1
  <1>4. Put(data, at, b) = [i \in 1..n |-> IF i = at + 1 THEN b ELSE data[i]]
    BY DEF Put
  <1> HIDE DEF n
  <1>5. Put(data, at, b) \in [1..n -> Blocks]
    BY <1>3, <1>4
  <1>6. Put(data, at, b) \in Data
    BY <1>2, <1>5 DEF Data
  <1>7. Len(Put(data, at, b)) = n
    BY <1>1, <1>2, <1>5
  <1> QED
    BY <1>4, <1>6, <1>7 DEF n

\* Truncating a file.
LEMMA CutTyped ==
  ASSUME NEW data \in Data, NEW n \in 0..Len(data)
  PROVE  Cut(data, n) \in Data
  <1>1. data \in Seq(Blocks) /\ Len(data) \in 0..MaxBlocks /\ MaxBlocks \in Nat
    BY DataIsSeq, HyfsAssumption
  <1>2. Cut(data, n) \in Seq(Blocks) /\ Len(Cut(data, n)) = n
    BY <1>1 DEF Cut
  <1>3. Len(Cut(data, n)) <= MaxBlocks
    BY <1>1, <1>2
  <1> QED
    BY <1>2, <1>3, DataIsSeq

(***************************************************************************)
(* The table of open files.                                                *)
(***************************************************************************)
Tables == [FfsHandles -> Files \cup {Closed}]

\* "not open" is told apart from the entries of the tables.
LEMMA NotClosed ==
  /\ \A f \in Files : f # Closed
  /\ \A d \in FwFiles : d # Closed
  /\ \A d \in Dirs : d # Closed
  BY HyfsAssumption

\* The entry of a file that has just been opened.
LEMMA HandleTyped ==
  ASSUME NEW p \in Paths, NEW flags
  PROVE  /\ Handle(p, flags) \in Files
         /\ Handle(p, flags).path = p
         /\ Handle(p, flags).pos = 0
         /\ Handle(p, flags).append = ("Append" \in flags)
         /\ Handle(p, flags).write = ("Write" \in flags)
  BY DEF Handle, Files

\* What becomes of an entry when a path is replaced in the table by another.
LEMMA RepointTyped ==
  ASSUME NEW table \in Tables, NEW path, NEW to \in Paths \cup {Gone}
  PROVE  /\ Repoint(table, path, to) \in Tables
         /\ \A h \in FfsHandles :
              /\ Repoint(table, path, to)[h] = Closed <=> table[h] = Closed
              /\ table[h] # Closed =>
                   /\ Repoint(table, path, to)[h] \in Files
                   /\ Repoint(table, path, to)[h].path
                        = IF table[h].path = path THEN to ELSE table[h].path
              /\ table[h] # Closed /\ table[h].path # path =>
                   Repoint(table, path, to)[h] = table[h]
  <1> DEFINE new(h) == [table[h] EXCEPT !.path = to]
             t == Repoint(table, path, to)
  <1>1. DOMAIN table = FfsHandles
    BY DEF Tables
  <1>2. t = [h \in FfsHandles |->
               IF table[h] # Closed /\ table[h].path = path THEN new(h) ELSE table[h]]
    BY <1>1 DEF Repoint
  <1>3. ASSUME NEW h \in FfsHandles, table[h] # Closed
        PROVE  new(h) \in Files /\ new(h).path = to /\ new(h) # Closed
    <2>1. table[h] \in Files
      BY <1>3 DEF Tables
    <2>2. new(h) \in Files /\ new(h).path = to
      BY <2>1 DEF Files
    <2> QED
      BY <2>2, NotClosed
  <1>4. ASSUME NEW h \in FfsHandles
        PROVE  /\ t[h] \in Files \cup {Closed}
               /\ t[h] = Closed <=> table[h] = Closed
               /\ table[h] # Closed =>
                    /\ t[h] \in Files
                    /\ t[h].path = IF table[h].path = path THEN to ELSE table[h].path
               /\ table[h] # Closed /\ table[h].path # path => t[h] = table[h]
    <2>1. table[h] \in Files \cup {Closed}
      BY DEF Tables
    <2>2. t[h] = IF table[h] # Closed /\ table[h].path = path THEN new(h) ELSE table[h]
      BY <1>2
    <2> HIDE DEF new, t
    <2> QED
      BY <1>3, <2>1, <2>2
  <1>5. t \in Tables
    <2> HIDE DEF new
    <2>1. t = [h \in FfsHandles |-> t[h]]
      BY <1>2
    <2> HIDE DEF t
    <2> QED
      BY <1>4, <2>1 DEF Tables
  <1> QED
    BY <1>4, <1>5

\* Formatting leaves every open file without a path.
LEMMA OrphanAllTyped ==
  ASSUME NEW table \in Tables
  PROVE  /\ OrphanAll(table) \in Tables
         /\ \A h \in FfsHandles :
              /\ OrphanAll(table)[h] = Closed <=> table[h] = Closed
              /\ table[h] # Closed => OrphanAll(table)[h].path = Gone
  <1> DEFINE new(h) == [table[h] EXCEPT !.path = Gone]
             t == OrphanAll(table)
  <1>1. DOMAIN table = FfsHandles
    BY DEF Tables
  <1>2. t = [h \in FfsHandles |-> IF table[h] # Closed THEN new(h) ELSE Closed]
    BY <1>1 DEF OrphanAll
  <1>3. ASSUME NEW h \in FfsHandles, table[h] # Closed
        PROVE  new(h) \in Files /\ new(h).path = Gone /\ new(h) # Closed
    <2>1. table[h] \in Files
      BY <1>3 DEF Tables
    <2>2. new(h) \in Files /\ new(h).path = Gone
      BY <2>1 DEF Files
    <2> QED
      BY <2>2, NotClosed
  <1> HIDE DEF new
  <1>4. t \in Tables
    BY <1>2, <1>3 DEF Tables
  <1> QED
    BY <1>2, <1>3, <1>4

-----------------------------------------------------------------------------
(***************************************************************************)
(* The ways that open() ends, or goes on by copying a file.                *)
(***************************************************************************)
\* Nothing happens, but for what is reported.
Quiet == UNCHANGED <<mounted, ffs, fh, slots, listing, call, held>>

\* The flags that a firmware file is copied up with.
ForCopy(flags) == flags \cup {"Create", "Read", "Write"}

\* A file of the FFS is open.
Opened(h, p, flags, to) ==
  /\ FfsOpen(h, p, flags)
  /\ Deliver(h, p, to)
  /\ UNCHANGED slots

\* A file of the firmware is open.
OpenedFw(s, p) ==
  /\ UnusedDescriptor(s)
  /\ slots' = [slots EXCEPT ![s] = [path |-> p, pos |-> 0]]
  /\ call' = Idle
  /\ held' = held \cup {HandleMin + s}
  /\ UNCHANGED <<mounted, ffs, fh, listing>>

\* Both are, and the copying goes on.
CopyBegun(s, h, p, flags, to) ==
  /\ UnusedDescriptor(s)
  /\ FfsOpen(h, p, ForCopy(flags))
  /\ call' = [kind |-> "copy", slot |-> s, file |-> h, path |-> p,
              append |-> "Append" \in flags, to |-> to]
  /\ slots' = [slots EXCEPT ![s] = [path |-> p, pos |-> 0]]
  /\ UNCHANGED held

\* open() returns an error and changes nothing, opens a file of the FFS, makes one
\* in place of the firmware's, opens that of the firmware, or starts to copy it.
Outcome(p, flags, to) ==
  \/ Quiet
  \/ /\ ffs[p] # Absent \/ FwOpenErrors(p) # {}
     /\ \E h \in FfsHandles : Opened(h, p, flags, to)
  \/ /\ p \in InFw \ FwReadOnly
     /\ ffs[p] = Absent
     /\ \/ /\ "Truncate" \in flags
           /\ \E h \in FfsHandles : Opened(h, p, ForCopy(flags), to)
        \/ /\ "Truncate" \notin flags
           /\ \E s \in Slots, h \in FfsHandles : CopyBegun(s, h, p, flags, to)
  \/ /\ p \in InFw
     /\ ffs[p] = Absent
     /\ flags = {"Read"}
     /\ \E s \in Slots : OpenedFw(s, p)

\* These are all the ways that open() ends: no early return leaves a file open.
LEMMA OpenPathOutcomes ==
  ASSUME NEW p \in Paths, NEW flags, NEW to,
         to = Absent \/ flags # {"Read"},
         OpenPath(p, flags, to)
  PROVE  Outcome(p, flags, to)
  <1>1. ASSUME NEW err, Fail(err)
        PROVE  Outcome(p, flags, to)
    BY <1>1 DEF Fail, Quiet, listing, Outcome
  <1>2. ASSUME NEW fl, FfsOpenFails(p, fl)
        PROVE  Outcome(p, flags, to)
    BY <1>1, <1>2 DEF FfsOpenFails
  <1>3. ASSUME OpenFfs(p, flags, to), ffs[p] # Absent \/ FwOpenErrors(p) # {}
        PROVE  Outcome(p, flags, to)
    BY <1>2, <1>3 DEF OpenFfs, Opened, Outcome
  <1>4. ASSUME NEW s \in Slots, UnusedDescriptor(s), p \in InFw, ffs[p] = Absent,
               CopyUp(s, p, flags, to)
        PROVE  Outcome(p, flags, to)
    <2>1. CASE CannotCopyUp(p) /\ RefuseReadOnly(s, p)
      BY <1>1, <2>1 DEF RefuseReadOnly
    <2>2. CASE FfsOpenFails(p, ForCopy(flags))
      BY <1>2, <2>2
    <2>3. ASSUME NEW h \in FfsHandles,
                 p \notin FwReadOnly,
                 FfsOpen(h, p, ForCopy(flags)),
                 IF "Truncate" \in flags
                 THEN Deliver(h, p, to) /\ UNCHANGED slots
                 ELSE /\ call' = [kind |-> "copy", slot |-> s, file |-> h, path |-> p,
                                  append |-> "Append" \in flags, to |-> to]
                      /\ slots' = [slots EXCEPT ![s] = [path |-> p, pos |-> 0]]
                      /\ UNCHANGED <<held, ret>>
          PROVE  Outcome(p, flags, to)
      <3>1. \/ /\ "Truncate" \in flags
               /\ Opened(h, p, ForCopy(flags), to)
            \/ /\ "Truncate" \notin flags
               /\ CopyBegun(s, h, p, flags, to)
        BY <1>4, <2>3 DEF Opened, CopyBegun
      <3> QED
        BY <1>4, <2>3, <3>1 DEF Outcome
    <2> QED
      BY <1>4, <2>1, <2>2, <2>3 DEF CopyUp, ForCopy, IsReadOnly
  <1>5. ASSUME NEW s \in Slots, UnusedDescriptor(s), flags = {"Read"},
               p \in InFw, ffs[p] = Absent,
               slots' = [slots EXCEPT ![s] = [path |-> p, pos |-> 0]],
               Deliver(HandleMin + s, p, to),
               UNCHANGED <<mounted, ffs, fh, listing>>
        PROVE  Outcome(p, flags, to)
    <2>1. OpenedFw(s, p)
      BY <1>5 DEF Deliver, OpenedFw
    <2> QED
      BY <1>5, <2>1 DEF Outcome
  <1>6. ASSUME OpenFw(p, flags, to), ffs[p] = Absent
        PROVE  Outcome(p, flags, to)
    <2>1. ASSUME NEW err \in FwOpenErrors(p),
                 (flags = {"Read"} /\ Fail(err)) \/ OpenFfs(p, flags, to)
          PROVE  Outcome(p, flags, to)
      BY <1>1, <1>3, <2>1
    <2> QED
      BY <1>4, <1>5, <1>6, <2>1 DEF OpenFw
  <1> QED
    BY <1>1, <1>3, <1>6 DEF OpenPath

-----------------------------------------------------------------------------
(***************************************************************************)
(* The inductive invariant of everything but directory enumeration.        *)
(***************************************************************************)
\* A handle whose file has not been removed has a file in the FFS.
Linked ==
  \A h \in FfsHandles : fh[h] # Closed /\ fh[h].path # Gone => ffs[fh[h].path] # Absent

\* While open() copies a file, it alone has the two files open, and has not read
\* less of the one than it has written to the other.
CopyUnderWay ==
  call.kind = "copy" =>
    /\ call.path \notin FwReadOnly
    /\ slots[call.slot].path = call.path
    /\ fh[call.file].path = call.path
    /\ ffs[call.path] # Absent
    /\ Len(ffs[call.path]) <= slots[call.slot].pos
    /\ slots[call.slot].pos <= Len(Fw[call.path])
    /\ \A h \in FfsHandles \ {call.file} : fh[h] # Closed => fh[h].path # call.path
    /\ HandleMin + call.slot \notin held

\* What rename() has opened is the file to rename.
RenameUnderWay ==
  call.kind = "rename" => fh[call.file].path = call.path

\* The handle that open() or rename() works with has not been given out.
CallKeepsFile == call.kind # "idle" => call.file \notin held

CoreTyped ==
  /\ ffs \in [Paths -> Data \cup {Absent}]
  /\ fh \in Tables
  /\ slots \in [Slots -> FwFiles \cup {Closed}]
  /\ call \in {Idle} \cup Copies \cup Renames
  /\ held \subseteq AnyHandle

Core ==
  /\ CoreTyped
  /\ NothingLeaks
  /\ Linked
  /\ CopyUnderWay
  /\ RenameUnderWay
  /\ CallKeepsFile

\* The call in progress is told by its kind.
LEMMA CallKinds ==
  ASSUME CoreTyped
  PROVE  /\ call.kind \in {"idle", "copy", "rename"}
         /\ call.kind = "idle" => call = Idle
         /\ call.kind = "copy" => call \in Copies
         /\ call.kind = "rename" => call \in Renames
  BY DEF CoreTyped, Idle, Copies, Renames

\* The handles of the two file systems are apart.
LEMMA HandlesApart ==
  /\ Slots \subseteq Int
  /\ HandleMin \in Nat
  /\ \A s \in Slots : HandleMin + s \in FwHandles /\ HandleMin + s \notin FfsHandles
  /\ \A h \in FwHandles : h - HandleMin \in Slots /\ HandleMin + (h - HandleMin) = h
  /\ \A h : RoutedToFw(h) => h \in FwHandles
  BY HyfsAssumption DEF Slots, FwHandles, HandleMax, RoutedToFw

\* The state in which the device starts.
LEMMA CoreInit == Init => Core
  <1> SUFFICES ASSUME Init PROVE Core
    OBVIOUS
  <1> USE DEF Init
  <1>1. CoreTyped
    BY DEF CoreTyped, Tables, Idle
  <1>2. call.kind = "idle"
    BY DEF Idle
  <1>3. NothingLeaks /\ Linked
    BY <1>2 DEF NothingLeaks, Linked
  <1> QED
    BY <1>1, <1>2, <1>3
       DEF Core, CopyUnderWay, RenameUnderWay, CallKeepsFile

\* Calls that change none of it.
LEMMA CoreQuiet ==
  ASSUME Core, UNCHANGED <<ffs, fh, slots, call, held>>
  PROVE  Core'
  BY DEF Core, CoreTyped, NothingLeaks, Linked, CopyUnderWay, RenameUnderWay,
         CallKeepsFile

\* The FFS opens a file: an unused handle, for a path that has a file now.
LEMMA FfsOpenEffect ==
  ASSUME Core, NEW p \in Paths, NEW h \in FfsHandles, NEW flags, FfsOpen(h, p, flags)
  PROVE  /\ ffs' \in [Paths -> Data \cup {Absent}]
         /\ fh' \in Tables
         /\ fh[h] = Closed
         /\ fh'[h] = Handle(p, flags) /\ fh'[h] # Closed /\ fh'[h].path = p
         /\ \A k \in FfsHandles \ {h} : fh'[k] = fh[k]
         /\ ffs'[p] # Absent
         /\ ffs'[p] = IF ffs[p] = Absent \/ "Truncate" \in flags THEN <<>> ELSE ffs[p]
         /\ \A q \in Paths \ {p} : ffs'[q] = ffs[q]
         /\ Linked'
  <1>1. Handle(p, flags) \in Files /\ Handle(p, flags).path = p
    BY HandleTyped
  <1>2. fh \in Tables /\ ffs \in [Paths -> Data \cup {Absent}]
    BY DEF Core, CoreTyped
  <1>3. fh' = [fh EXCEPT ![h] = Handle(p, flags)] /\ fh[h] = Closed
    BY DEF FfsOpen
  <1>4. fh' \in Tables
    BY <1>1, <1>2, <1>3 DEF Tables
  <1>5. /\ fh'[h] = Handle(p, flags) /\ fh'[h] # Closed /\ fh'[h].path = p
        /\ \A k \in FfsHandles \ {h} : fh'[k] = fh[k]
    BY <1>1, <1>2, <1>3, NotClosed DEF Tables
  <1>6. PICK data :
          /\ data = IF ffs[p] = Absent \/ "Truncate" \in flags THEN <<>> ELSE ffs[p]
          /\ ffs' = [ffs EXCEPT ![p] = data]
    BY DEF FfsOpen
  <1>7. data \in Data /\ data # Absent
    BY <1>2, <1>6, EmptyIsData, HyfsAssumption
  <1>8. /\ ffs' \in [Paths -> Data \cup {Absent}]
        /\ ffs'[p] = data
        /\ \A q \in Paths \ {p} : ffs'[q] = ffs[q]
    BY <1>2, <1>6, <1>7
  <1>9. Linked'
    <2> SUFFICES ASSUME NEW k \in FfsHandles, fh'[k] # Closed, fh'[k].path # Gone
                 PROVE  ffs'[fh'[k].path] # Absent
      BY DEF Linked
    <2>1. CASE k = h
      BY <1>5, <1>7, <1>8, <2>1
    <2>2. CASE k # h
      <3>1. fh'[k] = fh[k] /\ fh[k] \in Files /\ ffs[fh[k].path] # Absent
        BY <1>2, <1>5, <2>2 DEF Core, Linked, Tables
      <3>2. fh[k].path \in Paths
        BY <3>1 DEF Files
      <3> QED
        BY <1>7, <1>8, <3>1, <3>2
    <2> QED
      BY <2>1, <2>2
  <1> QED
    BY <1>3, <1>4, <1>5, <1>6, <1>7, <1>8, <1>9

\* open() and rename() with a file of the FFS open.
LEMMA CoreOpened ==
  ASSUME Core, call.kind = "idle",
         NEW p \in Paths, NEW h \in FfsHandles, NEW flags,
         NEW to \in Paths \cup {Absent},
         Opened(h, p, flags, to)
  PROVE  Core'
  <1> DEFINE rename == [kind |-> "rename", file |-> h, path |-> p, to |-> to]
  <1>1. FfsOpen(h, p, flags) /\ slots' = slots
    BY DEF Opened
  <1>2. /\ ffs' \in [Paths -> Data \cup {Absent}]
        /\ fh' \in Tables
        /\ fh[h] = Closed
        /\ fh'[h] # Closed /\ fh'[h].path = p
        /\ \A k \in FfsHandles \ {h} : fh'[k] = fh[k]
        /\ Linked'
    BY <1>1, FfsOpenEffect
  <1>3. /\ h \notin held
        /\ h \notin FwHandles
    BY <1>2, HyfsAssumption DEF Core, NothingLeaks
  <1>4. CASE to = Absent
    <2>1. call' = Idle /\ held' = held \cup {h}
      BY <1>4 DEF Opened, Deliver
    <2>2. call'.kind = "idle"
      BY <2>1 DEF Idle
    <2>3. CoreTyped'
      BY <1>1, <1>2, <2>1 DEF Core, CoreTyped, AnyHandle
    <2>4. NothingLeaks'
      BY <1>1, <1>2, <1>3, <2>1, <2>2, HandlesApart DEF Core, NothingLeaks
    <2> QED
      BY <1>2, <2>2, <2>3, <2>4
         DEF Core, CopyUnderWay, RenameUnderWay, CallKeepsFile
  <1>5. CASE to # Absent
    <2>1. call' = rename /\ held' = held
      BY <1>5 DEF Opened, Deliver
    <2>2. /\ call'.kind = "rename" /\ call'.file = h /\ call'.path = p
          /\ call' \in Renames
      BY <1>5, <2>1 DEF Renames
    <2>3. CoreTyped'
      BY <1>1, <1>2, <2>1, <2>2 DEF Core, CoreTyped
    <2>4. NothingLeaks'
      BY <1>1, <1>2, <1>3, <2>1, <2>2 DEF Core, NothingLeaks
    <2> QED
      BY <1>2, <1>3, <2>1, <2>2, <2>3, <2>4
         DEF Core, CopyUnderWay, RenameUnderWay, CallKeepsFile
  <1> QED
    BY <1>4, <1>5

\* open() with a file of the firmware open.
LEMMA CoreOpenedFw ==
  ASSUME Core, call.kind = "idle", NEW p \in InFw, NEW s \in Slots, OpenedFw(s, p)
  PROVE  Core'
  <1> DEFINE file == [path |-> p, pos |-> 0]
  <1>1. /\ slots' = [slots EXCEPT ![s] = file] /\ slots[s] = Closed
        /\ UNCHANGED <<ffs, fh>>
        /\ call' = Idle /\ held' = held \cup {HandleMin + s}
    BY DEF OpenedFw, UnusedDescriptor
  <1>2. file \in FwFiles /\ file # Closed
    <2>1. file \in FwFiles
      BY DEF FwFiles
    <2> QED
      BY <2>1, NotClosed
  <1> HIDE DEF file
  <1>3. CoreTyped'
    BY <1>1, <1>2, HandlesApart DEF Core, CoreTyped, AnyHandle
  <1>4. call'.kind = "idle"
    BY <1>1 DEF Idle
  <1>5. NothingLeaks'
    <2>1. \A r \in Slots : slots'[r] # Closed <=> HandleMin + r \in held'
      BY <1>1, <1>2, HandlesApart DEF Core, NothingLeaks, CoreTyped
    <2>2. \A h \in FfsHandles : fh'[h] # Closed <=> h \in held'
      BY <1>1, HandlesApart DEF Core, NothingLeaks
    <2> QED
      BY <1>4, <2>1, <2>2 DEF NothingLeaks
  <1>6. Linked'
    BY <1>1 DEF Core, Linked
  <1> QED
    BY <1>3, <1>4, <1>5, <1>6
       DEF Core, CopyUnderWay, RenameUnderWay, CallKeepsFile

\* open() with both files open, when the copying starts.
LEMMA CoreCopyBegun ==
  ASSUME Core, call.kind = "idle",
         NEW p \in InFw \ FwReadOnly, ffs[p] = Absent,
         NEW s \in Slots, NEW h \in FfsHandles, NEW flags,
         NEW to \in Paths \cup {Absent},
         CopyBegun(s, h, p, flags, to)
  PROVE  Core'
  <1> DEFINE file == [path |-> p, pos |-> 0]
             copy == [kind |-> "copy", slot |-> s, file |-> h, path |-> p,
                      append |-> "Append" \in flags, to |-> to]
  <1>1. FfsOpen(h, p, ForCopy(flags)) /\ p \in Paths
    BY FwTyped DEF CopyBegun
  <1>2. /\ ffs' \in [Paths -> Data \cup {Absent}]
        /\ fh' \in Tables
        /\ fh[h] = Closed
        /\ fh'[h] # Closed /\ fh'[h].path = p
        /\ \A k \in FfsHandles \ {h} : fh'[k] = fh[k]
        /\ ffs'[p] # Absent
        /\ ffs'[p] = <<>>
        /\ Linked'
    BY <1>1, FfsOpenEffect
  <1>3. /\ slots' = [slots EXCEPT ![s] = file] /\ slots[s] = Closed
        /\ call' = copy /\ held' = held
    BY DEF CopyBegun, UnusedDescriptor
  <1>4. file \in FwFiles /\ file # Closed /\ file.path = p /\ file.pos = 0
    <2>1. file \in FwFiles
      BY DEF FwFiles
    <2> QED
      BY <2>1, NotClosed
  <1>5. /\ call' \in Copies /\ call'.kind = "copy" /\ call'.slot = s
        /\ call'.file = h /\ call'.path = p
    BY <1>3 DEF Copies
  <1>6. h \notin held /\ HandleMin + s \notin held
    BY <1>2, <1>3 DEF Core, NothingLeaks
  <1> HIDE DEF file, copy
  <1>7. CoreTyped'
    BY <1>2, <1>3, <1>4, <1>5 DEF Core, CoreTyped
  <1>8. NothingLeaks'
    <2>1. \A r \in Slots : slots'[r] # Closed <=> HandleMin + r \in held \/ r = s
      BY <1>3, <1>4, HandlesApart DEF Core, NothingLeaks, CoreTyped
    <2>2. \A k \in FfsHandles : fh'[k] # Closed <=> k \in held \/ k = h
      BY <1>2 DEF Core, NothingLeaks
    <2> QED
      BY <1>3, <1>5, <2>1, <2>2 DEF NothingLeaks
  <1>9. CopyUnderWay'
    <2>1. slots'[s] = file
      BY <1>3 DEF Core, CoreTyped
    <2>2. \A k \in FfsHandles \ {h} : fh'[k] # Closed => fh'[k].path # p
      BY <1>1, <1>2, HyfsAssumption DEF Core, Linked
    <2>3. Len(<<>>) <= 0 /\ 0 <= Len(Fw[p])
      BY FwTyped, DataIsSeq
    <2>4. Fw' = Fw
      BY DEF Fw
    <2> QED
      BY <1>2, <1>3, <1>4, <1>5, <1>6, <2>1, <2>2, <2>3, <2>4 DEF CopyUnderWay
  <1> QED
    BY <1>2, <1>3, <1>5, <1>6, <1>7, <1>8, <1>9
       DEF Core, RenameUnderWay, CallKeepsFile

\* Calls on a handle or a path: the same files stay open.
LEMMA CoreSameFiles ==
  ASSUME Core, call.kind = "idle", UNCHANGED <<call, held>>,
         ffs' \in [Paths -> Data \cup {Absent}],
         fh' \in Tables,
         slots' \in [Slots -> FwFiles \cup {Closed}],
         \A h \in FfsHandles : fh'[h] = Closed <=> fh[h] = Closed,
         \A s \in Slots : slots'[s] = Closed <=> slots[s] = Closed,
         Linked'
  PROVE  Core'
  <1>1. CoreTyped'
    BY DEF Core, CoreTyped
  <1>2. NothingLeaks'
    BY DEF Core, NothingLeaks
  <1> QED
    BY <1>1, <1>2 DEF Core, CopyUnderWay, RenameUnderWay, CallKeepsFile

\* close() on either file system.
LEMMA CoreClose ==
  ASSUME Core, call.kind = "idle", NEW h \in held, Close(h)
  PROVE  Core'
  <1>1. UNCHANGED <<ffs, call>> /\ held' = held \ {h}
    BY DEF Close
  <1>2. CASE FwFile(h) /\ slots' = [slots EXCEPT ![h - HandleMin] = Closed] /\ fh' = fh
    <2>1. h \in FwHandles /\ h - HandleMin \in Slots /\ h = HandleMin + (h - HandleMin)
      BY <1>2, HandlesApart DEF FwFile
    <2>2. PICK s \in Slots : s = h - HandleMin /\ h = HandleMin + s
      BY <2>1
    <2>3. CoreTyped'
      BY <1>1, <1>2, <2>2 DEF Core, CoreTyped
    <2>4. \A r \in Slots : slots'[r] # Closed <=> HandleMin + r \in held'
      BY <1>1, <1>2, <2>2, HandlesApart DEF Core, CoreTyped, NothingLeaks
    <2>5. \A k \in FfsHandles : fh'[k] # Closed <=> k \in held'
      BY <1>1, <1>2, <2>2, HandlesApart DEF Core, NothingLeaks
    <2>6. NothingLeaks' /\ Linked'
      BY <1>1, <1>2, <2>4, <2>5 DEF Core, NothingLeaks, Linked
    <2> QED
      BY <1>1, <2>3, <2>6 DEF Core, CopyUnderWay, RenameUnderWay, CallKeepsFile
  <1>3. CASE FfsFile(h) /\ fh' = [fh EXCEPT ![h] = Closed] /\ slots' = slots
    <2>1. h \in FfsHandles
      BY <1>3 DEF FfsFile
    <2>2. fh' \in Tables
      BY <1>3 DEF Core, CoreTyped, Tables
    <2>3. \A k \in FfsHandles : fh'[k] = IF k = h THEN Closed ELSE fh[k]
      BY <1>3, <2>1 DEF Core, CoreTyped, Tables
    <2>4. CoreTyped'
      BY <1>1, <1>3, <2>2 DEF Core, CoreTyped
    <2>5. NothingLeaks'
      BY <1>1, <1>3, <2>1, <2>3, HandlesApart DEF Core, NothingLeaks
    <2>6. Linked'
      BY <1>1, <2>3 DEF Core, Linked
    <2> QED
      BY <1>1, <2>4, <2>5, <2>6 DEF Core, CopyUnderWay, RenameUnderWay, CallKeepsFile
  <1> QED
    BY <1>2, <1>3 DEF Close

\* A usable handle is an entry of the table, and its file is there.
LEMMA UsableEffect ==
  ASSUME Core, NEW h, Usable(h)
  PROVE  /\ h \in FfsHandles
         /\ fh[h] # Closed /\ fh[h] \in Files
         /\ fh[h].path \in Paths
         /\ ffs[fh[h].path] \in Data
  <1>1. h \in FfsHandles /\ fh[h] # Closed /\ fh[h].path # Gone
    BY DEF Usable, FfsFile
  <1>2. fh[h] \in Files
    BY <1>1 DEF Core, CoreTyped, Tables
  <1>3. fh[h].path \in Paths
    BY <1>1, <1>2 DEF Files
  <1>4. ffs[fh[h].path] # Absent
    BY <1>1 DEF Core, Linked
  <1> QED
    BY <1>1, <1>2, <1>3, <1>4 DEF Core, CoreTyped

\* A position in the table changes.
LEMMA PosEffect ==
  ASSUME Core, NEW h \in FfsHandles, fh[h] # Closed, NEW n \in Nat,
         fh' = [fh EXCEPT ![h].pos = n]
  PROVE  /\ fh' \in Tables
         /\ fh'[h].pos = n /\ fh'[h].append = fh[h].append /\ fh'[h].write = fh[h].write
         /\ \A k \in FfsHandles \ {h} : fh'[k] = fh[k]
         /\ \A k \in FfsHandles :
              /\ fh'[k] = Closed <=> fh[k] = Closed
              /\ fh[k] # Closed => fh'[k].path = fh[k].path
  <1> DEFINE new == [fh[h] EXCEPT !.pos = n]
  <1>1. fh \in Tables /\ fh[h] \in Files
    BY DEF Core, CoreTyped, Tables
  <1>2. /\ new \in Files /\ new.path = fh[h].path /\ new.pos = n
        /\ new.append = fh[h].append /\ new.write = fh[h].write
    BY <1>1 DEF Files
  <1>3. new # Closed
    BY <1>2, NotClosed
  <1>4. fh' = [fh EXCEPT ![h] = new]
    OBVIOUS
  <1> HIDE DEF new
  <1>5. fh' \in Tables
    BY <1>1, <1>2, <1>4 DEF Tables
  <1>6. \A k \in FfsHandles : fh'[k] = IF k = h THEN new ELSE fh[k]
    BY <1>1, <1>4 DEF Tables
  <1> QED
    BY <1>2, <1>3, <1>5, <1>6

\* read() and lseek() on either file system.
LEMMA CoreMove ==
  ASSUME Core, call.kind = "idle", NEW h \in held, Move(h)
  PROVE  Core'
  <1>1. UNCHANGED <<ffs, call, held>>
    BY DEF Move
  <1>2. CASE /\ FwFile(h)
             /\ \E n \in 0..Len(Fw[slots[h - HandleMin].path]) :
                  slots' = [slots EXCEPT ![h - HandleMin].pos = n]
             /\ fh' = fh
    <2>1. PICK s \in Slots : s = h - HandleMin
      BY <1>2, HandlesApart DEF FwFile
    <2>2. slots[s] # Closed /\ slots[s] \in FwFiles
      BY <1>2, <2>1 DEF FwFile, Core, CoreTyped
    <2>3. Len(Fw[slots[s].path]) \in Nat
      BY <2>2, FwTyped, DataIsSeq DEF FwFiles
    <2>4. PICK n \in 0..Len(Fw[slots[s].path]) : slots' = [slots EXCEPT ![s].pos = n]
      BY <1>2, <2>1
    <2>5. [slots[s] EXCEPT !.pos = n] \in FwFiles
      <3>1. n \in Nat
        BY <2>3
      <3> QED
        BY <2>2, <3>1 DEF FwFiles
    <2>6. [slots[s] EXCEPT !.pos = n] # Closed
      BY <2>5, NotClosed
    <2>7. /\ slots' \in [Slots -> FwFiles \cup {Closed}]
          /\ \A r \in Slots : slots'[r] = Closed <=> slots[r] = Closed
      BY <2>2, <2>4, <2>5, <2>6 DEF Core, CoreTyped
    <2>8. Linked'
      BY <1>1, <1>2 DEF Core, Linked
    <2> QED
      BY <1>1, <1>2, <2>7, <2>8, CoreSameFiles DEF Core, CoreTyped
  <1>3. CASE /\ Usable(h)
             /\ \E n \in 0..Len(ffs[fh[h].path]) : fh' = [fh EXCEPT ![h].pos = n]
             /\ slots' = slots
    <2>1. h \in FfsHandles /\ fh[h] # Closed /\ Len(ffs[fh[h].path]) \in Nat
      BY <1>3, UsableEffect, DataIsSeq
    <2>2. PICK n \in 0..Len(ffs[fh[h].path]) : fh' = [fh EXCEPT ![h].pos = n]
      BY <1>3
    <2>3. /\ fh' \in Tables
          /\ \A k \in FfsHandles :
               /\ fh'[k] = Closed <=> fh[k] = Closed
               /\ fh[k] # Closed => fh'[k].path = fh[k].path
      <3>1. n \in Nat
        BY <2>1
      <3> QED
        BY <2>1, <2>2, <3>1, PosEffect
    <2>4. Linked'
      BY <1>1, <2>3 DEF Core, Linked
    <2> QED
      BY <1>1, <1>3, <2>3, <2>4, CoreSameFiles DEF Core, CoreTyped
  <1> QED
    BY <1>2, <1>3 DEF Move

\* The data of a file that is there is replaced.
LEMMA DataEffect ==
  ASSUME Core, NEW p \in Paths, NEW data \in Data, ffs' = [ffs EXCEPT ![p] = data],
         \A k \in FfsHandles :
           /\ fh'[k] = Closed <=> fh[k] = Closed
           /\ fh[k] # Closed => fh'[k].path = fh[k].path
  PROVE  ffs' \in [Paths -> Data \cup {Absent}] /\ Linked'
  <1>1. /\ ffs' \in [Paths -> Data \cup {Absent}]
        /\ ffs'[p] # Absent
        /\ \A q \in Paths \ {p} : ffs'[q] = ffs[q]
    BY HyfsAssumption DEF Core, CoreTyped
  <1>2. ASSUME NEW k \in FfsHandles, fh'[k] # Closed, fh'[k].path # Gone
        PROVE  ffs'[fh'[k].path] # Absent
    <2>1. fh[k] # Closed /\ fh'[k].path = fh[k].path /\ fh[k] \in Files
      BY <1>2 DEF Core, CoreTyped, Tables
    <2>2. fh[k].path \in Paths /\ ffs[fh[k].path] # Absent
      BY <1>2, <2>1 DEF Files, Core, Linked
    <2> QED
      BY <1>1, <2>1, <2>2
  <1> QED
    BY <1>1, <1>2 DEF Linked

\* write().
LEMMA CoreWrite ==
  ASSUME Core, call.kind = "idle", NEW h \in held, Write(h)
  PROVE  Core'
  <1> DEFINE p    == fh[h].path
             at   == Position(fh[h], ffs[p])
             data == Put(ffs[p], at, Block)
  <1>1. /\ h \in FfsHandles /\ fh[h] # Closed /\ fh[h] \in Files
        /\ p \in Paths /\ ffs[p] \in Data
    BY UsableEffect DEF Write
  <1>2. at \in 0..Len(ffs[p]) /\ at \in Nat
    <2>1. at \in 0..Len(ffs[p])
      BY <1>1, PositionWithin
    <2> QED
      BY <2>1
  <1>3. CASE \E err : Fail(err)
    BY <1>3, CoreQuiet DEF Fail
  <1>4. CASE /\ at < MaxBlocks
             /\ ffs' = [ffs EXCEPT ![p] = data]
             /\ fh' = [fh EXCEPT ![h].pos = at + 1]
             /\ UNCHANGED <<slots, call, held>>
    <2>1. data \in Data
      <3>1. Block \in Blocks
        BY DEF Blocks
      <3> HIDE DEF p, at
      <3> QED
        BY <1>1, <1>2, <1>4, <3>1, PutTyped
    <2> HIDE DEF at, data
    <2>2. at + 1 \in Nat
      BY <1>2
    <2>3. /\ fh' \in Tables
          /\ \A k \in FfsHandles :
               /\ fh'[k] = Closed <=> fh[k] = Closed
               /\ fh[k] # Closed => fh'[k].path = fh[k].path
      BY <1>1, <1>4, <2>2, PosEffect
    <2>4. ffs' \in [Paths -> Data \cup {Absent}] /\ Linked'
      <3> HIDE DEF p
      <3> QED
        BY <1>1, <1>4, <2>1, <2>3, DataEffect
    <2> QED
      BY <1>4, <2>3, <2>4, CoreSameFiles DEF Core, CoreTyped
  <1> QED
    BY <1>3, <1>4 DEF Write

\* ftruncate().
LEMMA CoreFtruncate ==
  ASSUME Core, call.kind = "idle", NEW h \in held, Ftruncate(h)
  PROVE  Core'
  <1> DEFINE p == fh[h].path
  <1>1. /\ h \in FfsHandles /\ fh[h] # Closed /\ fh[h] \in Files
        /\ p \in Paths /\ ffs[p] \in Data
    BY UsableEffect DEF Ftruncate
  <1>2. CASE Fail("ReadOnly")
    BY <1>2, CoreQuiet DEF Fail
  <1>3. CASE /\ \E n \in 0..Len(ffs[p]) : ffs' = [ffs EXCEPT ![p] = Cut(@, n)]
             /\ UNCHANGED <<fh, slots, call, held>>
    <2>1. PICK n \in 0..Len(ffs[p]) : ffs' = [ffs EXCEPT ![p] = Cut(@, n)]
      BY <1>3
    <2>2. PICK data : data = Cut(ffs[p], n) /\ ffs' = [ffs EXCEPT ![p] = data]
      BY <2>1
    <2>3. data \in Data
      BY <1>1, <2>2, CutTyped
    <2> HIDE DEF p
    <2>4. ffs' \in [Paths -> Data \cup {Absent}] /\ Linked'
      BY <1>1, <1>3, <2>2, <2>3, DataEffect
    <2> QED
      BY <1>3, <2>4, CoreSameFiles DEF Core, CoreTyped
  <1> QED
    BY <1>2, <1>3 DEF Ftruncate

\* A file of the FFS is removed: its open handles have no path any more.
LEMMA CoreRemoved ==
  ASSUME Core, call.kind = "idle", NEW p \in Paths,
         ffs' = [ffs EXCEPT ![p] = Absent],
         fh' = Orphan(fh, p),
         UNCHANGED <<slots, call, held>>
  PROVE  Core'
  <1>1. fh \in Tables
    BY DEF Core, CoreTyped
  <1>2. /\ fh' \in Tables
        /\ \A h \in FfsHandles :
             /\ fh'[h] = Closed <=> fh[h] = Closed
             /\ fh[h] # Closed =>
                  fh'[h].path = IF fh[h].path = p THEN Gone ELSE fh[h].path
    BY <1>1, RepointTyped DEF Orphan
  <1>3. /\ ffs' \in [Paths -> Data \cup {Absent}]
        /\ \A q \in Paths \ {p} : ffs'[q] = ffs[q]
    BY DEF Core, CoreTyped
  <1>4. ASSUME NEW h \in FfsHandles, fh'[h] # Closed, fh'[h].path # Gone
        PROVE  ffs'[fh'[h].path] # Absent
    <2>1. fh[h] \in Files /\ fh[h] # Closed /\ fh[h].path # p /\ fh'[h].path = fh[h].path
      BY <1>1, <1>2, <1>4 DEF Tables
    <2>2. fh[h].path \in Paths /\ ffs[fh[h].path] # Absent
      BY <1>4, <2>1 DEF Files, Core, Linked
    <2> QED
      BY <1>3, <2>1, <2>2
  <1>5. Linked'
    BY <1>4 DEF Linked
  <1> QED
    BY <1>2, <1>3, <1>5, CoreSameFiles DEF Core, CoreTyped

\* fremove() by way of a handle.
LEMMA CoreFremove ==
  ASSUME Core, call.kind = "idle", NEW h \in held, Fremove(h)
  PROVE  Core'
  <1>1. fh[h].path \in Paths
    BY UsableEffect DEF Fremove
  <1>2. CASE Fail("ReadOnly")
    BY <1>2, CoreQuiet DEF Fail
  <1>3. CASE /\ ffs' = [ffs EXCEPT ![fh[h].path] = Absent]
             /\ fh' = Orphan(fh, fh[h].path)
             /\ UNCHANGED <<slots, call, held>>
    BY <1>1, <1>3, CoreRemoved
  <1> QED
    BY <1>2, <1>3 DEF Fremove

\* format(), when the FFS has been formatted.
LEMMA CoreFormat ==
  ASSUME Core, call.kind = "idle", Formatted
  PROVE  Core'
  <1>1. fh \in Tables
    BY DEF Core, CoreTyped
  <1>2. fh' = OrphanAll(fh) /\ ffs' = [p \in Paths |-> Absent]
    BY DEF Formatted
  <1>3. /\ fh' \in Tables
        /\ \A h \in FfsHandles :
             /\ fh'[h] = Closed <=> fh[h] = Closed
             /\ fh[h] # Closed => fh'[h].path = Gone
    BY <1>1, <1>2, OrphanAllTyped
  <1>4. Linked'
    BY <1>3 DEF Linked
  <1>5. UNCHANGED <<slots, call, held>>
    BY DEF Formatted
  <1> QED
    BY <1>2, <1>3, <1>4, <1>5, CoreSameFiles DEF Core, CoreTyped

\* What is open while open() copies a file.
LEMMA CopyFacts ==
  ASSUME Core, call.kind = "copy"
  PROVE  /\ call.slot \in Slots /\ call.file \in FfsHandles
         /\ call.path \in InFw /\ call.path \in Paths
         /\ call.to \in Paths \cup {Absent}
         /\ slots[call.slot] # Closed /\ slots[call.slot] \in FwFiles
         /\ fh[call.file] # Closed /\ fh[call.file] \in Files
         /\ ffs[call.path] \in Data
         /\ Fw[call.path] \in Data
         /\ call.file \notin held
  <1>1. /\ call.slot \in Slots /\ call.file \in FfsHandles
        /\ call.path \in InFw /\ call.to \in Paths \cup {Absent}
    BY CallKinds DEF Core, Copies
  <1>2. slots[call.slot] # Closed /\ fh[call.file] # Closed
    BY <1>1 DEF Core, NothingLeaks
  <1>3. slots[call.slot] \in FwFiles /\ fh[call.file] \in Files
    BY <1>1, <1>2 DEF Core, CoreTyped, Tables
  <1>4. call.path \in Paths /\ Fw[call.path] \in Data
    BY <1>1, FwTyped
  <1>5. ffs[call.path] \in Data
    BY <1>4 DEF Core, CoreTyped, CopyUnderWay
  <1> QED
    BY <1>1, <1>2, <1>3, <1>4, <1>5 DEF Core, CallKeepsFile

\* The copying stops, at the end of the firmware file or when it cannot be read:
\* the firmware file is closed, and the other one is delivered.
LEMMA CoreCopyDone ==
  ASSUME Core, call.kind = "copy", CopyDone
  PROVE  Core'
  <1> DEFINE h == call.file
             s == call.slot
             p == call.path
             rename == [kind |-> "rename", file |-> h, path |-> p, to |-> call.to]
  <1>1. /\ s \in Slots /\ h \in FfsHandles /\ p \in Paths
        /\ call.to \in Paths \cup {Absent}
        /\ fh[h] # Closed /\ h \notin held
    BY CopyFacts
  <1>2. fh' = (IF call.append THEN fh ELSE [fh EXCEPT ![h].pos = 0])
    BY DEF CopyDone
  <1>3. /\ fh' \in Tables
        /\ \A k \in FfsHandles :
             /\ fh'[k] = Closed <=> fh[k] = Closed
             /\ fh[k] # Closed => fh'[k].path = fh[k].path
    <2>1. CASE call.append
      BY <1>2, <2>1 DEF Core, CoreTyped
    <2>2. CASE ~call.append
      BY <1>1, <1>2, <2>2, PosEffect
    <2> QED
      BY <2>1, <2>2
  <1>4. /\ ffs' = ffs
        /\ slots' = [slots EXCEPT ![s] = Closed]
        /\ Deliver(h, p, call.to)
    BY DEF CopyDone
  <1>5. Linked'
    BY <1>3, <1>4 DEF Core, Linked
  <1>6. slots' \in [Slots -> FwFiles \cup {Closed}]
    BY <1>4 DEF Core, CoreTyped
  <1>7. \A r \in Slots : slots'[r] # Closed <=> HandleMin + r \in held
    BY <1>1, <1>4, HandlesApart DEF Core, CoreTyped, NothingLeaks, CopyUnderWay
  <1>8. \A k \in FfsHandles : fh'[k] # Closed <=> k \in held \/ k = h
    BY <1>3 DEF Core, NothingLeaks
  <1>9. fh'[h].path = p
    BY <1>1, <1>3 DEF Core, CopyUnderWay
  <1>10. CASE call.to = Absent
    <2>1. call' = Idle /\ held' = held \cup {h}
      BY <1>4, <1>10 DEF Deliver
    <2>2. call'.kind = "idle"
      BY <2>1 DEF Idle
    <2>3. CoreTyped'
      BY <1>1, <1>3, <1>4, <1>6, <2>1 DEF Core, CoreTyped, AnyHandle
    <2>4. NothingLeaks'
      BY <1>1, <1>7, <1>8, <2>1, <2>2, HandlesApart DEF NothingLeaks
    <2> QED
      BY <1>5, <2>2, <2>3, <2>4 DEF Core, CopyUnderWay, RenameUnderWay, CallKeepsFile
  <1>11. CASE call.to # Absent
    <2>1. call' = rename /\ held' = held
      BY <1>4, <1>11 DEF Deliver
    <2>2. /\ call'.kind = "rename" /\ call'.file = h /\ call'.path = p
          /\ call' \in Renames
      BY <1>1, <1>11, <2>1 DEF Renames
    <2>3. CoreTyped'
      BY <1>3, <1>4, <1>6, <2>1, <2>2 DEF Core, CoreTyped
    <2>4. NothingLeaks'
      BY <1>7, <1>8, <2>1, <2>2 DEF NothingLeaks
    <2> QED
      BY <1>1, <1>5, <1>9, <2>1, <2>2, <2>3, <2>4
         DEF Core, CopyUnderWay, RenameUnderWay, CallKeepsFile
  <1> QED
    BY <1>10, <1>11

\* A block of the firmware file is read, and written or not.
LEMMA CopyBlockEffect ==
  ASSUME Core, call.kind = "copy", ~AtEof(slots[call.slot]), NEW written \in BOOLEAN,
         CopyBlock(written)
  PROVE  LET p  == call.path
             n  == slots[call.slot].pos
             at == Position(fh[call.file], ffs[p])
         IN  /\ n \in Nat /\ n < Len(Fw[p]) /\ at \in 0..Len(ffs[p])
             /\ slots' \in [Slots -> FwFiles \cup {Closed}]
             /\ slots'[call.slot].path = p /\ slots'[call.slot].pos = n + 1
             /\ \A r \in Slots : slots'[r] = Closed <=> slots[r] = Closed
             /\ fh' \in Tables
             /\ \A k \in FfsHandles :
                  /\ fh'[k] = Closed <=> fh[k] = Closed
                  /\ fh[k] # Closed => fh'[k].path = fh[k].path
             /\ \A k \in FfsHandles \ {call.file} : fh'[k] = fh[k]
             /\ fh'[call.file].append = fh[call.file].append
             /\ fh'[call.file].write = fh[call.file].write
             /\ ffs' \in [Paths -> Data \cup {Absent}]
             /\ ffs'[p] \in Data
             /\ \A q \in Paths \ {p} : ffs'[q] = ffs[q]
             /\ written => /\ ffs'[p] = Put(ffs[p], at, Fw[p][n + 1])
                           /\ Len(ffs'[p]) = IF at < Len(ffs[p]) THEN Len(ffs[p]) ELSE at + 1
                           /\ fh'[call.file].pos = at + 1
             /\ ~written => UNCHANGED <<ffs, fh>>
             /\ UNCHANGED <<call, held>>
             /\ Linked'
  <1> DEFINE h == call.file
             s == call.slot
             p == call.path
             d == slots[s]
             at == Position(fh[h], ffs[p])
             new == [d EXCEPT !.pos = @ + 1]
             data == Put(ffs[p], at, Fw[p][d.pos + 1])
  <1>1. /\ s \in Slots /\ h \in FfsHandles /\ p \in InFw /\ p \in Paths
        /\ d # Closed /\ d \in FwFiles
        /\ fh[h] # Closed /\ fh[h] \in Files
        /\ ffs[p] \in Data /\ Fw[p] \in Data
    BY CopyFacts
  <1>2. d.path = p /\ fh[h].path = p /\ Len(ffs[p]) <= d.pos
    BY DEF Core, CopyUnderWay
  <1>3. d.pos \in Nat
    BY <1>1 DEF FwFiles
  <1>4. d.pos < Len(Fw[p])
    <2>1. Len(Fw[p]) \in Nat
      BY <1>1, DataIsSeq
    <2> QED
      BY <1>2, <1>3, <2>1 DEF AtEof
  <1>5. at \in 0..Len(ffs[p]) /\ at \in Nat
    <2>1. at \in 0..Len(ffs[p])
      BY <1>1, PositionWithin
    <2> QED
      BY <2>1
  <1>6. new \in FwFiles /\ new # Closed /\ new.path = p /\ new.pos = d.pos + 1
    <2>1. new \in FwFiles /\ new.path = p /\ new.pos = d.pos + 1
      BY <1>1, <1>2, <1>3 DEF FwFiles
    <2> QED
      BY <2>1, NotClosed
  <1>7. slots' = [slots EXCEPT ![s] = new]
    BY DEF CopyBlock
  <1>8. UNCHANGED <<call, held>>
    BY DEF CopyBlock
  <1>9. /\ written => /\ ffs' = [ffs EXCEPT ![p] = data]
                      /\ fh' = [fh EXCEPT ![h].pos = at + 1]
        /\ ~written => UNCHANGED <<ffs, fh>>
    BY <1>2 DEF CopyBlock
  <1>10. /\ data \in Data
         /\ Len(data) = IF at < Len(ffs[p]) THEN Len(ffs[p]) ELSE at + 1
    <2>1. Fw[p][d.pos + 1] \in Blocks
      <3>1. d.pos + 1 \in 1..Len(Fw[p])
        BY <1>1, <1>3, <1>4, DataIsSeq
      <3> QED
        BY <1>1, <3>1, FwTyped
    <2>2. at < MaxBlocks
      <3>1. Len(ffs[p]) \in Nat /\ Len(Fw[p]) \in 0..MaxBlocks /\ MaxBlocks \in Nat
        BY <1>1, DataIsSeq, HyfsAssumption
      <3> QED
        BY <1>2, <1>3, <1>4, <1>5, <3>1
    <2> HIDE DEF at, p, d
    <2> QED
      BY <1>1, <1>5, <2>1, <2>2, PutTyped
  <1> HIDE DEF new, data, at
  <1>11. /\ slots' \in [Slots -> FwFiles \cup {Closed}]
         /\ slots'[s] = new
         /\ \A r \in Slots : slots'[r] = Closed <=> slots[r] = Closed
    BY <1>1, <1>6, <1>7 DEF Core, CoreTyped
  <1>12. /\ fh' \in Tables
         /\ \A k \in FfsHandles :
              /\ fh'[k] = Closed <=> fh[k] = Closed
              /\ fh[k] # Closed => fh'[k].path = fh[k].path
         /\ \A k \in FfsHandles \ {h} : fh'[k] = fh[k]
         /\ fh'[h].append = fh[h].append /\ fh'[h].write = fh[h].write
         /\ written => fh'[h].pos = at + 1
    <2>1. CASE written
      <3>1. at + 1 \in Nat
        BY <1>5
      <3> QED
        BY <1>1, <1>9, <2>1, <3>1, PosEffect
    <2>2. CASE ~written
      BY <1>9, <2>2 DEF Core, CoreTyped
    <2> QED
      BY <2>1, <2>2
  <1>13. /\ ffs' \in [Paths -> Data \cup {Absent}]
         /\ ffs'[p] \in Data
         /\ written => ffs'[p] = data
         /\ \A q \in Paths \ {p} : ffs'[q] = ffs[q]
         /\ Linked'
    <2>1. CASE written
      <3>1. Linked' /\ ffs' \in [Paths -> Data \cup {Absent}]
        <4> HIDE DEF p, h
        <4> QED
          BY <1>1, <1>9, <1>10, <1>12, <2>1, DataEffect
      <3> QED
        BY <1>1, <1>9, <1>10, <2>1, <3>1 DEF Core, CoreTyped
    <2>2. CASE ~written
      BY <1>1, <1>9, <2>2 DEF Core, CoreTyped, Linked
    <2> QED
      BY <2>1, <2>2
  <1> QED
    BY <1>3, <1>4, <1>5, <1>6, <1>8, <1>9, <1>10, <1>11, <1>12, <1>13 DEF at, data

\* The loop goes round: what has been read is not less than what has been written.
LEMMA CoreCopyBlock ==
  ASSUME Core, call.kind = "copy", ~AtEof(slots[call.slot]), NEW written \in BOOLEAN,
         CopyBlock(written)
  PROVE  Core'
  <1> DEFINE p  == call.path
             n  == slots[call.slot].pos
             at == Position(fh[call.file], ffs[p])
  <1>1. /\ n \in Nat /\ n < Len(Fw[p]) /\ at \in 0..Len(ffs[p])
        /\ slots' \in [Slots -> FwFiles \cup {Closed}]
        /\ slots'[call.slot].path = p /\ slots'[call.slot].pos = n + 1
        /\ \A r \in Slots : slots'[r] = Closed <=> slots[r] = Closed
        /\ fh' \in Tables
        /\ \A k \in FfsHandles :
             /\ fh'[k] = Closed <=> fh[k] = Closed
             /\ fh[k] # Closed => fh'[k].path = fh[k].path
        /\ ffs' \in [Paths -> Data \cup {Absent}]
        /\ ffs'[p] \in Data
        /\ written => Len(ffs'[p]) = IF at < Len(ffs[p]) THEN Len(ffs[p]) ELSE at + 1
        /\ ~written => ffs' = ffs
        /\ UNCHANGED <<call, held>>
        /\ Linked'
    BY CopyBlockEffect
  <1>2. /\ call.slot \in Slots /\ call.file \in FfsHandles
        /\ fh[call.file] # Closed /\ p \in Paths
        /\ Len(Fw[p]) \in Nat /\ Len(ffs[p]) \in Nat
    BY CopyFacts, DataIsSeq
  <1>3. CoreTyped' /\ NothingLeaks'
    BY <1>1 DEF Core, CoreTyped, NothingLeaks
  <1>4. Fw' = Fw
    BY DEF Fw
  <1>5. CopyUnderWay'
    <2>1. Len(ffs[p]) <= n
      BY DEF Core, CopyUnderWay
    <2>2. Len(ffs'[p]) <= n + 1 /\ n + 1 <= Len(Fw[p])
      <3> HIDE DEF p, n, at
      <3>1. Len(ffs'[p]) <= n + 1
        BY <1>1, <1>2, <2>1
      <3> QED
        BY <1>1, <1>2, <3>1
    <2>3. ffs'[p] # Absent
      BY <1>1, HyfsAssumption
    <2>4. fh'[call.file].path = p
      BY <1>1, <1>2 DEF Core, CopyUnderWay
    <2> QED
      BY <1>1, <1>4, <2>2, <2>3, <2>4 DEF Core, CopyUnderWay
  <1> QED
    BY <1>1, <1>3, <1>5 DEF Core, RenameUnderWay, CallKeepsFile

\* The copying fails: both files are closed, and what was copied is removed, or
\* stays if it cannot be.
LEMMA CoreCopyFailed ==
  ASSUME Core, call.kind = "copy", CopyFailed
  PROVE  Core'
  <1> DEFINE h == call.file
             s == call.slot
             p == call.path
  <1>1. s \in Slots /\ h \in FfsHandles /\ p \in Paths /\ h \notin held
    BY CopyFacts
  <1>2. /\ ffs' = [ffs EXCEPT ![p] = Absent] \/ ffs' = ffs
        /\ fh' = [fh EXCEPT ![h] = Closed]
        /\ slots' = [slots EXCEPT ![s] = Closed]
        /\ call' = Idle /\ held' = held
    BY DEF CopyFailed
  <1>3. /\ fh' \in Tables
        /\ fh'[h] = Closed
        /\ \A k \in FfsHandles \ {h} : fh'[k] = fh[k]
    BY <1>1, <1>2 DEF Core, CoreTyped, Tables
  <1>4. call'.kind = "idle"
    BY <1>2 DEF Idle
  <1>5. CoreTyped'
    BY <1>2, <1>3 DEF Core, CoreTyped
  <1>6. NothingLeaks'
    <2>1. \A r \in Slots : slots'[r] # Closed <=> HandleMin + r \in held
      BY <1>1, <1>2, HandlesApart DEF Core, CoreTyped, NothingLeaks, CopyUnderWay
    <2>2. \A k \in FfsHandles : fh'[k] # Closed <=> k \in held
      BY <1>1, <1>3 DEF Core, NothingLeaks
    <2> QED
      BY <1>2, <1>4, <2>1, <2>2 DEF NothingLeaks
  <1>7. ASSUME NEW k \in FfsHandles, fh'[k] # Closed, fh'[k].path # Gone
        PROVE  ffs'[fh'[k].path] # Absent
    <2>1. k # h /\ fh'[k] = fh[k] /\ fh[k] # Closed /\ fh[k] \in Files
      BY <1>3, <1>7 DEF Core, CoreTyped, Tables
    <2>2. fh[k].path # p
      BY <2>1 DEF Core, CopyUnderWay
    <2>3. fh[k].path \in Paths /\ ffs[fh[k].path] # Absent
      BY <1>7, <2>1 DEF Files, Core, Linked
    <2> QED
      BY <1>2, <2>1, <2>2, <2>3 DEF Core, CoreTyped
  <1>8. Linked'
    BY <1>7 DEF Linked
  <1> QED
    BY <1>4, <1>5, <1>6, <1>8 DEF Core, CopyUnderWay, RenameUnderWay, CallKeepsFile

\* A file of the FFS is renamed, and one that had the new name is replaced.
LEMMA FollowTyped ==
  ASSUME NEW table \in Tables, NEW p \in Paths, NEW q \in Paths, p # q
  PROVE  /\ Follow(table, p, q) \in Tables
         /\ \A h \in FfsHandles :
              /\ Follow(table, p, q)[h] = Closed <=> table[h] = Closed
              /\ table[h] # Closed =>
                   Follow(table, p, q)[h].path
                     = IF table[h].path = p THEN q
                       ELSE IF table[h].path = q THEN Gone ELSE table[h].path
  <1> DEFINE mid == Repoint(table, q, Gone)
  <1>1. /\ mid \in Tables
        /\ \A h \in FfsHandles :
             /\ mid[h] = Closed <=> table[h] = Closed
             /\ table[h] # Closed =>
                  mid[h].path = IF table[h].path = q THEN Gone ELSE table[h].path
    BY RepointTyped
  <1> HIDE DEF mid
  <1>2. /\ Repoint(mid, p, q) \in Tables
        /\ \A h \in FfsHandles :
             /\ Repoint(mid, p, q)[h] = Closed <=> mid[h] = Closed
             /\ mid[h] # Closed =>
                  Repoint(mid, p, q)[h].path = IF mid[h].path = p THEN q ELSE mid[h].path
    BY <1>1, RepointTyped
  <1>3. Follow(table, p, q) = Repoint(mid, p, q)
    BY DEF Follow, Orphan, mid
  <1>4. p # Gone
    BY HyfsAssumption
  <1> QED
    BY <1>1, <1>2, <1>3, <1>4

\* rename(), with the file open: it is closed, and then renamed or not.
LEMMA CoreRename ==
  ASSUME Core, RenameStep
  PROVE  Core'
  <1> DEFINE h == call.file
             p == call.path
             q == call.to
             f == RenameClosed(fh, h)
  <1>1. call.kind = "rename"
    BY DEF RenameStep
  <1>2. h \in FfsHandles /\ p \in Paths /\ q \in Paths
    BY <1>1, CallKinds DEF Core, Renames
  <1>3. fh[h] # Closed /\ fh[h].path = p /\ h \notin held
    BY <1>1, <1>2 DEF Core, NothingLeaks, RenameUnderWay, CallKeepsFile
  <1>4. ffs[p] # Absent /\ ffs[p] \in Data
    <2>1. ffs[p] # Absent
      BY <1>2, <1>3, HyfsAssumption DEF Core, Linked
    <2> QED
      BY <1>2, <2>1 DEF Core, CoreTyped
  <1>5. /\ f \in Tables
        /\ f[h] = Closed
        /\ \A k \in FfsHandles \ {h} : f[k] = fh[k]
    BY <1>2 DEF RenameClosed, Core, CoreTyped, Tables
  <1>6. call' = Idle /\ UNCHANGED <<slots, held>> /\ call'.kind = "idle"
    BY DEF RenameStep, Idle
  <1> HIDE DEF f
  <1>7. ASSUME fh' \in Tables,
               \A k \in FfsHandles : fh'[k] = Closed <=> f[k] = Closed,
               ffs' \in [Paths -> Data \cup {Absent}],
               Linked'
        PROVE  Core'
    <2>1. CoreTyped'
      BY <1>6, <1>7 DEF Core, CoreTyped
    <2>2. NothingLeaks'
      BY <1>1, <1>2, <1>3, <1>5, <1>6, <1>7 DEF Core, NothingLeaks
    <2> QED
      BY <1>6, <1>7, <2>1, <2>2 DEF Core, CopyUnderWay, RenameUnderWay, CallKeepsFile
  <1>8. CASE fh' = f /\ ffs' = ffs
    <2>1. Linked'
      BY <1>5, <1>8 DEF Core, Linked
    <2> QED
      BY <1>5, <1>7, <1>8, <2>1 DEF Core, CoreTyped
  <1>9. CASE /\ ffs' = IF p = q THEN ffs ELSE [ffs EXCEPT ![q] = ffs[p], ![p] = Absent]
             /\ fh' = Follow(f, p, q)
    <2>1. CASE p = q
      <3>1. fh' = f /\ ffs' = ffs
        BY <1>9, <2>1 DEF Follow
      <3> QED
        BY <1>8, <3>1
    <2>2. CASE p # q
      <3>1. /\ fh' \in Tables
            /\ \A k \in FfsHandles :
                 /\ fh'[k] = Closed <=> f[k] = Closed
                 /\ f[k] # Closed =>
                      fh'[k].path
                        = IF f[k].path = p THEN q
                          ELSE IF f[k].path = q THEN Gone ELSE f[k].path
        BY <1>2, <1>5, <1>9, <2>2, FollowTyped
      <3>2. /\ ffs' \in [Paths -> Data \cup {Absent}]
            /\ ffs'[q] = ffs[p]
            /\ \A r \in Paths \ {p, q} : ffs'[r] = ffs[r]
        BY <1>2, <1>4, <1>9, <2>2 DEF Core, CoreTyped
      <3>3. ASSUME NEW k \in FfsHandles, fh'[k] # Closed, fh'[k].path # Gone
            PROVE  ffs'[fh'[k].path] # Absent
        <4>1. f[k] # Closed /\ k # h /\ f[k] = fh[k] /\ fh[k] \in Files
          BY <1>5, <3>1, <3>3 DEF Core, CoreTyped, Tables
        <4>2. CASE fh[k].path = p
          <5>1. f[k].path = p
            BY <4>1, <4>2
          <5>2. fh'[k].path = q
            BY <3>1, <4>1, <5>1
          <5> QED
            BY <1>4, <3>2, <5>2
        <4>3. CASE fh[k].path # p
          <5>1. fh[k].path # q /\ fh'[k].path = fh[k].path
            BY <3>1, <3>3, <4>1, <4>3
          <5>2. fh[k].path \in Paths /\ ffs[fh[k].path] # Absent
            BY <3>3, <4>1, <5>1 DEF Files, Core, Linked
          <5> QED
            BY <3>2, <4>3, <5>1, <5>2
        <4> QED
          BY <4>2, <4>3
      <3>4. Linked'
        BY <3>3 DEF Linked
      <3> QED
        BY <1>7, <3>1, <3>2, <3>4
    <2> QED
      BY <2>1, <2>2
  <1> QED
    BY <1>8, <1>9 DEF RenameStep, f

\* Power is lost: nothing is open, and the FFS holds what it held.
LEMMA CoreCrash ==
  ASSUME Core, Crash
  PROVE  Core'
  <1> USE DEF Crash
  <1>1. CoreTyped'
    BY DEF Core, CoreTyped, Tables
  <1>2. call'.kind = "idle"
    BY DEF Idle
  <1>3. NothingLeaks' /\ Linked'
    BY <1>2 DEF NothingLeaks, Linked
  <1> QED
    BY <1>1, <1>2, <1>3 DEF Core, CopyUnderWay, RenameUnderWay, CallKeepsFile

\* The new name that open() is given: none, or rename()'s.
LEMMA CoreOpenPath ==
  ASSUME Core, call.kind = "idle", NEW p \in Paths, NEW flags,
         NEW to \in Paths \cup {Absent}, to = Absent \/ flags # {"Read"},
         OpenPath(p, flags, to)
  PROVE  Core'
  <1>1. Outcome(p, flags, to)
    BY OpenPathOutcomes
  <1>2. CASE Quiet
    BY <1>2, CoreQuiet DEF Quiet
  <1>3. ASSUME NEW h \in FfsHandles,
               Opened(h, p, flags, to) \/ Opened(h, p, ForCopy(flags), to)
        PROVE  Core'
    BY <1>3, CoreOpened
  <1>4. ASSUME p \in InFw \ FwReadOnly, ffs[p] = Absent,
               NEW s \in Slots, NEW h \in FfsHandles, CopyBegun(s, h, p, flags, to)
        PROVE  Core'
    BY <1>4, CoreCopyBegun
  <1>5. ASSUME p \in InFw, NEW s \in Slots, OpenedFw(s, p)
        PROVE  Core'
    BY <1>5, CoreOpenedFw
  <1> QED
    BY <1>1, <1>2, <1>3, <1>4, <1>5 DEF Outcome

\* Every call, every step of a copy or a rename, and a crash.
LEMMA CoreNext ==
  ASSUME Core, [Next]_vars
  PROVE  Core'
  <1>1. CASE call.kind = "idle" /\ Call
    <2> USE <1>1
    <2>1. CASE Mount
      BY <2>1, CoreQuiet DEF Mount
    <2>2. CASE Format
      BY <2>2, CoreFormat, CoreQuiet DEF Format, NotRemoved
    <2>3. CASE Query
      BY <2>3, CoreQuiet DEF Query, Fail
    <2>4. ASSUME NEW p \in Paths, NEW flags \in FlagSets, Open(p, flags)
          PROVE  Core'
      BY <2>4, CoreOpenPath DEF Open
    <2>5. ASSUME NEW p \in Paths, NEW q \in RenameTo, Rename(p, q)
          PROVE  Core'
      <3>1. q \in Paths \cup {Absent}
        BY HyfsAssumption
      <3>2. {"Read", "Write"} # {"Read"}
        OBVIOUS
      <3> QED
        BY <2>5, <3>1, <3>2, CoreOpenPath DEF Rename
    <2>6. ASSUME NEW p \in Paths, Remove(p)
          PROVE  Core'
      BY <2>6, CoreRemoved, CoreQuiet DEF Remove, Removed, NotRemoved
    <2>7. ASSUME NEW h \in held, Refused(h)
          PROVE  Core'
      BY <2>7, CoreQuiet DEF Refused, Fail
    <2>8. ASSUME NEW h \in held,
                 Close(h) \/ Move(h) \/ Write(h) \/ Ftruncate(h) \/ Fremove(h)
          PROVE  Core'
      BY <2>8, CoreClose, CoreMove, CoreWrite, CoreFtruncate, CoreFremove
    <2>9. ASSUME NEW d \in DirIds,
                 Opendir(d) \/ Readdir(d) \/ Rewinddir(d) \/ Closedir(d)
          PROVE  Core'
      BY <2>9, CoreQuiet DEF Opendir, Readdir, Rewinddir, Closedir
    <2> QED
      BY <1>1, <2>1, <2>2, <2>3, <2>4, <2>5, <2>6, <2>7, <2>8, <2>9 DEF Call
  <1>2. CASE CopyStep
    <2>1. call.kind = "copy"
      BY <1>2 DEF CopyStep
    <2>2. CASE CopyDone
      BY <2>1, <2>2, CoreCopyDone
    <2>3. ASSUME NEW written \in BOOLEAN, ~AtEof(slots[call.slot]), CopyBlock(written)
          PROVE  Core'
      BY <2>1, <2>3, CoreCopyBlock
    <2>4. CASE CopyFailed
      BY <2>1, <2>4, CoreCopyFailed
    <2> QED
      BY <1>2, <2>2, <2>3, <2>4 DEF CopyStep
  <1>3. CASE RenameStep
    BY <1>3, CoreRename
  <1>4. CASE Crash
    BY <1>4, CoreCrash
  <1>5. CASE UNCHANGED vars
    BY <1>5, CoreQuiet DEF vars
  <1> QED
    BY <1>1, <1>2, <1>3, <1>4, <1>5 DEF Next

\* The invariant holds in every state that the hybrid file system gets to.
LEMMA CoreAlways == Spec => []Core
  <1>1. Init => Core
    BY CoreInit
  <1>2. Core /\ [Next]_vars => Core'
    BY CoreNext
  <1> QED
    BY <1>1, <1>2, PTL DEF Spec

-----------------------------------------------------------------------------
(***************************************************************************)
(* Directory enumeration, and type correctness.                            *)
(***************************************************************************)
ListingTyped ==
  /\ mounted \in BOOLEAN
  /\ hidden \subseteq InFw
  /\ dirs \in [DirIds -> Dirs \cup {Closed}]
  /\ listed \in [DirIds -> Seq(Paths)]
  /\ steady \in [DirIds -> BOOLEAN]

\* The names that the FFS has stay the same.
SameNames == \A p \in Paths : (ffs'[p] = Absent) <=> (ffs[p] = Absent)

\* Anything but enumeration: where the names in the FFS change, no enumeration is
\* steady any more; remove() and format() take names out of the hidden ones that
\* the FFS does not have, or else fail and leave no enumeration steady; fremove(),
\* rename() and a copy that fails take a file away and leave the hidden names alone.
Elsewhere ==
  /\ UNCHANGED <<dirs, listed>>
  /\ steady' \in [DirIds -> BOOLEAN]
  /\ \A d \in DirIds : steady'[d] => steady[d] /\ SameNames
  /\ mounted' \in BOOLEAN
  /\ hidden' \subseteq hidden
  /\ \/ \A p \in hidden \ hidden' : ffs'[p] = Absent
     \/ \A d \in DirIds : ~steady'[d]
  /\ \/ \A p \in hidden' : ffs[p] # Absent => ffs'[p] # Absent
     \/ call.kind = "copy" /\ ffs' = [ffs EXCEPT ![call.path] = Absent]
     \/ call.kind = "rename"
     \/ "Fremove" \in Allowed

\* Nothing that is listed, and no name, changes.
LEMMA ElsewhereQuiet ==
  ASSUME ListingTyped, UNCHANGED listing, mounted' \in BOOLEAN, SameNames
  PROVE  Elsewhere
  <1>1. hidden \subseteq Paths
    BY FwTyped DEF ListingTyped
  <1> QED
    BY <1>1 DEF Elsewhere, ListingTyped, listing, SameNames

\* The history of a change of names is a function of the directory objects.
LEMMA NamesMayChangeTyped ==
  ASSUME ListingTyped, NamesMayChange
  PROVE  /\ steady' \in [DirIds -> BOOLEAN]
         /\ \A d \in DirIds : steady'[d] => steady[d] /\ SameNames
  <1> DEFINE still(d) == steady[d] /\ SameNames
  <1>1. steady' = [d \in DirIds |-> still(d)]
    BY DEF NamesMayChange, SameNames
  <1>2. \A d \in DirIds : still(d) \in BOOLEAN
    OBVIOUS
  <1>3. steady' \in [DirIds -> BOOLEAN] /\ \A d \in DirIds : steady'[d] = still(d)
    <2> HIDE DEF still
    <2> QED
      BY <1>1, <1>2
  <1> QED
    BY <1>3

\* A remove() or format() that fails: names are unhidden, and nothing is removed.
LEMMA ElsewhereNotRemoved ==
  ASSUME ListingTyped, NEW stillHidden, stillHidden \subseteq hidden,
         NotRemoved(stillHidden)
  PROVE  Elsewhere
  <1> DEFINE still(d) == steady[d] /\ stillHidden = hidden
  <1>1. steady' = [d \in DirIds |-> still(d)]
    BY DEF NotRemoved
  <1>2. \A d \in DirIds : still(d) \in BOOLEAN
    OBVIOUS
  <1>3. steady' \in [DirIds -> BOOLEAN] /\ \A d \in DirIds : steady'[d] = still(d)
    <2> HIDE DEF still
    <2> QED
      BY <1>1, <1>2
  <1>4. /\ UNCHANGED <<mounted, ffs, dirs, listed>>
        /\ hidden' = stillHidden
    BY DEF NotRemoved
  <1>5. (\A d \in DirIds : ~steady'[d]) \/ hidden' = hidden
    BY <1>3, <1>4
  <1>6. SameNames
    BY <1>4 DEF SameNames
  <1> QED
    BY <1>3, <1>4, <1>5, <1>6 DEF Elsewhere, ListingTyped

\* A step is one of enumeration, a loss of power, or neither.
LEMMA ListingSteps ==
  ASSUME Core, ListingTyped, [Next]_vars
  PROVE  \/ Elsewhere
         \/ Crash
         \/ /\ call.kind = "idle"
            /\ \E d \in DirIds : Opendir(d) \/ Readdir(d) \/ Rewinddir(d) \/ Closedir(d)
  <1>1. mounted \in BOOLEAN /\ hidden \subseteq Paths
    BY FwTyped DEF ListingTyped
  <1>2. ASSUME UNCHANGED <<mounted, listing>>, SameNames
        PROVE  Elsewhere
    BY <1>1, <1>2, ElsewhereQuiet
  <1>3. ASSUME UNCHANGED <<mounted, ffs, listing>>
        PROVE  Elsewhere
    BY <1>2, <1>3 DEF SameNames
  <1>4. ASSUME NamesMayChange, UNCHANGED <<mounted, hidden, dirs, listed>>,
               \/ \A p \in hidden' : ffs[p] # Absent => ffs'[p] # Absent
               \/ call.kind = "copy" /\ ffs' = [ffs EXCEPT ![call.path] = Absent]
               \/ call.kind = "rename"
               \/ "Fremove" \in Allowed
        PROVE  Elsewhere
    BY <1>1, <1>4, NamesMayChangeTyped DEF Elsewhere
  <1>5. CASE call.kind = "idle" /\ Call
    <2> USE <1>5
    <2>1. CASE Mount
      BY <2>1, ElsewhereQuiet DEF Mount, SameNames
    <2>2. CASE Format
      <3>1. CASE Formatted
        <4>1. \A p \in Paths : ffs'[p] = Absent
          BY <3>1 DEF Formatted
        <4> QED
          BY <1>1, <3>1, <4>1, NamesMayChangeTyped DEF Formatted, Elsewhere
      <3>2. CASE NotRemoved({})
        BY <3>2, ElsewhereNotRemoved
      <3> QED
        BY <2>2, <3>1, <3>2 DEF Format
    <2>3. CASE Query
      BY <1>3, <2>3 DEF Query, Fail
    <2>4. ASSUME NEW p \in Paths, NEW flags, NEW to,
                 to = Absent \/ flags # {"Read"}, OpenPath(p, flags, to)
          PROVE  Elsewhere
      <3>1. Outcome(p, flags, to)
        BY <2>4, OpenPathOutcomes
      <3>2. CASE Quiet
        BY <1>3, <3>2 DEF Quiet
      <3>3. ASSUME NEW h \in FfsHandles, NEW fl, FfsOpen(h, p, fl)
            PROVE  Elsewhere
        <4>1. /\ ffs'[p] # Absent
              /\ \A q \in Paths \ {p} : ffs'[q] = ffs[q]
          BY <3>3, FfsOpenEffect
        <4> QED
          BY <1>1, <1>4, <3>3, <4>1 DEF FfsOpen
      <3>4. ASSUME NEW s \in Slots, OpenedFw(s, p)
            PROVE  Elsewhere
        BY <1>3, <3>4 DEF OpenedFw
      <3> QED
        BY <3>1, <3>2, <3>3, <3>4 DEF Outcome, Opened, CopyBegun
    <2>5. ASSUME NEW p \in Paths, NEW flags \in FlagSets, Open(p, flags)
          PROVE  Elsewhere
      BY <2>4, <2>5 DEF Open
    <2>6. ASSUME NEW p \in Paths, NEW q \in RenameTo, Rename(p, q)
          PROVE  Elsewhere
      <3>1. {"Read", "Write"} # {"Read"}
        OBVIOUS
      <3> QED
        BY <2>4, <2>6, <3>1 DEF Rename
    <2>7. ASSUME NEW p \in Paths, Remove(p)
          PROVE  Elsewhere
      <3>1. HideFWFile(p, FALSE) = hidden \ {p}
        BY DEF HideFWFile, ListingTyped
      <3>2. CASE Removed(p)
        <4>1. /\ ffs'[p] = Absent
              /\ \A q \in Paths \ {p} : ffs'[q] = ffs[q]
          BY <3>2 DEF Removed, Core, CoreTyped
        <4>2. hidden' = hidden \ {p}
          BY <3>1, <3>2 DEF Removed
        <4> QED
          BY <1>1, <3>2, <4>1, <4>2, NamesMayChangeTyped DEF Removed, Elsewhere
      <3>3. CASE NotRemoved(HideFWFile(p, FALSE))
        BY <3>1, <3>3, ElsewhereNotRemoved
      <3> QED
        BY <2>7, <3>2, <3>3 DEF Remove
    <2>8. ASSUME NEW h \in held, Refused(h) \/ Close(h) \/ Move(h)
          PROVE  Elsewhere
      BY <1>3, <2>8 DEF Refused, Fail, Close, Move
    <2>9. ASSUME NEW p \in Paths, NEW data \in Data, ffs[p] # Absent,
                 ffs' = [ffs EXCEPT ![p] = data], UNCHANGED <<mounted, listing>>
          PROVE  Elsewhere
      <3>1. /\ ffs'[p] # Absent
            /\ \A q \in Paths \ {p} : ffs'[q] = ffs[q]
        BY <2>9, HyfsAssumption DEF Core, CoreTyped
      <3> QED
        BY <1>2, <2>9, <3>1 DEF SameNames
    <2>10. ASSUME NEW h \in held, Write(h)
           PROVE  Elsewhere
      <3> DEFINE p  == fh[h].path
                 at == Position(fh[h], ffs[p])
      <3>1. fh[h] \in Files /\ p \in Paths /\ ffs[p] \in Data
        BY <2>10, UsableEffect DEF Write
      <3>2. at \in 0..Len(ffs[p])
        BY <3>1, PositionWithin
      <3>3. CASE Fail("NoSpace")
        BY <1>3, <3>3 DEF Fail
      <3>4. CASE /\ at < MaxBlocks
                 /\ ffs' = [ffs EXCEPT ![p] = Put(ffs[p], at, Block)]
                 /\ UNCHANGED <<mounted, listing>>
        <4>1. Block \in Blocks
          BY DEF Blocks
        <4>2. Put(ffs[p], at, Block) \in Data
          <5> HIDE DEF p, at
          <5> QED
            BY <3>1, <3>2, <3>4, <4>1, PutTyped
        <4>3. ffs[p] # Absent
          BY <3>1, HyfsAssumption
        <4> HIDE DEF p, at
        <4> QED
          BY <2>9, <3>1, <3>4, <4>2, <4>3
      <3> QED
        BY <2>10, <3>3, <3>4 DEF Write
    <2>11. ASSUME NEW h \in held, Ftruncate(h)
           PROVE  Elsewhere
      <3> DEFINE p == fh[h].path
      <3>1. p \in Paths /\ ffs[p] \in Data
        BY <2>11, UsableEffect DEF Ftruncate
      <3>2. CASE Fail("ReadOnly")
        BY <1>3, <3>2 DEF Fail
      <3>3. ASSUME NEW n \in 0..Len(ffs[p]), ffs' = [ffs EXCEPT ![p] = Cut(@, n)],
                   UNCHANGED <<mounted, listing>>
            PROVE  Elsewhere
        <4>1. Cut(ffs[p], n) \in Data
          BY <3>1, CutTyped
        <4>2. ffs[p] # Absent
          BY <3>1, HyfsAssumption
        <4> HIDE DEF p
        <4> QED
          BY <2>9, <3>1, <3>3, <4>1, <4>2
      <3> QED
        BY <2>11, <3>2, <3>3 DEF Ftruncate
    <2>12. ASSUME NEW h \in held, Fremove(h)
           PROVE  Elsewhere
      BY <1>3, <1>4, <2>12 DEF Fremove, Fail
    <2> QED
      BY <2>1, <2>2, <2>3, <2>5, <2>6, <2>7, <2>8, <2>10, <2>11, <2>12 DEF Call
  <1>6. CASE CopyStep
    <2>1. call.kind = "copy"
      BY <1>6 DEF CopyStep
    <2>2. CASE CopyDone
      BY <1>3, <2>2 DEF CopyDone
    <2>3. ASSUME NEW written \in BOOLEAN, ~AtEof(slots[call.slot]), CopyBlock(written)
          PROVE  Elsewhere
      <3>1. /\ call.path \in Paths
            /\ ffs'[call.path] \in Data
            /\ \A q \in Paths \ {call.path} : ffs'[q] = ffs[q]
        BY <2>1, <2>3, CopyBlockEffect, CopyFacts
      <3>2. ffs[call.path] # Absent /\ ffs'[call.path] # Absent
        BY <2>1, <3>1, HyfsAssumption DEF Core, CopyUnderWay
      <3>3. UNCHANGED <<mounted, listing>>
        BY <2>3 DEF CopyBlock
      <3> QED
        BY <1>2, <3>1, <3>2, <3>3 DEF SameNames
    <2>4. CASE CopyFailed
      <3>1. \/ ffs' = [ffs EXCEPT ![call.path] = Absent]
            \/ \A p \in hidden' : ffs[p] # Absent => ffs'[p] # Absent
        BY <2>4 DEF CopyFailed
      <3> QED
        BY <1>4, <2>1, <2>4, <3>1 DEF CopyFailed
    <2> QED
      BY <1>6, <2>2, <2>3, <2>4 DEF CopyStep
  <1>7. CASE RenameStep
    BY <1>4, <1>7 DEF RenameStep
  <1>8. CASE UNCHANGED vars
    BY <1>3, <1>8 DEF vars, listing
  <1> QED
    BY <1>5, <1>6, <1>7, <1>8 DEF Next

\* A name is appended to what an enumeration has produced.
LEMMA AppendListed ==
  ASSUME NEW s \in Seq(Paths), NEW e \in Paths
  PROVE  /\ Append(s, e) \in Seq(Paths)
         /\ Range(Append(s, e)) = Range(s) \cup {e}
         /\ IsInjective(s) /\ e \notin Range(s) => IsInjective(Append(s, e))
  <1> DEFINE t == Append(s, e)
  <1>1. /\ t \in Seq(Paths)
        /\ DOMAIN t = 1..(Len(s) + 1) /\ DOMAIN s = 1..Len(s)
        /\ Len(s) \in Nat
        /\ t[Len(s) + 1] = e
        /\ \A i \in 1..Len(s) : t[i] = s[i]
    OBVIOUS
  <1> HIDE DEF t
  <1>2. Range(t) = Range(s) \cup {e}
    <2>1. ASSUME NEW i \in DOMAIN t
          PROVE  t[i] \in Range(s) \cup {e}
      BY <1>1, <2>1 DEF Range
    <2>2. ASSUME NEW i \in DOMAIN s
          PROVE  s[i] \in Range(t)
      <3>1. i \in DOMAIN t /\ t[i] = s[i]
        BY <1>1, <2>2
      <3> QED
        BY <3>1 DEF Range
    <2>3. e \in Range(t)
      <3>1. Len(s) + 1 \in DOMAIN t
        BY <1>1
      <3> QED
        BY <1>1, <3>1 DEF Range
    <2> QED
      BY <2>1, <2>2, <2>3 DEF Range
  <1>3. ASSUME IsInjective(s), e \notin Range(s)
        PROVE  IsInjective(t)
    <2>1. ASSUME NEW i \in DOMAIN t, NEW j \in DOMAIN t, t[i] = t[j]
          PROVE  i = j
      <3>1. \A k \in 1..Len(s) : s[k] # e
        BY <1>1, <1>3 DEF Range
      <3>2. CASE i \in 1..Len(s) /\ j \in 1..Len(s)
        BY <1>1, <1>3, <2>1, <3>2 DEF IsInjective
      <3>3. CASE i = Len(s) + 1 \/ j = Len(s) + 1
        BY <1>1, <2>1, <3>1, <3>3
      <3> QED
        BY <1>1, <3>2, <3>3
    <2> QED
      BY <2>1 DEF IsInjective
  <1> QED
    BY <1>1, <1>2, <1>3 DEF t

\* The firmware directory.
LEMMA FwOrderTyped ==
  /\ Len(FwOrder) \in Nat
  /\ InFw = { FwOrder[i] : i \in 1..Len(FwOrder) }
  /\ \A i \in 1..Len(FwOrder) : FwOrder[i] \in InFw /\ FwOrder[i] \in Paths
  /\ \A i, j \in 1..Len(FwOrder) : FwOrder[i] = FwOrder[j] => i = j
  BY HyfsAssumption DEF InFw, Range, IsInjective

\* A directory object that has been opened or rewound.
LEMMA FileDirTyped ==
  ASSUME NEW open \in BOOLEAN
  PROVE  FileDir(open) \in Dirs
  BY DEF FileDir, Dirs

\* One name is produced by the firmware, or there are no more.
LEMMA ReaddirFwEffect ==
  ASSUME ListingTyped, NEW d \in DirIds, dirs[d] # Closed, ReaddirFw(d)
  PROVE  /\ dirs' \in [DirIds -> Dirs \cup {Closed}]
         /\ listed' \in [DirIds -> Seq(Paths)]
         /\ hidden' = hidden
         /\ dirs'[d] # Closed /\ dirs'[d].at = "fwfs"
         /\ \A e \in DirIds \ {d} : dirs'[e] = dirs[e] /\ listed'[e] = listed[e]
         /\ dirs[d].next \in Nat \ {0}
         /\ \/ \E i \in 1..Len(FwOrder) :
                 /\ i >= dirs[d].next
                 /\ FwOrder[i] \notin hidden
                 /\ \A j \in 1..Len(FwOrder) :
                      dirs[d].next <= j /\ j < i => FwOrder[j] \in hidden
                 /\ dirs'[d].next = i + 1
                 /\ listed'[d] = Append(listed[d], FwOrder[i])
            \/ /\ \A j \in 1..Len(FwOrder) : dirs[d].next <= j => FwOrder[j] \in hidden
               /\ dirs'[d].next = Len(FwOrder) + 1
               /\ listed'[d] = listed[d]
  <1>1. dirs[d] \in Dirs /\ dirs[d].next \in Nat \ {0}
    BY DEF ListingTyped, Dirs
  <1>2. \A i : i \in Shown(d) <=>
               i \in 1..Len(FwOrder) /\ i >= dirs[d].next /\ FwOrder[i] \notin hidden
    BY <1>1, FwOrderTyped DEF Shown
  <1>3. ASSUME NEW next \in Nat \ {0}, AtFw(d, next)
        PROVE  /\ dirs' \in [DirIds -> Dirs \cup {Closed}]
               /\ dirs'[d] # Closed /\ dirs'[d].at = "fwfs" /\ dirs'[d].next = next
               /\ \A e \in DirIds \ {d} : dirs'[e] = dirs[e]
    <2> DEFINE new == [dirs[d] EXCEPT !.at = "fwfs", !.next = next]
    <2>1. new \in Dirs /\ new.at = "fwfs" /\ new.next = next
      BY <1>1 DEF Dirs
    <2>2. new # Closed
      BY <2>1, NotClosed
    <2>3. dirs' = [dirs EXCEPT ![d] = new]
      BY <1>3 DEF AtFw
    <2> HIDE DEF new
    <2> QED
      BY <2>1, <2>2, <2>3 DEF ListingTyped
  <1>4. CASE \E i \in Shown(d) :
               /\ \A j \in Shown(d) : i <= j
               /\ AtFw(d, i + 1)
               /\ listed' = [listed EXCEPT ![d] = Append(@, FwOrder[i])]
    <2>1. PICK i \in Shown(d) :
               /\ \A j \in Shown(d) : i <= j
               /\ AtFw(d, i + 1)
               /\ listed' = [listed EXCEPT ![d] = Append(@, FwOrder[i])]
      BY <1>4
    <2>2. i \in 1..Len(FwOrder) /\ i >= dirs[d].next /\ FwOrder[i] \notin hidden
      BY <1>2
    <2>3. i + 1 \in Nat \ {0} /\ FwOrder[i] \in Paths
      BY <2>2, FwOrderTyped
    <2>4. /\ dirs' \in [DirIds -> Dirs \cup {Closed}]
          /\ dirs'[d] # Closed /\ dirs'[d].at = "fwfs" /\ dirs'[d].next = i + 1
          /\ \A e \in DirIds \ {d} : dirs'[e] = dirs[e]
      BY <1>3, <2>1, <2>3
    <2>5. /\ listed' \in [DirIds -> Seq(Paths)]
          /\ listed'[d] = Append(listed[d], FwOrder[i])
          /\ \A e \in DirIds \ {d} : listed'[e] = listed[e]
      BY <2>1, <2>3, AppendListed DEF ListingTyped
    <2>6. ASSUME NEW j \in 1..Len(FwOrder), dirs[d].next <= j, j < i
          PROVE  FwOrder[j] \in hidden
      <3>1. i \in Int /\ j \in Int
        BY <2>2, FwOrderTyped
      <3> QED
        BY <1>1, <1>2, <2>1, <2>6, <3>1
    <2> QED
      BY <1>1, <2>2, <2>4, <2>5, <2>6 DEF ReaddirFw
  <1>5. CASE /\ Shown(d) = {}
             /\ AtFw(d, Len(FwOrder) + 1)
             /\ UNCHANGED listed
    <2>1. Len(FwOrder) + 1 \in Nat \ {0}
      BY FwOrderTyped
    <2>2. \A j \in 1..Len(FwOrder) : dirs[d].next <= j => FwOrder[j] \in hidden
      BY <1>1, <1>2, <1>5, FwOrderTyped
    <2>3. /\ dirs' \in [DirIds -> Dirs \cup {Closed}]
          /\ dirs'[d] # Closed /\ dirs'[d].at = "fwfs"
          /\ dirs'[d].next = Len(FwOrder) + 1
          /\ \A e \in DirIds \ {d} : dirs'[e] = dirs[e]
      BY <1>3, <1>5, <2>1
    <2> QED
      BY <1>1, <1>5, <2>2, <2>3 DEF ReaddirFw, ListingTyped
  <1> QED
    BY <1>4, <1>5 DEF ReaddirFw

\* One name is produced by the FFS, and hides the firmware's; or it is too long.
LEMMA ReaddirFfsEffect ==
  ASSUME ListingTyped, NEW d \in DirIds, dirs[d] # Closed, dirs[d].at = "ffs",
         ReaddirFfs(d)
  PROVE  /\ dirs' \in [DirIds -> Dirs \cup {Closed}]
         /\ dirs'[d] # Closed /\ dirs'[d].at = "ffs" /\ dirs'[d].next = dirs[d].next
         /\ \A e \in DirIds \ {d} :
              dirs'[e] = dirs[e] /\ listed'[e] = listed[e] /\ steady'[e] = steady[e]
         /\ steady' \in [DirIds -> BOOLEAN]
         /\ listed' \in [DirIds -> Seq(Paths)]
         /\ \E p \in Paths \ dirs[d].seen :
              /\ ffs[p] # Absent
              /\ dirs'[d].seen = dirs[d].seen \cup {p}
              /\ \/ /\ hidden' = hidden \cup ({p} \cap InFw)
                    /\ listed'[d] = Append(listed[d], p)
                    /\ steady'[d] = steady[d]
                 \/ /\ hidden' = hidden
                    /\ ~steady'[d]
  <1>1. dirs[d] \in Dirs
    BY DEF ListingTyped
  <1>2. PICK p \in FfsEntries(d) :
          /\ dirs' = [dirs EXCEPT ![d].seen = @ \cup {p}]
          /\ \/ /\ p \notin LongNames
                /\ hidden' = HideFWFile(p, TRUE)
                /\ listed' = [listed EXCEPT ![d] = Append(@, p)]
                /\ UNCHANGED steady
             \/ /\ p \in LongNames
                /\ steady' = [steady EXCEPT ![d] = FALSE]
                /\ UNCHANGED <<hidden, listed>>
    BY DEF ReaddirFfs
  <1>3. p \in Paths /\ p \notin dirs[d].seen /\ ffs[p] # Absent
    BY DEF FfsEntries
  <1> DEFINE new == [dirs[d] EXCEPT !.seen = @ \cup {p}]
  <1>4. /\ new \in Dirs /\ new.at = "ffs" /\ new.next = dirs[d].next
        /\ new.seen = dirs[d].seen \cup {p}
    BY <1>1, <1>3 DEF Dirs
  <1>5. new # Closed
    BY <1>4, NotClosed
  <1>6. dirs' = [dirs EXCEPT ![d] = new]
    BY <1>2
  <1> HIDE DEF new
  <1>7. /\ dirs' \in [DirIds -> Dirs \cup {Closed}]
        /\ dirs'[d] = new
        /\ \A e \in DirIds \ {d} : dirs'[e] = dirs[e]
    BY <1>4, <1>6 DEF ListingTyped
  <1>8. CASE /\ hidden' = HideFWFile(p, TRUE)
             /\ listed' = [listed EXCEPT ![d] = Append(@, p)]
             /\ UNCHANGED steady
    <2>1. hidden' = hidden \cup ({p} \cap InFw)
      BY <1>8 DEF HideFWFile
    <2>2. /\ listed' \in [DirIds -> Seq(Paths)]
          /\ listed'[d] = Append(listed[d], p)
          /\ \A e \in DirIds \ {d} : listed'[e] = listed[e]
      BY <1>3, <1>8, AppendListed DEF ListingTyped
    <2> QED
      BY <1>3, <1>4, <1>5, <1>7, <1>8, <2>1, <2>2 DEF ListingTyped
  <1>9. CASE /\ steady' = [steady EXCEPT ![d] = FALSE]
             /\ UNCHANGED <<hidden, listed>>
    BY <1>3, <1>4, <1>5, <1>7, <1>9 DEF ListingTyped
  <1> QED
    BY <1>2, <1>8, <1>9

\* opendir(), rewinddir(), closedir(): one directory object starts afresh or ends.
LEMMA DirEffect ==
  ASSUME ListingTyped, NEW d \in DirIds, Opendir(d) \/ Rewinddir(d) \/ Closedir(d)
  PROVE  /\ UNCHANGED <<mounted, ffs, call, hidden>>
         /\ dirs' \in [DirIds -> Dirs \cup {Closed}]
         /\ steady' \in [DirIds -> BOOLEAN]
         /\ listed' \in [DirIds -> Seq(Paths)]
         /\ listed'[d] = <<>>
         /\ dirs'[d] = Closed \/ dirs'[d] = FileDir(steady'[d])
         /\ \A e \in DirIds \ {d} :
              dirs'[e] = dirs[e] /\ listed'[e] = listed[e] /\ steady'[e] = steady[e]
  <1> DEFINE Others == \A e \in DirIds \ {d} :
        dirs'[e] = dirs[e] /\ listed'[e] = listed[e] /\ steady'[e] = steady[e]
  <1>1. /\ UNCHANGED <<mounted, ffs, call, hidden>>
        /\ listed' = [listed EXCEPT ![d] = <<>>]
    BY DEF Opendir, Rewinddir, Closedir
  <1>2. /\ listed' \in [DirIds -> Seq(Paths)]
        /\ listed'[d] = <<>>
        /\ \A e \in DirIds \ {d} : listed'[e] = listed[e]
    BY <1>1 DEF ListingTyped
  <1>3. ASSUME NEW open \in BOOLEAN,
               dirs' = [dirs EXCEPT ![d] = FileDir(open)],
               steady' = [steady EXCEPT ![d] = open]
        PROVE  /\ dirs' \in [DirIds -> Dirs \cup {Closed}]
               /\ steady' \in [DirIds -> BOOLEAN]
               /\ dirs'[d] = FileDir(steady'[d])
               /\ \A e \in DirIds \ {d} : dirs'[e] = dirs[e] /\ steady'[e] = steady[e]
    BY <1>3, FileDirTyped DEF ListingTyped
  <1>4. CASE Opendir(d)
    BY <1>1, <1>2, <1>3, <1>4 DEF Opendir
  <1>5. CASE Rewinddir(d)
    <2>1. dirs[d].ffs \in BOOLEAN
      BY <1>5 DEF Rewinddir, ListingTyped, Dirs
    <2> QED
      BY <1>1, <1>2, <1>3, <1>5, <2>1 DEF Rewinddir
  <1>6. CASE Closedir(d)
    BY <1>1, <1>2, <1>6 DEF Closedir, ListingTyped
  <1> QED
    BY <1>4, <1>5, <1>6

\* The steps of readdir(), those that leave an enumeration steady told apart.
LEMMA ReaddirSteps ==
  ASSUME ListingTyped, NEW d \in DirIds, Readdir(d)
  PROVE  /\ UNCHANGED <<mounted, ffs, call>>
         /\ dirs[d] # Closed
         /\ \/ dirs[d].at = "ffs" /\ ReaddirFfs(d)
            \/ dirs[d].at = "ffs" /\ FfsEntries(d) = {} /\ ReaddirFw(d) /\ UNCHANGED steady
            \/ dirs[d].at = "fwfs" /\ ReaddirFw(d) /\ UNCHANGED steady
            \/ ReaddirFw(d) /\ steady' = [steady EXCEPT ![d] = FALSE]
            \/ /\ steady' = [steady EXCEPT ![d] = FALSE]
               /\ UNCHANGED dirs \/ AtFw(d, dirs[d].next)
               /\ UNCHANGED <<hidden, listed>>
  BY DEF Readdir

\* Enumeration keeps the types.
LEMMA ReaddirTyped ==
  ASSUME ListingTyped, NEW d \in DirIds, Readdir(d)
  PROVE  /\ ListingTyped'
         /\ \A e \in DirIds \ {d} :
              dirs'[e] = dirs[e] /\ listed'[e] = listed[e] /\ steady'[e] = steady[e]
         /\ hidden \subseteq hidden'
         /\ \A p \in hidden' \ hidden : ffs[p] # Absent
  <1>1. UNCHANGED <<mounted, ffs, call>> /\ dirs[d] # Closed
    BY ReaddirSteps
  <1>2. CASE dirs[d].at = "ffs" /\ ReaddirFfs(d)
    <2>1. /\ dirs' \in [DirIds -> Dirs \cup {Closed}]
          /\ steady' \in [DirIds -> BOOLEAN]
          /\ listed' \in [DirIds -> Seq(Paths)]
          /\ \A e \in DirIds \ {d} :
               dirs'[e] = dirs[e] /\ listed'[e] = listed[e] /\ steady'[e] = steady[e]
          /\ \E p \in Paths : /\ ffs[p] # Absent
                              /\ \/ hidden' = hidden \cup ({p} \cap InFw)
                                 \/ hidden' = hidden
      BY <1>1, <1>2, ReaddirFfsEffect
    <2> QED
      BY <1>1, <2>1 DEF ListingTyped
  <1>3. CASE /\ ReaddirFw(d)
             /\ UNCHANGED steady \/ steady' = [steady EXCEPT ![d] = FALSE]
    <2>1. /\ dirs' \in [DirIds -> Dirs \cup {Closed}]
          /\ listed' \in [DirIds -> Seq(Paths)]
          /\ hidden' = hidden
          /\ \A e \in DirIds \ {d} : dirs'[e] = dirs[e] /\ listed'[e] = listed[e]
      BY <1>1, <1>3, ReaddirFwEffect
    <2>2. /\ steady' \in [DirIds -> BOOLEAN]
          /\ \A e \in DirIds \ {d} : steady'[e] = steady[e]
      BY <1>3 DEF ListingTyped
    <2> QED
      BY <1>1, <2>1, <2>2 DEF ListingTyped
  <1>4. CASE /\ steady' = [steady EXCEPT ![d] = FALSE]
             /\ UNCHANGED dirs \/ AtFw(d, dirs[d].next)
             /\ UNCHANGED <<hidden, listed>>
    <2>1. /\ dirs' \in [DirIds -> Dirs \cup {Closed}]
          /\ \A e \in DirIds \ {d} : dirs'[e] = dirs[e]
      <3> DEFINE new == [dirs[d] EXCEPT !.at = "fwfs", !.next = dirs[d].next]
      <3>1. dirs[d] \in Dirs
        BY <1>1 DEF ListingTyped
      <3>2. new \in Dirs
        BY <3>1 DEF Dirs
      <3>3. AtFw(d, dirs[d].next) => dirs' = [dirs EXCEPT ![d] = new]
        BY DEF AtFw
      <3> HIDE DEF new
      <3> QED
        BY <1>4, <3>2, <3>3 DEF ListingTyped
    <2> QED
      BY <1>1, <1>4, <2>1 DEF ListingTyped
  <1> QED
    BY <1>2, <1>3, <1>4, ReaddirSteps

\* What a history starts with.
LEMMA NothingListed ==
  /\ [d \in DirIds |-> <<>>] \in [DirIds -> Seq(Paths)]
  /\ [d \in DirIds |-> TRUE] \in [DirIds -> BOOLEAN]
  <1>1. <<>> \in Seq(Paths)
    OBVIOUS
  <1> QED
    BY <1>1

\* Everything that enumeration works with has its type.
LEMMA ListingTypedNext ==
  ASSUME Core, ListingTyped, [Next]_vars
  PROVE  ListingTyped'
  <1>1. CASE Elsewhere
    BY <1>1 DEF Elsewhere, ListingTyped
  <1>2. CASE Crash
    BY <1>2, NothingListed DEF Crash, ListingTyped
  <1>3. ASSUME NEW d \in DirIds, Opendir(d) \/ Rewinddir(d) \/ Closedir(d)
        PROVE  ListingTyped'
    BY <1>3, DirEffect DEF ListingTyped
  <1>4. ASSUME NEW d \in DirIds, Readdir(d)
        PROVE  ListingTyped'
    BY <1>4, ReaddirTyped
  <1> QED
    BY <1>1, <1>2, <1>3, <1>4, ListingSteps

\* The directory objects and the cache of hidden files always have their types.
LEMMA ListingTypedAlways == Spec => []ListingTyped
  <1>1. Init => ListingTyped
    BY NothingListed DEF Init, ListingTyped
  <1>2. Core /\ ListingTyped /\ [Next]_vars => ListingTyped'
    BY ListingTypedNext
  <1> QED
    BY <1>1, <1>2, CoreAlways, PTL DEF Spec

\* Everything has its type, files and open handles among it, and a copy in progress
\* works on the firmware file it has open and on the FFS file of the same path.
THEOREM TypeCorrect == Spec => []TypeOK
  <1>1. Core /\ ListingTyped => TypeOK
    BY CallKinds DEF Core, CoreTyped, CopyUnderWay, ListingTyped, TypeOK, Tables
  <1> QED
    BY <1>1, CoreAlways, ListingTypedAlways, PTL

\* Whatever way open() and rename() end, by an early return, a copy that fails at
\* any block or a loss of power, the files left open in the two file systems are
\* those whose handles applications hold.
THEOREM NoLeaks == Spec => []NothingLeaks
  <1>1. Core => NothingLeaks
    BY DEF Core
  <1> QED
    BY <1>1, CoreAlways, PTL

-----------------------------------------------------------------------------
(***************************************************************************)
(* Nothing but remove(), format() and a copy that fails takes a file out   *)
(* of the FFS.                                                             *)
(***************************************************************************)
RemovedByPath == "Rename" \notin Allowed /\ "Fremove" \notin Allowed

\* How a call goes on: the only copies started are of files that the FFS lacks.
LEMMA CallSteps ==
  ASSUME Core, [Next]_vars
  PROVE  \/ call' = call
         \/ call'.kind = "idle"
         \/ call'.kind = "rename" /\ call.kind = "copy" /\ call.to # Absent
         \/ call'.kind = "rename" /\ "Rename" \in Allowed
         \/ /\ call'.kind = "copy"
            /\ ffs[call'.path] = Absent
            /\ UNCHANGED hidden
            /\ call'.to = Absent \/ "Rename" \in Allowed
  <1> DEFINE Goal ==
         \/ call' = call
         \/ call'.kind = "idle"
         \/ call'.kind = "rename" /\ call.kind = "copy" /\ call.to # Absent
         \/ call'.kind = "rename" /\ "Rename" \in Allowed
         \/ /\ call'.kind = "copy"
            /\ ffs[call'.path] = Absent
            /\ UNCHANGED hidden
            /\ call'.to = Absent \/ "Rename" \in Allowed
  <1>1. CASE call.kind = "idle" /\ Call
    <2>1. ASSUME NEW p \in Paths, NEW flags, NEW to,
                 to = Absent \/ flags # {"Read"}, OpenPath(p, flags, to),
                 to = Absent \/ "Rename" \in Allowed
          PROVE  Goal
      <3>1. Outcome(p, flags, to)
        BY <2>1, OpenPathOutcomes
      <3>2. CASE Quiet
        BY <3>2 DEF Quiet
      <3>3. ASSUME NEW h \in FfsHandles, NEW fl, Opened(h, p, fl, to)
            PROVE  Goal
        BY <2>1, <3>3 DEF Opened, Deliver, Idle
      <3>4. ASSUME NEW s \in Slots, OpenedFw(s, p)
            PROVE  Goal
        BY <3>4 DEF OpenedFw, Idle
      <3>5. ASSUME ffs[p] = Absent,
                   NEW s \in Slots, NEW h \in FfsHandles, CopyBegun(s, h, p, flags, to)
            PROVE  Goal
        BY <2>1, <3>5 DEF CopyBegun, FfsOpen
      <3> QED
        BY <3>1, <3>2, <3>3, <3>4, <3>5 DEF Outcome
    <2>2. ASSUME NEW p \in Paths, NEW flags \in FlagSets, Open(p, flags)
          PROVE  Goal
      BY <2>1, <2>2 DEF Open
    <2>3. ASSUME NEW p \in Paths, NEW q \in RenameTo, Rename(p, q)
          PROVE  Goal
      <3>1. {"Read", "Write"} # {"Read"}
        OBVIOUS
      <3> QED
        BY <2>1, <2>3, <3>1 DEF Rename
    <2>4. CASE Mount \/ Format \/ Query
      BY <2>4 DEF Mount, Format, Formatted, NotRemoved, Query, Fail
    <2>5. ASSUME NEW p \in Paths, Remove(p)
          PROVE  Goal
      BY <2>5 DEF Remove, Removed, NotRemoved
    <2>6. ASSUME NEW h \in held, \/ Refused(h) \/ Close(h) \/ Move(h)
                                 \/ Write(h) \/ Ftruncate(h) \/ Fremove(h)
          PROVE  Goal
      BY <2>6 DEF Refused, Fail, Close, Move, Write, Ftruncate, Fremove
    <2>7. ASSUME NEW d \in DirIds,
                 Opendir(d) \/ Readdir(d) \/ Rewinddir(d) \/ Closedir(d)
          PROVE  Goal
      BY <2>7 DEF Opendir, Readdir, Rewinddir, Closedir
    <2> QED
      BY <1>1, <2>2, <2>3, <2>4, <2>5, <2>6, <2>7 DEF Call
  <1>2. CASE CopyStep
    <2>1. call.kind = "copy"
      BY <1>2 DEF CopyStep
    <2>2. CASE CopyDone
      BY <2>1, <2>2 DEF CopyDone, Deliver, Idle
    <2>3. CASE CopyBlock(TRUE) \/ CopyBlock(FALSE)
      BY <2>3 DEF CopyBlock
    <2>4. CASE CopyFailed
      BY <2>4 DEF CopyFailed, Idle
    <2> QED
      BY <1>2, <2>2, <2>3, <2>4 DEF CopyStep
  <1>3. CASE RenameStep \/ Crash
    BY <1>3 DEF RenameStep, Crash, Idle
  <1>4. CASE UNCHANGED vars
    BY <1>4 DEF vars
  <1> QED
    BY <1>1, <1>2, <1>3, <1>4 DEF Next

\* The file that a copy in progress may yet remove is not among the hidden ones.
Shadowed ==
  /\ HiddenAreShadowed
  /\ call.kind # "rename"
  /\ call.kind = "copy" => call.path \notin hidden /\ call.to = Absent

\* Each call that makes a file of the FFS disappear clears the cache of its name.
LEMMA ShadowedNext ==
  ASSUME RemovedByPath, Core, ListingTyped, Shadowed, [Next]_vars
  PROVE  Shadowed'
  <1>1. hidden \subseteq Paths
    BY FwTyped DEF ListingTyped
  <1>2. CASE Elsewhere
    <2>1. hidden' \subseteq hidden
      BY <1>2 DEF Elsewhere
    <2>2. HiddenAreShadowed'
      <3>1. CASE \A p \in hidden' : ffs[p] # Absent => ffs'[p] # Absent
        BY <2>1, <3>1 DEF Shadowed, HiddenAreShadowed
      <3>2. CASE call.kind = "copy" /\ ffs' = [ffs EXCEPT ![call.path] = Absent]
        BY <1>1, <2>1, <3>2 DEF Shadowed, HiddenAreShadowed, Core, CoreTyped
      <3> QED
        BY <1>2, <3>1, <3>2 DEF Elsewhere, RemovedByPath, Shadowed
    <2>3. /\ call'.kind # "rename"
          /\ call'.kind = "copy" => call'.path \notin hidden' /\ call'.to = Absent
      BY <2>1, CallSteps DEF Shadowed, HiddenAreShadowed, RemovedByPath
    <2> QED
      BY <2>2, <2>3 DEF Shadowed
  <1>3. CASE Crash
    BY <1>3 DEF Crash, Idle, Shadowed, HiddenAreShadowed
  <1>4. ASSUME NEW d \in DirIds, Opendir(d) \/ Rewinddir(d) \/ Closedir(d)
        PROVE  Shadowed'
    BY <1>4, DirEffect DEF Shadowed, HiddenAreShadowed
  <1>5. ASSUME call.kind = "idle", NEW d \in DirIds, Readdir(d)
        PROVE  Shadowed'
    <2>1. UNCHANGED <<ffs, call>> /\ \A p \in hidden' \ hidden : ffs[p] # Absent
      BY <1>5, ReaddirTyped, ReaddirSteps
    <2> QED
      BY <1>5, <2>1 DEF Shadowed, HiddenAreShadowed
  <1> QED
    BY <1>2, <1>3, <1>4, <1>5, ListingSteps

\* The cache never has a name that the FFS does not have.
LEMMA ShadowedAlways == RemovedByPath => (Spec => []Shadowed)
  <1> SUFFICES ASSUME RemovedByPath PROVE Spec => []Shadowed
    OBVIOUS
  <1>1. Init => Shadowed
    BY DEF Init, Shadowed, HiddenAreShadowed, Idle
  <1>2. Core /\ ListingTyped /\ Shadowed /\ [Next]_vars => Shadowed'
    BY ShadowedNext
  <1> QED
    BY <1>1, <1>2, CoreAlways, ListingTypedAlways, PTL DEF Spec

\* When files are removed by path, and not by handle nor renamed, a firmware file is
\* hidden only while the FFS has a file of that name: remove() and format() take a
\* name out of hiddenFwFiles, and a copy that fails is never of a hidden file.
THEOREM HiddenNames ==
  "Rename" \notin Allowed /\ "Fremove" \notin Allowed
    => (Spec => []HiddenAreShadowed)
  <1>1. Shadowed => HiddenAreShadowed
    BY DEF Shadowed
  <1>2. RemovedByPath => (Spec => []HiddenAreShadowed)
    BY <1>1, ShadowedAlways, PTL
  <1> QED
    BY <1>2 DEF RemovedByPath

(***************************************************************************)
(* What an enumeration has produced, at any time.                          *)
(***************************************************************************)
Present == { p \in Paths : ffs[p] # Absent }

\* The firmware's files that the FFS lacks, of the entries before one.
FwShown(next) ==
  { FwOrder[i] : i \in { j \in 1..Len(FwOrder) : j < next /\ FwOrder[j] \notin Present } }

\* Of the FFS, what it has produced hides the firmware's files of the same names.
FfsPart(d) ==
  /\ Range(listed[d]) = dirs[d].seen
  /\ dirs[d].seen \subseteq Present
  /\ dirs[d].seen \cap InFw \subseteq hidden
  /\ dirs[d].next = 1

\* Of the firmware, all that the FFS has is hidden.
FwPart(d) ==
  /\ Range(listed[d]) = Present \cup FwShown(dirs[d].next)
  /\ Present \cap InFw \subseteq hidden

Enumerated(d) ==
  dirs[d] # Closed /\ steady[d] =>
    /\ IsInjective(listed[d])
    /\ dirs[d].at = "ffs" => FfsPart(d)
    /\ dirs[d].at = "fwfs" => FwPart(d)

\* The next of the firmware's files: every one skipped is in the FFS, and the one
\* produced has not been produced before.
LEMMA ReaddirFwExact ==
  ASSUME ListingTyped, HiddenAreShadowed, NEW d \in DirIds, dirs[d] # Closed,
         IsInjective(listed[d]), FwPart(d), ReaddirFw(d), UNCHANGED ffs
  PROVE  IsInjective(listed'[d]) /\ FwPart(d)'
  <1> DEFINE n == dirs[d].next
  <1>1. Present' = Present /\ hidden' = hidden
    BY ReaddirFwEffect DEF Present
  <1>2. \A i \in 1..Len(FwOrder) : FwOrder[i] \in hidden <=> FwOrder[i] \in Present
    BY FwOrderTyped DEF FwPart, HiddenAreShadowed, Present
  <1>3. n \in Nat /\ Len(FwOrder) \in Nat /\ listed[d] \in Seq(Paths)
    BY FwOrderTyped, ReaddirFwEffect DEF ListingTyped
  <1>4. ASSUME NEW i \in 1..Len(FwOrder), i >= n, FwOrder[i] \notin hidden,
               \A j \in 1..Len(FwOrder) : n <= j /\ j < i => FwOrder[j] \in hidden,
               dirs'[d].next = i + 1, listed'[d] = Append(listed[d], FwOrder[i])
        PROVE  IsInjective(listed'[d]) /\ FwPart(d)'
    <2>1. FwOrder[i] \in Paths /\ FwOrder[i] \notin Present
      BY <1>2, <1>4, FwOrderTyped
    <2>2. FwShown(i + 1) = FwShown(n) \cup {FwOrder[i]}
      <3>1. ASSUME NEW j \in 1..Len(FwOrder), FwOrder[j] \notin Present
            PROVE  j < i + 1 <=> j < n \/ j = i
        <4>1. ~(n <= j /\ j < i)
          BY <1>2, <1>4, <3>1
        <4> QED
          BY <1>3, <1>4, <4>1
      <3> QED
        BY <2>1, <3>1 DEF FwShown
    <2>3. FwOrder[i] \notin Range(listed[d])
      <3>1. ASSUME NEW j \in 1..Len(FwOrder), j < n
            PROVE  FwOrder[j] # FwOrder[i]
        BY <1>3, <1>4, <3>1, FwOrderTyped
      <3>2. FwOrder[i] \notin FwShown(n)
        BY <3>1 DEF FwShown
      <3> QED
        BY <2>1, <3>2 DEF FwPart
    <2>4. /\ Range(listed'[d]) = Range(listed[d]) \cup {FwOrder[i]}
          /\ IsInjective(listed'[d])
      BY <1>3, <1>4, <2>1, <2>3, AppendListed
    <2>5. FwShown(dirs[d].next)' = FwShown(i + 1)
      BY <1>1, <1>4 DEF FwShown
    <2> QED
      BY <1>1, <2>2, <2>4, <2>5 DEF FwPart
  <1>5. ASSUME \A j \in 1..Len(FwOrder) : n <= j => FwOrder[j] \in hidden,
               dirs'[d].next = Len(FwOrder) + 1, listed'[d] = listed[d]
        PROVE  IsInjective(listed'[d]) /\ FwPart(d)'
    <2>1. FwShown(Len(FwOrder) + 1) = FwShown(n)
      <3>1. ASSUME NEW j \in 1..Len(FwOrder), FwOrder[j] \notin Present
            PROVE  j < Len(FwOrder) + 1 <=> j < n
        <4>1. ~(n <= j)
          BY <1>2, <1>5, <3>1
        <4> QED
          BY <1>3, <4>1
      <3> QED
        BY <3>1 DEF FwShown
    <2>2. FwShown(dirs[d].next)' = FwShown(Len(FwOrder) + 1)
      BY <1>1, <1>5 DEF FwShown
    <2> QED
      BY <1>1, <1>5, <2>1, <2>2 DEF FwPart
  <1> QED
    BY <1>4, <1>5, ReaddirFwEffect

\* When the FFS has no more names, everything that it has is hidden.
LEMMA FfsExhausted ==
  ASSUME NEW d \in DirIds, FfsPart(d), FfsEntries(d) = {}
  PROVE  FwPart(d)
  <1>1. dirs[d].seen = Present
    BY DEF FfsPart, FfsEntries, Present
  <1>2. FwShown(1) = {}
    <2>1. \A j \in 1..Len(FwOrder) : ~(j < 1)
      BY FwOrderTyped
    <2> QED
      BY <2>1 DEF FwShown
  <1> QED
    BY <1>1, <1>2 DEF FfsPart, FwPart

\* An enumeration whose directory object is left alone.
LEMMA EnumeratedKept ==
  ASSUME NEW d \in DirIds, Enumerated(d), SameNames,
         dirs'[d] = dirs[d], listed'[d] = listed[d], steady'[d] => steady[d],
         \A p \in hidden \ hidden' : ffs'[p] = Absent
  PROVE  Enumerated(d)'
  <1>1. Present' = Present
    BY DEF Present, SameNames
  <1>2. \A next : FwShown(next)' = FwShown(next)
    BY <1>1 DEF FwShown
  <1>3. \A p \in Present : p \in hidden => p \in hidden'
    BY DEF Present, SameNames
  <1>4. FfsPart(d) => FfsPart(d)'
    BY <1>1, <1>3 DEF FfsPart
  <1>5. FwPart(d) => FwPart(d)'
    BY <1>1, <1>2, <1>3 DEF FwPart
  <1> QED
    BY <1>4, <1>5 DEF Enumerated

\* readdir(), of the directory object it is called for.
LEMMA ReaddirExact ==
  ASSUME Core, ListingTyped, HiddenAreShadowed,
         NEW d \in DirIds, Readdir(d), Enumerated(d), steady'[d]
  PROVE  Enumerated(d)'
  <1>1. /\ dirs[d] # Closed /\ ffs' = ffs
        /\ dirs[d] \in Dirs /\ listed[d] \in Seq(Paths) /\ steady[d] \in BOOLEAN
    BY ReaddirSteps DEF ListingTyped
  <1>2. steady' # [steady EXCEPT ![d] = FALSE]
    BY DEF ListingTyped
  <1>3. CASE dirs[d].at = "ffs" /\ ReaddirFfs(d)
    <2>1. PICK p \in Paths \ dirs[d].seen :
               /\ ffs[p] # Absent
               /\ dirs'[d].seen = dirs[d].seen \cup {p}
               /\ hidden' = hidden \cup ({p} \cap InFw)
               /\ listed'[d] = Append(listed[d], p)
               /\ steady'[d] = steady[d]
      BY <1>1, <1>3, ReaddirFfsEffect
    <2>2. dirs'[d].at = "ffs" /\ dirs'[d].next = dirs[d].next
      BY <1>1, <1>3, ReaddirFfsEffect
    <2>3. IsInjective(listed[d]) /\ FfsPart(d)
      BY <1>1, <1>3, <2>1 DEF Enumerated
    <2>4. p \in Paths /\ p \notin Range(listed[d])
      BY <2>1, <2>3 DEF FfsPart
    <2>5. /\ Range(Append(listed[d], p)) = Range(listed[d]) \cup {p}
          /\ IsInjective(Append(listed[d], p))
      BY <1>1, <2>3, <2>4, AppendListed
    <2>6. FfsPart(d)'
      BY <1>1, <2>1, <2>2, <2>3, <2>5 DEF FfsPart, Present
    <2> QED
      BY <2>1, <2>2, <2>5, <2>6 DEF Enumerated
  <1>4. CASE dirs[d].at = "ffs" /\ FfsEntries(d) = {} /\ ReaddirFw(d) /\ UNCHANGED steady
    <2>1. IsInjective(listed[d]) /\ FwPart(d)
      BY <1>1, <1>4, FfsExhausted DEF Enumerated
    <2>2. IsInjective(listed'[d]) /\ FwPart(d)'
      BY <1>1, <1>4, <2>1, ReaddirFwExact
    <2> QED
      BY <1>1, <1>4, <2>2, ReaddirFwEffect DEF Enumerated
  <1>5. CASE dirs[d].at = "fwfs" /\ ReaddirFw(d) /\ UNCHANGED steady
    <2>1. IsInjective(listed[d]) /\ FwPart(d)
      BY <1>1, <1>5 DEF Enumerated
    <2>2. IsInjective(listed'[d]) /\ FwPart(d)'
      BY <1>1, <1>5, <2>1, ReaddirFwExact
    <2> QED
      BY <1>1, <1>5, <2>2, ReaddirFwEffect DEF Enumerated
  <1> QED
    BY <1>2, <1>3, <1>4, <1>5, ReaddirSteps

\* The start of an enumeration that has the FFS.
LEMMA EnumeratedAfresh ==
  ASSUME NEW d \in DirIds, listed'[d] = <<>>, steady'[d] \in BOOLEAN,
         dirs'[d] = Closed \/ dirs'[d] = FileDir(steady'[d])
  PROVE  Enumerated(d)'
  <1>1. Range(<<>>) = {} /\ IsInjective(<<>>)
    BY DEF Range, IsInjective
  <1>2. FileDir(TRUE).at = "ffs" /\ FileDir(TRUE).seen = {} /\ FileDir(TRUE).next = 1
    BY DEF FileDir
  <1>3. CASE dirs'[d] = FileDir(TRUE)
    BY <1>1, <1>2, <1>3 DEF Enumerated, FfsPart
  <1> QED
    BY <1>3 DEF Enumerated

\* Every call keeps to the accounts of each enumeration that it does not disturb.
LEMMA EnumeratedNext ==
  ASSUME Core, ListingTyped, HiddenAreShadowed, \A d \in DirIds : Enumerated(d),
         [Next]_vars
  PROVE  \A d \in DirIds : Enumerated(d)'
  <1> TAKE d \in DirIds
  <1>1. CASE Elsewhere
    <2>1. CASE steady'[d]
      BY <1>1, <2>1, EnumeratedKept DEF Elsewhere
    <2>2. CASE ~steady'[d]
      BY <2>2 DEF Enumerated
    <2> QED
      BY <2>1, <2>2
  <1>2. CASE Crash
    BY <1>2 DEF Crash, Enumerated
  <1>3. ASSUME NEW e \in DirIds, Opendir(e) \/ Rewinddir(e) \/ Closedir(e)
        PROVE  Enumerated(d)'
    <2>1. CASE d = e
      BY <1>3, <2>1, DirEffect, EnumeratedAfresh
    <2>2. CASE d # e
      BY <1>3, <2>2, DirEffect, EnumeratedKept DEF SameNames
    <2> QED
      BY <2>1, <2>2
  <1>4. ASSUME NEW e \in DirIds, Readdir(e)
        PROVE  Enumerated(d)'
    <2>1. CASE d = e
      <3>1. CASE steady'[d]
        BY <1>4, <2>1, <3>1, ReaddirExact
      <3>2. CASE ~steady'[d]
        BY <3>2 DEF Enumerated
      <3> QED
        BY <3>1, <3>2
    <2>2. CASE d # e
      <3>1. /\ ffs' = ffs /\ hidden \ hidden' = {}
            /\ dirs'[d] = dirs[d] /\ listed'[d] = listed[d] /\ steady'[d] = steady[d]
        BY <1>4, <2>2, ReaddirTyped, ReaddirSteps
      <3> QED
        BY <3>1, EnumeratedKept DEF SameNames
    <2> QED
      BY <2>1, <2>2
  <1> QED
    BY <1>1, <1>2, <1>3, <1>4, ListingSteps

\* What an undisturbed enumeration has produced is always accounted for.
LEMMA EnumeratedAlways ==
  RemovedByPath => (Spec => [](\A d \in DirIds : Enumerated(d)))
  <1> SUFFICES ASSUME RemovedByPath
               PROVE  Spec => [](\A d \in DirIds : Enumerated(d))
    OBVIOUS
  <1> DEFINE I == \A d \in DirIds : Enumerated(d)
  <1>1. Init => I
    BY DEF Init, Enumerated
  <1>2. Core /\ ListingTyped /\ Shadowed /\ I /\ [Next]_vars => I'
    BY EnumeratedNext DEF Shadowed
  <1> QED
    BY <1>1, <1>2, CoreAlways, ListingTypedAlways, ShadowedAlways, PTL DEF Spec

\* When files are removed by path only, an enumeration that nothing disturbs
\* produces, when it has come to its end, the files of the FFS and those of the
\* firmware that the FFS does not have, and each once; other enumerations that run
\* at the same time, and share hiddenFwFiles with it, make no difference.
THEOREM ListingsExact ==
  "Rename" \notin Allowed /\ "Fremove" \notin Allowed
    => (Spec => []ListingExact)
  <1>1. ASSUME \A d \in DirIds : Enumerated(d), CoreTyped, ListingTyped
        PROVE  ListingExact
    <2> SUFFICES ASSUME NEW d \in DirIds, dirs[d] # Closed, steady[d],
                        dirs[d].at = "fwfs", dirs[d].next > Len(FwOrder)
                 PROVE  /\ IsInjective(listed[d])
                        /\ Range(listed[d]) = { p \in Paths : Held(p) # Absent }
      BY DEF ListingExact
    <2>1. IsInjective(listed[d]) /\ FwPart(d)
      BY <1>1 DEF Enumerated
    <2>2. FwShown(dirs[d].next) = InFw \ Present
      <3>1. dirs[d].next \in Nat
        BY <1>1 DEF ListingTyped, Dirs
      <3>2. \A j \in 1..Len(FwOrder) : j < dirs[d].next
        BY <3>1, FwOrderTyped
      <3> QED
        BY <3>2, FwOrderTyped DEF FwShown
    <2>3. \A p \in Paths : Held(p) # Absent <=> p \in Present \/ p \in InFw
      BY FwTyped, HyfsAssumption DEF Held, Present
    <2>4. InFw \subseteq Paths /\ Present \subseteq Paths
      BY FwTyped DEF Present
    <2> QED
      BY <2>1, <2>2, <2>3, <2>4 DEF FwPart
  <1>2. (\A d \in DirIds : Enumerated(d)) /\ Core /\ ListingTyped => ListingExact
    BY <1>1 DEF Core
  <1>3. RemovedByPath => (Spec => []ListingExact)
    BY <1>2, CoreAlways, ListingTypedAlways, EnumeratedAlways, PTL
  <1> QED
    BY <1>3 DEF RemovedByPath

\* Nothing makes open() lose a part of the file that it copies.
Lossless == "ReadFault" \notin Allowed /\ "ShortWrite" \notin Allowed

(***************************************************************************)
(* A copy in progress.                                                     *)
(***************************************************************************)
\* How a copy comes to be in progress.
LEMMA CopyStarts ==
  ASSUME Core, [Next]_vars, call.kind # "copy", call'.kind = "copy"
  PROVE  /\ call.kind = "idle"
         /\ \E flags : \E p \in InFw \ FwReadOnly, s \in Slots, h \in FfsHandles,
                         to \in Paths \cup {Absent} :
              /\ ffs[p] = Absent
              /\ CopyBegun(s, h, p, flags, to)
              /\ "Truncate" \notin flags
              /\ \/ to = Absent /\ flags \in FlagSets /\ Cardinality(held) < MaxHeld
                 \/ to \in RenameTo
  <1> DEFINE Goal ==
        \E flags : \E p \in InFw \ FwReadOnly, s \in Slots, h \in FfsHandles,
                     to \in Paths \cup {Absent} :
          /\ ffs[p] = Absent
          /\ CopyBegun(s, h, p, flags, to)
          /\ "Truncate" \notin flags
          /\ \/ to = Absent /\ flags \in FlagSets /\ Cardinality(held) < MaxHeld
             \/ to \in RenameTo
  <1>1. call' # call
    OBVIOUS
  <1>2. CASE call.kind = "idle" /\ Call
    <2>1. ASSUME NEW p \in Paths, NEW flags, NEW to \in Paths \cup {Absent},
                 to = Absent \/ flags # {"Read"}, OpenPath(p, flags, to),
                 \/ to = Absent /\ flags \in FlagSets /\ Cardinality(held) < MaxHeld
                 \/ to \in RenameTo
          PROVE  Goal
      <3>1. Outcome(p, flags, to)
        BY <2>1, OpenPathOutcomes
      <3>2. ~Quiet
        BY <1>1 DEF Quiet
      <3>3. \A h, fl : ~Opened(h, p, fl, to)
        BY DEF Opened, Deliver, Idle
      <3>4. \A s : ~OpenedFw(s, p)
        BY DEF OpenedFw, Idle
      <3> QED
        BY <2>1, <3>1, <3>2, <3>3, <3>4 DEF Outcome
    <2> HIDE DEF Goal
    <2>2. ASSUME NEW p \in Paths, NEW flags \in FlagSets, Open(p, flags)
          PROVE  Goal
      BY <2>1, <2>2 DEF Open
    <2>3. ASSUME NEW p \in Paths, NEW q \in RenameTo, Rename(p, q)
          PROVE  Goal
      <3>1. {"Read", "Write"} # {"Read"}
        OBVIOUS
      <3>2. q \in Paths \cup {Absent}
        BY HyfsAssumption
      <3> QED
        BY <2>1, <2>3, <3>1, <3>2 DEF Rename
    <2>4. ~(Mount \/ Format \/ Query)
      BY <1>1 DEF Mount, Format, Formatted, NotRemoved, Query, Fail
    <2>5. \A p \in Paths : ~Remove(p)
      BY <1>1 DEF Remove, Removed, NotRemoved
    <2>6. \A h \in held : ~(\/ Refused(h) \/ Close(h) \/ Move(h)
                            \/ Write(h) \/ Ftruncate(h) \/ Fremove(h))
      BY <1>1 DEF Refused, Fail, Close, Move, Write, Ftruncate, Fremove
    <2>7. \A d \in DirIds : ~(Opendir(d) \/ Readdir(d) \/ Rewinddir(d) \/ Closedir(d))
      BY <1>1 DEF Opendir, Readdir, Rewinddir, Closedir
    <2> QED
      BY <1>2, <2>2, <2>3, <2>4, <2>5, <2>6, <2>7 DEF Call, Goal
  <1>3. ~CopyStep
    BY DEF CopyStep
  <1>4. ~RenameStep /\ ~Crash
    BY DEF RenameStep, Crash, Idle
  <1>5. ~UNCHANGED vars
    BY <1>1 DEF vars
  <1> QED
    BY <1>2, <1>3, <1>4, <1>5 DEF Next

\* The steps that may be taken while a file is copied.
LEMMA CopySteps ==
  ASSUME [Next]_vars, call.kind = "copy"
  PROVE  \/ /\ CopyDone
            /\ AtEof(slots[call.slot]) \/ "ReadFault" \in Allowed
         \/ ~AtEof(slots[call.slot]) /\ CopyBlock(TRUE)
         \/ "ShortWrite" \in Allowed /\ ~AtEof(slots[call.slot]) /\ CopyBlock(FALSE)
         \/ CopyFailed
         \/ Crash
         \/ UNCHANGED vars
  BY DEF Next, CopyStep, RenameStep

\* What has been written is what has been read, and the position is at its end.
Prefix ==
  call.kind = "copy" =>
    LET n == slots[call.slot].pos IN
    /\ Len(ffs[call.path]) = n
    /\ \A i \in 1..n : ffs[call.path][i] = Fw[call.path][i]
    /\ fh[call.file].pos = n

\* A block read is a block written, until the copying loop of open() ends.
LEMMA PrefixNext ==
  ASSUME Lossless, Core, Prefix, [Next]_vars
  PROVE  Prefix'
  <1>1. Fw' = Fw
    BY DEF Fw
  <1>2. ASSUME call.kind # "copy", call'.kind = "copy"
        PROVE  Prefix'
    <2>1. PICK flags : \E p \in InFw \ FwReadOnly, s \in Slots, h \in FfsHandles,
                         to \in Paths \cup {Absent} :
                 ffs[p] = Absent /\ CopyBegun(s, h, p, flags, to)
      BY <1>2, CopyStarts
    <2>2. PICK p \in InFw \ FwReadOnly, s \in Slots, h \in FfsHandles,
               to \in Paths \cup {Absent} :
                 ffs[p] = Absent /\ CopyBegun(s, h, p, flags, to)
      BY <2>1
    <2>3. p \in Paths /\ FfsOpen(h, p, ForCopy(flags))
      BY <2>2, FwTyped DEF CopyBegun
    <2>4. ffs'[p] = <<>> /\ fh'[h] = Handle(p, ForCopy(flags))
      BY <2>2, <2>3, FfsOpenEffect
    <2>5. fh'[h].pos = 0
      BY <2>3, <2>4, HandleTyped
    <2>6. slots'[s].pos = 0
      BY <2>2 DEF CopyBegun, Core, CoreTyped
    <2>7. call'.slot = s /\ call'.file = h /\ call'.path = p
      BY <2>2 DEF CopyBegun
    <2> QED
      BY <1>1, <2>4, <2>5, <2>6, <2>7 DEF Prefix
  <1>3. ASSUME call.kind = "copy", ~AtEof(slots[call.slot]), CopyBlock(TRUE)
        PROVE  Prefix'
    <2> DEFINE p  == call.path
               n  == slots[call.slot].pos
               at == Position(fh[call.file], ffs[p])
    <2>1. /\ n \in Nat /\ n < Len(Fw[p]) /\ at \in 0..Len(ffs[p])
          /\ slots'[call.slot].pos = n + 1
          /\ ffs'[p] = Put(ffs[p], at, Fw[p][n + 1])
          /\ fh'[call.file].pos = at + 1
          /\ call' = call
      BY <1>3, CopyBlockEffect
    <2>2. /\ Len(ffs[p]) = n
          /\ \A i \in 1..n : ffs[p][i] = Fw[p][i]
          /\ fh[call.file].pos = n
      BY <1>3 DEF Prefix
    <2>3. at = n
      BY <2>2 DEF Position
    <2>4. ffs[p] \in Data /\ Fw[p] \in Data /\ p \in InFw
      BY <1>3, CopyFacts
    <2>5. n + 1 \in 1..Len(Fw[p]) /\ n < MaxBlocks
      BY SMTT(20), <2>1, <2>4, DataIsSeq, HyfsAssumption
    <2>6. Fw[p][n + 1] \in Blocks
      BY <2>4, <2>5, FwTyped
    <2> HIDE DEF p, n, at
    <2>7. /\ Len(ffs'[p]) = n + 1
          /\ \A i \in 1..(n + 1) :
               ffs'[p][i] = IF i = n + 1 THEN Fw[p][n + 1] ELSE ffs[p][i]
      BY <2>1, <2>2, <2>3, <2>4, <2>5, <2>6, PutTyped
    <2>8. \A i \in 1..(n + 1) : ffs'[p][i] = Fw[p][i]
      BY <2>1, <2>2, <2>7
    <2> QED
      BY <1>1, <2>1, <2>3, <2>7, <2>8 DEF Prefix, p, n
  <1>4. CASE CopyDone \/ CopyFailed
    BY <1>4 DEF CopyDone, CopyFailed, Deliver, Idle, Prefix
  <1>5. CASE Crash
    BY <1>5 DEF Crash, Idle, Prefix
  <1>6. CASE UNCHANGED vars
    BY <1>6 DEF vars, Prefix, Fw
  <1>7. CASE call'.kind # "copy"
    BY <1>7 DEF Prefix
  <1> QED
    BY <1>2, <1>3, <1>4, <1>5, <1>6, <1>7, CopySteps DEF Lossless

\* Without lost blocks the FFS file is at all times a prefix of the firmware's.
LEMMA PrefixAlways == Lossless => (Spec => []Prefix)
  <1> SUFFICES ASSUME Lossless PROVE Spec => []Prefix
    OBVIOUS
  <1>1. Init => Prefix
    BY DEF Init, Prefix, Idle
  <1>2. Core /\ Prefix /\ [Next]_vars => Prefix'
    BY PrefixNext
  <1> QED
    BY <1>1, <1>2, CoreAlways, PTL DEF Spec

\* At the end of the firmware file the whole of it has been copied.
LEMMA CopiedWhole ==
  ASSUME Core, Prefix, call.kind = "copy", AtEof(slots[call.slot])
  PROVE  ffs[call.path] = Fw[call.path]
  <1> DEFINE n == slots[call.slot].pos
             a == ffs[call.path]
             b == Fw[call.path]
  <1>1. a \in Data /\ b \in Data
    BY CopyFacts
  <1>2. slots[call.slot] \in FwFiles /\ slots[call.slot].path = call.path
    BY CopyFacts DEF Core, CopyUnderWay
  <1>3. n \in Nat /\ n >= Len(b) /\ n <= Len(b)
    BY <1>2 DEF AtEof, FwFiles, Core, CopyUnderWay
  <1>4. Len(a) = n /\ \A i \in 1..n : a[i] = b[i]
    BY DEF Prefix
  <1> HIDE DEF a, b, n
  <1>5. a \in Seq(Blocks) /\ b \in Seq(Blocks)
    BY <1>1, DataIsSeq
  <1>6. Len(b) = n
    BY <1>3, <1>5
  <1>7. a = b
    BY <1>4, <1>5, <1>6
  <1> QED
    BY <1>7 DEF a, b

\* A file that open() has copied up, for an application or for rename(), holds all
\* that the firmware file holds, as long as no block of it is lost in the loop.
THEOREM CopiesAreComplete ==
  "ReadFault" \notin Allowed /\ "ShortWrite" \notin Allowed
    => (Spec => CopyUpComplete)
  <1> SUFFICES ASSUME Lossless PROVE Spec => CopyUpComplete
    BY DEF Lossless
  <1>1. ASSUME Core, Prefix, [Next]_vars,
               call.kind = "copy", call.file \in held' \/ call'.kind = "rename"
        PROVE  ffs'[call.path] = Fw[call.path]
    <2>1. call.file \notin held
      BY <1>1, CopyFacts
    <2>2. CASE CopyDone /\ AtEof(slots[call.slot])
      BY <1>1, <2>2, CopiedWhole DEF CopyDone
    <2>3. ~CopyBlock(TRUE) /\ ~CopyFailed /\ ~Crash /\ ~UNCHANGED vars
      BY <1>1, <2>1 DEF CopyBlock, CopyFailed, Crash, vars, Idle
    <2> QED
      BY <1>1, <2>2, <2>3, CopySteps DEF Lossless
  <1>2. Core /\ Prefix /\ [Next]_vars =>
          [call.kind = "copy" /\ (call.file \in held' \/ call'.kind = "rename") =>
             ffs'[call.path] = Fw[call.path]]_vars
    BY <1>1
  <1> QED
    BY <1>2, CoreAlways, PrefixAlways, PTL DEF Spec, CopyUpComplete

-----------------------------------------------------------------------------
(***************************************************************************)
(* The discipline under which the two layers are one store.                *)
(***************************************************************************)
\* FWFS has a descriptor to spare, its media can be read, and nothing is renamed to
\* the name of a read-only file.
Spared ==
  /\ MaxHeld < MaxFds
  /\ "ReadFault" \notin Allowed
  /\ RenameTo \cap FwReadOnly = {}

\* What open() is asked for by an application, or by rename().
Requested(flags, to) ==
  \/ to = Absent /\ flags \in FlagSets /\ Cardinality(held) < MaxHeld
  \/ to \in RenameTo /\ flags = {"Read", "Write"}

\* The steps of Next, with those of open() and rename() told by their outcome.
LEMMA NextCases ==
  ASSUME Core, [Next]_vars
  PROVE  \/ UNCHANGED <<ffs, fh, slots, call, held>>
         \/ /\ call.kind = "idle"
            /\ \/ Format
               \/ \E p \in Paths : Remove(p)
               \/ \E h \in held : \/ Close(h) \/ Move(h) \/ Write(h)
                                  \/ Ftruncate(h) \/ Fremove(h)
               \/ \E flags : \E p \in Paths, to \in Paths \cup {Absent} :
                    Requested(flags, to) /\ Outcome(p, flags, to)
         \/ call.kind = "copy" /\ CopyStep
         \/ RenameStep
         \/ Crash
  <1>1. CASE call.kind = "idle" /\ Call
    <2>1. ASSUME Mount \/ Query
          PROVE  UNCHANGED <<ffs, fh, slots, call, held>>
      BY <2>1 DEF Mount, Query, Fail
    <2>2. ASSUME NEW h \in held, Refused(h)
          PROVE  UNCHANGED <<ffs, fh, slots, call, held>>
      BY <2>2 DEF Refused, Fail
    <2>3. ASSUME NEW d \in DirIds,
                 Opendir(d) \/ Readdir(d) \/ Rewinddir(d) \/ Closedir(d)
          PROVE  UNCHANGED <<ffs, fh, slots, call, held>>
      BY <2>3 DEF Opendir, Readdir, Rewinddir, Closedir
    <2>4. ASSUME NEW p \in Paths, NEW flags \in FlagSets, Open(p, flags)
          PROVE  Requested(flags, Absent) /\ Outcome(p, flags, Absent)
      BY <2>4, OpenPathOutcomes DEF Open, Requested
    <2>5. ASSUME NEW p \in Paths, NEW q \in RenameTo, Rename(p, q)
          PROVE  /\ q \in Paths \cup {Absent}
                 /\ Requested({"Read", "Write"}, q)
                 /\ Outcome(p, {"Read", "Write"}, q)
      <3>1. {"Read", "Write"} # {"Read"}
        OBVIOUS
      <3>2. q \in Paths \cup {Absent}
        BY HyfsAssumption
      <3> QED
        BY <2>5, <3>1, <3>2, OpenPathOutcomes DEF Rename, Requested
    <2> QED
      BY <1>1, <2>1, <2>2, <2>3, <2>4, <2>5 DEF Call
  <1>2. CASE CopyStep
    BY <1>2 DEF CopyStep
  <1>3. CASE UNCHANGED vars
    BY <1>3 DEF vars
  <1> QED
    BY <1>1, <1>2, <1>3 DEF Next

(***************************************************************************)
(* The descriptors in use.                                                 *)
(***************************************************************************)
\* No more files are held than the bound says, and a copy made for an application
\* leaves room for its handle.
Bounded ==
  /\ IsFiniteSet(held)
  /\ Cardinality(held) <= MaxHeld
  /\ call.kind = "copy" /\ call.to = Absent => Cardinality(held) < MaxHeld

\* An application is given a handle, or gives one up.
LEMMA HeldChange ==
  ASSUME Bounded, NEW h
  PROVE  /\ IsFiniteSet(held \cup {h})
         /\ Cardinality(held) < MaxHeld => Cardinality(held \cup {h}) <= MaxHeld
         /\ IsFiniteSet(held \ {h})
         /\ Cardinality(held \ {h}) <= MaxHeld
  <1>1. IsFiniteSet(held) /\ Cardinality(held) \in Nat /\ MaxHeld \in Nat
    BY FS_CardinalityType, HyfsAssumption DEF Bounded
  <1>2. /\ IsFiniteSet(held \cup {h})
        /\ Cardinality(held \cup {h}) =
             IF h \in held THEN Cardinality(held) ELSE Cardinality(held) + 1
    BY <1>1, FS_AddElement
  <1>3. /\ IsFiniteSet(held \ {h})
        /\ Cardinality(held \ {h}) =
             IF h \in held THEN Cardinality(held) - 1 ELSE Cardinality(held)
    BY <1>1, FS_RemoveElement
  <1> QED
    BY <1>1, <1>2, <1>3 DEF Bounded

\* Only open() gives out a handle, and it has left room for it.
LEMMA BoundedNext ==
  ASSUME Core, Bounded, [Next]_vars
  PROVE  Bounded'
  <1>1. ASSUME held' = held, call'.kind = "idle" \/ call'.kind = "rename" \/ call' = call
        PROVE  Bounded'
    BY <1>1 DEF Bounded
  <1>2. ASSUME NEW h, held' = held \cup {h}, call'.kind = "idle",
               Cardinality(held) < MaxHeld
        PROVE  Bounded'
    BY <1>2, HeldChange DEF Bounded
  <1>3. CASE UNCHANGED <<ffs, fh, slots, call, held>>
    BY <1>1, <1>3
  <1>4. CASE Format \/ \E p \in Paths : Remove(p)
    BY <1>1, <1>4 DEF Format, Formatted, Remove, Removed, NotRemoved
  <1>5. ASSUME call.kind = "idle", NEW h \in held,
               Move(h) \/ Write(h) \/ Ftruncate(h) \/ Fremove(h)
        PROVE  Bounded'
    BY <1>1, <1>5 DEF Move, Write, Ftruncate, Fremove, Fail
  <1>6. ASSUME call.kind = "idle", NEW h \in held, Close(h)
        PROVE  Bounded'
    BY <1>6, HeldChange DEF Close, Bounded
  <1>7. ASSUME call.kind = "idle",
               NEW flags, NEW p \in Paths, NEW to \in Paths \cup {Absent},
               Requested(flags, to), Outcome(p, flags, to)
        PROVE  Bounded'
    <2>1. to = Absent => Cardinality(held) < MaxHeld
      BY <1>7, HyfsAssumption DEF Requested
    <2>2. CASE Quiet
      BY <1>1, <2>2 DEF Quiet
    <2>3. ASSUME NEW h \in FfsHandles, NEW fl, Opened(h, p, fl, to)
          PROVE  Bounded'
      <3>1. CASE to = Absent
        <4>1. held' = held \cup {h} /\ call'.kind = "idle"
          BY <2>3, <3>1 DEF Opened, Deliver, Idle
        <4> QED
          BY <1>2, <2>1, <3>1, <4>1
      <3>2. CASE to # Absent
        BY <1>1, <2>3, <3>2 DEF Opened, Deliver
      <3> QED
        BY <3>1, <3>2
    <2>4. ASSUME flags = {"Read"}, NEW s \in Slots, OpenedFw(s, p)
          PROVE  Bounded'
      <3>1. {"Read", "Write"} # {"Read"}
        OBVIOUS
      <3>2. Cardinality(held) < MaxHeld
        BY <1>7, <2>4, <3>1 DEF Requested
      <3> QED
        BY <1>2, <2>4, <3>2 DEF OpenedFw, Idle
    <2>5. ASSUME NEW s \in Slots, NEW h \in FfsHandles, CopyBegun(s, h, p, flags, to)
          PROVE  Bounded'
      BY <2>1, <2>5 DEF CopyBegun, Bounded
    <2> QED
      BY <1>7, <2>2, <2>3, <2>4, <2>5 DEF Outcome
  <1>8. CASE call.kind = "copy" /\ CopyStep
    <2>1. CASE CopyDone
      <3>1. CASE call.to = Absent
        <4>1. held' = held \cup {call.file} /\ call'.kind = "idle"
          BY <2>1, <3>1 DEF CopyDone, Deliver, Idle
        <4> QED
          BY <1>2, <1>8, <3>1, <4>1 DEF Bounded
      <3>2. CASE call.to # Absent
        BY <1>1, <2>1, <3>2 DEF CopyDone, Deliver
      <3> QED
        BY <3>1, <3>2
    <2>2. CASE CopyBlock(TRUE) \/ CopyBlock(FALSE)
      BY <1>1, <2>2 DEF CopyBlock
    <2>3. CASE CopyFailed
      BY <1>1, <2>3 DEF CopyFailed, Idle
    <2> QED
      BY <1>8, <2>1, <2>2, <2>3 DEF CopyStep
  <1>9. CASE RenameStep
    BY <1>1, <1>9 DEF RenameStep, Idle
  <1>10. CASE Crash
    <2>1. held' = {} /\ call'.kind = "idle"
      BY <1>10 DEF Crash, Idle
    <2>2. IsFiniteSet({}) /\ Cardinality({}) = 0
      BY FS_EmptySet
    <2> QED
      BY <2>1, <2>2, HyfsAssumption DEF Bounded
  <1> QED
    BY <1>3, <1>4, <1>5, <1>6, <1>7, <1>8, <1>9, <1>10, NextCases

\* Applications never hold more files than the bound says.
LEMMA BoundedAlways == Spec => []Bounded
  <1>1. Init => Bounded
    <2>1. IsFiniteSet({}) /\ Cardinality({}) = 0
      BY FS_EmptySet
    <2> QED
      BY <2>1, HyfsAssumption DEF Init, Bounded, Idle
  <1>2. Core /\ Bounded /\ [Next]_vars => Bounded'
    BY BoundedNext
  <1> QED
    BY <1>1, <1>2, CoreAlways, PTL DEF Spec

\* The descriptors of FWFS are not all in use when open() is called.
LEMMA SpareSlot ==
  ASSUME Core, Bounded, call.kind = "idle", MaxHeld < MaxFds
  PROVE  \E s \in Slots : slots[s] = Closed
  <1> SUFFICES ASSUME \A s \in Slots : slots[s] # Closed PROVE FALSE
    OBVIOUS
  <1>1. \A s \in Slots : HandleMin + s \in held
    BY DEF Core, NothingLeaks
  <1>2. FwHandles \subseteq held
    <2> SUFFICES ASSUME NEW h \in FwHandles PROVE h \in held
      OBVIOUS
    <2>1. h - HandleMin \in Slots /\ HandleMin + (h - HandleMin) = h
      BY HandlesApart
    <2> QED
      BY <1>1, <2>1
  <1>3. MaxFds \in Nat \ {0} /\ HandleMin \in Nat /\ MaxHeld \in Nat
    BY HyfsAssumption
  <1>4. Cardinality(FwHandles) = MaxFds
    <2>1. HandleMin \in Int /\ HandleMax \in Int /\ HandleMin <= HandleMax
      BY <1>3 DEF HandleMax
    <2>2. Cardinality(HandleMin..HandleMax) = HandleMax - HandleMin + 1
      BY <2>1, FS_Interval
    <2> QED
      BY <1>3, <2>2 DEF FwHandles, HandleMax
  <1>5. Cardinality(FwHandles) <= Cardinality(held)
    BY <1>2, FS_Subset DEF Bounded
  <1>6. Cardinality(held) \in Nat /\ Cardinality(held) <= MaxHeld
    BY FS_CardinalityType DEF Bounded
  <1> QED
    BY <1>3, <1>4, <1>5, <1>6

(***************************************************************************)
(* Files marked read-only.                                                 *)
(***************************************************************************)
\* The FFS has none of them, and no rename() in progress is going to make one.
Protected ==
  /\ ReadOnlyKept
  /\ call.kind # "idle" => call.to \notin FwReadOnly

\* With a descriptor to spare, fwfs->open() finds every file of the firmware.
LEMMA FwOpens ==
  ASSUME Spared, Core, Bounded, call.kind = "idle", NEW p \in InFw
  PROVE  FwOpenErrors(p) = {}
  BY SpareSlot DEF FwOpenErrors, Spared

\* A file of the FFS is opened only if it is there already, or the firmware does
\* not have it; and a firmware file is replaced only if it is not read-only.
LEMMA OpenedNotReadOnly ==
  ASSUME Spared, Core, Bounded, Protected, call.kind = "idle",
         NEW p \in Paths, NEW flags, NEW to, Outcome(p, flags, to)
  PROVE  \/ Quiet
         \/ /\ p \notin FwReadOnly
            /\ ffs[p] # Absent \/ p \notin InFw
            /\ \E h \in FfsHandles : Opened(h, p, flags, to)
         \/ /\ p \in InFw \ FwReadOnly
            /\ ffs[p] = Absent
            /\ \/ /\ "Truncate" \in flags
                  /\ \E h \in FfsHandles : Opened(h, p, ForCopy(flags), to)
               \/ /\ "Truncate" \notin flags
                  /\ \E s \in Slots, h \in FfsHandles : CopyBegun(s, h, p, flags, to)
         \/ /\ p \in InFw
            /\ flags = {"Read"}
            /\ \E s \in Slots : OpenedFw(s, p)
  <1>1. ASSUME ffs[p] # Absent \/ FwOpenErrors(p) # {}
        PROVE  p \notin FwReadOnly /\ (ffs[p] # Absent \/ p \notin InFw)
    BY <1>1, FwOpens, HyfsAssumption DEF Protected, ReadOnlyKept
  <1> QED
    BY <1>1 DEF Outcome

\* No call makes a file in the FFS of the name of a read-only firmware file.
LEMMA ProtectedNext ==
  ASSUME Spared, Core, Bounded, Protected, [Next]_vars
  PROVE  Protected'
  <1>1. FwReadOnly \subseteq InFw /\ InFw \subseteq Paths /\ Absent \notin FwReadOnly
    BY FwTyped, HyfsAssumption
  <1>2. ASSUME \A p \in FwReadOnly : ffs[p] = Absent => ffs'[p] = Absent,
               call' = call \/ call'.kind = "idle"
        PROVE  Protected'
    BY <1>2 DEF Protected, ReadOnlyKept
  <1>3. ASSUME NEW p \in Paths, p \notin FwReadOnly \/ ffs'[p] = Absent,
               \A q \in Paths \ {p} : ffs'[q] = ffs[q],
               call' = call \/ call'.kind = "idle" \/ call'.to \notin FwReadOnly
        PROVE  Protected'
    BY <1>1, <1>3 DEF Protected, ReadOnlyKept
  <1>4. CASE UNCHANGED <<ffs, fh, slots, call, held>>
    BY <1>2, <1>4
  <1>5. CASE call.kind = "idle" /\ Format
    BY <1>1, <1>2, <1>5 DEF Format, Formatted, NotRemoved
  <1>6. ASSUME call.kind = "idle", NEW p \in Paths, Remove(p)
        PROVE  Protected'
    <2>1. CASE Removed(p)
      BY <1>3, <2>1 DEF Removed, Core, CoreTyped
    <2>2. CASE UNCHANGED <<ffs, call>>
      BY <1>2, <2>2
    <2> QED
      BY <1>6, <2>1, <2>2 DEF Remove, NotRemoved
  <1>7. ASSUME call.kind = "idle", NEW h \in held, Close(h) \/ Move(h)
        PROVE  Protected'
    BY <1>2, <1>7 DEF Close, Move
  <1>8. ASSUME call.kind = "idle", NEW h \in held,
               Write(h) \/ Ftruncate(h) \/ Fremove(h)
        PROVE  Protected'
    <2> DEFINE p == fh[h].path
    <2>1. p \in Paths /\ ffs[p] # Absent
      BY <1>8, UsableEffect, HyfsAssumption DEF Write, Ftruncate, Fremove
    <2>2. call' = call /\ \A q \in Paths \ {p} : ffs'[q] = ffs[q]
      BY <1>8 DEF Write, Ftruncate, Fremove, Fail, Core, CoreTyped
    <2>3. p \notin FwReadOnly
      BY <2>1 DEF Protected, ReadOnlyKept
    <2> HIDE DEF p
    <2> QED
      BY <1>3, <2>1, <2>2, <2>3
  <1>9. ASSUME call.kind = "idle",
               NEW flags, NEW p \in Paths, NEW to \in Paths \cup {Absent},
               Requested(flags, to), Outcome(p, flags, to)
        PROVE  Protected'
    <2>1. to \notin FwReadOnly
      BY <1>1, <1>9 DEF Requested, Spared
    <2>2. CASE Quiet
      BY <1>4, <2>2 DEF Quiet
    <2>3. ASSUME p \notin FwReadOnly, NEW h \in FfsHandles, NEW fl, Opened(h, p, fl, to)
          PROVE  Protected'
      <3>1. \A q \in Paths \ {p} : ffs'[q] = ffs[q]
        BY <2>3, FfsOpenEffect DEF Opened
      <3>2. call'.kind = "idle" \/ call'.to \notin FwReadOnly
        BY <2>1, <2>3 DEF Opened, Deliver, Idle
      <3> QED
        BY <1>3, <2>3, <3>1, <3>2
    <2>4. ASSUME NEW s \in Slots, OpenedFw(s, p)
          PROVE  Protected'
      BY <1>2, <2>4 DEF OpenedFw, Idle
    <2>5. ASSUME p \notin FwReadOnly, NEW s \in Slots, NEW h \in FfsHandles,
                 CopyBegun(s, h, p, flags, to)
          PROVE  Protected'
      <3>1. \A q \in Paths \ {p} : ffs'[q] = ffs[q]
        BY <2>5, FfsOpenEffect DEF CopyBegun
      <3>2. call'.to \notin FwReadOnly
        BY <2>1, <2>5 DEF CopyBegun
      <3> QED
        BY <1>3, <2>5, <3>1, <3>2
    <2> QED
      BY <1>9, <2>2, <2>3, <2>4, <2>5, OpenedNotReadOnly
  <1>10. CASE call.kind = "copy" /\ CopyStep
    <2>1. call.path \in Paths /\ call.path \notin FwReadOnly
      BY <1>10, CopyFacts DEF Core, CopyUnderWay
    <2>2. CASE CopyDone
      <3>1. call'.kind = "idle" \/ call'.to = call.to
        BY <2>2 DEF CopyDone, Deliver, Idle
      <3> QED
        BY <1>10, <2>2, <3>1 DEF CopyDone, Protected, ReadOnlyKept
    <2>3. ASSUME NEW written \in BOOLEAN, ~AtEof(slots[call.slot]), CopyBlock(written)
          PROVE  Protected'
      <3>1. call' = call /\ \A q \in Paths \ {call.path} : ffs'[q] = ffs[q]
        BY <1>10, <2>3, CopyBlockEffect
      <3> QED
        BY <1>3, <2>1, <3>1
    <2>4. CASE CopyFailed
      <3>1. CASE ffs' = [ffs EXCEPT ![call.path] = Absent]
        BY <1>3, <2>1, <2>4, <3>1 DEF CopyFailed, Idle, Core, CoreTyped
      <3>2. CASE ffs' = ffs
        BY <1>2, <2>4, <3>2 DEF CopyFailed, Idle
      <3> QED
        BY <2>4, <3>1, <3>2 DEF CopyFailed
    <2> QED
      BY <1>10, <2>2, <2>3, <2>4 DEF CopyStep
  <1>11. CASE RenameStep
    <2>1. call.kind = "rename" /\ call'.kind = "idle"
      BY <1>11 DEF RenameStep, Idle
    <2>2. call.path \in Paths /\ call.to \in Paths
      BY <2>1, CallKinds DEF Core, Renames
    <2>3. ASSUME NEW p \in FwReadOnly, ffs[p] = Absent
          PROVE  ffs'[p] = Absent
      <3>1. p # call.to /\ p \in Paths
        BY <1>1, <2>1, <2>3 DEF Protected
      <3> QED
        BY <1>11, <2>2, <2>3, <3>1 DEF RenameStep, Core, CoreTyped
    <2> QED
      BY <1>2, <2>1, <2>3
  <1>12. CASE Crash
    BY <1>2, <1>12 DEF Crash, Idle
  <1> QED
    BY <1>4, <1>5, <1>6, <1>7, <1>8, <1>9, <1>10, <1>11, <1>12, NextCases

\* None ever does, while open() always finds the firmware file.
LEMMA ProtectedAlways == Spared => (Spec => []Protected)
  <1> SUFFICES ASSUME Spared PROVE Spec => []Protected
    OBVIOUS
  <1>1. Init => Protected
    BY HyfsAssumption, FwTyped DEF Init, Protected, ReadOnlyKept, Idle
  <1>2. Core /\ Bounded /\ Protected /\ [Next]_vars => Protected'
    BY ProtectedNext
  <1> QED
    BY <1>1, <1>2, CoreAlways, BoundedAlways, PTL DEF Spec

\* While applications hold fewer files than FWFS has descriptors, its media can be
\* read, and nothing is renamed to such a name, the FFS never gets a file in place
\* of one that the firmware marks read-only, not even during a copy.
THEOREM ReadOnlyProtected ==
  /\ MaxHeld < MaxFds
  /\ "ReadFault" \notin Allowed
  /\ RenameTo \cap FwReadOnly = {}
  => (Spec => []ReadOnlyKept)
  <1>1. Protected => ReadOnlyKept
    BY DEF Protected
  <1>2. Spared => (Spec => []ReadOnlyKept)
    BY <1>1, ProtectedAlways, PTL
  <1> QED
    BY <1>2 DEF Spared

-----------------------------------------------------------------------------
(***************************************************************************)
(* One store: Hyfs implements Overlay.                                     *)
(***************************************************************************)
\* The flags with which a copy was asked for do not truncate, and say where its
\* handle starts; the handle may be written with.
CopyFlags ==
  call.kind = "copy" =>
    /\ fh[call.file].append = call.append
    /\ fh[call.file].write = TRUE
    /\ call.append \in BOOLEAN
    /\ call.to = Absent =>
         \E flags \in FlagSets :
           "Truncate" \notin flags /\ ("Append" \in flags <=> call.append)

\* The copying loop of open() leaves the flags of its handle alone.
LEMMA CopyFlagsNext ==
  ASSUME Core, CopyFlags, [Next]_vars
  PROVE  CopyFlags'
  <1>1. ASSUME call.kind # "copy", call'.kind = "copy"
        PROVE  CopyFlags'
    <2>1. PICK flags : \E p \in InFw \ FwReadOnly, s \in Slots, h \in FfsHandles,
                         to \in Paths \cup {Absent} :
                 /\ CopyBegun(s, h, p, flags, to)
                 /\ "Truncate" \notin flags
                 /\ (to = Absent /\ flags \in FlagSets) \/ to \in RenameTo
      BY <1>1, CopyStarts
    <2>2. PICK p \in InFw \ FwReadOnly, s \in Slots, h \in FfsHandles,
               to \in Paths \cup {Absent} :
                 /\ CopyBegun(s, h, p, flags, to)
                 /\ "Truncate" \notin flags
                 /\ (to = Absent /\ flags \in FlagSets) \/ to \in RenameTo
      BY <2>1
    <2>3. p \in Paths /\ FfsOpen(h, p, ForCopy(flags))
      BY <2>2, FwTyped DEF CopyBegun
    <2>4. fh'[h] = Handle(p, ForCopy(flags))
      BY <2>3, FfsOpenEffect
    <2>5. /\ fh'[h].append = ("Append" \in ForCopy(flags))
          /\ fh'[h].write = ("Write" \in ForCopy(flags))
      BY <2>3, <2>4, HandleTyped
    <2>6. /\ ("Append" \in ForCopy(flags)) = ("Append" \in flags)
          /\ ("Write" \in ForCopy(flags)) = TRUE
      BY DEF ForCopy
    <2>7. /\ call'.file = h /\ call'.to = to
          /\ call'.append = ("Append" \in flags)
      BY <2>2 DEF CopyBegun
    <2>8. to = Absent => flags \in FlagSets
      BY <2>2, HyfsAssumption
    <2>9. fh'[h].append = call'.append /\ fh'[h].write = TRUE
      BY <2>5, <2>6, <2>7, Zenon
    <2>10. call'.append \in BOOLEAN
      BY <2>7
    <2>11. "Append" \in flags <=> call'.append
      BY <2>7
    <2> QED
      BY <2>2, <2>7, <2>8, <2>9, <2>10, <2>11 DEF CopyFlags
  <1>2. ASSUME call.kind = "copy", ~AtEof(slots[call.slot]),
               NEW written \in BOOLEAN, CopyBlock(written)
        PROVE  CopyFlags'
    BY <1>2, CopyBlockEffect DEF CopyFlags
  <1>3. CASE call'.kind # "copy"
    BY <1>3 DEF CopyFlags
  <1>4. CASE UNCHANGED vars
    BY <1>4 DEF vars, CopyFlags
  <1>5. CopyDone \/ CopyFailed \/ Crash => call'.kind # "copy"
    BY DEF CopyDone, CopyFailed, Crash, Deliver, Idle
  <1> QED
    BY <1>1, <1>2, <1>3, <1>4, <1>5, CopySteps

\* While open() copies, its handle has the flags that it was called with.
LEMMA CopyFlagsAlways == Spec => []CopyFlags
  <1>1. Init => CopyFlags
    BY DEF Init, CopyFlags, Idle
  <1>2. Core /\ CopyFlags /\ [Next]_vars => CopyFlags'
    BY CopyFlagsNext
  <1> QED
    BY <1>1, <1>2, CoreAlways, PTL DEF Spec

\* A function that differs in one place.
LEMMA Updated ==
  ASSUME NEW S, NEW f, f = [r \in S |-> f[r]], NEW g, g = [r \in S |-> g[r]],
         NEW a, NEW v, \A r \in S : g[r] = IF r = a THEN v ELSE f[r]
  PROVE  g = [f EXCEPT ![a] = v]
  OBVIOUS

\* Two functions that are the same everywhere.
LEMMA SameFunction ==
  ASSUME NEW S, NEW f, f = [r \in S |-> f[r]], NEW g, g = [r \in S |-> g[r]],
         \A r \in S : g[r] = f[r]
  PROVE  g = f
  OBVIOUS

\* What the abstract store holds, now and after a step.
LEMMA ViewOf ==
  /\ View = [p \in Paths |-> View[p]]
  /\ View' = [p \in Paths |-> View'[p]]
  /\ \A p \in Paths :
       View[p] = IF call.kind = "copy" /\ call.path = p THEN Fw[p]
                 ELSE IF ffs[p] # Absent THEN ffs[p] ELSE Fw[p]
  /\ \A p \in Paths :
       View'[p] = IF call'.kind = "copy" /\ call'.path = p THEN Fw[p]
                  ELSE IF ffs'[p] # Absent THEN ffs'[p] ELSE Fw[p]
  <1>1. Fw' = Fw
    BY DEF Fw
  <1> QED
    BY <1>1 DEF View, Held

\* The open files of the abstract store, now and after a step.
LEMMA FilesOf ==
  /\ OpenFiles = [h \in FfsHandles |-> OpenFiles[h]]
  /\ OpenFiles' = [h \in FfsHandles |-> OpenFiles'[h]]
  /\ \A h \in FfsHandles : OpenFiles[h] = IF h \in held THEN fh[h] ELSE Closed
  /\ \A h \in FfsHandles : OpenFiles'[h] = IF h \in held' THEN fh'[h] ELSE Closed
  BY DEF OpenFiles

\* Between calls they are the handles of the FFS.
LEMMA FilesWhenIdle ==
  ASSUME Core, call.kind = "idle"
  PROVE  OpenFiles = fh
  <1>1. \A h \in FfsHandles : OpenFiles[h] = fh[h]
    BY FilesOf DEF Core, NothingLeaks
  <1>2. fh = [h \in FfsHandles |-> fh[h]]
    BY DEF Core, CoreTyped, Tables
  <1> QED
    BY <1>1, <1>2, FilesOf, SameFunction

\* A step that the abstract store does not see.
OverlayStep == [Promised!Next]_(Promised!vars)

\* If neither the data nor the open files look different, it is a stuttering step.
LEMMA Unseen ==
  ASSUME \A p \in Paths : View'[p] = View[p],
         \A h \in FfsHandles : OpenFiles'[h] = OpenFiles[h]
  PROVE  OverlayStep
  <1>1. View' = View
    BY ViewOf, SameFunction
  <1>2. OpenFiles' = OpenFiles
    BY FilesOf, SameFunction
  <1> QED
    BY <1>1, <1>2 DEF OverlayStep, Promised!vars

\* Calls that change no file of the FFS and none of its handles.
LEMMA UnseenSame ==
  ASSUME UNCHANGED <<ffs, fh, call>>,
         \A h \in FfsHandles : h \in held' <=> h \in held
  PROVE  OverlayStep
  BY Unseen, ViewOf, FilesOf

\* The operators of the store below are the same seen from Overlay.
LEMMA StoreSame ==
  /\ \A p, flags : Promised!Handle(p, flags) = Handle(p, flags)
  /\ \A f, data : Promised!Position(f, data) = Position(f, data)
  /\ \A data, at, b : Promised!Put(data, at, b) = Put(data, at, b)
  /\ \A data, n : Promised!Cut(data, n) = Cut(data, n)
  /\ \A table, p : Promised!Orphan(table, p) = Orphan(table, p)
  /\ \A table : Promised!OrphanAll(table) = OrphanAll(table)
  /\ \A table, p, q : Promised!Follow(table, p, q) = Follow(table, p, q)
  BY DEF Promised!Handle, Promised!Position, Promised!Put, Promised!Cut,
         Promised!Repoint, Promised!Orphan, Promised!OrphanAll, Promised!Follow,
         Handle, Position, Put, Cut, Repoint, Orphan, OrphanAll, Follow

\* A call that begins and ends in one step, seen from Overlay.
LEMMA WholeCall ==
  ASSUME Core, Core', call.kind = "idle", call'.kind = "idle"
  PROVE  /\ OpenFiles = fh
         /\ OpenFiles' = fh'
         /\ \A p \in Paths : View[p] = IF ffs[p] # Absent THEN ffs[p] ELSE Fw[p]
         /\ \A p \in Paths : View'[p] = IF ffs'[p] # Absent THEN ffs'[p] ELSE Fw[p]
  <1>1. \A h \in FfsHandles : OpenFiles'[h] = fh'[h]
    BY FilesOf DEF Core, NothingLeaks
  <1>2. fh' = [h \in FfsHandles |-> fh'[h]]
    BY DEF Core, CoreTyped, Tables
  <1>3. OpenFiles' = fh'
    BY <1>1, <1>2, FilesOf, SameFunction
  <1> QED
    BY <1>3, FilesWhenIdle, ViewOf

\* The next-state relation of Overlay, by its disjuncts.
LEMMA OverlayNext ==
  /\ \A h \in FfsHandles :
       /\ \A p \in Paths : Promised!OpenAny(h, p) => OverlayStep
       /\ Promised!Close(h) => OverlayStep
       /\ Promised!Write(h) => OverlayStep
       /\ Promised!Move(h) => OverlayStep
       /\ Promised!Truncate(h) => OverlayStep
  /\ \A p \in Paths : Promised!Remove(p) => OverlayStep
  /\ \A p, q \in Paths : Promised!Rename(p, q) => OverlayStep
  /\ Promised!Format => OverlayStep
  BY DEF OverlayStep, Promised!Next

\* format() brings all of the firmware back.
LEMMA FormatSeen ==
  ASSUME Core, Core', call.kind = "idle", Formatted
  PROVE  OverlayStep
  <1>1. call'.kind = "idle" /\ fh' = OrphanAll(fh) /\ \A p \in Paths : ffs'[p] = Absent
    BY DEF Formatted
  <1>2. Fw = [p \in Paths |-> Fw[p]]
    BY DEF Fw
  <1>3. View' = Fw
    BY <1>1, <1>2, WholeCall, ViewOf, SameFunction
  <1>4. OpenFiles' = OrphanAll(OpenFiles)
    BY <1>1, WholeCall
  <1>5. Promised!Format
    BY <1>3, <1>4, StoreSame DEF Promised!Format
  <1> QED
    BY <1>5, OverlayNext

\* remove() and fremove() bring the firmware's file back.
LEMMA RemovedSeen ==
  ASSUME Core, Core', call.kind = "idle", call'.kind = "idle", NEW p \in Paths,
         ffs' = [ffs EXCEPT ![p] = Absent], fh' = Orphan(fh, p)
  PROVE  OverlayStep
  <1>1. \A q \in Paths : ffs'[q] = IF q = p THEN Absent ELSE ffs[q]
    BY DEF Core, CoreTyped
  <1>2. \A q \in Paths : View'[q] = IF q = p THEN Fw[p] ELSE View[q]
    BY <1>1, WholeCall
  <1>3. View' = [View EXCEPT ![p] = Fw[p]]
    BY <1>2, ViewOf, Updated
  <1>4. OpenFiles' = Orphan(OpenFiles, p)
    BY WholeCall
  <1>5. Promised!Remove(p)
    BY <1>3, <1>4, StoreSame DEF Promised!Remove
  <1> QED
    BY <1>5, OverlayNext

\* close().
LEMMA CloseSeen ==
  ASSUME Core, Core', call.kind = "idle", NEW h \in held, Close(h)
  PROVE  OverlayStep
  <1>1. ffs' = ffs /\ call'.kind = "idle"
    BY DEF Close
  <1>2. \A p \in Paths : View'[p] = View[p]
    BY <1>1, WholeCall
  <1>3. CASE fh' = fh
    <2>1. \A k \in FfsHandles : OpenFiles'[k] = OpenFiles[k]
      BY <1>1, <1>3, WholeCall
    <2> QED
      BY <1>2, <2>1, Unseen
  <1>4. CASE FfsFile(h) /\ fh' = [fh EXCEPT ![h] = Closed]
    <2>1. h \in FfsHandles /\ fh[h] # Closed
      BY <1>4 DEF FfsFile
    <2>2. View' = View
      BY <1>2, ViewOf, SameFunction
    <2>3. Promised!Close(h)
      BY <1>1, <1>4, <2>1, <2>2, WholeCall DEF Promised!Close
    <2> QED
      BY <2>1, <2>3, OverlayNext
  <1> QED
    BY <1>3, <1>4 DEF Close

\* read() and lseek().
LEMMA MoveSeen ==
  ASSUME Core, Core', call.kind = "idle", NEW h \in held, Move(h)
  PROVE  OverlayStep
  <1>1. ffs' = ffs /\ call'.kind = "idle"
    BY DEF Move
  <1>2. \A p \in Paths : View'[p] = View[p]
    BY <1>1, WholeCall
  <1>3. CASE fh' = fh
    <2>1. \A k \in FfsHandles : OpenFiles'[k] = OpenFiles[k]
      BY <1>1, <1>3, WholeCall
    <2> QED
      BY <1>2, <2>1, Unseen
  <1>4. ASSUME Usable(h),
               \E n \in 0..Len(ffs[fh[h].path]) : fh' = [fh EXCEPT ![h].pos = n]
        PROVE  OverlayStep
    <2>1. /\ h \in FfsHandles /\ fh[h] # Closed /\ fh[h].path # Gone
          /\ fh[h].path \in Paths /\ ffs[fh[h].path] # Absent
      BY <1>4, UsableEffect, HyfsAssumption DEF Usable
    <2>2. View' = View /\ View[fh[h].path] = ffs[fh[h].path]
      BY <1>1, <1>2, <2>1, WholeCall, ViewOf, SameFunction
    <2>3. Promised!Move(h)
      BY <1>1, <1>4, <2>1, <2>2, WholeCall DEF Promised!Move, Promised!Usable
    <2> QED
      BY <2>1, <2>3, OverlayNext
  <1> QED
    BY <1>3, <1>4 DEF Move

\* The data of a file of the FFS is replaced.
LEMMA DataSeen ==
  ASSUME Core, Core', call.kind = "idle", call'.kind = "idle",
         NEW p \in Paths, ffs[p] # Absent, NEW data \in Data, ffs' = [ffs EXCEPT ![p] = data]
  PROVE  View[p] = ffs[p] /\ View' = [View EXCEPT ![p] = data]
  <1>1. /\ data # Absent
        /\ \A q \in Paths : ffs'[q] = IF q = p THEN data ELSE ffs[q]
    BY HyfsAssumption DEF Core, CoreTyped
  <1>2. \A q \in Paths : View'[q] = IF q = p THEN data ELSE View[q]
    BY <1>1, WholeCall
  <1> QED
    BY <1>2, WholeCall, ViewOf, Updated

\* write().
LEMMA WriteSeen ==
  ASSUME Core, Core', call.kind = "idle", NEW h \in held, Write(h)
  PROVE  OverlayStep
  <1> DEFINE f  == fh[h]
             p  == fh[h].path
             at == Position(fh[h], ffs[fh[h].path])
  <1>1. /\ h \in FfsHandles /\ f # Closed /\ p # Gone /\ f \in Files
        /\ p \in Paths /\ ffs[p] # Absent /\ ffs[p] \in Data
    BY UsableEffect, HyfsAssumption DEF Write, Usable
  <1>2. call' = call
    BY DEF Write, Fail
  <1>3. CASE UNCHANGED <<ffs, fh, call, held>>
    BY <1>3, UnseenSame
  <1>4. ASSUME at < MaxBlocks, f.write, ffs' = [ffs EXCEPT ![p] = Put(ffs[p], at, Block)],
               fh' = [fh EXCEPT ![h].pos = at + 1]
        PROVE  OverlayStep
    <2>1. Block \in Blocks /\ at \in 0..Len(ffs[p])
      BY <1>1, PositionWithin DEF Blocks
    <2>2. Put(ffs[p], at, Block) \in Data
      BY <1>1, <1>4, <2>1, PutTyped
    <2>3. View[p] = ffs[p] /\ View' = [View EXCEPT ![p] = Put(ffs[p], at, Block)]
      BY <1>1, <1>2, <1>4, <2>2, DataSeen
    <2>4. OpenFiles = fh /\ OpenFiles' = fh'
      BY <1>2, WholeCall
    <2>5. Promised!Write(h)
      BY <1>1, <1>4, <2>3, <2>4, StoreSame DEF Promised!Write, Promised!Usable
    <2> QED
      BY <1>1, <2>5, OverlayNext
  <1> QED
    BY <1>3, <1>4 DEF Write, Fail

\* ftruncate().
LEMMA FtruncateSeen ==
  ASSUME Core, Core', call.kind = "idle", NEW h \in held, Ftruncate(h)
  PROVE  OverlayStep
  <1> DEFINE f == fh[h]
             p == fh[h].path
  <1>1. /\ h \in FfsHandles /\ f # Closed /\ p # Gone
        /\ p \in Paths /\ ffs[p] # Absent /\ ffs[p] \in Data
    BY UsableEffect, HyfsAssumption DEF Ftruncate, Usable
  <1>2. call' = call
    BY DEF Ftruncate, Fail
  <1>3. CASE UNCHANGED <<ffs, fh, call, held>>
    BY <1>3, UnseenSame
  <1>4. ASSUME f.write, NEW n \in 0..Len(ffs[p]), fh' = fh,
               ffs' = [ffs EXCEPT ![p] = Cut(ffs[p], n)]
        PROVE  OverlayStep
    <2>1. Cut(ffs[p], n) \in Data
      BY <1>1, CutTyped
    <2>2. View[p] = ffs[p] /\ View' = [View EXCEPT ![p] = Cut(ffs[p], n)]
      BY <1>1, <1>2, <1>4, <2>1, DataSeen
    <2>3. OpenFiles = fh /\ OpenFiles' = fh'
      BY <1>2, WholeCall
    <2>4. Promised!Truncate(h)
      BY <1>1, <1>4, <2>2, <2>3, StoreSame DEF Promised!Truncate, Promised!Usable
    <2> QED
      BY <1>1, <2>4, OverlayNext
  <1> QED
    BY <1>3, <1>4 DEF Ftruncate, Fail

\* The entry of a handle that open() returns: a position that is not 0 is where
\* appending starts, when a copy was made for it.
Entry(p, flags, n) ==
  [path |-> p, pos |-> n, append |-> "Append" \in flags, write |-> "Write" \in flags]

\* The handle appears, and the file is created or truncated if need be.
HandleSeen(h, entry) ==
  /\ OpenFiles[h] = Closed
  /\ \A k \in FfsHandles : OpenFiles'[k] = IF k = h THEN entry ELSE OpenFiles[k]

FileSeen(p, flags) ==
  /\ View[p] # Absent \/ "Create" \in flags
  /\ \A q \in Paths :
       View'[q] = IF q = p /\ (View[p] = Absent \/ "Truncate" \in flags)
                  THEN <<>> ELSE View[q]

\* Such an open() is one that Overlay allows.
LEMMA OpenPromised ==
  ASSUME NEW h \in FfsHandles, NEW p \in Paths, p \notin FwReadOnly, NEW flags \in FlagSets,
         NEW all, all = flags \/ all = flags \cup {"Write"},
         NEW n \in 0..MaxBlocks, n > 0 => "Append" \in flags,
         FileSeen(p, flags),
         HandleSeen(h, Entry(p, all, n))
  PROVE  OverlayStep
  <1> DEFINE at == [flags |-> all, pos |-> n]
             entry == Entry(p, all, n)
  <1>1. /\ at \in [flags : {flags, flags \cup {"Write"}}, pos : 0..MaxBlocks]
        /\ at.flags = all /\ at.pos = n
    OBVIOUS
  <1>2. entry \in Files
    <2>1. n \in Nat
      BY HyfsAssumption
    <2> QED
      BY <2>1 DEF Entry, Files
  <1>3. entry # Closed
    BY <1>2, NotClosed
  <1>4. OpenFiles' = [OpenFiles EXCEPT ![h] = entry]
    <2> HIDE DEF entry
    <2>1. \A k \in FfsHandles : OpenFiles'[k] = IF k = h THEN entry ELSE OpenFiles[k]
      BY DEF entry, HandleSeen
    <2> QED
      BY <2>1, FilesOf, Updated
  <1>5. View' = IF View[p] = Absent \/ "Truncate" \in flags THEN [View EXCEPT ![p] = <<>>]
                                                            ELSE View
    <2>1. CASE View[p] = Absent \/ "Truncate" \in flags
      <3>1. \A q \in Paths : View'[q] = IF q = p THEN <<>> ELSE View[q]
        BY <2>1 DEF FileSeen
      <3> QED
        BY <2>1, <3>1, ViewOf, Updated
    <2>2. CASE ~(View[p] = Absent \/ "Truncate" \in flags)
      <3>1. \A q \in Paths : View'[q] = View[q]
        BY <2>2 DEF FileSeen
      <3> QED
        BY <2>2, <3>1, ViewOf, SameFunction
    <2> QED
      BY <2>1, <2>2
  <1>6. [Promised!Handle(p, at.flags) EXCEPT !.pos = at.pos] = entry
    BY <1>1, StoreSame DEF Handle, Entry
  <1> HIDE DEF at, entry
  <1>7. Promised!Open(h, p, flags, at)
    BY <1>4, <1>5, <1>6 DEF Promised!Open, HandleSeen, FileSeen
  <1>8. at.pos > 0 => "Append" \in flags
    BY <1>1
  <1>9. OpenFiles[h] = Closed /\ OpenFiles'[h] # Closed
    BY <1>3 DEF entry, HandleSeen
  <1>10. Promised!OpenAny(h, p)
    BY <1>1, <1>7, <1>8, <1>9 DEF Promised!OpenAny
  <1> QED
    BY <1>10, OverlayNext

\* The FFS opens a file for an application, and it is not a firmware file's place
\* that it takes unless it is asked to truncate.
LEMMA OpenedSeen ==
  ASSUME Core, Core', call.kind = "idle", NEW p \in Paths, NEW h \in FfsHandles,
         NEW flags \in FlagSets, NEW all, Opened(h, p, all, Absent),
         p \notin FwReadOnly,
         \/ /\ ffs[p] # Absent \/ p \notin InFw
            /\ all = flags
         \/ /\ ffs[p] = Absent /\ p \in InFw
            /\ "Truncate" \in flags
            /\ all = ForCopy(flags)
  PROVE  OverlayStep
  <1>1. FfsOpen(h, p, all) /\ call'.kind = "idle"
    BY DEF Opened, Deliver, Idle
  <1>2. /\ fh[h] = Closed /\ fh'[h] = Handle(p, all)
        /\ \A k \in FfsHandles \ {h} : fh'[k] = fh[k]
        /\ ffs'[p] = IF ffs[p] = Absent \/ "Truncate" \in all THEN <<>> ELSE ffs[p]
        /\ ffs'[p] # Absent
        /\ \A q \in Paths \ {p} : ffs'[q] = ffs[q]
    BY <1>1, FfsOpenEffect
  <1>3. Fw[p] = Absent <=> p \notin InFw
    BY FwTyped, HyfsAssumption
  <1>4. "Truncate" \in all <=> "Truncate" \in flags
    BY DEF ForCopy
  <1>5. ffs[p] # Absent \/ "Create" \in all
    BY <1>1 DEF FfsOpen
  <1>6. FileSeen(p, flags)
    <2>1. View[p] # Absent \/ "Create" \in flags
      BY <1>1, <1>3, <1>5, WholeCall
    <2>2. \A q \in Paths :
            View'[q] = IF q = p /\ (View[p] = Absent \/ "Truncate" \in flags)
                       THEN <<>> ELSE View[q]
      BY <1>1, <1>2, <1>3, <1>4, WholeCall
    <2> QED
      BY <2>1, <2>2 DEF FileSeen
  <1>7. PICK some : /\ some = flags \/ some = flags \cup {"Write"}
                    /\ Handle(p, all) = Entry(p, some, 0)
    <2>1. CASE all = ForCopy(flags)
      <3>1. /\ "Append" \in ForCopy(flags) <=> "Append" \in flags \cup {"Write"}
            /\ "Write" \in ForCopy(flags) <=> "Write" \in flags \cup {"Write"}
        BY DEF ForCopy
      <3>2. Handle(p, ForCopy(flags)) = Entry(p, flags \cup {"Write"}, 0)
        BY <3>1 DEF Handle, Entry
      <3> QED
        BY <2>1, <3>2
    <2>2. CASE all = flags
      BY <2>2 DEF Handle, Entry
    <2> QED
      BY <2>1, <2>2
  <1>8. HandleSeen(h, Entry(p, some, 0))
    BY <1>1, <1>2, <1>7, WholeCall DEF HandleSeen
  <1>9. 0 \in 0..MaxBlocks /\ (0 > 0 => "Append" \in flags)
    BY HyfsAssumption
  <1> QED
    BY <1>6, <1>7, <1>8, <1>9, OpenPromised

\* A file of the FFS is opened for rename(), which shows nothing of it.
LEMMA OpenedForRenameSeen ==
  ASSUME Core, Core', call.kind = "idle", NEW p \in Paths, NEW h \in FfsHandles,
         NEW to, to # Absent, Opened(h, p, {"Read", "Write"}, to)
  PROVE  OverlayStep
  <1>1. FfsOpen(h, p, {"Read", "Write"})
    BY DEF Opened
  <1>2. "Create" \notin {"Read", "Write"} /\ "Truncate" \notin {"Read", "Write"}
    OBVIOUS
  <1>3. /\ fh[h] = Closed
        /\ \A k \in FfsHandles \ {h} : fh'[k] = fh[k]
        /\ ffs'[p] = ffs[p]
        /\ \A q \in Paths \ {p} : ffs'[q] = ffs[q]
    BY <1>1, <1>2, FfsOpenEffect DEF FfsOpen
  <1>4. h \notin held /\ held' = held /\ call'.kind = "rename"
    BY <1>3 DEF Opened, Deliver, Core, NothingLeaks
  <1>5. \A q \in Paths : View'[q] = View[q]
    BY <1>3, <1>4, ViewOf
  <1>6. \A k \in FfsHandles : OpenFiles'[k] = OpenFiles[k]
    BY <1>3, <1>4, FilesOf
  <1> QED
    BY <1>5, <1>6, Unseen

\* The firmware file is opened: its handle is not one of Overlay's.
LEMMA OpenedFwSeen ==
  ASSUME Core, call.kind = "idle", NEW p \in InFw, NEW s \in Slots, OpenedFw(s, p)
  PROVE  OverlayStep
  <1>1. UNCHANGED <<ffs, fh>> /\ call'.kind = "idle" /\ held' = held \cup {HandleMin + s}
    BY DEF OpenedFw, Idle
  <1>2. \A h \in FfsHandles : h \in held' <=> h \in held
    BY <1>1, HandlesApart
  <1> QED
    BY <1>1, <1>2, Unseen, ViewOf, FilesOf

\* The copying of a firmware file begins: what is there is still what it holds.
LEMMA CopyBegunSeen ==
  ASSUME Core, call.kind = "idle", NEW p \in InFw, ffs[p] = Absent,
         NEW s \in Slots, NEW h \in FfsHandles, NEW flags, NEW to,
         CopyBegun(s, h, p, flags, to)
  PROVE  OverlayStep
  <1>1. FfsOpen(h, p, ForCopy(flags)) /\ p \in Paths
    BY FwTyped DEF CopyBegun
  <1>2. /\ fh[h] = Closed
        /\ \A k \in FfsHandles \ {h} : fh'[k] = fh[k]
        /\ \A q \in Paths \ {p} : ffs'[q] = ffs[q]
    BY <1>1, FfsOpenEffect
  <1>3. h \notin held /\ held' = held /\ call'.kind = "copy" /\ call'.path = p
    BY <1>2 DEF CopyBegun, Core, NothingLeaks
  <1>4. \A q \in Paths : View'[q] = View[q]
    BY <1>2, <1>3, ViewOf
  <1>5. \A k \in FfsHandles : OpenFiles'[k] = OpenFiles[k]
    BY <1>2, <1>3, FilesOf
  <1> QED
    BY <1>4, <1>5, Unseen

\* The copying goes on: what is there is still the firmware's file.
LEMMA CopyBlockSeen ==
  ASSUME Core, call.kind = "copy", ~AtEof(slots[call.slot]),
         NEW written \in BOOLEAN, CopyBlock(written)
  PROVE  OverlayStep
  <1>1. /\ call.file \notin held /\ call.path \in Paths
        /\ \A k \in FfsHandles \ {call.file} : fh'[k] = fh[k]
        /\ \A q \in Paths \ {call.path} : ffs'[q] = ffs[q]
    BY CopyFacts, CopyBlockEffect
  <1>2. UNCHANGED <<call, held>>
    BY DEF CopyBlock
  <1>3. \A q \in Paths : View'[q] = View[q]
    BY <1>1, <1>2, ViewOf
  <1>4. \A k \in FfsHandles : OpenFiles'[k] = OpenFiles[k]
    BY <1>1, <1>2, FilesOf
  <1> QED
    BY <1>3, <1>4, Unseen

\* The copying is given up: the FFS file is removed, and the firmware's shows again.
LEMMA CopyFailedSeen ==
  ASSUME Core, call.kind = "copy", CopyFailed, "CleanupFault" \notin Allowed
  PROVE  OverlayStep
  <1>1. call.file \in FfsHandles /\ call.file \notin held /\ call.path \in Paths
    BY CopyFacts
  <1>2. /\ \A k \in FfsHandles \ {call.file} : fh'[k] = fh[k]
        /\ \A q \in Paths : ffs'[q] = IF q = call.path THEN Absent ELSE ffs[q]
        /\ held' = held /\ call'.kind = "idle"
    BY <1>1 DEF CopyFailed, Idle, Core, CoreTyped, Tables
  <1>3. \A q \in Paths : View'[q] = View[q]
    BY <1>1, <1>2, ViewOf
  <1>4. \A k \in FfsHandles : OpenFiles'[k] = OpenFiles[k]
    BY <1>1, <1>2, FilesOf
  <1> QED
    BY <1>3, <1>4, Unseen

\* The copying is done, with the whole of the file: the handle appears, unless it is
\* rename()'s.
LEMMA CopyDoneSeen ==
  ASSUME Core, Prefix, CopyFlags, call.kind = "copy", AtEof(slots[call.slot]), CopyDone
  PROVE  OverlayStep
  <1> DEFINE h == call.file
             p == call.path
             n == slots[call.slot].pos
  <1>1. /\ h \in FfsHandles /\ h \notin held /\ p \in Paths
        /\ fh[h] \in Files /\ fh[h] # Closed
        /\ Fw[p] \in Data
        /\ slots[call.slot] \in FwFiles
    BY CopyFacts
  <1>2. ffs[p] = Fw[p] /\ ffs' = ffs /\ Fw[p] # Absent
    BY <1>1, CopiedWhole, HyfsAssumption DEF CopyDone
  <1>3. /\ p \notin FwReadOnly
        /\ fh[h].path = p /\ fh[h].pos = n /\ n \in Nat /\ n <= Len(Fw[p])
    BY <1>1 DEF Core, CopyUnderWay, Prefix, FwFiles
  <1>4. n \in 0..MaxBlocks
    BY <1>1, <1>3, DataIsSeq, HyfsAssumption
  <1>5. \A k \in FfsHandles \ {h} : fh'[k] = fh[k]
    BY <1>1 DEF CopyDone, Core, CoreTyped, Tables
  <1>6. call'.kind \in {"idle", "rename"}
    BY DEF CopyDone, Deliver, Idle
  <1>7. \A q \in Paths : View'[q] = View[q]
    BY <1>2, <1>6, ViewOf
  <1>8. CASE call.to # Absent
    <2>1. held' = held
      BY <1>8 DEF CopyDone, Deliver
    <2>2. \A k \in FfsHandles : OpenFiles'[k] = OpenFiles[k]
      BY <1>1, <1>5, <2>1, FilesOf
    <2> QED
      BY <1>7, <2>2, Unseen
  <1>9. CASE call.to = Absent
    <2>1. held' = held \cup {h}
      BY <1>9 DEF CopyDone, Deliver
    <2>2. PICK flags \in FlagSets :
            "Truncate" \notin flags /\ ("Append" \in flags <=> call.append)
      BY <1>9 DEF CopyFlags
    <2>3. /\ fh[h].append = call.append /\ fh[h].write = TRUE
          /\ call.append \in BOOLEAN
      BY DEF CopyFlags
    <2> DEFINE all == flags \cup {"Write"}
               at  == IF call.append THEN n ELSE 0
    <2>4. "Append" \in all <=> call.append
      BY <2>2
    <2>5. ("Append" \in all) = call.append /\ ("Write" \in all) = TRUE
      BY <2>3, <2>4
    <2>6. \A m : Entry(p, all, m) =
                  [path |-> p, pos |-> m, append |-> call.append, write |-> TRUE]
      BY <2>5, Zenon DEF Entry
    <2>7. fh[h] = Entry(p, all, n)
      <3>1. fh[h] = [path |-> p, pos |-> n, append |-> call.append, write |-> TRUE]
        BY <1>1, <1>3, <2>3 DEF Files
      <3> QED
        BY <2>6, <3>1, Zenon
    <2>8. fh'[h] = Entry(p, all, at)
      <3>1. fh' = IF call.append THEN fh ELSE [fh EXCEPT ![h].pos = 0]
        BY DEF CopyDone
      <3>2. fh'[h] = IF call.append THEN fh[h] ELSE [fh[h] EXCEPT !.pos = 0]
        BY <1>1, <3>1 DEF Core, CoreTyped, Tables
      <3>3. [Entry(p, all, n) EXCEPT !.pos = 0] = Entry(p, all, 0)
        BY DEF Entry
      <3> HIDE DEF h, p, n, all
      <3> QED
        BY <2>7, <3>2, <3>3
    <2>9. HandleSeen(h, Entry(p, all, at))
      BY <1>1, <1>5, <2>1, <2>8, FilesOf DEF HandleSeen
    <2>10. at \in 0..MaxBlocks /\ (at > 0 => "Append" \in flags)
      BY <1>4, <2>2, HyfsAssumption
    <2>11. View[p] # Absent
      BY <1>1, <1>2, ViewOf
    <2>12. FileSeen(p, flags)
      BY <1>7, <2>2, <2>11 DEF FileSeen
    <2>13. all = flags \cup {"Write"} /\ h \in FfsHandles /\ p \in Paths /\ p \notin FwReadOnly
      BY <1>1, <1>3
    <2> HIDE DEF all, at, h, p
    <2> QED
      BY <2>9, <2>10, <2>12, <2>13, OpenPromised
  <1> QED
    BY <1>8, <1>9

\* rename(): the file that it opened is closed, and then renamed or not.
LEMMA RenameSeen ==
  ASSUME Core, Core', Protected, RenameStep
  PROVE  OverlayStep
  <1> DEFINE h == call.file
             p == call.path
             q == call.to
             f == RenameClosed(fh, h)
  <1>1. call.kind = "rename" /\ call'.kind = "idle" /\ held' = held
    BY DEF RenameStep, Idle
  <1>2. h \in FfsHandles /\ p \in Paths /\ q \in Paths
    BY <1>1, CallKinds DEF Core, Renames
  <1>3. fh[h] # Closed /\ fh[h].path = p /\ h \notin held /\ ffs[p] # Absent
    BY <1>1, <1>2, HyfsAssumption DEF Core, NothingLeaks, RenameUnderWay, CallKeepsFile, Linked
  <1>4. p \notin FwReadOnly /\ q \notin FwReadOnly
    BY <1>1, <1>2, <1>3 DEF Protected, ReadOnlyKept
  <1>5. OpenFiles = f
    <2>1. /\ f = [k \in FfsHandles |-> f[k]]
          /\ \A k \in FfsHandles : f[k] = IF k = h THEN Closed ELSE fh[k]
      BY <1>2 DEF RenameClosed, Core, CoreTyped, Tables
    <2>2. \A k \in FfsHandles : OpenFiles[k] = f[k]
      BY <1>1, <1>3, <2>1, FilesOf DEF Core, NothingLeaks
    <2> HIDE DEF f
    <2> QED
      BY <2>1, <2>2, FilesOf, SameFunction
  <1>6. OpenFiles' = fh'
    <2>1. \A k \in FfsHandles : OpenFiles'[k] = fh'[k]
      BY <1>1, FilesOf DEF Core, NothingLeaks
    <2>2. fh' = [k \in FfsHandles |-> fh'[k]]
      BY DEF Core, CoreTyped, Tables
    <2> QED
      BY <2>1, <2>2, FilesOf, SameFunction
  <1>7. /\ \A r \in Paths : View[r] = IF ffs[r] # Absent THEN ffs[r] ELSE Fw[r]
        /\ \A r \in Paths : View'[r] = IF ffs'[r] # Absent THEN ffs'[r] ELSE Fw[r]
    BY <1>1, ViewOf
  <1>8. CASE fh' = f /\ ffs' = ffs
    BY <1>5, <1>6, <1>7, <1>8, Unseen
  <1>9. CASE /\ ffs' = IF p = q THEN ffs ELSE [ffs EXCEPT ![q] = ffs[p], ![p] = Absent]
             /\ fh' = Follow(f, p, q)
    <2>1. View[p] = ffs[p]
      BY <1>2, <1>3, <1>7
    <2>2. View' = IF p = q THEN View ELSE [View EXCEPT ![q] = View[p], ![p] = Fw[p]]
      <3>1. CASE p = q
        <4>1. \A r \in Paths : View'[r] = View[r]
          BY <1>7, <1>9, <3>1
        <4> QED
          BY <3>1, <4>1, ViewOf, SameFunction
      <3>2. CASE p # q
        <4>1. \A r \in Paths :
                ffs'[r] = IF r = p THEN Absent ELSE IF r = q THEN ffs[p] ELSE ffs[r]
          BY <1>2, <1>9, <3>2 DEF Core, CoreTyped
        <4> DEFINE mid == [View EXCEPT ![q] = View[p]]
        <4>2. /\ mid = [r \in Paths |-> mid[r]]
              /\ \A r \in Paths : mid[r] = IF r = q THEN View[p] ELSE View[r]
          BY <1>2, ViewOf
        <4>3. \A r \in Paths : View'[r] = IF r = p THEN Fw[p] ELSE mid[r]
          BY <1>3, <1>7, <2>1, <4>1, <4>2
        <4> HIDE DEF mid
        <4>4. View' = [mid EXCEPT ![p] = Fw[p]]
          BY <4>2, <4>3, ViewOf, Updated
        <4> QED
          BY <3>2, <4>4 DEF mid
      <3> QED
        BY <3>1, <3>2
    <2>3. OpenFiles' = Follow(OpenFiles, p, q)
      BY <1>5, <1>6, <1>9
    <2>4. Promised!Rename(p, q)
      BY <1>3, <1>4, <2>1, <2>2, <2>3, StoreSame DEF Promised!Rename
    <2> QED
      BY <1>2, <2>4, OverlayNext
  <1> QED
    BY <1>8, <1>9 DEF RenameStep

\* Each way that open() ends, for an application or for rename().
LEMMA OutcomeSeen ==
  ASSUME Spared, Core, Core', Bounded, Protected, call.kind = "idle",
         NEW flags, NEW p \in Paths, NEW to \in Paths \cup {Absent},
         Requested(flags, to), Outcome(p, flags, to)
  PROVE  OverlayStep
  <1>1. CASE Quiet
    BY <1>1, UnseenSame DEF Quiet
  <1>2. ASSUME p \in InFw, NEW s \in Slots, OpenedFw(s, p)
        PROVE  OverlayStep
    BY <1>2, OpenedFwSeen
  <1>3. ASSUME p \in InFw, ffs[p] = Absent,
               NEW s \in Slots, NEW h \in FfsHandles, CopyBegun(s, h, p, flags, to)
        PROVE  OverlayStep
    BY <1>3, CopyBegunSeen
  <1>4. ASSUME p \notin FwReadOnly, ffs[p] # Absent \/ p \notin InFw,
               NEW h \in FfsHandles, Opened(h, p, flags, to)
        PROVE  OverlayStep
    <2>1. CASE to = Absent /\ flags \in FlagSets
      BY <1>4, <2>1, OpenedSeen
    <2>2. CASE to \in RenameTo /\ flags = {"Read", "Write"}
      BY <1>4, <2>2, OpenedForRenameSeen, HyfsAssumption
    <2> QED
      BY <2>1, <2>2 DEF Requested
  <1>5. ASSUME p \in InFw \ FwReadOnly, ffs[p] = Absent, "Truncate" \in flags,
               NEW h \in FfsHandles, Opened(h, p, ForCopy(flags), to)
        PROVE  OverlayStep
    <2>1. to = Absent /\ flags \in FlagSets
      <3>1. "Truncate" \notin {"Read", "Write"}
        OBVIOUS
      <3> QED
        BY <1>5, <3>1 DEF Requested
    <2> QED
      BY <1>5, <2>1, OpenedSeen
  <1> QED
    BY <1>1, <1>2, <1>3, <1>4, <1>5, OpenedNotReadOnly, HyfsAssumption

\* When the two layers are one store.
OneStore ==
  /\ Spared
  /\ Lossless
  /\ "Crash" \notin Allowed
  /\ "CleanupFault" \notin Allowed

\* Every step of the hybrid file system is one of Overlay, or is not seen there.
LEMMA NextSeen ==
  ASSUME OneStore, Core, Core', Prefix, Bounded, Protected, CopyFlags, [Next]_vars
  PROVE  OverlayStep
  <1> USE DEF OneStore
  <1>1. CASE UNCHANGED <<ffs, fh, slots, call, held>>
    BY <1>1, UnseenSame
  <1>2. CASE call.kind = "idle" /\ Format
    BY <1>2, FormatSeen, UnseenSame DEF Format, NotRemoved
  <1>3. ASSUME call.kind = "idle", NEW p \in Paths, Remove(p)
        PROVE  OverlayStep
    <2>1. CASE Removed(p)
      BY <1>3, <2>1, RemovedSeen DEF Removed
    <2>2. CASE UNCHANGED <<ffs, fh, call, held>>
      BY <2>2, UnseenSame
    <2> QED
      BY <1>3, <2>1, <2>2 DEF Remove, NotRemoved
  <1>4. ASSUME call.kind = "idle", NEW h \in held, Fremove(h)
        PROVE  OverlayStep
    <2>1. fh[h].path \in Paths /\ call' = call
      BY <1>4, UsableEffect DEF Fremove, Fail
    <2>2. CASE UNCHANGED <<ffs, fh, call, held>>
      BY <2>2, UnseenSame
    <2>3. CASE ffs' = [ffs EXCEPT ![fh[h].path] = Absent] /\ fh' = Orphan(fh, fh[h].path)
      BY <1>4, <2>1, <2>3, RemovedSeen
    <2> QED
      BY <1>4, <2>2, <2>3 DEF Fremove, Fail
  <1>5. ASSUME call.kind = "idle", NEW h \in held,
               Close(h) \/ Move(h) \/ Write(h) \/ Ftruncate(h)
        PROVE  OverlayStep
    BY <1>5, CloseSeen, MoveSeen, WriteSeen, FtruncateSeen
  <1>6. ASSUME call.kind = "idle",
               NEW flags, NEW p \in Paths, NEW to \in Paths \cup {Absent},
               Requested(flags, to), Outcome(p, flags, to)
        PROVE  OverlayStep
    BY <1>6, OutcomeSeen
  <1>7. CASE call.kind = "copy" /\ CopyStep
    <2>1. CASE AtEof(slots[call.slot]) /\ CopyDone
      BY <1>7, <2>1, CopyDoneSeen
    <2>2. CASE ~AtEof(slots[call.slot]) /\ CopyBlock(TRUE)
      BY <1>7, <2>2, CopyBlockSeen
    <2>3. CASE CopyFailed
      BY <1>7, <2>3, CopyFailedSeen
    <2> QED
      BY <1>7, <2>1, <2>2, <2>3 DEF CopyStep, Lossless
  <1>8. CASE RenameStep
    BY <1>8, RenameSeen
  <1>9. ~Crash
    BY DEF Crash
  <1> QED
    BY <1>1, <1>2, <1>3, <1>4, <1>5, <1>6, <1>7, <1>8, <1>9, NextCases

\* The hybrid file system is one store of files, that of the firmware until a file
\* is written to: while FWFS has a descriptor to spare and its media can be read, no
\* write is short without being told, a copy that fails can be taken away again,
\* nothing is renamed to a read-only name, and the power stays on, each of its calls
\* does what Overlay promises.
THEOREM ImplementsOverlay ==
  /\ MaxHeld < MaxFds
  /\ RenameTo \cap FwReadOnly = {}
  /\ Allowed \cap {"ReadFault", "ShortWrite", "Crash", "CleanupFault"} = {}
  => (Spec => OverlaySpec)
  <1>1. ASSUME /\ MaxHeld < MaxFds
               /\ RenameTo \cap FwReadOnly = {}
               /\ Allowed \cap {"ReadFault", "ShortWrite", "Crash", "CleanupFault"} = {}
        PROVE  OneStore
    BY <1>1 DEF OneStore, Spared, Lossless
  <1> SUFFICES ASSUME OneStore PROVE Spec => OverlaySpec
    BY <1>1
  <1>2. Init => Promised!Init
    <2> SUFFICES ASSUME Init PROVE Promised!Init
      OBVIOUS
    <2>1. call.kind = "idle" /\ held = {} /\ \A p \in Paths : ffs[p] = Absent
      BY DEF Init, Idle
    <2>2. Fw = [p \in Paths |-> Fw[p]]
      BY DEF Fw
    <2>3. View = Fw
      BY <2>1, <2>2, ViewOf, SameFunction
    <2>4. OpenFiles = [h \in FfsHandles |-> Closed]
      BY <2>1 DEF OpenFiles
    <2> QED
      BY <2>3, <2>4 DEF Promised!Init
  <1>3. /\ Core /\ Core' /\ Prefix /\ Bounded /\ Protected /\ CopyFlags
        /\ [Next]_vars
        => [Promised!Next]_(Promised!vars)
    BY NextSeen DEF OverlayStep
  <1>4. Spared /\ Lossless
    BY DEF OneStore
  <1>5. Spec => [](Core /\ Prefix /\ Bounded /\ Protected /\ CopyFlags)
    BY <1>4, CoreAlways, PrefixAlways, BoundedAlways, ProtectedAlways, CopyFlagsAlways, PTL
  <1> QED
    BY <1>2, <1>3, <1>5, PTL DEF Spec, OverlaySpec, Promised!Spec

=============================================================================
