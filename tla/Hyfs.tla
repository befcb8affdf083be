-------------------------------- MODULE Hyfs --------------------------------
(***************************************************************************)
(* HYFS::FileSystem, the hybrid file system: a writeable file system (FFS) *)
(* layered over the firmware file system (FWFS).  Opening a firmware file  *)
(* for writing first copies it up to the FFS; enumeration lists the FFS,   *)
(* then the firmware less the files hidden because the FFS has them.       *)
(*                                                                         *)
(* Names are those of one directory.  Calls do not overlap, and each is    *)
(* one action, except that open() copies a block per step and rename() is  *)
(* open(), then the rest: a crash may come between any two of the steps,   *)
(* and a fault at any of them.                                             *)
(***************************************************************************)
EXTENDS FlashStore, Integers, FiniteSets, Functions

CONSTANTS
  Paths,        \* the names in use
  FwOrder,      \* the names in the firmware directory, in its order
  FwData,       \* [Range(FwOrder) -> Seq(block)]
  FwReadOnly,   \* the firmware files marked read-only
  LongNames,    \* the names too long for readdir()'s buffer
  FlagSets,     \* the combinations of open flags in use
  RenameTo,     \* the new names given to rename()
  Block,        \* what an application writes
  MaxBlocks,    \* bounds the size of a file
  MaxFds,       \* FWFS_MAX_FDS
  HandleMin,    \* FWFS_HANDLE_MIN
  FfsHandles,   \* the handles that the FFS gives out
  DirIds,       \* directory objects on the heap (a bound)
  MaxHeld,      \* how many files an application keeps open (a bound)
  Allowed,      \* which optional events the environment makes use of
  Absent        \* no file

InFw == Range(FwOrder)

Slots     == 0..(MaxFds - 1)
HandleMax == HandleMin + MaxFds - 1
FwHandles == HandleMin..HandleMax

\* What files hold, and what the tables of handles, descriptors and directory
\* objects hold.
Blocks  == {Block} \cup UNION { Range(FwData[p]) : p \in InFw }
Data    == UNION { [1..n -> Blocks] : n \in 0..MaxBlocks }
Files   == [path : Paths \cup {Gone}, pos : Nat, append : BOOLEAN, write : BOOLEAN]
FwFiles == [path : InFw, pos : Nat]
Dirs    == [at : {"ffs", "fwfs"}, ffs : BOOLEAN, seen : SUBSET Paths, next : Nat \ {0}]

\* The last three lines: "no file", "no longer there" and "not open" are told apart
\* from names, data and table entries.
ASSUME HyfsAssumption ==
  /\ FwOrder \in Seq(Paths)
  /\ IsInjective(FwOrder)
  /\ FwData \in [InFw -> Data]
  /\ FwReadOnly \subseteq InFw
  /\ RenameTo \subseteq Paths
  /\ MaxBlocks \in Nat
  /\ MaxFds \in Nat \ {0}
  /\ MaxHeld \in Nat
  /\ HandleMin \in Nat
  /\ FfsHandles \cap FwHandles = {}
  /\ Allowed \subseteq {"Rename", "Fremove", "Crash", "WriteFault", "ShortWrite",
                        "ReadFault", "DirFault", "RemoveFault", "CleanupFault"}
  /\ Absent \notin Paths \cup Data
  /\ Gone \notin Paths
  /\ Closed \notin Files \cup FwFiles \cup Dirs

VARIABLES
  mounted,      \* mounted
  ffs,          \* what the FFS holds, persistently
  fh,           \* the open handles of the FFS
  slots,        \* the descriptors of FWFS
  hidden,       \* hiddenFwFiles
  dirs,         \* FileDir objects
  call,         \* the open() or rename() in progress
  ret,          \* how the most recent call ended
  held,         \* history: the handles that applications hold
  listed,       \* history: what each directory object has produced
  steady        \* history: no change has disturbed its enumeration

vars == <<mounted, ffs, fh, slots, hidden, dirs, call, ret, held, listed, steady>>
listing == <<hidden, dirs, listed, steady>>

Idle == [kind |-> "idle"]

Fw == [p \in Paths |-> IF p \in InFw THEN FwData[p] ELSE Absent]

\* What a path holds: the FFS is used in preference to the firmware.
Held(p) == IF ffs[p] # Absent THEN ffs[p] ELSE Fw[p]

Fail(err) ==
  /\ ret' = err
  /\ UNCHANGED <<mounted, ffs, fh, slots, listing, call, held>>

\* The names present in the FFS stay the same, or enumerations are disturbed.
NamesMayChange ==
  steady' = [d \in DirIds |->
               steady[d] /\ \A p \in Paths : (ffs'[p] = Absent) <=> (ffs[p] = Absent)]

(***************************************************************************)
(* mount(): either file system may refuse.                                 *)
(***************************************************************************)
Mount ==
  /\ ~mounted
  /\ \/ mounted' = TRUE /\ ret' = "OK"
     \/ mounted' = FALSE /\ ret' = "MountFailed"
  /\ UNCHANGED <<ffs, fh, slots, listing, call, held>>

\* Power is lost: what the FFS holds remains.
Crash ==
  /\ "Crash" \in Allowed
  /\ mounted' = FALSE
  /\ fh' = [h \in FfsHandles |-> Closed]
  /\ slots' = [s \in Slots |-> Closed]
  /\ hidden' = {}
  /\ dirs' = [d \in DirIds |-> Closed]
  /\ call' = Idle
  /\ ret' = "OK"
  /\ held' = {}
  /\ listed' = [d \in DirIds |-> <<>>]
  /\ steady' = [d \in DirIds |-> TRUE]
  /\ UNCHANGED ffs

(***************************************************************************)
(* GET_FS: which file system a call on a handle is passed on to.           *)
(***************************************************************************)
RoutedToFw(h) == h \in HandleMin..(HandleMax - 1)

FwFile(h)  == RoutedToFw(h) /\ slots[h - HandleMin] # Closed
FfsFile(h) == ~RoutedToFw(h) /\ h \in FfsHandles /\ fh[h] # Closed
Usable(h)  == FfsFile(h) /\ fh[h].path # Gone

(***************************************************************************)
(* open().  A file of the FFS is opened there.  Otherwise the firmware     *)
(* file is opened: its handle is the result when flags are exactly Read.   *)
(* Otherwise the FFS file is made and the firmware's data copied into it.  *)
(***************************************************************************)
UnusedDescriptor(s) ==
  /\ slots[s] = Closed
  /\ \A r \in Slots : r < s => slots[r] # Closed

\* fwfs->open(): why it may fail.
FwOpenErrors(path) ==
  (IF path \notin InFw THEN {"NotFound"} ELSE {})
    \cup (IF path \in InFw /\ \A s \in Slots : slots[s] # Closed
          THEN {"OutOfFileDescs"} ELSE {})
    \cup (IF "ReadFault" \in Allowed THEN {"ReadFailure"} ELSE {})

FfsOpenFails(path, flags) ==
  \/ ffs[path] = Absent /\ "Create" \notin flags /\ Fail("NotFound")
  \/ (\A h \in FfsHandles : fh[h] # Closed) /\ Fail("OutOfFileDescs")
  \/ "WriteFault" \in Allowed /\ flags # {"Read"} /\ Fail("NoSpace")

FfsOpen(h, path, flags) ==
  /\ fh[h] = Closed
  /\ ffs[path] # Absent \/ "Create" \in flags
  /\ fh' = [fh EXCEPT ![h] = Handle(path, flags)]
  /\ ffs' = [ffs EXCEPT ![path] = IF @ = Absent \/ "Truncate" \in flags THEN <<>> ELSE @]
  /\ NamesMayChange
  /\ UNCHANGED <<mounted, hidden, dirs, listed>>

\* (mutation: the handle is one more than that of the file)
DeliverNext(h, path, to) ==
  /\ call' = Idle
  /\ held' = held \cup {h + 1}
  /\ ret' = "OK"

\* The end of open(): the handle is the result, unless it is rename()'s.
Deliver(h, path, to) ==
  IF to = Absent
  THEN /\ call' = Idle
       /\ held' = held \cup {h}
       /\ ret' = "OK"
  ELSE /\ call' = [kind |-> "rename", file |-> h, path |-> path, to |-> to]
       /\ UNCHANGED <<held, ret>>

OpenFfs(path, flags, to) ==
  \/ FfsOpenFails(path, flags)
  \/ \E h \in FfsHandles :
       /\ FfsOpen(h, path, flags)
       /\ Deliver(h, path, to)
       /\ UNCHANGED slots

\* (mutation: the firmware file stays open when it turns out to be read-only)
RefusedStaysOpen(s, path) ==
  /\ ret' = "ReadOnly"
  /\ slots' = [slots EXCEPT ![s] = [path |-> path, pos |-> 0]]
  /\ UNCHANGED <<mounted, ffs, fh, listing, call, held>>

RefuseReadOnly(s, path) == Fail("ReadOnly")

\* The firmware file's attributes say that it is read-only, or cannot be read.
IsReadOnly(path) == path \in FwReadOnly

CannotCopyUp(path) == IsReadOnly(path) \/ "ReadFault" \in Allowed

\* The firmware file is open in descriptor s.
CopyUp(s, path, flags, to) ==
  LET all == flags \cup {"Create", "Read", "Write"}
      at  == [path |-> path, pos |-> 0]
  IN
  \/ CannotCopyUp(path) /\ RefuseReadOnly(s, path)
  \/ ~IsReadOnly(path) /\ FfsOpenFails(path, all)
  \/ /\ ~IsReadOnly(path)
     /\ \E h \in FfsHandles :
          /\ FfsOpen(h, path, all)
          /\ IF "Truncate" \in flags
             THEN Deliver(h, path, to) /\ UNCHANGED slots
             ELSE /\ call' = [kind |-> "copy", slot |-> s, file |-> h, path |-> path,
                              append |-> "Append" \in flags, to |-> to]
                  /\ slots' = [slots EXCEPT ![s] = at]
                  /\ UNCHANGED <<held, ret>>

OpenFw(path, flags, to) ==
  \/ \E err \in FwOpenErrors(path) :
       \/ flags = {"Read"} /\ Fail(err)
       \/ flags # {"Read"} /\ OpenFfs(path, flags, to)
  \/ \E s \in Slots :
       /\ path \in InFw
       /\ UnusedDescriptor(s)
       /\ \/ /\ flags = {"Read"}
             /\ slots' = [slots EXCEPT ![s] = [path |-> path, pos |-> 0]]
             /\ Deliver(HandleMin + s, path, to)
             /\ UNCHANGED <<mounted, ffs, fh, listing>>
          \/ flags # {"Read"} /\ CopyUp(s, path, flags, to)

OpenPath(path, flags, to) ==
  \/ ~mounted /\ Fail("NotMounted")
  \/ mounted /\ ffs[path] # Absent /\ OpenFfs(path, flags, to)
  \/ mounted /\ ffs[path] = Absent /\ OpenFw(path, flags, to)

Open(path, flags) ==
  /\ Cardinality(held) < MaxHeld
  /\ OpenPath(path, flags, Absent)

(***************************************************************************)
(* The copying loop of open().                                             *)
(***************************************************************************)
\* (mutation: the position stays at the end of what was copied)
CopyDoneAtEnd ==
  /\ slots' = [slots EXCEPT ![call.slot] = Closed]
  /\ Deliver(call.file, call.path, call.to)
  /\ UNCHANGED <<mounted, ffs, fh, listing>>

CopyDone ==
  /\ fh' = IF call.append THEN fh ELSE [fh EXCEPT ![call.file].pos = 0]
  /\ slots' = [slots EXCEPT ![call.slot] = Closed]
  /\ Deliver(call.file, call.path, call.to)
  /\ UNCHANGED <<mounted, ffs, listing>>

\* (mutation: what was copied before the failure is left in the FFS)
CopyFailedLeavesFile ==
  /\ fh' = [fh EXCEPT ![call.file] = Closed]
  /\ slots' = [slots EXCEPT ![call.slot] = Closed]
  /\ call' = Idle
  /\ ret' = "NoSpace"
  /\ UNCHANGED <<mounted, ffs, listing, held>>

\* ffs->fremove() may fail too: what was copied then stays.
CopyFailed ==
  /\ \/ ffs' = [ffs EXCEPT ![call.path] = Absent]
     \/ "CleanupFault" \in Allowed /\ UNCHANGED ffs
  /\ fh' = [fh EXCEPT ![call.file] = Closed]
  /\ slots' = [slots EXCEPT ![call.slot] = Closed]
  /\ NamesMayChange
  /\ call' = Idle
  /\ ret' = "NoSpace"
  /\ UNCHANGED <<mounted, hidden, dirs, listed, held>>

\* A block is read, and written in whole or not at all.
CopyBlock(written) ==
  LET d    == slots[call.slot]
      f    == fh[call.file]
      data == ffs[f.path]
      at   == Position(f, data)
  IN
  /\ slots' = [slots EXCEPT ![call.slot].pos = @ + 1]
  /\ IF written
     THEN /\ ffs' = [ffs EXCEPT ![f.path] = Put(data, at, Fw[d.path][d.pos + 1])]
          /\ fh' = [fh EXCEPT ![call.file].pos = at + 1]
     ELSE UNCHANGED <<ffs, fh>>
  /\ UNCHANGED <<mounted, listing, call, ret, held>>

\* (mutation: the last block is taken for the end of the file)
EndsEarly(d) == d.pos + 1 >= Len(Fw[d.path])

AtEof(d) == d.pos >= Len(Fw[d.path])

CopyStep ==
  LET more == ~AtEof(slots[call.slot]) IN
  /\ call.kind = "copy"
  /\ \/ ~more /\ CopyDone
     \/ more /\ CopyBlock(TRUE)
     \/ more /\ "ShortWrite" \in Allowed /\ CopyBlock(FALSE)
     \/ more /\ "WriteFault" \in Allowed /\ CopyFailed
     \/ more /\ "ReadFault" \in Allowed /\ CopyDone

(***************************************************************************)
(* rename(): open() for reading and writing, close, ffs->rename().         *)
(***************************************************************************)
Rename(old, new) ==
  /\ "Rename" \in Allowed
  /\ OpenPath(old, {"Read", "Write"}, new)

\* (mutation: the handle that open() gave is not closed)
RenameNotClosed(table, h) == table

RenameClosed(table, h) == [table EXCEPT ![h] = Closed]

RenameStep ==
  LET p == call.path
      q == call.to
      f == RenameClosed(fh, call.file)
  IN
  /\ call.kind = "rename"
  /\ call' = Idle
  /\ \/ /\ ffs' = IF p = q THEN ffs ELSE [ffs EXCEPT ![q] = ffs[p], ![p] = Absent]
        /\ fh' = Follow(f, p, q)
        /\ ret' = "OK"
     \/ /\ ffs[q] # Absent \/ "WriteFault" \in Allowed
        /\ fh' = f
        /\ ret' = "RenameFailed"
        /\ UNCHANGED ffs
  /\ NamesMayChange
  /\ UNCHANGED <<mounted, slots, hidden, dirs, held, listed>>

(***************************************************************************)
(* Calls on a handle, which go to one of the two file systems.             *)
(***************************************************************************)
AnyHandle == FfsHandles \cup FwHandles

\* Both file systems refuse a handle that is not open there, an FFS handle whose
\* file has been removed, and FWFS every call that would write.
Refused(h) ==
  /\ mounted => ~Usable(h)
  /\ Fail("BadHandle")

Close(h) ==
  /\ mounted
  /\ \/ /\ FwFile(h)
        /\ slots' = [slots EXCEPT ![h - HandleMin] = Closed]
        /\ UNCHANGED fh
     \/ /\ FfsFile(h)
        /\ fh' = [fh EXCEPT ![h] = Closed]
        /\ UNCHANGED slots
  /\ held' = held \ {h}
  /\ ret' = "OK"
  /\ UNCHANGED <<mounted, ffs, listing, call>>

\* read() moves a position forward, lseek() anywhere within the data.
Move(h) ==
  /\ mounted
  /\ \/ /\ FwFile(h)
        /\ \E n \in 0..Len(Fw[slots[h - HandleMin].path]) :
             slots' = [slots EXCEPT ![h - HandleMin].pos = n]
        /\ UNCHANGED fh
     \/ /\ Usable(h)
        /\ \E n \in 0..Len(ffs[fh[h].path]) : fh' = [fh EXCEPT ![h].pos = n]
        /\ UNCHANGED slots
  /\ ret' = "OK"
  /\ UNCHANGED <<mounted, ffs, listing, call, held>>

Write(h) ==
  /\ mounted
  /\ Usable(h)
  /\ LET f  == fh[h]
         at == Position(f, ffs[f.path])
     IN  \/ (at = MaxBlocks \/ ~f.write) /\ Fail("NoSpace")
         \/ /\ at < MaxBlocks
            /\ f.write
            /\ ffs' = [ffs EXCEPT ![f.path] = Put(@, at, Block)]
            /\ fh' = [fh EXCEPT ![h].pos = at + 1]
            /\ ret' = "OK"
            /\ UNCHANGED <<mounted, slots, listing, call, held>>

Ftruncate(h) ==
  /\ mounted
  /\ Usable(h)
  /\ \/ ~fh[h].write /\ Fail("ReadOnly")
     \/ /\ fh[h].write
        /\ \E n \in 0..Len(ffs[fh[h].path]) :
             ffs' = [ffs EXCEPT ![fh[h].path] = Cut(@, n)]
        /\ ret' = "OK"
        /\ UNCHANGED <<mounted, fh, slots, listing, call, held>>

\* The firmware file is not unhidden.
Fremove(h) ==
  /\ "Fremove" \in Allowed
  /\ mounted
  /\ Usable(h)
  /\ \/ ~fh[h].write /\ Fail("ReadOnly")
     \/ /\ fh[h].write
        /\ ffs' = [ffs EXCEPT ![fh[h].path] = Absent]
        /\ fh' = Orphan(fh, fh[h].path)
        /\ NamesMayChange
        /\ ret' = "OK"
        /\ UNCHANGED <<mounted, slots, hidden, dirs, listed, call, held>>

(***************************************************************************)
(* Calls on a path.  stat(), getxattr(), setxattr(), mkdir() and check()   *)
(* do not change what is modelled here.                                    *)
(***************************************************************************)
Query == \E err \in {"OK", "NotFound", "ReadOnly", "NotImplemented"} : Fail(err)

\* hideFWFile(): nothing happens for a name that the firmware does not have.
\* (mutations: the file is not unhidden; not hidden)
HideOnly(path, hide) == IF hide /\ path \in InFw THEN hidden \cup {path} ELSE hidden
HideNone(path, hide) == hidden \ {path}

HideFWFile(path, hide) ==
  CASE path \notin InFw -> hidden
    [] path \in InFw /\ hide -> hidden \cup {path}
    [] path \in InFw /\ ~hide -> hidden \ {path}

\* The FFS fails to take files away, and the firmware's are unhidden all the same:
\* an enumeration that is past the FFS will produce such a name again.
NotRemoved(stillHidden) ==
  /\ "RemoveFault" \in Allowed
  /\ hidden' = stillHidden
  /\ steady' = [d \in DirIds |-> steady[d] /\ stillHidden = hidden]
  /\ UNCHANGED <<mounted, ffs, fh, slots, dirs, listed, call, held>>

Removed(path) ==
  /\ ffs' = [ffs EXCEPT ![path] = Absent]
  /\ fh' = Orphan(fh, path)
  /\ hidden' = HideFWFile(path, FALSE)
  /\ ret' = CASE ffs[path] # Absent -> "OK"
              [] ffs[path] = Absent /\ path \in InFw -> "ReadOnly"
              [] OTHER -> "NotFound"
  /\ NamesMayChange
  /\ UNCHANGED <<mounted, slots, dirs, listed, call, held>>

Remove(path) ==
  /\ mounted
  /\ \/ Removed(path)
     \/ /\ ffs[path] # Absent
        /\ NotRemoved(HideFWFile(path, FALSE))
        /\ ret' = IF path \in InFw THEN "ReadOnly" ELSE "WriteFailure"

Formatted ==
  /\ ffs' = [p \in Paths |-> Absent]
  /\ fh' = OrphanAll(fh)
  /\ hidden' = {}
  /\ ret' = "OK"
  /\ NamesMayChange
  /\ UNCHANGED <<mounted, slots, dirs, listed, call, held>>

\* format() does not ask whether the file system is mounted, and forgets what was
\* hidden before it knows whether the FFS has been formatted.
Format ==
  \/ Formatted
  \/ NotRemoved({}) /\ ret' = "WriteFailure"

(***************************************************************************)
(* Directory enumeration: the FFS if it can be opened, then the firmware.  *)
(* The FFS produces, in an order of its own, the names it has that this    *)
(* directory object has not produced yet.                                  *)
(***************************************************************************)
FileDir(ffsOpen) ==
  [at |-> IF ffsOpen THEN "ffs" ELSE "fwfs", ffs |-> ffsOpen, seen |-> {}, next |-> 1]

Opendir(d) ==
  /\ mounted
  /\ dirs[d] = Closed
  /\ \E ffsOpen \in IF "DirFault" \in Allowed THEN BOOLEAN ELSE {TRUE} :
       /\ dirs' = [dirs EXCEPT ![d] = FileDir(ffsOpen)]
       /\ steady' = [steady EXCEPT ![d] = ffsOpen]
  /\ listed' = [listed EXCEPT ![d] = <<>>]
  /\ ret' = "OK"
  /\ UNCHANGED <<mounted, ffs, fh, slots, hidden, call, held>>

FfsEntries(d) == { p \in Paths : ffs[p] # Absent } \ dirs[d].seen

\* A name from the FFS hides the firmware file of that name, unless it is too long.
ReaddirFfs(d) ==
  \E p \in FfsEntries(d) :
    /\ dirs' = [dirs EXCEPT ![d].seen = @ \cup {p}]
    /\ \/ /\ p \notin LongNames
          /\ hidden' = HideFWFile(p, TRUE)
          /\ listed' = [listed EXCEPT ![d] = Append(@, p)]
          /\ ret' = "OK"
          /\ UNCHANGED steady
       \/ /\ p \in LongNames
          /\ steady' = [steady EXCEPT ![d] = FALSE]
          /\ ret' = "NameTooLong"
          /\ UNCHANGED <<hidden, listed>>

\* The next firmware entry that is not hidden, if there is one.
Shown(d) == { i \in dirs[d].next..Len(FwOrder) : FwOrder[i] \notin hidden }

AtFw(d, next) ==
  dirs' = [dirs EXCEPT ![d] = [@ EXCEPT !.at = "fwfs", !.next = next]]

ReaddirFw(d) ==
  /\ \/ \E i \in Shown(d) :
          /\ \A j \in Shown(d) : i <= j
          /\ AtFw(d, i + 1)
          /\ listed' = [listed EXCEPT ![d] = Append(@, FwOrder[i])]
          /\ ret' = "OK"
     \/ /\ Shown(d) = {}
        /\ AtFw(d, Len(FwOrder) + 1)
        /\ ret' = "NoMoreFiles"
        /\ UNCHANGED listed
  /\ UNCHANGED hidden

\* Any error of the FFS is taken for its end; the firmware's are returned, that of
\* fwfs->opendir() before and that of fwfs->readdir() after the FFS is left.
Readdir(d) ==
  /\ mounted
  /\ dirs[d] # Closed
  /\ \/ dirs[d].at = "ffs" /\ ReaddirFfs(d)
     \/ dirs[d].at = "ffs" /\ FfsEntries(d) = {} /\ ReaddirFw(d) /\ UNCHANGED steady
     \/ dirs[d].at = "fwfs" /\ ReaddirFw(d) /\ UNCHANGED steady
     \/ /\ "DirFault" \in Allowed
        /\ steady' = [steady EXCEPT ![d] = FALSE]
        /\ \/ dirs[d].at = "ffs" /\ ReaddirFw(d)
           \/ /\ UNCHANGED dirs \/ AtFw(d, dirs[d].next)
              /\ ret' = "ReadFailure"
              /\ UNCHANGED <<hidden, listed>>
  /\ UNCHANGED <<mounted, ffs, fh, slots, call, held>>

Rewinddir(d) ==
  /\ mounted
  /\ dirs[d] # Closed
  /\ dirs' = [dirs EXCEPT ![d] = FileDir(@.ffs)]
  /\ listed' = [listed EXCEPT ![d] = <<>>]
  /\ steady' = [steady EXCEPT ![d] = dirs[d].ffs]
  /\ ret' = "OK"
  /\ UNCHANGED <<mounted, ffs, fh, slots, hidden, call, held>>

Closedir(d) ==
  /\ mounted
  /\ dirs[d] # Closed
  /\ dirs' = [dirs EXCEPT ![d] = Closed]
  /\ listed' = [listed EXCEPT ![d] = <<>>]
  /\ steady' = [steady EXCEPT ![d] = TRUE]
  /\ ret' = "OK"
  /\ UNCHANGED <<mounted, ffs, fh, slots, hidden, call, held>>

-----------------------------------------------------------------------------
Init ==
  /\ mounted = FALSE
  /\ ffs = [p \in Paths |-> Absent]
  /\ fh = [h \in FfsHandles |-> Closed]
  /\ slots = [s \in Slots |-> Closed]
  /\ hidden = {}
  /\ dirs = [d \in DirIds |-> Closed]
  /\ call = Idle
  /\ ret = "OK"
  /\ held = {}
  /\ listed = [d \in DirIds |-> <<>>]
  /\ steady = [d \in DirIds |-> TRUE]

Call ==
  \/ Mount
  \/ Format
  \/ Query
  \/ \E p \in Paths :
       \/ \E flags \in FlagSets : Open(p, flags)
       \/ \E q \in RenameTo : Rename(p, q)
       \/ Remove(p)
  \/ \E h \in held :
       \/ Refused(h)
       \/ Close(h)
       \/ Move(h)
       \/ Write(h)
       \/ Ftruncate(h)
       \/ Fremove(h)
  \/ \E d \in DirIds : Opendir(d) \/ Readdir(d) \/ Rewinddir(d) \/ Closedir(d)

\* A call that has begun goes on until it returns or power is lost.
Next ==
  \/ call.kind = "idle" /\ Call
  \/ CopyStep
  \/ RenameStep
  \/ Crash

Spec == Init /\ [][Next]_vars
-----------------------------------------------------------------------------
(***************************************************************************)
(* Properties.                                                             *)
(***************************************************************************)
Copies  == [kind : {"copy"}, slot : Slots, file : FfsHandles, path : InFw,
            append : BOOLEAN, to : Paths \cup {Absent}]
Renames == [kind : {"rename"}, file : FfsHandles, path : Paths, to : Paths]

\* The type invariant.  A copy in progress works on the firmware file it has
\* open and on the FFS file of the same path.
TypeOK ==
  /\ mounted \in BOOLEAN
  /\ ffs \in [Paths -> Data \cup {Absent}]
  /\ fh \in [FfsHandles -> Files \cup {Closed}]
  /\ slots \in [Slots -> FwFiles \cup {Closed}]
  /\ hidden \subseteq InFw
  /\ dirs \in [DirIds -> Dirs \cup {Closed}]
  /\ call \in {Idle} \cup Copies \cup Renames
  /\ call.kind = "copy" => /\ slots[call.slot].path = call.path
                          /\ fh[call.file].path = call.path
  /\ held \subseteq AnyHandle

\* Every way that open() and rename() end leaves open, in either file system,
\* exactly the files whose handles applications hold.
NothingLeaks ==
  /\ \A s \in Slots : slots[s] # Closed <=>
        HandleMin + s \in held \/ (call.kind = "copy" /\ call.slot = s)
  /\ \A h \in FfsHandles : fh[h] # Closed <=>
        h \in held \/ (call.kind # "idle" /\ call.file = h)

\* A call on a handle reaches the file system that the handle came from.
RoutedToOwner == \A h \in held : h \in FwHandles <=> RoutedToFw(h)

\* Only firmware files that the FFS has a file for are hidden.
HiddenAreShadowed == \A p \in hidden : ffs[p] # Absent

\* An enumeration that nothing disturbs produces each file there is once: those
\* of the FFS, and those of the firmware that the FFS does not have.  What disturbs
\* it is a change of the names, and a remove() or format() that fails half way
\* through it, as they unhide what is still there; what follows is exact again.
ListingExact ==
  \A d \in DirIds :
    /\ dirs[d] # Closed
    /\ steady[d]
    /\ dirs[d].at = "fwfs"
    /\ dirs[d].next > Len(FwOrder)
    => /\ IsInjective(listed[d])
       /\ Range(listed[d]) = { p \in Paths : Held(p) # Absent }

\* A firmware file marked read-only is never replaced by a file of the FFS.
ReadOnlyKept == \A p \in FwReadOnly : ffs[p] = Absent

\* A file that open() has copied up holds all that the firmware file holds.
CopyUpComplete ==
  [][ call.kind = "copy" /\ (call.file \in held' \/ call'.kind = "rename") =>
        ffs'[call.path] = Fw[call.path] ]_vars

\* Opening a file only to read it does not put anything in the FFS.
ReadingNeverCopies ==
  [][ \A p \in Paths, flags \in FlagSets :
        "Write" \notin flags /\ Open(p, flags) => UNCHANGED ffs ]_vars

(***************************************************************************)
(* While FWFS has a descriptor to spare and its media can be read, and as  *)
(* long as no power is lost, this is the one store of files that Overlay   *)
(* describes.  A copy in progress is not part of it yet.                   *)
(***************************************************************************)
View ==
  [p \in Paths |-> IF call.kind = "copy" /\ call.path = p THEN Fw[p] ELSE Held(p)]

OpenFiles == [h \in FfsHandles |-> IF h \in held THEN fh[h] ELSE Closed]

Promised == INSTANCE Overlay WITH
  Handles <- FfsHandles,
  view    <- View,
  files   <- OpenFiles

OverlaySpec == Promised!Spec
=============================================================================
