-------------------------------- MODULE Fwfs --------------------------------
(***************************************************************************)
(* FWFS::FileSystem, the read-only firmware file system: mounting, the     *)
(* pool of file descriptors, reading and seeking, directory enumeration,   *)
(* and the redirection of calls into the file systems that applications    *)
(* install behind mount points with setVolume().                           *)
(*                                                                         *)
(* Calls do not overlap (the library is not re-entrant and takes no lock), *)
(* so that each call is one action, except read(): its loop over the data  *)
(* objects is a step per child table entry, as each may fail on the media. *)
(***************************************************************************)
EXTENDS FwfsImage, Integers, FiniteSets

CONSTANTS
  Paths,        \* the paths an application uses: sequences of names
  MaxFds,       \* FWFS_MAX_FDS
  HandleMin,    \* FWFS_HANDLE_MIN
  MaxVolumes,   \* FWFS_MAX_VOLUMES
  WordSize,     \* 2^w, w being the width of the unsigned sizes of read()
  DirIds,       \* directory objects on the heap (a bound)
  Mounted,      \* the file system objects an application may install
  Tokens,       \* the handles such a file system gives out (a bound)
  NoFs,         \* a null IFileSystem pointer
  Self,         \* this file system, as a value of an IFileSystem pointer
  Sizes,        \* the sizes passed to read() (a bound)
  MediaFaults   \* TRUE: reading object headers may fail

ASSUME ParametersAssumption ==
  /\ MaxFds \in Nat \ {0}
  /\ HandleMin \in Nat
  /\ MaxVolumes \in Nat \ {0}
  /\ WordSize \in Nat \ {0}
  /\ MediaSize < WordSize
  /\ Sizes \subseteq 0..(WordSize - 1)
  /\ NoFs \notin Mounted
  /\ Self \notin Mounted \cup {NoFs}
  /\ MediaFaults \in BOOLEAN

Slots     == 0..(MaxFds - 1)
HandleMax == HandleMin + MaxFds - 1
Handles   == HandleMin..HandleMax
Volumes   == 0..(MaxVolumes - 1)

VARIABLES
  mounted,      \* flags[Flag::mounted]
  fds,          \* fileDescriptors[]
  volumes,      \* volumes[].fileSystem
  dirs,         \* FileDir objects
  call,         \* the read() in progress
  ret,          \* how the most recent call ended
  live,         \* the file system objects that have not been deleted
  inner,        \* the handles open in each of them
  held,         \* history: the handles applications hold
  listed        \* history: what each directory object has produced

vars == <<mounted, fds, volumes, dirs, call, ret, live, inner, held, listed>>
outside == <<live, inner>>
history == <<held, listed>>

Free == [kind |-> "free"]
Idle == [kind |-> "idle"]

FileDesc(o, size, cursor) == [kind |-> "file", obj |-> o, size |-> size, cursor |-> cursor]
LinkDesc(f, t)            == [kind |-> "link", fs |-> f, token |-> t]
DirDesc(o, child)         == [kind |-> "dir", obj |-> o, child |-> child]

Allocated(s) == fds[s].kind # "free"

\* A result: an error code, and what was read.
Result(err, bytes) == [err |-> err, bytes |-> bytes]
Done(err) == ret' = Result(err, <<>>)

(***************************************************************************)
(* The checks at the head of a call, and calls that end there.             *)
(***************************************************************************)
HandleError(h) ==
  CASE ~mounted -> "NotMounted"
    [] mounted /\ h \notin Handles -> "InvalidHandle"
    [] mounted /\ h \in Handles /\ ~Allocated(h - HandleMin) -> "FileNotOpen"
    [] OTHER -> "OK"

Fail(err) ==
  /\ Done(err)
  /\ UNCHANGED <<mounted, fds, volumes, dirs, call, outside, history>>

AnyHandle == (HandleMin - 1)..(HandleMax + 1)

BadHandle(h) ==
  /\ HandleError(h) # "OK"
  /\ Fail(HandleError(h))

\* A call that names an open descriptor.
Uses(s, h) ==
  /\ HandleError(h) = "OK"
  /\ s = h - HandleMin

(***************************************************************************)
(* The file systems behind mount points belong to the application; all     *)
(* that is said of them is which of their handles are open.  A call into   *)
(* one that has been deleted may return anything.                          *)
(***************************************************************************)
InnerOpen(f, t) ==
  /\ f \in Mounted
  /\ t \in Tokens
  /\ \/ /\ f \in live
        /\ t \notin inner[f]
        /\ inner' = [inner EXCEPT ![f] = @ \cup {t}]
     \/ /\ f \notin live
        /\ UNCHANGED inner
  /\ UNCHANGED live

InnerClose(f, t) ==
  /\ inner' = IF f \in live THEN [inner EXCEPT ![f] = @ \ {t}] ELSE inner
  /\ UNCHANGED live

InUse(f) ==
  \/ \E s \in Slots : fds[s].kind = "link" /\ fds[s].fs = f
  \/ \E d \in DirIds : dirs[d].kind = "link" /\ dirs[d].fs = f

(***************************************************************************)
(* mount() scans the objects; the image being sound it fails only when the *)
(* media does.  Left out: the root is assigned during the scan, so that a  *)
(* second mount() that fails leaves the file system mounted with whatever  *)
(* directory it had reached.  setVolume() takes ownership of the new file  *)
(* system and deletes the one it replaces, whatever still uses it.         *)
(***************************************************************************)
Mount ==
  \/ /\ mounted' = TRUE
     /\ Done("OK")
     /\ UNCHANGED <<fds, volumes, dirs, call, outside, history>>
  \/ /\ MediaFaults
     /\ Fail("ReadFailure")

SetVolume(i, f) ==
  IF i \notin Volumes \/ f = Self THEN Fail("BadVolumeIndex")
  ELSE LET old == volumes[i] IN
       /\ f \in live \cup {NoFs}
       /\ volumes' = [volumes EXCEPT ![i] = f]
       /\ live' = live \ {old}
       /\ inner' = [g \in Mounted |-> IF g = old THEN {} ELSE inner[g]]
       /\ Done("OK")
       /\ UNCHANGED <<mounted, fds, dirs, call, history>>

\* resolveMountPoint(): the error, or the file system, behind a mount point.
ResolveError(o) ==
  LET v == VolumeEntry(o) IN
  CASE v = 0 -> "NotFound"
    [] v # 0 /\ Table(o)[v].index \notin Volumes -> "BadVolumeIndex"
    [] v # 0 /\ Table(o)[v].index \in Volumes /\ volumes[Table(o)[v].index] = NoFs
         -> "NotMounted"
    [] OTHER -> "OK"

ResolvedFs(o) == volumes[Table(o)[VolumeEntry(o)].index]

(***************************************************************************)
(* Calls that start from a path.                                           *)
(***************************************************************************)
Located == [p \in Paths |-> FindObjectByPath(p)]

PathError(path) ==
  CASE ~mounted -> "NotMounted"
    [] mounted /\ ~Located[path].found -> "NotFound"
    [] OTHER -> "OK"

Resolves(path, o, tail) ==
  /\ PathError(path) = "OK"
  /\ Located[path].obj = o
  /\ Located[path].tail = tail

BadPath(path) ==
  \/ PathError(path) # "OK" /\ Fail(PathError(path))
  \/ mounted /\ MediaFaults /\ Fail("ReadFailure")

\* findUnusedDescriptor(): the first one that is free.
UnusedDescriptor(s) ==
  /\ ~Allocated(s)
  /\ \A r \in Slots : r < s => Allocated(r)

\* getObjectDataSize() stops adding when a child header cannot be read.
ObjectDataSize(o, size) ==
  IF MediaFaults THEN \E n \in 0..Len(Table(o)) : size = SizeUpTo(o, n)
                 ELSE size = DataSize(o)

(***************************************************************************)
(* open(): a descriptor is taken, then either the call goes on in the file *)
(* system behind a mount point, or the file's data size is determined.  It *)
(* is released again when anything fails.  NoFollow makes the root of a    *)
(* mount point a plain object.                                             *)
(***************************************************************************)
\* (mutation: the handle is one more than the descriptor's index)
OpenedOffByOne(s, desc) ==
  /\ fds' = [fds EXCEPT ![s] = desc]
  /\ held' = held \cup {HandleMin + s + 1}
  /\ Done("OK")
  /\ UNCHANGED <<mounted, volumes, dirs, call, listed>>

Opened(s, desc) ==
  /\ fds' = [fds EXCEPT ![s] = desc]
  /\ held' = held \cup {HandleMin + s}
  /\ Done("OK")
  /\ UNCHANGED <<mounted, volumes, dirs, call, listed>>

\* (mutation: an error leaves the descriptor allocated)
OpenNotReset(s, err) ==
  /\ fds' = [fds EXCEPT ![s] = FileDesc(Root, 0, 0)]
  /\ Done(err)
  /\ UNCHANGED <<mounted, volumes, dirs, call, outside, history>>

OpenReset(s, err) ==
  /\ fds' = [fds EXCEPT ![s] = Free]
  /\ Done(err)
  /\ UNCHANGED <<mounted, volumes, dirs, call, outside, history>>

OpenLink(s, o) ==
  \/ /\ ResolveError(o) # "OK"
     /\ OpenReset(s, ResolveError(o))
  \/ /\ ResolveError(o) = "OK"
     /\ \/ \E t \in Tokens : InnerOpen(ResolvedFs(o), t)
                             /\ Opened(s, LinkDesc(ResolvedFs(o), t))
        \/ OpenReset(s, "InnerError")

OpenObject(s, o, flags) ==
  \/ "Write" \in flags /\ OpenReset(s, "ReadOnly")
  \/ /\ "Write" \notin flags
     /\ \E size \in 0..MediaSize :
          /\ ObjectDataSize(o, size)
          /\ Opened(s, FileDesc(o, size, 0))
     /\ UNCHANGED outside

Open(path, flags) ==
  \/ BadPath(path)
  \/ \E o \in Objects, tail \in {<<>>} \cup Paths :
       /\ Resolves(path, o, tail)
       /\ \/ (\A s \in Slots : Allocated(s)) /\ Fail("OutOfFileDescs")
          \/ \E s \in Slots :
               /\ UnusedDescriptor(s)
               /\ IF IsMountPoint(o) /\ ~("NoFollow" \in flags /\ tail = <<>>)
                  THEN OpenLink(s, o)
                  ELSE OpenObject(s, o, flags)

\* (mutation: the handle behind the mount point stays open)
CloseOuterOnly(h) ==
  \/ BadHandle(h)
  \/ \E s \in Slots :
       /\ Uses(s, h)
       /\ fds' = [fds EXCEPT ![s] = Free]
       /\ held' = held \ {h}
       /\ Done("OK")
       /\ UNCHANGED <<mounted, volumes, dirs, call, outside, listed>>

Close(h) ==
  \/ BadHandle(h)
  \/ \E s \in Slots :
       /\ Uses(s, h)
       /\ IF fds[s].kind = "link" THEN InnerClose(fds[s].fs, fds[s].token)
                                  ELSE UNCHANGED outside
       /\ fds' = [fds EXCEPT ![s] = Free]
       /\ held' = held \ {h}
       /\ Done("OK")
       /\ UNCHANGED <<mounted, volumes, dirs, call, listed>>

(***************************************************************************)
(* Calls that a link descriptor passes on to the file system behind the    *)
(* mount point, whose results are its own.                                 *)
(***************************************************************************)
PassedOn(h) ==
  \E s \in Slots :
    /\ Uses(s, h)
    /\ fds[s].kind = "link"
    /\ Fail("Inner")

(***************************************************************************)
(* read(): the loop visits the child table from its start on every call.   *)
(* ext.start is the offset of the data object within the file.             *)
(***************************************************************************)
Read(h, n) ==
  \/ BadHandle(h)
  \/ PassedOn(h)
  \/ \E s \in Slots :
       /\ Uses(s, h)
       /\ fds[s].kind # "link"
       /\ call' = [kind |-> "read", slot |-> s, size |-> n,
                   child |-> 1, start |-> 0, bytes |-> <<>>]
       /\ UNCHANGED <<mounted, fds, volumes, dirs, ret, outside, history>>

ReadReturn(err, bytes) ==
  /\ call' = Idle
  /\ ret' = Result(err, IF err = "OK" THEN bytes ELSE <<>>)
  /\ UNCHANGED <<mounted, volumes, dirs, outside, history>>

\* The end of the child table, or a header that cannot be read.
ReadEnd ==
  LET d == fds[call.slot] IN
  /\ UNCHANGED fds
  /\ \/ call.child > Len(Table(d.obj)) /\ ReadReturn("OK", call.bytes)
     \/ /\ call.child <= Len(Table(d.obj))
        /\ MediaFaults
        /\ ReadReturn("ReadFailure", <<>>)

\* (mutation: an attribute after the first entry takes the loop back to the start)
ReadStartsOver ==
  LET d == fds[call.slot] IN
  /\ call.child <= Len(Table(d.obj))
  /\ Table(d.obj)[call.child].kind # "data"
  /\ call' = [call EXCEPT !.child = IF @ = 1 THEN 2 ELSE 1]
  /\ UNCHANGED <<mounted, fds, volumes, dirs, ret, outside, history>>

ReadSkip ==
  LET d == fds[call.slot] IN
  /\ call.child <= Len(Table(d.obj))
  /\ Table(d.obj)[call.child].kind # "data"
  /\ call' = [call EXCEPT !.child = @ + 1]
  /\ UNCHANGED <<mounted, fds, volumes, dirs, ret, outside, history>>

\* Unsigned subtraction: ext.length - offset, size - readTotal.
Minus(a, b) == (a - b) % WordSize
Least(a, b) == IF a < b THEN a ELSE b

\* (mutation: the offset in the data object is disregarded)
ReadLengthFromStart(d, e) == Least(e.len, Minus(call.size, Len(call.bytes)))

\* How many bytes this data object is asked for.
ReadLength(d, e) ==
  Least(Minus(e.len, Minus(d.cursor, call.start)), Minus(call.size, Len(call.bytes)))

\* The end of an iteration: leave the loop with got, or go on to the next entry.
ReadNext(desc, e, got) ==
  IF Len(got) = call.size \/ desc.cursor >= desc.size
  THEN ReadReturn("OK", got)
  ELSE /\ call' = [call EXCEPT !.child = @ + 1, !.start = @ + e.len, !.bytes = got]
       /\ UNCHANGED <<mounted, volumes, dirs, ret, outside, history>>

\* partition.read() fails outside the partition, and whenever the media does.
ReadData ==
  LET d     == fds[call.slot]
      e     == Table(d.obj)[call.child]
      from  == e.off + (d.cursor - call.start)
      n     == ReadLength(d, e)
      moved == [d EXCEPT !.cursor = @ + n]
  IN
  /\ call.child <= Len(Table(d.obj))
  /\ e.kind = "data"
  /\ \/ d.cursor < call.start /\ UNCHANGED fds /\ ReadNext(d, e, call.bytes)
     \/ /\ d.cursor >= call.start
        /\ from + n <= MediaSize
        /\ fds' = [fds EXCEPT ![call.slot] = moved]
        /\ ReadNext(moved, e, call.bytes \o Bytes(from, n))
     \/ /\ d.cursor >= call.start
        /\ UNCHANGED fds
        /\ ReadReturn("ReadFailure", <<>>)

ReadStep ==
  /\ call.kind = "read"
  /\ ReadEnd \/ ReadSkip \/ ReadData

(***************************************************************************)
(* lseek(): uint32_t(newOffset) > dataSize covers both bounds.             *)
(***************************************************************************)
SeekTo(d, origin, offset) ==
  CASE origin = "Start"   -> offset
    [] origin = "Current" -> offset + d.cursor
    [] origin = "End"     -> offset + d.size

Seek(h, origin, offset) ==
  \/ BadHandle(h)
  \/ PassedOn(h)
  \/ \E s \in Slots :
       LET to == SeekTo(fds[s], origin, offset) IN
       /\ Uses(s, h)
       /\ fds[s].kind # "link"
       /\ IF to \notin 0..fds[s].size THEN Fail("SeekBounds")
          ELSE /\ fds' = [fds EXCEPT ![s].cursor = to]
               /\ Done("OK")
               /\ UNCHANGED <<mounted, volumes, dirs, call, outside, history>>

(***************************************************************************)
(* eof(), tell(), fstat(), fgetextents(), fgetxattr(), fenumxattr(),       *)
(* fcontrol() look at the descriptor; write(), ftruncate(), flush(),       *)
(* fsetxattr(), fremove() are refused.  All are passed on by a link.       *)
(***************************************************************************)
Query(h, err) ==
  \/ BadHandle(h)
  \/ PassedOn(h)
  \/ /\ HandleError(h) = "OK"
     /\ fds[h - HandleMin].kind # "link"
     /\ Fail(err)

(***************************************************************************)
(* Calls that would change what a path names are refused within the image  *)
(* and passed on behind a mount point: mkdir(), setxattr(), remove(), and  *)
(* rename(), for which both paths must lead to one file system.            *)
(***************************************************************************)
LinkedError(path) ==
  LET at == Located[path] IN
  CASE PathError(path) # "OK" -> PathError(path)
    [] PathError(path) = "OK" /\ (~IsMountPoint(at.obj) \/ at.tail = <<>>) -> "ReadOnly"
    [] OTHER -> ResolveError(at.obj)

ModifyPath(path) ==
  Fail(IF LinkedError(path) = "OK" THEN "Inner" ELSE LinkedError(path))

Rename(old, new) ==
  Fail(CASE LinkedError(old) # "OK" -> LinkedError(old)
         [] LinkedError(old) = "OK" /\ LinkedError(new) # "OK" -> LinkedError(new)
         [] LinkedError(old) = "OK" /\ LinkedError(new) = "OK"
              /\ ResolvedFs(Located[old].obj) # ResolvedFs(Located[new].obj)
              -> "NotSupported"
         [] OTHER -> "Inner")

\* stat() and getxattr(): a path that ends at a mount point is answered here.
Stat(path) ==
  LET at == Located[path] IN
  \/ BadPath(path)
  \/ /\ PathError(path) = "OK"
     /\ IF IsMountPoint(at.obj) /\ at.tail # <<>>
        THEN Fail(IF ResolveError(at.obj) = "OK" THEN "Inner" ELSE ResolveError(at.obj))
        ELSE Fail("OK")

(***************************************************************************)
(* Directory enumeration.                                                  *)
(***************************************************************************)
Opendir(path) ==
  \/ BadPath(path)
  \/ \E o \in Objects, tail \in {<<>>} \cup Paths, d \in DirIds :
       LET allocate(desc) ==
             /\ dirs' = [dirs EXCEPT ![d] = desc]
             /\ listed' = [listed EXCEPT ![d] = <<>>]
             /\ Done("OK")
             /\ UNCHANGED <<mounted, fds, volumes, call, held>>
       IN
       /\ Resolves(path, o, tail)
       /\ dirs[d] = Free
       /\ \/ /\ ~IsMountPoint(o)
             /\ allocate(DirDesc(o, 1))
             /\ UNCHANGED outside
          \/ /\ IsMountPoint(o)
             /\ ResolveError(o) # "OK"
             /\ Fail(ResolveError(o))
          \/ /\ IsMountPoint(o)
             /\ ResolveError(o) = "OK"
             /\ \/ \E t \in Tokens : InnerOpen(ResolvedFs(o), t)
                                     /\ allocate(LinkDesc(ResolvedFs(o), t))
                \/ Fail("InnerError")

\* (mutation: the entry at the cursor itself is passed over)
NextNamedAfter(o, from) ==
  LET named == { i \in (from + 1)..Len(Table(o)) : Table(o)[i].kind = "named" } IN
  { i \in named : \A j \in named : i <= j }

\* The next named entry from the cursor on; entries of other kinds are skipped.
NextNamed(o, from) ==
  LET named == { i \in from..Len(Table(o)) : Table(o)[i].kind = "named" } IN
  { i \in named : \A j \in named : i <= j }

Readdir(d) ==
  LET o == dirs[d].obj
      produce(i, err) ==
        /\ dirs' = [dirs EXCEPT ![d].child = i + 1]
        /\ listed' = IF err = "OK" THEN [listed EXCEPT ![d] = Append(@, Table(o)[i].name)]
                                   ELSE listed
        /\ Done(err)
        /\ UNCHANGED <<mounted, fds, volumes, call, outside, held>>
  IN
  /\ mounted
  /\ \/ dirs[d].kind = "link" /\ Fail("Inner")
     \/ /\ dirs[d].kind = "dir"
        /\ \/ \E i \in NextNamed(o, dirs[d].child) :
                produce(i, "OK") \/ (MediaFaults /\ produce(i, "ReadFailure"))
           \/ MediaFaults /\ Fail("ReadFailure")
           \/ /\ NextNamed(o, dirs[d].child) = {}
              /\ dirs' = [dirs EXCEPT ![d].child = Len(Table(o)) + 1]
              /\ Done("NoMoreFiles")
              /\ UNCHANGED <<mounted, fds, volumes, call, outside, history>>

Rewinddir(d) ==
  /\ mounted
  /\ \/ dirs[d].kind = "link" /\ Fail("Inner")
     \/ /\ dirs[d].kind = "dir"
        /\ dirs' = [dirs EXCEPT ![d].child = 1]
        /\ listed' = [listed EXCEPT ![d] = <<>>]
        /\ Done("OK")
        /\ UNCHANGED <<mounted, fds, volumes, call, outside, held>>

Closedir(d) ==
  /\ mounted
  /\ dirs[d] # Free
  /\ IF dirs[d].kind = "link" THEN InnerClose(dirs[d].fs, dirs[d].token)
                              ELSE UNCHANGED outside
  /\ dirs' = [dirs EXCEPT ![d] = Free]
  /\ listed' = [listed EXCEPT ![d] = <<>>]
  /\ Done("OK")
  /\ UNCHANGED <<mounted, fds, volumes, call, held>>

-----------------------------------------------------------------------------
Init ==
  /\ mounted = FALSE
  /\ fds = [s \in Slots |-> Free]
  /\ volumes = [i \in Volumes |-> NoFs]
  /\ dirs = [d \in DirIds |-> Free]
  /\ call = Idle
  /\ ret = Result("OK", <<>>)
  /\ live = Mounted
  /\ inner = [f \in Mounted |-> {}]
  /\ held = {}
  /\ listed = [d \in DirIds |-> <<>>]

Call ==
  \/ Mount
  \/ \E i \in 0..MaxVolumes, f \in Mounted \cup {NoFs, Self} : SetVolume(i, f)
  \/ \E p \in Paths :
       \/ \E flags \in SUBSET {"Write", "NoFollow"} : Open(p, flags)
       \/ ModifyPath(p)
       \/ \E q \in Paths : Rename(p, q)
       \/ Stat(p)
       \/ Opendir(p)
  \/ \E h \in AnyHandle :
       \/ Close(h)
       \/ \E n \in Sizes : Read(h, n)
       \/ \E origin \in {"Start", "Current", "End"}, offset \in -1..MediaSize :
            Seek(h, origin, offset)
       \/ \E err \in {"OK", "ReadOnly", "NotFound", "NotSupported"} : Query(h, err)
  \/ \E d \in DirIds : Readdir(d) \/ Rewinddir(d) \/ Closedir(d)

Next ==
  \/ call.kind = "idle" /\ Call
  \/ ReadStep

\* A read() that has begun keeps going: nothing else runs until it returns.
Spec     == Init /\ [][Next]_vars
FairSpec == Spec /\ WF_vars(ReadStep)
-----------------------------------------------------------------------------
(***************************************************************************)
(* Properties.                                                             *)
(***************************************************************************)
FileDescs == [kind : {"file"}, obj : Objects, size : Nat, cursor : Nat]
LinkDescs == [kind : {"link"}, fs : Mounted, token : Tokens]
DirDescs  == [kind : {"dir"}, obj : Objects, child : Nat]
Calls     == [kind : {"read"}, slot : Slots, size : Nat, child : Nat \ {0},
              start : Nat, bytes : Seq(Nat)]

\* The type invariant.  A read() in progress works on a descriptor of a file
\* of this volume, which therefore stays allocated while the loop runs.
TypeOK ==
  /\ mounted \in BOOLEAN
  /\ fds \in [Slots -> {Free} \cup FileDescs \cup LinkDescs]
  /\ volumes \in [Volumes -> Mounted \cup {NoFs}]
  /\ dirs \in [DirIds -> {Free} \cup DirDescs \cup LinkDescs]
  /\ call \in {Idle} \cup Calls
  /\ call.kind = "read" => fds[call.slot].kind = "file"
  /\ live \subseteq Mounted
  /\ inner \in [Mounted -> SUBSET Tokens]
  /\ held \subseteq Handles

\* Descriptors do not leak and are not lost: one is allocated exactly when an
\* application holds its handle, whichever way open() ended.
DescriptorsOwned ==
  \A s \in Slots : Allocated(s) <=> HandleMin + s \in held

\* Whether x, a descriptor or directory object, stands for handle t of file system f.
Refers(x, f, t) == x.kind = "link" /\ x.fs = f /\ x.token = t

\* A handle of a file system behind a mount point is open there exactly while
\* one descriptor or one directory object of this file system stands for it:
\* closing the outer handle closes the inner one, and no two share one.
InnerHandlesOwned ==
  \A f \in live, t \in Tokens :
    /\ t \in inner[f] <=> \/ \E s \in Slots : Refers(fds[s], f, t)
                          \/ \E d \in DirIds : Refers(dirs[d], f, t)
    /\ \A s1, s2 \in Slots : Refers(fds[s1], f, t) /\ Refers(fds[s2], f, t) => s1 = s2
    /\ \A d1, d2 \in DirIds : Refers(dirs[d1], f, t) /\ Refers(dirs[d2], f, t) => d1 = d2
    /\ \A s \in Slots, d \in DirIds : ~(Refers(fds[s], f, t) /\ Refers(dirs[d], f, t))

\* Neither an open descriptor nor an open directory holds a pointer to a file
\* system that setVolume() has deleted.  The code does not see to it, and it fails.
NoDanglingFileSystem == \A f \in Mounted : InUse(f) => f \in live

\* open() records the total size of the file's data objects.
SizeIsTotal ==
  \A s \in Slots : fds[s].kind = "file" => fds[s].size = DataSize(fds[s].obj)

\* readdir() has produced the named entries before the cursor, each once and in
\* child table order, whatever entries of other kinds stand between them.
ListingInOrder ==
  \A d \in DirIds :
    dirs[d].kind = "dir" =>
      listed[d] = NamesUpTo(dirs[d].obj, dirs[d].child - 1)

\* What read() returns is the file's data from the cursor on, reassembled from
\* its data objects, and as much of it as was asked for and is there.
ReadReturnsContent ==
  [][ call.kind = "read" /\ call'.kind = "idle" /\ ret'.err = "OK" =>
        LET d    == fds'[call.slot]
            n    == Len(ret'.bytes)
            from == d.cursor - n
        IN  /\ ret'.bytes = SubSeq(Content(d.obj), from + 1, from + n)
            /\ n = Least(call.size, Len(Content(d.obj)) - from) ]_vars

\* Whether a place in a file's data is in its first data object, or at its end.
InFirstObject(o, from) ==
  \E i \in 0..Len(Table(o)) :
    /\ \A j \in 1..(i - 1) : Table(o)[j].kind # "data"
    /\ from <= SizeUpTo(o, i)

\* A read() that begins in the first data object, or at its end, returns the
\* file's data however many data objects the file has: each further object is
\* then entered at its first byte.
ReadFromFirstObject ==
  [][ call.kind = "read" /\ call'.kind = "idle" /\ ret'.err = "OK" =>
        LET d    == fds'[call.slot]
            n    == Len(ret'.bytes)
            from == d.cursor - n
        IN  InFirstObject(d.obj, from) =>
              /\ ret'.bytes = SubSeq(Content(d.obj), from + 1, from + n)
              /\ n = Least(call.size, Len(Content(d.obj)) - from) ]_vars

\* Every read() returns.
ReadReturns == call.kind = "read" ~> call.kind = "idle"

(***************************************************************************)
(* With one data object per file this file system implements ReadStore: a  *)
(* handle's position is the descriptor's cursor, as it was when the call   *)
(* in progress began.  Handles of other file systems promise nothing here. *)
(***************************************************************************)
CONSTANT Closed

ASSUME ClosedAssumption == Closed \notin [obj : Objects, pos : Int]

StoreTab ==
  [h \in Handles |->
     LET d == fds[h - HandleMin] IN
     IF d.kind # "file" THEN Closed
     ELSE [obj |-> d.obj,
           pos |-> IF call.kind = "read" /\ call.slot = h - HandleMin
                   THEN d.cursor - Len(call.bytes) ELSE d.cursor]]

Store == INSTANCE ReadStore WITH
  ContentOf <- [o \in Objects |-> Content(o)],
  MaxSize   <- WordSize,
  tab       <- StoreTab,
  data      <- ret.bytes

StoreSpec == Store!Spec
=============================================================================
