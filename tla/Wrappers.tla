------------------------------ MODULE Wrappers ------------------------------
(***************************************************************************)
(* IFS::FileSystem, File, Directory and FileDevice: the calls with which   *)
(* an application uses a file system, over that of the host (HostFs).      *)
(*                                                                         *)
(* A call that makes several calls of the file system is in `call` while   *)
(* it is made; between any two of them other programs of the host may      *)
(* create, change and remove files.  One that makes a single call, or      *)
(* calls that only concern its own handle, is one action.                  *)
(***************************************************************************)
EXTENDS HostFs

CONSTANTS
  Files,        \* File objects
  Dirs,         \* Directory objects
  Scopes,       \* [uses, rooted, tree]: sets of calls an application may make, and where
  Requests,     \* the calls made in several steps, with their arguments
  FlagSets,     \* the combinations of open flags in use
  Contents,     \* what is written by handle, and by other programs, as sequences of blocks
  Offsets,      \* where a file is read, written or truncated by handle
  Erased,       \* the content of an erased block
  BufSize,      \* blocks in the buffers of readContent() and erase_range()
  MaxString     \* getContent() reads files smaller than this only

VARIABLES
  uses,         \* the calls in use
  files,        \* [Files -> handle, negative if there is none]
  mine,         \* handles that the application holds itself
  dirs,         \* Directory objects
  device,       \* a FileDevice: its handle and size
  steady        \* [Dirs -> whether the directory was left alone since rewinding, since opening it]

vars == <<hostVars, uses, files, mine, dirs, device, steady>>
objects == <<files, mine, dirs, device>>

NoDevice == [h |-> -1, size |-> 0]
ClosedDir == [stream |-> 0, path |-> <<>>, index |-> -1, max |-> -1, total |-> 0, listed |-> <<>>, reused |-> FALSE]

UserError == -100

\* Where a call of several steps starts.
Start(fn) ==
  IF fn \in {"readContent", "readContentSize"} THEN "read" ELSE IF fn = "stat" THEN "stat" ELSE "begin"

HandleCalls == {"readContent", "readContentSize", "fileGetContent", "eof", "fsetxattr", "setacl", "fstat",
                "fenumxattr"}
DeviceCalls == {"deviceRead", "deviceWrite", "deviceErase"}

\* What a file may hold.
IsContent(data) == data \in Seq(Blocks) /\ Len(data) <= MaxBlocks

ASSUME WrappersAssumption ==
  /\ \A r \in Requests :
       /\ r = [x \in DOMAIN NoCall |-> r[x]]
       /\ r.at = Start(r.fn) /\ r.fd = -1 /\ ~r.fault /\ ~r.foreign
       /\ r.n \in Int /\ r.data \in Seq(Blocks) /\ r.got = <<>>
       /\ r.fn \in DeviceCalls => r.n \in Nat /\ r.data # <<>>
       /\ r.fn = "makedirs" => r.n = 0
  /\ BufSize \in Nat \ {0} /\ Offsets \subseteq Int /\ Erased \in Blocks
  /\ \A data \in Contents : IsContent(data)
  /\ \A scope \in Scopes : \A p \in DOMAIN scope.tree :
       /\ scope.tree[p].node \in Nodes /\ scope.tree[p].kind \in {"File", "Directory"}
       /\ IsContent(scope.tree[p].data)

Held  == {files[f] : f \in Files} \cup mine
Ready == call = NoCall
May(fn) == Ready /\ fn \in uses

\* A call that is over at once.
Done(o) == os' = o.os /\ UNCHANGED call

Init ==
  \E scope \in Scopes :
    /\ uses = scope.uses
    /\ rooted = scope.rooted
    /\ mounted = ~scope.rooted
    /\ os = [names |-> [p \in Paths |-> IF p \in DOMAIN scope.tree THEN scope.tree[p].node ELSE 0],
             nodes |-> [n \in Nodes |->
               IF \E p \in DOMAIN scope.tree : scope.tree[p].node = n
               THEN [New((CHOOSE x \in Range(scope.tree) : x.node = n).kind)
                       EXCEPT !.data = (CHOOSE x \in Range(scope.tree) : x.node = n).data]
               ELSE Free],
             fds |-> [d \in Fds |-> ClosedFd],
             streams |-> [d \in Streams |-> NoStream]]
    /\ call = NoCall
    /\ files = [f \in Files |-> -1]
    /\ mine = {}
    /\ dirs = [d \in Dirs |-> ClosedDir]
    /\ device = NoDevice
    /\ steady = [d \in Dirs |-> [listing |-> FALSE, totals |-> FALSE]]

Contained(s, p) == [n \in Range(Listing(s, p)) |-> Len(s.nodes[Node(s, p \o <<n>>)].data)]

\* A directory was left alone if it has the same files of the same sizes, and no call failed.
Watch ==
  steady' = [d \in Dirs |->
    IF ~call'.fault /\ Contained(os', dirs[d].path) = Contained(os, dirs[d].path)
    THEN steady[d] ELSE [listing |-> FALSE, totals |-> FALSE]]

Mount ==
  /\ May("mount")
  /\ \E o \in HostMount : Done(o) /\ mounted' = (mounted \/ o.ret = FS_OK)
  /\ UNCHANGED <<rooted, uses, objects>>
  /\ Watch

-----------------------------------------------------------------------------
(* FileSystem: calls by name, in several steps. *)

GetSizeByName ==
  \/ Opening("getSize", {"Read"}, "end", FALSE)
  \/ /\ At("getSize", "end")
     /\ \E o \in HostSeek(os, call.fd, 0, "End") :
          Take(o, "close", [call EXCEPT !.ret = IF o.ret > 0 THEN o.ret ELSE 0])

\* (mutation: the file stays open if it cannot be truncated)
TruncateLeaves ==
  \/ Opening("truncate", {"Write"}, "cut", TRUE)
  \/ /\ At("truncate", "cut")
     /\ \E o \in HostTruncate(os, call.fd, call.n) :
          Take(o, IF o.ret < 0 THEN "return" ELSE "close", [call EXCEPT !.ret = o.ret])

TruncateByName ==
  \/ Opening("truncate", {"Write"}, "cut", TRUE)
  \/ /\ At("truncate", "cut")
     /\ \E o \in HostTruncate(os, call.fd, call.n) : Take(o, "close", [call EXCEPT !.ret = o.ret])

SetContent ==
  \/ Opening("setContent", {"Create", "Truncate", "Write"}, "write", TRUE)
  \/ /\ At("setContent", "write")
     /\ \E o \in HostWrite(os, call.fd, call.data) : Take(o, "close", [call EXCEPT !.ret = o.ret])

\* getContent() into a String, which is not valid if the file cannot be read, or is too
\* large, and to a buffer of call.n blocks.
GetContent ==
  \/ Opening("getContent", {"Read"}, "end", FALSE)
  \/ /\ At("getContent", "end")
     /\ \E o \in HostSeek(os, call.fd, 0, "End") :
          IF o.ret = 0 THEN Take(o, "close", [call EXCEPT !.got = <<>>, !.ret = 1])
          ELSE IF o.ret < 0 \/ o.ret >= MaxString THEN Take(o, "close", [call EXCEPT !.ret = 0])
          ELSE \E start \in HostSeek(o.os, call.fd, 0, "Start") :
                 Take(start, "read", [call EXCEPT !.n = o.ret])
  \/ /\ At("getContent", "read")
     /\ \E o \in HostRead(os, call.fd, call.n) :
          Take(o, "close", [call EXCEPT !.ret = IF o.ret = call.n THEN 1 ELSE 0,
                                        !.got = IF o.ret = call.n THEN o.data ELSE <<>>])

GetContentBuffer ==
  \/ Opening("getContentBuffer", {"Read"}, "end", FALSE)
  \/ /\ At("getContentBuffer", "end")
     /\ \E o \in HostSeek(os, call.fd, 0, "End") :
          IF o.ret <= 0 \/ o.ret > call.n THEN Take(o, "close", [call EXCEPT !.ret = 0])
          ELSE \E start \in HostSeek(o.os, call.fd, 0, "Start") :
                 Take(start, "read", [call EXCEPT !.n = o.ret])
  \/ /\ At("getContentBuffer", "read")
     /\ \E o \in HostRead(os, call.fd, call.n) :
          Take(o, "close", [call EXCEPT !.ret = IF o.ret = call.n THEN call.n ELSE 0,
                                        !.got = IF o.ret = call.n THEN o.data ELSE <<>>])

\* (mutations: a block that is not full is taken for the end; the end is not noticed)
ReadingFull(fn, size, next) ==
  /\ At(fn, "read")
  /\ \E o \in HostRead(os, call.h, size) :
       IF o.ret < 0 THEN Take(o, next, [call EXCEPT !.ret = o.ret])
       ELSE IF o.ret < size THEN Take(o, next, [call EXCEPT !.ret = Len(call.got)])
       ELSE Take(o, "read", [call EXCEPT !.got = @ \o o.data])

ReadingOn(fn, size, next) ==
  /\ At(fn, "read")
  /\ \E o \in HostRead(os, call.h, size) :
       IF o.ret < 0 THEN Take(o, next, [call EXCEPT !.ret = o.ret])
       ELSE Take(o, "read", [call EXCEPT !.got = @ \o o.data])

\* readContent(): a block is read and given to the callback, which may end it with an
\* error of its own; one that takes less than it is given is not told from one that
\* takes all.
Reading(fn, size, next) ==
  /\ At(fn, "read")
  /\ \E o \in HostRead(os, call.h, size) :
       IF o.ret < 0 THEN Take(o, next, [call EXCEPT !.ret = o.ret])
       ELSE IF o.ret = 0 THEN Take(o, next, [call EXCEPT !.ret = Len(call.got)])
       ELSE \/ Take(o, "read", [call EXCEPT !.got = @ \o o.data])
            \/ Take(o, next, [call EXCEPT !.got = @ \o o.data, !.ret = UserError])

ReadContentSize ==
  LET left == call.n - Len(call.got)
  IN  \/ left > 0 /\ Reading("readContentSize", Min({left, BufSize}), "return")
      \/ At("readContentSize", "read") /\ left = 0 /\ Return(Out(os, 0), call.n)

ReadContent == Reading("readContent", BufSize, "return")

ReadContentByName ==
  \/ /\ At("readContentByName", "begin")
     /\ \E o \in HostOpen(os, call.path, {"Read"}) :
          IF o.ret < 0 THEN Return(o, o.ret)
          ELSE Take(o, "read", [call EXCEPT !.fd = o.ret, !.h = o.ret])
  \/ Reading("readContentByName", BufSize, "close")

\* A directory is made at each separator, of which one at the start ends the search;
\* call.n parts were made.
Makedirs ==
  \/ /\ At("makedirs", "begin")
     /\ IF call.n + 1 = Len(call.path) \/ call.path[1] = "" THEN Return(Out(os, 0), FS_OK)
        ELSE \E o \in HostMkdir(os, SubSeq(call.path, 1, call.n + 1)) :
               IF o.ret < 0 THEN Return(o, o.ret) ELSE Take(o, "begin", [call EXCEPT !.n = @ + 1])

-----------------------------------------------------------------------------
(* File: a handle and its calls. *)

\* The old handle is closed first, whatever becomes of it.
FileOpen(f) ==
  /\ May("open")
  /\ \E r \in Requests, flags \in FlagSets : r.fn = "open" /\
       \E closed \in HostClose(os, files[f]) :
         \E o \in HostOpen(closed.os, r.path, flags) :
           Done(o) /\ files' = [files EXCEPT ![f] = o.ret]
  /\ UNCHANGED <<rooted, mounted, uses, mine, dirs, device>>
  /\ Watch

FileClose(f) ==
  /\ May("open") /\ files[f] >= 0
  /\ \E o \in HostClose(os, files[f]) : Done(o)
  /\ files' = [files EXCEPT ![f] = -1]
  /\ UNCHANGED <<rooted, mounted, uses, mine, dirs, device>>
  /\ Watch

\* The handle goes to the application, which closes it.
FileRelease(f) ==
  /\ May("release") /\ files[f] >= 0
  /\ mine' = mine \cup {files[f]}
  /\ files' = [files EXCEPT ![f] = -1]
  /\ UNCHANGED <<hostVars, uses, dirs, device>>
  /\ Watch

CloseMine(h) ==
  /\ May("release") /\ h \in mine
  /\ \E o \in HostClose(os, h) : Done(o)
  /\ mine' = mine \ {h}
  /\ UNCHANGED <<rooted, mounted, uses, files, dirs, device>>
  /\ Watch

\* Reading, writing, seeking and truncating by handle, also by one that is not open.
Transfer(h) ==
  /\ May("transfer")
  /\ \/ \E o \in HostRead(os, h, 1) : Done(o)
     \/ \E data \in Contents : \E o \in HostWrite(os, h, data) : Done(o)
     \/ \E n \in Offsets : \E o \in HostSeek(os, h, n, "Start") : Done(o)
     \/ \E n \in Offsets : \E o \in HostTruncate(os, h, n) : Done(o)
     \/ \E at \in HostSeek(os, h, 0, "Current") :        \* ftruncate() at the cursor
          IF at.ret < 0 THEN Done(at) ELSE \E o \in HostTruncate(os, h, at.ret) : Done(o)
  /\ UNCHANGED <<rooted, mounted, uses, objects>>
  /\ Watch

\* (mutation: the cursor stays at the end)
SizeAndStay(s, h) ==
  {[end EXCEPT !.ret = IF @ > 0 THEN @ ELSE 0] : end \in HostSeek(s, h, 0, "End")}

\* The size by handle: to the end and back.
SizeOf(s, h) ==
  UNION { UNION { {[os |-> back.os, ret |-> IF end.ret > 0 THEN end.ret ELSE 0, fault |-> FALSE]
                     : back \in HostSeek(end.os, h, at.ret, "Start")}
                  : end \in HostSeek(s, h, 0, "End") }
          : at \in HostSeek(s, h, 0, "Current") }

\* File::getContent(): the size of the file is read from where the cursor is, and fewer
\* blocks are an error.
FileGetContent ==
  \/ /\ At("fileGetContent", "begin")
     /\ \E o \in SizeOf(os, call.h) : Take(o, "read", [call EXCEPT !.n = o.ret])
  \/ /\ At("fileGetContent", "read")
     /\ \E o \in HostRead(os, call.h, call.n) :
          Take(o, "return", [call EXCEPT !.ret = IF o.ret = call.n THEN 1 ELSE 0,
                                         !.got = IF o.ret = call.n THEN o.data ELSE <<>>])

\* eof() is true for an error.
FileEof ==
  /\ At("eof", "begin")
  /\ \E e \in HostEof(os, call.h) : Return(Out(os, 0), IF e # FS_OK THEN 1 ELSE 0)

\* Attributes by handle; setacl() sets two, whatever comes of the first, and returns the
\* lesser result.
Fsetxattr ==
  /\ At("fsetxattr", "begin")
  /\ \E o \in HostFsetxattr(os, call.h, call.tag, call.attr) : Return(o, o.ret)

\* (mutation: what the second returns is returned)
SetaclLast ==
  \/ /\ At("setacl", "begin")
     /\ \E o \in HostFsetxattr(os, call.h, "ReadAce", call.attr) : Take(o, "second", call)
  \/ /\ At("setacl", "second")
     /\ \E o \in HostFsetxattr(os, call.h, "WriteAce", call.attr) : Return(o, o.ret)

Setacl ==
  \/ /\ At("setacl", "begin")
     /\ \E o \in HostFsetxattr(os, call.h, "ReadAce", call.attr) : Take(o, "second", [call EXCEPT !.ret = o.ret])
  \/ /\ At("setacl", "second")
     /\ \E o \in HostFsetxattr(os, call.h, "WriteAce", call.attr) :
          Return(o, IF o.ret < call.ret THEN o.ret ELSE call.ret)

Fstat ==
  /\ At("fstat", "begin")
  /\ \E o \in HostFstat(os, call.h) : Take(o, "return", [call EXCEPT !.ret = o.ret, !.stat = o.stat])

-----------------------------------------------------------------------------
(* Directory: an enumeration that counts, and can be rewound. *)

\* The new directory is opened before the old one is closed; the counts are kept, so that
\* they grow without end: an object that has counted is opened anew once, which is a bound.
DirOpen(d) ==
  /\ May("next") /\ ~dirs[d].reused
  /\ \E r \in Requests : r.fn = "next" /\
       \E o \in HostOpendir(os, r.path) :
         IF o.ret < 0 THEN Done(o) /\ UNCHANGED dirs
         ELSE /\ IF dirs[d].stream = 0 THEN Done(o)
                 ELSE \E closed \in HostClosedir(o.os, dirs[d].stream) : Done(closed)
              /\ dirs' = [dirs EXCEPT ![d].stream = o.ret, ![d].path = ResolvePath(r.path),
                                      ![d].listed = <<>>, ![d].reused = (dirs[d].max >= 0)]
  /\ steady' = [steady EXCEPT ![d] = IF dirs' = dirs THEN @ ELSE [listing |-> TRUE, totals |-> TRUE]]
  /\ UNCHANGED <<rooted, mounted, uses, files, mine, device>>

DirClose(d) ==
  /\ May("next") /\ dirs[d].stream # 0
  /\ \E o \in HostClosedir(os, dirs[d].stream) : Done(o)
  /\ dirs' = [dirs EXCEPT ![d].stream = 0]
  /\ UNCHANGED <<rooted, mounted, uses, files, mine, device>>
  /\ Watch

DirRewind(d) ==
  /\ May("next")
  /\ \E o \in HostRewinddir(os, dirs[d].stream) : Done(o)
  /\ dirs' = [dirs EXCEPT ![d].index = -1, ![d].listed = <<>>]
  /\ steady' = [steady EXCEPT ![d].listing = TRUE]
  /\ UNCHANGED <<rooted, mounted, uses, files, mine, device>>

DirNext(d) ==
  /\ May("next")
  /\ call' = [NoCall EXCEPT !.fn = "next", !.h = dirs[d].stream, !.tag = d]
  /\ UNCHANGED <<os, rooted, mounted, uses, objects>>
  /\ Watch

\* (mutations: the size is added each time; the greatest index is not kept)
CountedAgain(dir, stat) ==
  LET i == dir.index + 1
  IN  [dir EXCEPT !.index = i, !.listed = Append(@, stat.name), !.max = IF i > @ THEN i ELSE @, !.total = @ + stat.size]
CountedOnly(dir, stat) ==
  [dir EXCEPT !.index = @ + 1, !.listed = Append(@, stat.name), !.total = @ + stat.size]

\* next() counts an entry that it has not counted before it was rewound.
Counted(dir, stat) ==
  LET i == dir.index + 1
  IN  [dir EXCEPT !.index = i, !.listed = Append(@, stat.name),
                  !.max = IF i > @ THEN i ELSE @, !.total = IF i > dir.max THEN @ + stat.size ELSE @]

-----------------------------------------------------------------------------
(* FileDevice: a storage device on an open file, which it closes at the end. *)

\* The device has whole blocks of BufSize; how the file was opened is left to the application.
DeviceOpen(f) ==
  /\ May("deviceRead") /\ device = NoDevice /\ files[f] >= 0
  /\ \E o \in SizeOf(os, files[f]) :
       /\ Done(o)
       /\ device' = [h |-> files[f], size |-> ((o.ret + BufSize - 1) \div BufSize) * BufSize]
  /\ files' = [files EXCEPT ![f] = -1]
  /\ UNCHANGED <<rooted, mounted, uses, mine, dirs>>
  /\ Watch

DeviceClose ==
  /\ May("deviceRead") /\ device # NoDevice
  /\ \E o \in HostClose(os, device.h) : Done(o)
  /\ device' = NoDevice
  /\ UNCHANGED <<rooted, mounted, uses, files, mine, dirs>>
  /\ Watch

\* Reading, writing and erasing call.h.., at call.n: the position is checked, and all of
\* it has to be transferred.
DeviceRead ==
  /\ At("deviceRead", "begin")
  /\ \E at \in HostSeek(os, call.h, call.n, "Start") :
       IF at.ret # call.n THEN Return(at, 0)
       ELSE \E o \in HostRead(at.os, call.h, Len(call.data)) :
              Take(o, "return", [call EXCEPT !.got = o.data, !.ret = IF o.ret = Len(call.data) THEN 1 ELSE 0])

DeviceWrite ==
  /\ At("deviceWrite", "begin")
  /\ \E at \in HostSeek(os, call.h, call.n, "Start") :
       IF at.ret # call.n THEN Return(at, 0)
       ELSE \E o \in HostWrite(at.os, call.h, call.data) : Return(o, IF o.ret = Len(call.data) THEN 1 ELSE 0)

\* (mutation: the buffer is written in full, also at the end of the range)
WholeBuffer(left) == BufSize

EraseLength(left) == Min({left, BufSize})

DeviceErase ==
  \/ /\ At("deviceErase", "begin")
     /\ \E at \in HostSeek(os, call.h, call.n, "Start") :
          IF at.ret # call.n THEN Return(at, 0) ELSE Take(at, "erase", [call EXCEPT !.got = call.data])
  \/ /\ At("deviceErase", "erase")
     /\ LET some == [i \in 1..EraseLength(Len(call.got)) |-> Erased]
        IN  IF call.got = <<>> THEN Return(Out(os, 0), 1)
            ELSE \E o \in HostWrite(os, call.h, some) :
                   IF o.ret # Len(some) THEN Return(o, 0)
                   ELSE Take(o, "erase", [call EXCEPT !.got = SubSeq(@, Len(some) + 1, Len(@))])

-----------------------------------------------------------------------------
(* A call that is made, and other programs. *)

ContentAt(path) == LET n == Node(os, ResolvePath(path)) IN IF n = 0 THEN <<>> ELSE os.nodes[n].data

Begin ==
  /\ Ready
  /\ \E r \in Requests :
       /\ r.fn \in uses \ {"open", "next", "mkdir", "remove", "rename"}
       /\ r.fn \in DeviceCalls => device # NoDevice /\ r.n + Len(r.data) <= device.size
       /\ IF r.fn \in HandleCalls THEN \E h \in Held : call' = [r EXCEPT !.h = h]
          ELSE IF r.fn \in DeviceCalls
          THEN call' = [r EXCEPT !.h = device.h, !.before = ContentOf(os, device.h)]
          ELSE call' = [r EXCEPT !.before = ContentAt(r.path)]
  /\ UNCHANGED <<os, rooted, mounted, uses, objects>>
  /\ Watch

MakeDirectory ==
  /\ \E r \in Requests : r.fn = "mkdir" /\ May(r.fn) /\ \E o \in HostMkdir(os, r.path) : Done(o)
  /\ UNCHANGED <<rooted, mounted, uses, objects>>
  /\ Watch

RemovePath ==
  /\ \E r \in Requests : r.fn = "remove" /\ May(r.fn) /\ \E o \in HostRemove(os, r.path) : Done(o)
  /\ UNCHANGED <<rooted, mounted, uses, objects>>
  /\ Watch

RenamePath ==
  /\ \E r \in Requests : r.fn = "rename" /\ May(r.fn) /\ \E o \in HostRename(os, r.path, r.to) : Done(o)
  /\ UNCHANGED <<rooted, mounted, uses, objects>>
  /\ Watch

Step ==
  /\ \/ GetSizeByName \/ TruncateByName \/ SetContent \/ GetContent \/ GetContentBuffer
     \/ ReadContent \/ ReadContentSize \/ ReadContentByName \/ Makedirs
     \/ FileGetContent \/ FileEof \/ Fsetxattr \/ Setacl \/ Fstat
     \/ DeviceRead \/ DeviceWrite \/ DeviceErase
     \/ Stat \/ Setxattr \/ Getxattr \/ Fenumxattr \/ Readdir("next") \/ Closing
  /\ UNCHANGED <<rooted, mounted, uses, objects>>
  /\ Watch

Finish ==
  /\ call.at = "return"
  /\ call' = NoCall
  /\ dirs' = IF call.fn = "next" /\ call.ret = FS_OK THEN [dirs EXCEPT ![call.tag] = Counted(@, call.stat)] ELSE dirs
  /\ UNCHANGED <<os, rooted, mounted, uses, files, mine, device>>
  /\ Watch

\* Another program of the host creates a file, changes, protects or removes one, or gives
\* it an attribute that the library does not know: once in each call, which is a bound.
OtherAttr == [value |-> "other", size |-> 1]

Foreign ==
  /\ ~Ready /\ ~call.foreign
  /\ \E p \in Paths \ {<<>>} :
       LET n == os.names[p]
       IN  \/ "others create" \in uses /\ n = 0 /\ NoParent(os, p) = {} /\ Spare(os) # {} /\ os' = Make(os, p, "File")
           \/ "others remove" \in uses /\ n # 0 /\ \E o \in OsRemove(os, p) : os' = o.os
           \/ /\ "others write" \in uses /\ n # 0 /\ os.nodes[n].kind = "File"
              /\ \E data \in Contents : os' = Store(os, n, data)
           \/ "others protect" \in uses /\ n # 0 /\ os' = [os EXCEPT !.nodes[n].writable = ~@]
           \/ /\ "others tag" \in uses /\ n # 0
              /\ \E t \in Tags \ DOMAIN AttrSize : os' = [os EXCEPT !.nodes[n].attrs[t] = OtherAttr]
  /\ call' = [call EXCEPT !.foreign = TRUE, !.before = <<>>]
  /\ UNCHANGED <<rooted, mounted, uses, objects>>
  /\ Watch

Next ==
  \/ Mount \/ Begin \/ Step \/ Finish \/ Foreign
  \/ MakeDirectory \/ RemovePath \/ RenamePath \/ DeviceClose
  \/ \E f \in Files : FileOpen(f) \/ FileClose(f) \/ FileRelease(f) \/ DeviceOpen(f)
  \/ \E h \in Held : Transfer(h) \/ CloseMine(h)
  \/ \E d \in Dirs : DirOpen(d) \/ DirClose(d) \/ DirNext(d) \/ DirRewind(d)

\* An application that has made a call goes on with it; that it ends must not be owed to a
\* failure of the media, which nothing makes happen.
GoesOn == (Step /\ call'.fault = call.fault) \/ Finish

Spec == Init /\ [][Next]_vars /\ WF_vars(GoesOn)

-----------------------------------------------------------------------------
(* Properties. *)

Returned(fns) == call.at = "return" /\ call.fn \in fns

\* Values have the types of the code: a handle is a descriptor or an error, and what
\* leads to a file leads to one that exists.
TypeOK ==
  /\ \A p \in Paths : os.names[p] # 0 => os.nodes[os.names[p]].kind # "Free"
  /\ \A d \in Fds : os.fds[d] # ClosedFd => os.nodes[os.fds[d].node].kind # "Free" /\ os.fds[d].pos \in Nat
  /\ \A n \in Nodes : os.nodes[n].kind \in {"Free", "File", "Directory"} /\ Len(os.nodes[n].data) <= MaxBlocks
  /\ \A f \in Files : files[f] < 0 \/ files[f] \in Fds
  /\ mine \subseteq Fds
  /\ \A d \in Dirs : dirs[d].stream \in Streams \cup {0} /\ dirs[d].index <= dirs[d].max /\ dirs[d].total \in Nat

\* Whatever call fails: each descriptor that is open belongs to one File, FileDevice, call
\* in progress or to the application, and each DIR to one Directory (File::open, close,
\* release; the ends of the calls by name; Directory::open, close).
HandlesOwned ==
  /\ \A h \in Fds :
       LET owners == {<<"file", f>> : f \in {g \in Files : files[g] = h}} \cup
                     {<<"mine", h>> : x \in mine \cap {h}} \cup
                     {<<"device", h>> : x \in {device.h} \cap {h}} \cup
                     {<<"call", h>> : x \in {call.fd} \cap {h}}
       IN  Cardinality(owners) = IF os.fds[h] = ClosedFd THEN 0 ELSE 1
  /\ \A t \in Streams :
       Cardinality({d \in Dirs : dirs[d].stream = t}) = IF os.streams[t] = NoStream THEN 0 ELSE 1

\* A reason for open() to fail that is not one of the media.
Unavailable == ~mounted \/ \A h \in Fds : os.fds[h] # ClosedFd

\* When no other program interferes, what the calls that read a file give is what the
\* file holds.  By name it is all of it, and the call fails only if the file or a
\* descriptor is missing, the file is too large, or a call of the host fails.  By handle it
\* is what lies between the cursor of the call and that of its return, which is at the end
\* of the file unless the call was of a size or failed, and eof() tells that end.  Nothing
\* is said of when File::getContent() succeeds: it wants as much as the whole file holds
\* from wherever the cursor is, so that it fails unless that is at the start (File.h:358
\* says "from current position").  The callback of readContent() takes all that it is given
\* or returns an error: one that takes less should stop the call (FileSystem.h:300), which
\* goes on and counts all.
ContentAsStored ==
  /\ Returned({"getContent", "getContentBuffer", "getSize", "readContentByName"}) /\ ~call.foreign =>
       LET n    == Node(os, ResolvePath(call.path))
           data == ContentAt(call.path)
           fine == n # 0 /\ ~call.fault /\ ~Unavailable /\ Len(data) < OffsetRange
       IN  /\ call.fn = "getContent" =>
                /\ call.ret = 1 => call.got = data
                /\ fine /\ Len(data) < MaxString => call.ret = 1
           /\ call.fn = "getContentBuffer" =>
                /\ call.ret > 0 => call.got = data /\ call.ret = Len(data)
                /\ fine /\ Len(data) <= call.n => call.ret = Len(data)
           /\ call.fn = "getSize" => call.ret = IF fine THEN Len(data) ELSE 0
           /\ call.fn = "readContentByName" =>
                /\ call.ret >= 0 => call.got = data /\ call.ret = Len(data)
                /\ fine => call.ret \in {Len(data), UserError}
  /\ Returned({"readContent", "readContentSize", "fileGetContent"}) /\ ~call.foreign /\ Opened(os, call.h) =>
       LET pos == os.fds[call.h].pos
       IN  /\ call.got # <<>> => call.got = SubSeq(ContentOf(os, call.h), pos - Len(call.got) + 1, pos)
           /\ call.fn = "readContent" /\ call.ret >= 0 => pos >= Len(ContentOf(os, call.h)) /\ call.ret = Len(call.got)
           /\ call.fn = "readContentSize" /\ call.ret >= 0 =>
                call.ret = Len(call.got) /\ (call.ret = call.n \/ pos >= Len(ContentOf(os, call.h)))
           /\ call.fn = "fileGetContent" /\ call.ret = 1 /\ Len(ContentOf(os, call.h)) < OffsetRange =>
                pos >= Len(ContentOf(os, call.h))
  /\ Returned({"eof"}) /\ ~call.foreign /\ Opened(os, call.h) /\ os.fds[call.h].pos < OffsetRange =>
       (call.ret = 1) = (~mounted \/ os.fds[call.h].pos >= Len(ContentOf(os, call.h)))

\* setContent() replaces what the file held, or leaves it or nothing when it fails.
SetAsAsked ==
  LET data == ContentAt(call.path)
  IN  IF call.ret < 0 THEN data \in {call.before, <<>>}
      ELSE /\ data = Part(call.data, 1, call.ret)
           /\ call.ret < Len(call.data) => call.fault \/ call.ret = MaxBlocks

\* truncate() cuts or extends the file, or leaves it.
CutAsAsked ==
  ContentAt(call.path) = IF call.ret < 0 THEN call.before
                         ELSE Overwrite(Part(call.before, 1, call.n), call.n, <<>>)

\* Nothing is changed but what lies behind n and not behind last.
Within(before, now, n, last) ==
  /\ Len(now) <= Max({Len(before), last})
  /\ \A i \in 1..Len(before) : i <= n \/ i > last => now[i] = before[i]

\* A device changes nothing outside the range it is given, reads what is there, and has
\* written and erased all of it if it says so; the host reads no directory.
DeviceAsAsked ==
  LET now  == ContentOf(os, call.h)
      desc == os.fds[call.h]
      last == call.n + Len(call.data)
      there == Part(now, call.n + 1, last)
      out   == call.fault \/ call.n >= OffsetRange
  IN  /\ Within(call.before, now, call.n, last)
      /\ call.fn = "deviceRead" =>
           (call.ret = 1 <=> last <= Len(now) /\ ~out /\ desc.read /\ os.nodes[desc.node].kind # "Directory")
      /\ call.fn = "deviceRead" /\ call.ret = 1 => call.got = there
      /\ call.fn = "deviceWrite" /\ call.ret = 1 => there = call.data
      /\ call.fn = "deviceErase" /\ call.ret = 1 => there = [i \in 1..Len(call.data) |-> Erased]
      /\ call.ret = 0 /\ call.fn # "deviceRead" => out \/ ~desc.write \/ last > MaxBlocks

\* When no other program interferes, a change that is said to be made is made, and no
\* more than that, by setContent(), truncate() and a device on a file that is not open for
\* appending; and makedirs() has made each directory on the way.
EffectsAsAsked ==
  call.at = "return" /\ ~call.foreign =>
    /\ call.fn = "setContent" => SetAsAsked
    /\ call.fn = "truncate" => CutAsAsked
    /\ call.fn \in DeviceCalls /\ ~os.fds[call.h].append => DeviceAsAsked
    /\ call.fn = "makedirs" /\ call.ret = FS_OK /\ call.path[1] # "" =>
         \A i \in 1..Len(call.path) - 1 : Kind(os, ResolvePath(SubSeq(call.path, 1, i))) = "Directory"

\* The directory that an enumeration reads is still the one of that path.
Lists(d) == os.streams[dirs[d].stream].dir = Node(os, dirs[d].path)

\* An enumeration gives no entry twice, and each with what it is; and if the directory was
\* left alone since it was opened or rewound, it has given all its entries when it ends.
\* The counts are then those of the directory, however often it was rewound on the way.
ListingAsDirectory ==
  Returned({"next"}) /\ dirs[call.tag].stream # 0 /\ (rooted \/ dirs[call.tag].path # <<>>) =>
    LET d     == call.tag
        names == Range(Listing(os, dirs[d].path))
    IN  /\ call.ret = FS_OK => call.stat.name \notin Range(dirs[d].listed)
        /\ call.ret = FS_OK /\ ~call.foreign /\ Lists(d) =>
             /\ call.stat.name \in names
             /\ call.stat.node = Node(os, dirs[d].path \o <<call.stat.name>>)
        /\ call.ret = NoMoreFiles /\ steady[d].listing /\ Lists(d) => Range(dirs[d].listed) = names
        /\ call.ret = NoMoreFiles /\ steady[d].totals /\ Lists(d) /\ ~dirs[d].reused =>
             /\ dirs[d].max + 1 = Cardinality(names)
             /\ dirs[d].total = MapThenSumSet(LAMBDA n : Contained(os, dirs[d].path)[n], names)

\* When no other program interferes: an attribute that is set without error is stored, and
\* is what a later call gives; a file's information has the attributes stored, in place of
\* what the host knows, unless there was no descriptor to read them with; and an enumeration
\* that is not cut short has each attribute that is stored, known and fits, once.
AttributesAsSet ==
  call.at = "return" /\ ~call.foreign =>
    LET h      == call.h
        node(n) == os.nodes[n]
        target == IF call.fn \in HandleCalls THEN IF Opened(os, h) THEN os.fds[h].node ELSE 0
                  ELSE Node(os, ResolvePath(call.path))
        Stored(tag) == IF tag = "ModifiedTime" THEN node(target).mtime
                       ELSE IF node(target).attrs[tag] = Absent THEN Absent ELSE node(target).attrs[tag].value
        Shown(tag, other) == IF Stored(tag) = Absent THEN other ELSE Stored(tag)
    IN  /\ call.fn \in {"setxattr", "fsetxattr"} /\ call.ret >= 0 => Stored(call.tag) = call.attr.value
        /\ call.fn = "setacl" /\ call.ret >= 0 => {Stored("ReadAce"), Stored("WriteAce")} = {call.attr.value}
        /\ call.fn = "getxattr" /\ call.ret >= 0 => call.got = <<Stored(call.tag)>>
        /\ call.fn \in {"stat", "fstat"} /\ call.ret >= 0 =>
             /\ call.stat.node = target /\ call.stat.mtime = node(target).mtime
             /\ call.stat.size = Len(node(target).data)
             /\ call.fn = "fstat" \/ (~call.fault /\ \E d \in Fds : os.fds[d] = ClosedFd) =>
                  /\ call.stat.readAce = Stored("ReadAce") /\ call.stat.writeAce = Stored("WriteAce")
                  /\ call.stat.attr \ {"Compressed"}
                       = Shown("FileAttributes", FillStat(os, target).attr) \ {"Compressed"}
                  /\ ("Compressed" \in call.stat.attr) = (Shown("Compression", "none") # "none")
        /\ call.fn = "fenumxattr" /\ target # 0 =>
             /\ IsInjective(call.got)
             /\ \A i \in 1..Len(call.got) : Stored(call.got[i]) # Absent
             /\ call.data = <<>> /\ call.got # <<>> =>
                  \A t \in Tags \cap DOMAIN AttrSize :
                    Stored(t) # Absent /\ (call.n = 0 \/ node(target).attrs[t].size <= call.n) => t \in Range(call.got)

\* A call that asks for something changes no file, and moves the cursor of its own handle
\* only; one that asks for the size of an open file puts that back as well.
QueriesChangeNothing ==
  [][Step /\ call.fn \in {"getSize", "getContent", "getContentBuffer", "readContent", "readContentSize",
                           "readContentByName", "fileGetContent", "eof", "fstat", "stat", "getxattr",
                           "fenumxattr", "next", "deviceRead"} =>
       /\ os'.names = os.names
       /\ \A p \in Paths : os.names[p] # 0 => os'.nodes[os.names[p]] = os.nodes[os.names[p]]
       /\ \A h \in Fds \ {call.h, call.fd, call'.fd} : os'.fds[h] = os.fds[h]
       /\ call.at = "begin" /\ Opened(os, call.h) /\ os.fds[call.h].pos < OffsetRange
            /\ call.fn \in {"fileGetContent", "eof", "fstat", "fenumxattr"} => os'.fds[call.h] = os.fds[call.h]]_vars

\* Each call ends, whatever other programs do.
CallEnds == call # NoCall ~> call = NoCall
=============================================================================
