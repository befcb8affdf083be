------------------------------- MODULE HostFs -------------------------------
(***************************************************************************)
(* Host::FileSystem: the interface of a file system on that of the host's  *)
(* operating system (HostOs).                                              *)
(*                                                                         *)
(* A method that makes one call of the host is an operator that gives the  *)
(* set of its outcomes.  One that makes several is an action with a        *)
(* disjunct for each, for other programs may change files between them:    *)
(* `call` is the method in progress.  Results are as in the code: errors   *)
(* are negative, those of the host from -1000 downwards.                   *)
(*                                                                         *)
(* A path is the sequence of its parts: <<"">> is the empty path, and      *)
(* <<"", "a">> is "/a".                                                    *)
(***************************************************************************)
EXTENDS HostOs

CONSTANTS
  OffsetRange,  \* file offsets are signed: they wrap when they reach this
  AttrSize,     \* [Tags -> size of the attribute, 0 if it may have any]
  NoStat        \* no file information

ASSUME OffsetAssumption == OffsetRange \in Nat \ {0}

VARIABLES
  rooted,       \* the file system was constructed with a root path
  mounted,
  call          \* the method in progress

hostVars == <<os, rooted, mounted, call>>

FS_OK == 0
NotMounted    == -5
BadParam      == -8
NotImplemented == -9
NotSupported  == -10
ReadOnlyMedia == -16
InvalidHandle == -20
NoMoreFiles   == -24
TooBig        == -28
SYSTEM        == -1000

SysErr(e) == IF e < 0 THEN SYSTEM + e ELSE e

\* CHECK_MOUNTED, then the host's call with its error translated.
Checked(s, outcomes) ==
  IF mounted THEN {[o EXCEPT !.ret = SysErr(@)] : o \in outcomes} ELSE {Out(s, NotMounted)}

\* Where a path leads, from the directory where the file system is: an absolute path
\* of the host leads elsewhere, which is no path of the model.
ResolvePath(path) ==
  IF rooted \/ path = <<"">> \/ path[1] # "" THEN SelectSeq(path, LAMBDA part : part # "") ELSE path

\* Without Read and without Write a file is opened for reading: O_RDONLY is 0.
MapFlags(flags) ==
  (flags \cap {"Append", "Create", "Truncate"})
  \cup (IF "Write" \in flags THEN flags \cap {"Read", "Write"} ELSE {"Read"})

HostOpen(s, path, flags) == Checked(s, OsOpen(s, ResolvePath(path), MapFlags(flags)))

HostClose(s, h) ==
  IF mounted /\ h < 0 THEN {Out(s, InvalidHandle)} ELSE Checked(s, OsClose(s, h))

HostRead(s, h, size) ==
  IF mounted THEN {[o EXCEPT !.ret = SysErr(@)] : o \in OsRead(s, h, size)}
             ELSE {WithData(Out(s, NotMounted), <<>>)}

HostWrite(s, h, data) == Checked(s, OsWrite(s, h, data))

\* A position beyond the range of an offset comes out negative, and further on as TooBig.
ToOffset(at) ==
  IF at >= 2 * OffsetRange THEN TooBig ELSE IF at >= OffsetRange THEN at - 2 * OffsetRange ELSE at

HostSeek(s, h, offset, origin) ==
  {[o EXCEPT !.ret = IF @ < 0 THEN @ ELSE ToOffset(@)] : o \in Checked(s, OsSeek(s, h, offset, origin))}

\* A position that comes out negative is taken for an error, and errno is what an
\* earlier call left there.
HostEof(s, h) ==
  UNION { IF at.ret >= 0 THEN {IF at.ret >= Len(ContentOf(s, h)) THEN 1 ELSE 0}
          ELSE IF ~mounted THEN {NotMounted}
          ELSE IF Opened(s, h) THEN {FS_OK, SysErr(-EINVAL)} ELSE {SysErr(-EBADF)}
        : at \in HostSeek(s, h, 0, "Current") }

HostTruncate(s, h, size) == Checked(s, OsTruncate(s, h, size))

HostMkdir(s, path)       == Checked(s, OsMkdir(s, ResolvePath(path)))
HostRemove(s, path)      == Checked(s, OsRemove(s, ResolvePath(path)))
HostRename(s, path, to)  == Checked(s, OsRename(s, ResolvePath(path), ResolvePath(to)))

\* The FileDir goes with the DIR pointer: it is given out on success only.
HostOpendir(s, path) ==
  {[o EXCEPT !.os = IF o.ret > 0 THEN [@ EXCEPT !.streams[o.ret].path = path] ELSE @]
     : o \in Checked(s, OsOpendir(s, ResolvePath(path)))}

HostRewinddir(s, d) ==
  IF ~mounted THEN {Out(s, NotMounted)}
  ELSE IF d = 0 THEN {Out(s, InvalidHandle)} ELSE {Out(OsRewinddir(s, d), FS_OK)}

HostClosedir(s, d) ==
  IF ~mounted THEN {Out(s, NotMounted)}
  ELSE IF d = 0 THEN {Out(s, InvalidHandle)} ELSE {Out(OsClosedir(s, d), FS_OK)}

\* Mounting, once the root path was found to be a directory.
HostMount ==
  IF mounted THEN {Out(os, FS_OK)}
  ELSE {[o EXCEPT !.ret = IF @ < 0 THEN SysErr(@) ELSE IF Kind(os, <<>>) # "Directory" THEN BadParam ELSE FS_OK]
          : o \in OsStat(os, <<>>)}

-----------------------------------------------------------------------------
(* Attributes. *)

\* An attribute of fixed size is set with that size only; the time of modification
\* is not an extended attribute of the host.
HostFsetxattr(s, h, tag, attr) ==
  IF ~mounted THEN {Out(s, NotMounted)}
  ELSE IF AttrSize[tag] # 0 /\ attr.size # AttrSize[tag] THEN {Out(s, BadParam)}
  ELSE IF tag # "ModifiedTime" THEN Checked(s, OsSetXAttr(s, h, tag, attr))
  ELSE IF Opened(s, h) THEN {Out([s EXCEPT !.nodes[s.fds[h].node].mtime = attr.value], FS_OK)}
  ELSE {Out(s, SysErr(-EBADF))}

\* The time of modification is that of no file if the handle is not valid.
HostFgetxattr(s, h, tag, size) ==
  IF tag = "ModifiedTime" /\ mounted THEN {Out(s, AttrSize[tag])}
  ELSE Checked(s, OsGetXAttr(s, h, tag, size))

ValueOf(s, h, tag) ==
  LET node == s.nodes[s.fds[h].node] IN IF tag = "ModifiedTime" THEN node.mtime ELSE node.attrs[tag].value

FillStat(s, n) ==
  [node |-> n, size |-> Len(s.nodes[n].data), mtime |-> s.nodes[n].mtime,
   readAce |-> Absent, writeAce |-> Absent, name |-> "",
   attr |-> If(~s.nodes[n].writable, "ReadOnly") \cup If(s.nodes[n].kind = "Directory", "Directory")]

\* The attributes that were set take the place of those of the host's file, and one
\* that cannot be read leaves what is there.
GetExtendedAttributes(s, h, stat) ==
  LET a == s.nodes[s.fds[h].node].attrs
      Or(tag, other) == IF a[tag] = Absent THEN other ELSE a[tag].value
      flags == Or("FileAttributes", stat.attr)
  IN  [stat EXCEPT !.readAce = Or("ReadAce", @), !.writeAce = Or("WriteAce", @),
                   !.attr = (flags \ {"Compressed"}) \cup If(Or("Compression", "none") # "none", "Compressed")]

HostFstat(s, h) ==
  LET With(ret, stat) == [os |-> s, ret |-> ret, fault |-> FALSE, stat |-> stat]
  IN  IF ~mounted THEN {With(NotMounted, NoStat)}
      ELSE IF ~Opened(s, h) THEN {With(SysErr(-EBADF), NoStat)}
      ELSE {With(0, GetExtendedAttributes(s, h, FillStat(s, s.fds[h].node)))}

-----------------------------------------------------------------------------
(* A method in progress: the function, where it is, its arguments, the     *)
(* descriptor it has opened, what it has got so far and what it returns;   *)
(* and whether something has failed, or another program changed something, *)
(* since it began, and what the file held then.                            *)

NoCall ==
  [fn |-> "none", at |-> "begin", path |-> <<>>, to |-> <<>>, h |-> -1, fd |-> -1, n |-> 0, tag |-> "",
   attr |-> Absent, before |-> <<>>, data |-> <<>>, got |-> <<>>, ret |-> 0, stat |-> NoStat,
   fault |-> FALSE, foreign |-> FALSE]

At(fn, at) == call.fn = fn /\ call.at = at

\* The outcome of a call of the host is taken, and the method goes on at a point.
Take(o, at, c) == os' = o.os /\ call' = [c EXCEPT !.at = at, !.fault = @ \/ o.fault]

Return(o, ret) == Take(o, "return", [call EXCEPT !.ret = ret])

\* The error of open() is returned, or 0 by calls that do not tell errors.
Opening(fn, flags, next, told) ==
  /\ At(fn, "begin")
  /\ \E o \in HostOpen(os, call.path, flags) :
       IF o.ret < 0 THEN Return(o, IF told THEN o.ret ELSE 0) ELSE Take(o, next, [call EXCEPT !.fd = o.ret])

\* The end of a method that has opened a file: an error of close() is not looked at.
Closing ==
  /\ call.at = "close"
  /\ \E o \in HostClose(os, call.fd) : Take(o, "return", [call EXCEPT !.fd = -1])

\* stat(): the attributes are read from a descriptor of its own, if one can be had.
\* readdir() and a directory's next() end in it.
Statting(fn) ==
  \/ /\ At(fn, "stat")
     /\ \E o \in Checked(os, OsStat(os, ResolvePath(call.path))) :
          IF o.ret < 0 THEN Return(o, o.ret)
          ELSE Take(o, "statopen",
                    [call EXCEPT !.stat = [FillStat(os, Node(os, ResolvePath(call.path)))
                                             EXCEPT !.name = Last(call.path)]])
  \/ /\ At(fn, "statopen")
     /\ \E o \in OsOpen(os, ResolvePath(call.path), {"Read"}) :
          IF o.ret < 0 THEN Return(o, FS_OK) ELSE Take(o, "xattrs", [call EXCEPT !.fd = o.ret])
  \/ /\ At(fn, "xattrs")
     /\ call' = [call EXCEPT !.stat = GetExtendedAttributes(os, call.fd, @), !.at = "close", !.ret = FS_OK]
     /\ UNCHANGED os

Stat == Statting("stat")

\* readdir(), of which an entry's stat() is a part: the path of the directory and the
\* name are put together, also when the directory's path is empty.
Readdir(fn) ==
  \/ /\ At(fn, "begin")
     /\ IF ~mounted THEN Return(Out(os, 0), NotMounted)
        ELSE IF call.h = 0 THEN Return(Out(os, 0), InvalidHandle)
        ELSE \E o \in OsReaddir(os, call.h) :
               IF o.ret < 0 THEN Return(o, SysErr(o.ret))
               ELSE IF o.name = "" THEN Return(o, NoMoreFiles)
               ELSE Take(o, "stat", [call EXCEPT !.path = os.streams[call.h].path \o <<o.name>>])
  \/ Statting(fn)

Setxattr ==
  \/ /\ At("setxattr", "begin") /\ call.tag = "ModifiedTime"
     /\ LET n == Node(os, ResolvePath(call.path))
        IN  IF ~mounted THEN Return(Out(os, 0), NotMounted)
            ELSE IF call.attr.size < AttrSize[call.tag] THEN Return(Out(os, 0), BadParam)
            ELSE IF n = 0 THEN Return(Out(os, 0), SysErr(-ENOENT))
            ELSE Return(Out([os EXCEPT !.nodes[n].mtime = call.attr.value], 0), FS_OK)
  \/ call.tag # "ModifiedTime" /\ Opening("setxattr", {"Read", "Write"}, "set", TRUE)
  \/ /\ At("setxattr", "set")
     /\ \E o \in HostFsetxattr(os, call.fd, call.tag, call.attr) : Take(o, "close", [call EXCEPT !.ret = o.ret])

Getxattr ==
  \/ Opening("getxattr", {"Read"}, "get", TRUE)
  \/ /\ At("getxattr", "get")
     /\ \E o \in HostFgetxattr(os, call.fd, call.tag, call.n) :
          Take(o, "close", [call EXCEPT !.ret = o.ret,
                                        !.got = IF o.ret < 0 THEN <<>> ELSE <<ValueOf(os, call.fd, call.tag)>>])

\* fenumxattr(): the time of modification, then the attributes that the host lists and
\* the library knows; one that does not fit the buffer is left out.  The callback may
\* end it.  The names still to come are in `data'.  The count that is returned is that of
\* the time of modification alone.
Fenumxattr ==
  \/ /\ At("fenumxattr", "begin")
     /\ IF ~mounted THEN Return(Out(os, 0), NotMounted)
        ELSE \E go \in BOOLEAN :
               Take(Out(os, 0), IF go THEN "list" ELSE "return",
                    [call EXCEPT !.got = <<"ModifiedTime">>, !.data = TagOrder, !.ret = 1])
  \/ /\ At("fenumxattr", "list")
     /\ IF Opened(os, call.h)
        THEN Take(Out(os, 0), "next", [call EXCEPT !.data = OsListXAttr(os, call.h)])
        ELSE Return(Out(os, 0), call.ret)
  \/ /\ At("fenumxattr", "next")
     /\ IF call.data = <<>> THEN Return(Out(os, 0), call.ret)
        ELSE \E o \in OsGetXAttr(os, call.h, Head(call.data), call.n), go \in BOOLEAN :
               LET rest == [call EXCEPT !.data = Tail(@)]
               IN  IF Head(call.data) \notin DOMAIN AttrSize \/ o.ret < 0 THEN go /\ Take(o, "next", rest)
                   ELSE Take(o, IF go THEN "next" ELSE "return",
                             [rest EXCEPT !.got = Append(@, Head(call.data))])
=============================================================================
