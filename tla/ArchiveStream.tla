---------------------------- MODULE ArchiveStream ----------------------------
(***************************************************************************)
(* FWFS::ArchiveStream: a stream that produces a firmware file system      *)
(* image of a directory tree of another file system.  Whoever reads it     *)
(* calls readMemoryBlock(), which queues the next block when the one       *)
(* before has been used up.  Objects refer to others by their offset, so   *)
(* that children go out before their directory.                            *)
(*                                                                         *)
(* Queueing a block may enumerate entries, skip some of them and descend   *)
(* several levels.  Each of these is a step here, as each may fail; they   *)
(* make up one call, and nothing else happens until it returns.            *)
(***************************************************************************)
EXTENDS SourceTree, Integers, FiniteSets

CONSTANTS
  RootPath,     \* the path the archive is rooted at: a sequence of names
  NameLen,      \* [Names -> number of characters]
  ByteSize,     \* 256: what the uint8_t namelen wraps at
  MaxInline,    \* files of less are stored within their file object
  MaxLevels,    \* the size of directories[]
  Skipped,      \* the nodes that filterStat() does not want
  Encodings,    \* [Nodes -> the sequences of block sizes a custom encoder may make]
  IncludeMountPoints,
  Faults,       \* the calls of the file system that may fail
  ResetLevels   \* the levels at which the user of the stream may reset it

\* What is called: for the root directory, a file, its data, a directory, its next
\* entry and its attributes.
Calls == {"Root", "Open", "Read", "Opendir", "Readdir", "Attributes"}

ASSUME ArchiveAssumption ==
  /\ RootPath \in Seq(Names)
  /\ ByteSize \in Nat
  /\ NameLen \in [Names -> 1..(ByteSize - 1)]
  /\ MaxInline \in Nat \ {0}
  /\ MaxLevels \in Nat \ {0}
  /\ Skipped \subseteq Nodes
  /\ DOMAIN Encodings = Nodes
  /\ \A n \in Nodes : Encodings[n] \subseteq Seq(Nat \ {0})
  /\ IncludeMountPoints \in BOOLEAN
  /\ Faults \subseteq Calls
  /\ ResetLevels \subseteq Nat

VARIABLES
  state,        \* state
  phase,        \* where the call that queues a block has got to
  path,         \* currentPath: names, each with its length
  level,        \* level
  dirs,         \* directories[], and what is behind its end
  encoder,      \* encoder: the sizes of the blocks still to come
  dataBlock,    \* the size of dataBlock
  source,       \* how much of the queued block has not been read
  streamOffset, \* streamOffset
  queuedSize,   \* queuedSize
  opened,       \* outside: how many directories and files are open
  out,          \* history: what the stream has produced
  produced,     \* history: the size of that
  failed        \* history: the calls of the file system that have failed

vars == <<state, phase, path, level, dirs, encoder, dataBlock, source,
          streamOffset, queuedSize, opened, out, produced, failed>>

Ready   == [kind |-> "ready"]
Stalled == [kind |-> "stalled"]
Reading == [kind |-> "reading"]
Closing == [kind |-> "closing"]
Opening(kid) == [kind |-> "opening", kid |-> kid]
Filing(kid)  == [kind |-> "filing", kid |-> kid]

NoEncoder == [used |-> FALSE, blocks |-> <<>>]
Encoder(blocks) == [used |-> TRUE, blocks |-> blocks]

NoEntry == [type |-> "Directory", name |-> Absent, node |-> Absent, content |-> <<>>,
            open |-> FALSE, next |-> 1, namelen |-> 0]

(***************************************************************************)
(* Blocks and references.  An object takes one unit and another for each   *)
(* item of its content, inline data its size.                              *)
(***************************************************************************)
Ref(type, id)  == [kind |-> "ref", type |-> type, id |-> id]
Inline(node)   == [kind |-> "inline", len |-> Size[node]]
VolumeIndex    == [kind |-> "volume"]

\* Inline data is the only item of its file.
Length(content) ==
  1 + Len(content)
    + (IF content # <<>> /\ content[1].kind = "inline" THEN content[1].len ELSE 0)

\* queueStream(): block o follows what has been read by now.
QueueStream(o, newState) ==
  /\ streamOffset' = streamOffset + queuedSize
  /\ queuedSize' = o.len
  /\ source' = o.len
  /\ state' = newState
  /\ phase' = Ready
  /\ out' = Append(out, o)
  /\ produced' = produced + o.len

Marker(type) == [at |-> produced, type |-> type, len |-> 1]
Data(n)      == [at |-> produced, type |-> "Data", len |-> 1, size |-> n]
Content(n)   == [at |-> produced, type |-> "Content", len |-> n]
Named(e)     == [at |-> produced, type |-> e.type, len |-> Length(e.content),
                 name |-> e.name, node |-> e.node, content |-> e.content]

\* (mutation: the reference is to the block before)
RefToLast(type) == Ref(type, streamOffset)

\* The reference to the block that is being queued.
RefTo(type) == Ref(type, streamOffset + queuedSize)

WithRef(e, type) == [e EXCEPT !.content = Append(@, RefTo(type))]

(***************************************************************************)
(* The data of a file: a header and a block for each that the encoder      *)
(* makes, then the file object.                                            *)
(***************************************************************************)
SendFileHeader(e) ==
  /\ QueueStream(Named(e), "fileHeader")
  /\ dirs' = [dirs EXCEPT ![level] = e, ![level - 1] = WithRef(@, e.type)]
  /\ encoder' = NoEncoder
  /\ opened' = [opened EXCEPT !.files = 0]
  /\ UNCHANGED <<path, level, dataBlock>>

SendDataHeader(e, blocks) ==
  \/ /\ blocks = <<>>
     /\ SendFileHeader(e)
  \/ /\ blocks # <<>>
     /\ QueueStream(Data(Head(blocks)), "dataHeader")
     /\ dataBlock' = Head(blocks)
     /\ encoder' = Encoder(Tail(blocks))
     /\ dirs' = [dirs EXCEPT ![level] = WithRef(e, "Data")]
     /\ opened' = [opened EXCEPT !.files = 1]
     /\ UNCHANGED <<path, level>>

SendDataContent ==
  /\ QueueStream(Content(dataBlock), "dataContent")
  /\ dataBlock' = 0
  /\ UNCHANGED <<path, level, dirs, encoder, opened>>

\* readFileEntry(): a file that cannot be opened is left out.  Whether data that
\* becomes part of the file object has been read is not looked at.
PathNames(p) == [i \in 1..Len(p) |-> p[i].name]

CannotOpen ==
  /\ phase' = Reading
  /\ failed' = failed \cup {"Open"}
  /\ UNCHANGED <<state, path, level, dirs, encoder, dataBlock, source,
                 streamOffset, queuedSize, opened, out, produced>>

ReadFileEntry ==
  LET kid  == phase.kid
      node == Lookup(Top, Append(PathNames(path), kid.name))
      file == [NoEntry EXCEPT !.type = "File", !.name = kid.name, !.node = node]
      size == Size[kid.node]
  IN
  /\ phase.kind = "filing"
  /\ \/ (node = Absent \/ "Open" \in Faults) /\ CannotOpen
     \/ /\ node # Absent
        /\ \/ /\ size < MaxInline
              /\ SendFileHeader([file EXCEPT !.content = <<Inline(kid.node)>>])
              /\ \/ UNCHANGED failed
                 \/ "Read" \in Faults /\ failed' = failed \cup {"Read"}
           \/ /\ size >= MaxInline
              /\ SendDataHeader(file, <<size>>)
              /\ UNCHANGED failed
           \/ /\ \E blocks \in Encodings[kid.node] : SendDataHeader(file, blocks)
              /\ UNCHANGED failed

(***************************************************************************)
(* Directories.                                                            *)
(***************************************************************************)
\* The characters of a path: of its names, and the separators between them.
PathLength(p) ==
  LET sum[i \in 0..Len(p)] ==
        IF i = 0 THEN 0 ELSE sum[i - 1] + p[i].len + (IF i = 1 THEN 0 ELSE 1)
  IN  sum[Len(p)]

\* currentPath.setLength(): the last n characters are taken off.
TakeOff(p, n) ==
  LET left  == PathLength(p) - n
      fits  == { k \in 0..Len(p) : PathLength(SubSeq(p, 1, k)) <= left }
      k     == CHOOSE i \in fits : \A j \in fits : j <= i
      whole == SubSeq(p, 1, k)
  IN  IF PathLength(whole) = left THEN whole
      ELSE Append(whole, [name |-> Absent,
                          len |-> left - PathLength(whole) - (IF k = 0 THEN 0 ELSE 1)])

\* (mutation: the separator is not counted)
CharactersOfName(kid) == NameLen[kid.name]

\* How many characters a directory adds to the path, as far as a byte tells.
CharactersAdded(kid) ==
  (NameLen[kid.name] + (IF path = <<>> THEN 0 ELSE 1)) % ByteSize

\* The path and namelen of a directory that is entered.
Enter(kid) ==
  IF level = 0 THEN [path |-> path, namelen |-> dirs[0].namelen]
  ELSE [path    |-> Append(path, [name |-> kid.name, len |-> NameLen[kid.name]]),
        namelen |-> CharactersAdded(kid)]

\* The attributes of a mount point name the volume, if they can be read.
Attributes(kid, got) ==
  IF Kind[kid.node] = "MountPoint" /\ ~IncludeMountPoints /\ got
  THEN <<VolumeIndex>> ELSE <<>>

\* The root is looked at through its handle, as what is mounted there.
KindOf(kid) == IF kid.name = Absent THEN "Directory" ELSE Kind[kid.node]

\* By default mount points are not enumerated.
Enumerated(kid) == KindOf(kid) = "Directory" \/ IncludeMountPoints

\* What opendir() may do: fail, or open a directory.
OpendirResults(kid, node) ==
  IF ~Enumerated(kid) THEN {FALSE}
  ELSE (IF IsDir(node) THEN {TRUE} ELSE {FALSE})
         \cup (IF "Opendir" \in Faults THEN {FALSE} ELSE {})

OpenDirectory ==
  LET kid   == phase.kid
      enter == Enter(kid)
      node  == Lookup(Top, PathNames(enter.path))
  IN
  /\ phase.kind = "opening"
  /\ level <= MaxLevels
  /\ \E got \in {node # Absent} \cup (IF "Attributes" \in Faults THEN {FALSE} ELSE {}),
        isOpen \in OpendirResults(kid, node) :
       /\ dirs' = [dirs EXCEPT ![level] =
                     [type |-> KindOf(kid), name |-> kid.name,
                      node |-> IF isOpen THEN node ELSE kid.node,
                      content |-> Attributes(kid, got), open |-> isOpen, next |-> 1,
                      namelen |-> enter.namelen]]
       /\ phase' = IF isOpen THEN Reading ELSE Closing
       /\ opened' = IF isOpen THEN [opened EXCEPT !.dirs = @ + 1] ELSE opened
       /\ failed' = failed \cup (IF got THEN {} ELSE {"Attributes"})
                           \cup (IF isOpen \/ ~Enumerated(kid) THEN {} ELSE {"Opendir"})
  /\ path' = enter.path
  /\ level' = level + 1
  /\ UNCHANGED <<state, encoder, dataBlock, source, streamOffset, queuedSize, out,
                 produced>>

\* (mutation: an entry that is not wanted ends the directory)
SkipEndsDirectory(kid) == IF kid.node \in Skipped THEN Closing ELSE Reading

Skip(kid) == Reading

\* readDirectory(): every error is taken for the end.
ReadDirectory ==
  LET d   == dirs[level - 1]
      kid == Kids[d.node][d.next]
      end == d.next > Len(Kids[d.node])
  IN
  /\ phase.kind = "reading"
  /\ \/ /\ end \/ "Readdir" \in Faults
        /\ phase' = Closing
        /\ failed' = IF end THEN failed ELSE failed \cup {"Readdir"}
        /\ UNCHANGED dirs
     \/ /\ ~end
        /\ dirs' = [dirs EXCEPT ![level - 1].next = @ + 1]
        /\ phase' = CASE kid.node \in Skipped -> Skip(kid)
                      [] kid.node \notin Skipped /\ IsDir(kid.node) -> Opening(kid)
                      [] OTHER -> Filing(kid)
        /\ UNCHANGED failed
  /\ UNCHANGED <<state, path, level, encoder, dataBlock, source, streamOffset,
                 queuedSize, opened, out, produced>>

\* (mutation: the handle is not cleared)
NotClosed(e) == e

Closed(e) == [e EXCEPT !.open = FALSE]

CloseDirectory ==
  LET top == level - 1
      e   == dirs[top]
  IN
  /\ phase.kind = "closing"
  /\ QueueStream(Named(e), "dirHeader")
  /\ dirs' = [i \in DOMAIN dirs |->
                CASE i = level   -> NoEntry
                  [] i = top     -> Closed(e)
                  [] i = top - 1 -> WithRef(dirs[i], e.type)
                  [] OTHER       -> dirs[i]]
  /\ path' = TakeOff(path, e.namelen)
  /\ level' = top
  /\ opened' = IF e.open THEN [opened EXCEPT !.dirs = @ - 1] ELSE opened
  /\ UNCHANGED <<encoder, dataBlock, failed>>

(***************************************************************************)
(* fillBuffers(): what is queued next.                                     *)
(***************************************************************************)
Unmoved == UNCHANGED <<path, level, dirs, encoder, dataBlock, opened>>

GotoEnd == QueueStream(Marker("EndMarker"), "end") /\ Unmoved

\* openRootDirectory().
OpenRootDirectory ==
  LET root == Lookup(Top, PathNames(path)) IN
  \/ /\ ~IsDir(root) \/ "Root" \in Faults
     /\ GotoEnd
     /\ failed' = failed \cup {"Root"}
  \/ /\ IsDir(root)
     /\ phase' = Opening([name |-> Absent, node |-> root])
     /\ UNCHANGED <<state, source, streamOffset, queuedSize, out, produced, failed>>
     /\ Unmoved

\* (mutation: the volume refers to what follows the root directory)
VolumeAfterRoot ==
  [at |-> produced, type |-> "Volume", len |-> 1, root |-> streamOffset + queuedSize]

Volume == [at |-> produced, type |-> "Volume", len |-> 1, root |-> streamOffset]

Continue ==
  /\ phase' = Reading
  /\ UNCHANGED <<state, source, streamOffset, queuedSize, out, produced>>
  /\ Unmoved

\* (mutation: the stream does not become finished)
StaysAtEnd == "end"

Finished == "done"

FillBuffers ==
  /\ phase = Ready
  /\ source = 0
  /\ \/ /\ state = "idle"
        /\ QueueStream(Marker("StartMarker"), "start")
        /\ Unmoved
        /\ UNCHANGED failed
     \/ /\ state = "start"
        /\ OpenRootDirectory
     \/ /\ state = "dataHeader"
        /\ SendDataContent
        /\ UNCHANGED failed
     \/ /\ state = "dataContent"
        /\ SendDataHeader(dirs[level], encoder.blocks)
        /\ UNCHANGED failed
     \/ /\ state = "fileHeader" \/ (state = "dirHeader" /\ level > 0)
        /\ Continue
        /\ UNCHANGED failed
     \/ /\ state = "dirHeader" /\ level = 0
        /\ QueueStream(Volume, "volumeHeader")
        /\ Unmoved
        /\ UNCHANGED failed
     \/ /\ state = "volumeHeader"
        /\ GotoEnd
        /\ UNCHANGED failed
     \/ /\ state = "end"
        /\ state' = Finished
        /\ UNCHANGED <<phase, source, streamOffset, queuedSize, out, produced, failed>>
        /\ Unmoved

\* Whoever reads the stream takes part or all of the queued block.
Read(n) ==
  /\ phase \in {Ready, Stalled}
  /\ n \in 1..source
  /\ source' = source - n
  /\ phase' = Ready
  /\ UNCHANGED <<state, path, level, dirs, encoder, dataBlock,
                 streamOffset, queuedSize, opened, out, produced, failed>>

\* The data of a file is read as it is taken.  Whoever reads gets nothing when that
\* fails, of a stream that is not finished and still has the block queued.
ReadFails ==
  /\ phase = Ready
  /\ state = "dataContent"
  /\ source > 0
  /\ "Read" \in Faults
  /\ phase' = Stalled
  /\ failed' = failed \cup {"Read"}
  /\ UNCHANGED <<state, path, level, dirs, encoder, dataBlock, source,
                 streamOffset, queuedSize, opened, out, produced>>

ClosedByReset == { i \in 0..level : dirs[i].open }

\* reset(), by seeking to the start or by destruction: currentPath stays.
Reset ==
  /\ phase \in {Ready, Stalled}
  /\ state # "idle"
  /\ level \in ResetLevels
  /\ state' = "idle"
  /\ level' = 0
  /\ dirs' = [i \in DOMAIN dirs |-> IF i <= level THEN NoEntry ELSE dirs[i]]
  /\ opened' = [files |-> 0,
                dirs |-> opened.dirs - Cardinality(ClosedByReset)]
  /\ encoder' = NoEncoder
  /\ source' = 0
  /\ streamOffset' = 0
  /\ queuedSize' = 0
  /\ out' = <<>>
  /\ produced' = 0
  /\ failed' = {}
  /\ phase' = Ready
  /\ UNCHANGED <<path, dataBlock>>

-----------------------------------------------------------------------------
Init ==
  /\ state = "idle"
  /\ phase = Ready
  /\ path = [i \in 1..Len(RootPath) |->
               [name |-> RootPath[i], len |-> NameLen[RootPath[i]]]]
  /\ level = 0
  /\ dirs = [i \in 0..MaxLevels |-> NoEntry]
  /\ encoder = NoEncoder
  /\ dataBlock = 0
  /\ source = 0
  /\ streamOffset = 0
  /\ queuedSize = 0
  /\ opened = [dirs |-> 0, files |-> 0]
  /\ out = <<>>
  /\ produced = 0
  /\ failed = {}

Step == ReadFileEntry \/ OpenDirectory \/ ReadDirectory \/ CloseDirectory

Next ==
  \/ FillBuffers
  \/ Step
  \/ \E n \in 1..source : Read(n)
  \/ ReadFails
  \/ Reset

Spec == Init /\ [][Next]_vars

\* Whoever reads the stream keeps reading as long as it gets data, and a call that
\* has begun goes on.
FairSpec ==
  Spec /\ WF_vars(FillBuffers \/ Step \/ (phase = Ready /\ Read(source)))
-----------------------------------------------------------------------------
(***************************************************************************)
(* Properties.                                                             *)
(***************************************************************************)
States  == {"idle", "start", "dataHeader", "dataContent", "fileHeader", "dirHeader",
            "volumeHeader", "end", "done"}
Items   == [kind : {"ref"}, type : {"Data", "File", "Directory", "MountPoint"}, id : Nat]
             \cup [kind : {"inline"}, len : Nat] \cup {VolumeIndex}
Entries == [type : {"File", "Directory", "MountPoint"}, name : Names \cup {Absent},
            node : Nodes \cup {Absent}, content : Seq(Items), open : BOOLEAN,
            next : Nat \ {0}, namelen : Nat]
Phases  == {Ready, Stalled, Reading, Closing} \cup { Filing(k) : k \in Kid }
             \cup { Opening(k) : k \in [name : Names \cup {Absent}, node : Nodes] }

\* The type invariant.  The directories at the levels below the current one are
\* open, apart from the last when it could not be; the others are not.
TypeOK ==
  /\ state \in States
  /\ phase \in Phases
  /\ path \in Seq([name : Names \cup {Absent}, len : Nat])
  /\ level \in 0..(MaxLevels + 1)
  /\ dirs \in [0..MaxLevels -> Entries]
  /\ encoder \in [used : BOOLEAN, blocks : Seq(Nat \ {0})]
  /\ dataBlock \in Nat
  /\ source \in 0..queuedSize
  /\ streamOffset \in Nat
  /\ queuedSize \in Nat
  /\ failed \subseteq Calls
  /\ \A i \in 0..MaxLevels :
       /\ dirs[i].open => i < level
       /\ i < level /\ ~dirs[i].open => i = level - 1 /\ phase = Closing

Referred(i, item) == { j \in 1..(i - 1) : out[j].at = item.id }

NamedTypes == {"File", "Directory", "MountPoint"}

\* A reference is the offset of an object of its type that has been produced
\* before, and an entry of a directory is what the directory has by that name.
ReferencesResolve ==
  \A i \in 1..Len(out) :
    out[i].type \in NamedTypes =>
      \A k \in 1..Len(out[i].content) :
        LET item == out[i].content[k] IN
        item.kind = "ref" =>
          \E j \in Referred(i, item) :
            /\ out[j].type = item.type
            /\ item.type = "Data" => out[i].type = "File" /\ out[j + 1].len = out[j].size
            /\ item.type \in NamedTypes => Descend(out[i].node, out[j].name) = out[j].node

NothingLeaks ==
  /\ opened.dirs = Cardinality({ i \in 0..MaxLevels : dirs[i].open })
  /\ opened.files = IF encoder.used THEN 1 ELSE 0
  /\ state \in {"idle", "done"} => opened.dirs = 0 /\ opened.files = 0

PathTracksLevels ==
  level <= MaxLevels =>
    PathNames(path) =
      RootPath \o [i \in 1..(IF level = 0 THEN 0 ELSE level - 1) |-> dirs[i].name]

\* Directories that are open in the file system are those on the way to the
\* current one, and a file is open only while an encoder is reading it;
\* directories[] is not used behind its end; and the current path is that of
\* these directories, wherever a call has failed and the traversal has gone on.
DirectoriesTracked == NothingLeaks /\ level < MaxLevels /\ PathTracksLevels

\* When the stream starts, at first or again, it is at the root.
StartsAtRoot == state = "idle" => PathNames(path) = RootPath

\* What mount() looks for: a volume that refers to the last directory.
LastDirectory == SelectLastInSeq(out, LAMBDA o : o.type = "Directory")
TheVolume     == SelectLastInSeq(out, LAMBDA o : o.type = "Volume")

Mountable ==
  /\ TheVolume # 0
  /\ LastDirectory # 0
  /\ out[LastDirectory].at = out[TheVolume].root

\* A stream that has ended, for which isSuccess() is true, has produced an image that
\* can be mounted, whatever has failed on the way, the root directory excepted.
SuccessIsMountable == state = "done" /\ "Root" \notin failed => Mountable

\* A stream that is being read comes to its end, unless it is reset, whatever calls
\* of the archived file system fail; except that where the data of a file cannot be
\* read it stays at that block for as long as it cannot, and does not report an error.
Ends == []<>(state \in {"idle", "done"}) \/ <>[](phase = Stalled)

(***************************************************************************)
(* The image that has been produced, as FWFS reads it.                     *)
(***************************************************************************)
ImageOf(o) ==
  [type  |-> o.type,
   table |-> [k \in 1..Len(o.content) |->
     LET item == o.content[k] IN
     CASE item.kind = "volume" -> [kind |-> "volume", index |-> 0]
       [] item.kind = "inline" -> [kind |-> "data", off |-> o.at, len |-> item.len]
       [] item.kind = "ref"    ->
            LET j == CHOOSE i \in 1..Len(out) : out[i].at = item.id IN
            IF item.type = "Data"
            THEN [kind |-> "data", off |-> out[j + 1].at, len |-> out[j].size]
            ELSE [kind |-> "named", name |-> out[j].name, obj |-> j]]]

NamedObjects == { i \in 1..Len(out) : out[i].type \in NamedTypes }

Archived == INSTANCE FwfsImage WITH
  Objects   <- NamedObjects,
  Root      <- LastDirectory,
  Image     <- [i \in NamedObjects |-> ImageOf(out[i])],
  MediaSize <- produced

\* The paths of what is to be archived, relative to the root.
CONSTANT Paths

Wanted(p) ==
  /\ \A k \in 1..Len(p) :
       LET n == Lookup(Top, RootPath \o SubSeq(p, 1, k)) IN
       /\ n \notin Skipped \cup {Absent}
       /\ k < Len(p) => Kind[n] = "Directory"

\* Unless a call has failed, the image has just the directories, mount points and
\* files that are wanted, at their paths, and the files have all their data.
RoundTrip ==
  state = "done" /\ failed = {} =>
    \A p \in Paths :
      LET n     == Lookup(Top, RootPath \o p)
          found == Archived!FindObjectByPath(p)
      IN
      /\ Wanted(p) <=> found.found /\ found.tail = <<>>
      /\ Wanted(p) => /\ Archived!Type(found.obj) = Kind[n]
                      /\ Archived!DataSize(found.obj) = Size[n]
                      /\ Kind[n] = "MountPoint" => Archived!VolumeEntry(found.obj) # 0
=============================================================================
