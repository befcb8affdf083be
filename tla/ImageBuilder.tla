----------------------------- MODULE ImageBuilder -----------------------------
(***************************************************************************)
(* fsbuild: makes an image of files and directories, mount points, and     *)
(* rules for their attributes.  It first builds a tree of objects, one     *)
(* entry after the other; files and directories are listed in any order.   *)
(* Then it writes them, what is referred to before what refers to it.      *)
(*                                                                         *)
(* What comes of it is read as FWFS does, by ImageReader.                  *)
(***************************************************************************)
EXTENDS SourceTree, ImageReader

CONSTANTS
  Configs,      \* the configurations: sources, mount points and rules
  Packed,       \* [Nodes -> size of the data of a file after compression]
  NameLen,      \* [Names -> characters]
  NameBytes,    \* [Names -> bytes]
  VolumeName,   \* the name of the volume
  Paths         \* the paths that are asked for in the image

Roles == {"any", "guest", "user", "manager", "admin"}

\* A rule has the paths that its mask matches, and may leave out the rest.
Rule == [paths : SUBSET Paths, readonly : BOOLEAN \cup {Absent},
         compress : {"gzip", "none", Absent},
         read : Roles \cup {Absent}, write : Roles \cup {Absent}]

Source == [target : Paths, node : Nodes]
Mount  == [target : Paths, index : 0..255]

\* Only a directory can be the source of the root.
ASSUME BuilderAssumption ==
  /\ Packed \in [Nodes -> Nat]
  /\ NameLen \in [Names -> Nat] /\ NameBytes \in [Names -> Nat]
  /\ \A n \in Names : NameBytes[n] >= NameLen[n]
  /\ VolumeName \in Names /\ Paths \subseteq Seq(Names)
  /\ \A n \in Nodes : Kind[n] \in {"Directory", "File"}
  /\ \A c \in Configs :
       /\ c.sources \in Seq(Source) /\ c.mounts \in Seq(Mount) /\ c.rules \in Seq(Rule)
       /\ \A k \in DOMAIN c.sources : c.sources[k].target = <<>> => IsDir(c.sources[k].node)
       /\ \A k \in DOMAIN c.mounts : c.mounts[k].target # <<>>

VARIABLES
  config,    \* what is built
  objs,      \* the objects: type, parent, name, children, value and size
  todo,      \* the calls of createFsObject() that are to be made
  phase,     \* "build", "done", or "failed"
  image      \* the image, once it is written

vars == <<config, objs, todo, phase, image>>

(***************************************************************************)
(* Objects and their children.                                             *)
(***************************************************************************)
Object(obt, parent, name, value, size) ==
  [obt |-> obt, parent |-> parent, name |-> name, kids |-> <<>>, value |-> value, size |-> size]

\* (mutation: the last object so far is taken for the new one)
AddObjectBefore(o, obj) ==
  Append([o EXCEPT ![obj.parent].kids = Append(@, Len(o))], obj)

AddObject(o, obj) ==
  Append([o EXCEPT ![obj.parent].kids = Append(@, Len(o) + 1)], obj)

AddNamed(o, parent, obt, name)       == AddObject(o, Object(obt, parent, name, Absent, 0))
AddValue(o, parent, obt, value, size) == AddObject(o, Object(obt, parent, Absent, value, size))

RemoveObject(o, k) ==
  [o EXCEPT ![o[k].parent].kids = RemoveAt(@, Min({ j \in DOMAIN @ : @[j] = k }))]

\* The first of the children in some places.
FirstKid(kids, places) == IF places = {} THEN 0 ELSE kids[Min(places)]

FindChild(o, parent, name) ==
  LET kids == o[parent].kids
  IN  FirstKid(kids, { j \in DOMAIN kids : NamedType(o[kids[j]].obt) /\ o[kids[j]].name = name })

ChildOfType(o, i, obt) ==
  LET kids == o[i].kids IN FirstKid(kids, { j \in DOMAIN kids : o[kids[j]].obt = obt })

FindInheritable(o, i, obt) ==
  LET from[j \in DOMAIN o] ==
        IF ChildOfType(o, j, obt) # 0 \/ o[j].parent = 0 THEN ChildOfType(o, j, obt)
        ELSE from[o[j].parent]
  IN  from[i]

VolumeObject == 1
RootObject   == 3

PathOf(o, i) ==
  LET path[j \in DOMAIN o] == IF j = RootObject THEN <<>> ELSE Append(path[o[j].parent], o[j].name)
  IN  path[i]

(***************************************************************************)
(* Rules.                                                                  *)
(***************************************************************************)
SetAttr(o, i, state) ==
  LET s    == IF ChildOfType(o, i, ObjAttr) # 0 THEN o ELSE AddValue(o, i, ObjAttr, {}, 1)
      attr == ChildOfType(s, i, ObjAttr)
  IN  [s EXCEPT ![attr].value = IF state THEN @ \cup {"ReadOnly"} ELSE @ \ {"ReadOnly"}]

\* (mutation: an earlier rule's entry stays)
CompressionAdded(o, i, type) ==
  IF type = "none" THEN o
  ELSE AddValue(o, i, Compression, [type |-> type, originalSize |-> 0], 5)

AppendCompression(o, i, type) ==
  LET old == ChildOfType(o, i, Compression)
      s   == IF old = 0 THEN o ELSE RemoveObject(o, old)
  IN  IF type = "none" THEN s
      ELSE AddValue(s, i, Compression, [type |-> type, originalSize |-> 0], 5)

\* (mutation: only what the parent has is compared, an entry of an earlier rule stays)
AppendACEUnlessInherited(o, i, obt, role) ==
  LET ace == IF o[i].parent = 0 THEN 0 ELSE FindInheritable(o, o[i].parent, obt)
      own == ChildOfType(o, i, obt)
  IN  CASE ace # 0 /\ o[ace].value = role -> o
        [] (ace = 0 \/ o[ace].value # role) /\ own # 0 -> [o EXCEPT ![own].value = role]
        [] OTHER -> AddValue(o, i, obt, role, 1)

AppendACE(o, i, obt, role) ==
  LET ace == FindInheritable(o, i, obt)
  IN  CASE ace # 0 /\ o[ace].value = role -> o
        [] ace # 0 /\ o[ace].value # role /\ o[ace].parent = i -> [o EXCEPT ![ace].value = role]
        [] OTHER -> AddValue(o, i, obt, role, 1)

ApplyRule(o, i, rule) ==
  LET s1 == IF rule.readonly = Absent THEN o ELSE SetAttr(o, i, rule.readonly)
      s2 == IF rule.compress = Absent THEN s1 ELSE AppendCompression(s1, i, rule.compress)
      s3 == IF rule.read = Absent THEN s2 ELSE AppendACE(s2, i, ReadACE, rule.read)
  IN  IF rule.write = Absent THEN s3 ELSE AppendACE(s3, i, WriteACE, rule.write)

ApplyRules(o, i) ==
  LET path  == PathOf(o, i)
      rules == config.rules
      after[n \in 0..Len(rules)] ==
        IF n = 0 THEN o
        ELSE IF path \in rules[n].paths THEN ApplyRule(after[n - 1], i, rules[n])
        ELSE after[n - 1]
  IN  after[Len(rules)]

(***************************************************************************)
(* Image(), and the calls that the main part makes.                        *)
(***************************************************************************)
NewImage ==
  LET volume == <<Object(Volume, 0, VolumeName, Absent, 0)>>
      root   == AddNamed(AddValue(volume, VolumeObject, ID32, "id", 4),
                         VolumeObject, Directory, Absent)
  IN  AppendACE(AppendACE(root, RootObject, ReadACE, "guest"), RootObject, WriteACE, "admin")

Item(parent, target, node, index) ==
  [parent |-> parent, target |-> target, node |-> node, index |-> index]

Requested(c) ==
  [k \in DOMAIN c.sources |-> Item(RootObject, c.sources[k].target, c.sources[k].node, Absent)]
    \o [k \in DOMAIN c.mounts |-> Item(RootObject, c.mounts[k].target, Absent, c.mounts[k].index)]

Init ==
  /\ config \in Configs
  /\ objs = ApplyRules(NewImage, RootObject)
  /\ todo = Requested(config)
  /\ phase = "build"
  /\ image = Absent

(***************************************************************************)
(* createFsObject()                                                        *)
(***************************************************************************)
\* The directories of the target are made where there is nothing of the name.
Through(at, name) ==
  LET k == FindChild(at.objs, at.parent, name)
  IN  IF k # 0 THEN [at EXCEPT !.parent = k]
      ELSE [objs   |-> AddNamed(at.objs, at.parent, Directory, name),
            parent |-> Len(at.objs) + 1]

Resolve(o, parent, names) ==
  LET at[n \in 0..Len(names)] ==
        IF n = 0 THEN [objs |-> o, parent |-> parent] ELSE Through(at[n - 1], names[n])
  IN  at[Len(names)]

IsRootItem(item) == item.target = <<>>

Resolved(item) ==
  IF IsRootItem(item) THEN [objs |-> objs, parent |-> item.parent]
  ELSE Resolve(objs, item.parent, Front(item.target))

\* (mutation: only a file is in the way)
TakenByFile(item) ==
  ~IsRootItem(item)
    /\ LET r == Resolved(item) k == FindChild(r.objs, r.parent, Last(item.target))
       IN  k # 0 /\ r.objs[k].obt = File

Taken(item) ==
  ~IsRootItem(item) /\ FindChild(Resolved(item).objs, Resolved(item).parent, Last(item.target)) # 0

\* The object for an item, of a type, with what its rules give it.
Created(item, obt) ==
  LET r == Resolved(item)
      i == Len(r.objs) + 1
      named == AddNamed(r.objs, r.parent, obt, Last(item.target))
  IN  [id |-> i,
       objs |-> CASE obt = MountPoint ->
                       ApplyRules(AddValue(named, i, VolumeIndex, item.index, 1), i)
                  [] obt = File -> ApplyRules(AddValue(named, i, Md5Hash, Absent, 16), i)
                  [] OTHER -> ApplyRules(named, i)]

Fail == phase' = "failed" /\ UNCHANGED <<config, objs, todo, image>>

\* KeyError: there is something of this name.
AlreadyThere ==
  /\ phase = "build" /\ todo # <<>>
  /\ Taken(Head(todo))
  /\ Fail

AddMountPoint ==
  /\ phase = "build" /\ todo # <<>>
  /\ LET item == Head(todo) IN
       /\ item.node = Absent
       /\ ~Taken(item)
       /\ objs' = Created(item, MountPoint).objs
  /\ todo' = Tail(todo)
  /\ UNCHANGED <<config, phase, image>>

\* The directory's own entries come next, in the order that they are listed in.
AddDirectory ==
  /\ phase = "build" /\ todo # <<>>
  /\ LET item == Head(todo)
         made == IF IsRootItem(item)
                 THEN [id |-> RootObject, objs |-> ApplyRules(objs, RootObject)]
                 ELSE Created(item, Directory)
     IN
       /\ IsDir(item.node)
       /\ ~Taken(item)
       /\ objs' = made.objs
       /\ \E listed \in SetToSeqs(Range(Kids[item.node])) :
            todo' = [k \in DOMAIN listed |->
                       Item(made.id, <<listed[k].name>>, listed[k].node, Absent)]
                    \o Tail(todo)
  /\ UNCHANGED <<config, phase, image>>

\* The data is compressed where the rules say so and that makes it smaller.
Compressed(made, node) ==
  ChildOfType(made.objs, made.id, Compression) # 0 /\ Packed[node] < Size[node]

WithCompression(made, node) ==
  LET cmp == ChildOfType(made.objs, made.id, Compression)
  IN  CASE cmp = 0 -> made.objs
        [] cmp # 0 /\ Packed[node] < Size[node] ->
             [made.objs EXCEPT ![cmp].value.originalSize = Size[node]]
        [] OTHER -> RemoveObject(made.objs, cmp)

StoredSize(made, node) == IF Compressed(made, node) THEN Packed[node] ELSE Size[node]

DataTypeFor(size) ==
  CASE size <= 255 -> Data8
    [] 255 < size /\ size <= 65535 -> Data16
    [] OTHER -> Data24

\* appendData(): the data, and the hash of it.
AppendData(o, i, data, size) ==
  LET md5 == ChildOfType(o, i, Md5Hash)
  IN  [AddValue(o, i, DataTypeFor(size), data, size)
         EXCEPT ![md5].value = IF size = 0 THEN Absent ELSE data]

DataOf(node, packed) == [node |-> node, packed |-> packed]

\* A source file that cannot be read ends the build with an exception and no image: left out.
AddFile ==
  /\ phase = "build" /\ todo # <<>>
  /\ LET item == Head(todo)
         made == Created(item, File)
     IN
       /\ item.node # Absent /\ ~IsDir(item.node)
       /\ ~Taken(item)
       /\ StoredSize(made, item.node) <= MaxContentSize(Data24)
       /\ objs' = AppendData(WithCompression(made, item.node), made.id,
                             DataOf(item.node, Compressed(made, item.node)),
                             StoredSize(made, item.node))
  /\ todo' = Tail(todo)
  /\ UNCHANGED <<config, phase, image>>

DataTooLarge ==
  /\ phase = "build" /\ todo # <<>>
  /\ LET item == Head(todo) IN
       /\ item.node # Absent /\ ~IsDir(item.node)
       /\ ~Taken(item)
       /\ StoredSize(Created(item, File), item.node) > MaxContentSize(Data24)
  /\ Fail

(***************************************************************************)
(* writeToFile()                                                           *)
(***************************************************************************)
\* Only the hash of no data is empty.  It is the first child of a file, followed by one
\* that prune() skips as it goes on in the list from which it has removed the hash, and
\* which is an attribute or data.
IsEmpty(o, k) == o[k].obt = Md5Hash /\ o[k].value = Absent

Prune(o) ==
  [i \in DOMAIN o |->
     LET void == { j \in DOMAIN o[i].kids : IsEmpty(o, o[i].kids[j]) }
     IN  IF void = {} THEN o[i] ELSE [o[i] EXCEPT !.kids = RemoveAt(@, Min(void))]]

IsReferenced(obt) == obt >= Data16

\* The order in which objects are written.
Emitted(o) ==
  LET from[i \in Nat] ==
        LET kids == SelectSeq(o[i].kids, LAMBDA k : IsReferenced(o[k].obt))
        IN  FlattenSeq([k \in DOMAIN kids |-> from[kids[k]]]) \o <<i>>
  IN  from[VolumeObject]

NameSize(obj, sizes) == IF obj.name = Absent THEN 0 ELSE sizes[obj.name]

Stored(header, obj, namelen) ==
  [header |-> header, name |-> obj.name, value |-> obj.value, namelen |-> namelen]

\* The entry for a child in its parent's table: a reference, or all of the child.
EntryHeader(o, k, id) ==
  IF IsReferenced(o[k].obt) THEN RefHeader(o[k].obt, id[k]) ELSE Header(o[k].obt, o[k].size)
EntrySize(o, k, id) ==
  Len(EntryHeader(o, k, id)) + (IF IsReferenced(o[k].obt) THEN 0 ELSE o[k].size)

TableSize(o, kids, id) == FoldLeft(LAMBDA sum, k : sum + EntrySize(o, k, id), 0, kids)

\* The size in the header counts the characters of the name; its bytes are written.
WriteObject(o, w, i) ==
  LET obj     == o[i]
      named   == NamedType(obj.obt)
      namelen == NameSize(obj, NameLen)
      table   == TableSize(o, obj.kids, w.id)
      size    == IF named THEN NameOffset + namelen + table ELSE obj.size
      header  == Header(obj.obt, size)
      first   == w.offset + Len(header) + NameOffset + NameSize(obj, NameBytes)
      entry(k) == first + TableSize(o, SubSeq(obj.kids, 1, k - 1), w.id)
      entries == [e \in { entry(k) : k \in DOMAIN obj.kids } |->
                    LET k == obj.kids[CHOOSE j \in DOMAIN obj.kids : entry(j) = e]
                    IN  Stored(EntryHeader(o, k, w.id), o[k], 0)]
  IN  [at     |-> w.at @@ (w.offset :> Stored(header, obj, namelen)) @@ entries,
       id     |-> w.id @@ (i :> w.offset),
       offset |-> IF named THEN first + table ELSE w.offset + Len(header) + obj.size,
       fits   |-> w.fits /\ namelen <= 255 /\ size <= MaxContentSize(obj.obt)]

Written(o) ==
  FoldLeft(LAMBDA w, i : WriteObject(o, w, i),
           [at |-> <<>>, id |-> <<>>, offset |-> BaseOffset, fits |-> TRUE], Emitted(o))

EndHeader == Header(End, 4)

\* With the end object, after which is the end marker.
Ended(w) ==
  [at  |-> w.at @@ (w.offset :> [header |-> EndHeader, name |-> Absent, value |-> Absent,
                                 namelen |-> 0]),
   end |-> w.offset + Len(EndHeader) + 4]

WriteImage ==
  /\ phase = "build" /\ todo = <<>>
  /\ LET pruned == Prune(objs) w == Written(pruned) IN
       /\ w.fits
       /\ objs' = pruned
       /\ image' = Ended(w)
  /\ phase' = "done"
  /\ UNCHANGED <<config, todo>>

\* A length or a size is too large for its bytes.
WriteFails ==
  /\ phase = "build" /\ todo = <<>>
  /\ ~Written(Prune(objs)).fits
  /\ Fail

Next ==
  \/ AlreadyThere \/ AddMountPoint \/ AddDirectory \/ AddFile \/ DataTooLarge
  \/ WriteImage \/ WriteFails

Spec == Init /\ [][Next]_vars

(***************************************************************************)
(* Properties.                                                             *)
(***************************************************************************)
TypeOK ==
  /\ config \in Configs
  /\ \A i \in DOMAIN objs :
       /\ objs[i].obt \in ObjectTypes /\ objs[i].parent < i
       /\ objs[i].name \in Names \cup {Absent}
       /\ \A k \in Range(objs[i].kids) : k \in DOMAIN objs /\ objs[k].parent = i
  /\ \A k \in DOMAIN todo : todo[k].parent \in DOMAIN objs
  /\ phase \in {"build", "done", "failed"}
  /\ phase # "done" => image = Absent

(***************************************************************************)
(* What a configuration asks for at a path.                                *)
(***************************************************************************)
Entries == Requested(config)

Rest(k, path) == SubSeq(path, Len(Entries[k].target) + 1, Len(path))
NodeAt(k, path) == IF Entries[k].node = Absent THEN Absent
                   ELSE Lookup(Entries[k].node, Rest(k, path))

\* The entries of the configuration that put something there, or need a directory there.
Claims(path) == { k \in DOMAIN Entries : /\ IsPrefix(Entries[k].target, path)
                                         /\ path = Entries[k].target \/ NodeAt(k, path) # Absent }
Needs(path)  == { k \in DOMAIN Entries : IsStrictPrefix(path, Entries[k].target) }

Claimed(path) == Claims(path) # {}
ClaimOf(path) == CHOOSE k \in Claims(path) : TRUE
Claimant(path) == NodeAt(ClaimOf(path), path)

TypeFor(path) ==
  CASE ~Claimed(path) \/ IsDir(Claimant(path)) -> Directory
    [] Claimed(path) /\ Claimant(path) = Absent -> MountPoint
    [] OTHER -> File

IsFile(path) == Claimed(path) /\ TypeFor(path) = File

Mounted(path) == \E k \in DOMAIN Entries :
                   Entries[k].node = Absent /\ IsStrictPrefix(Entries[k].target, path)

\* Two entries for one path; a directory made for one entry counts for those after it.
Conflict ==
  \E path \in Paths \ {<<>>} : \E k \in Claims(path) :
    \/ Claims(path) # {k}
    \/ \E j \in Needs(path) : j < k

Matching(path) == SelectSeq(config.rules, LAMBDA rule : path \in rule.paths)

\* What the last of the rules that say something of the path says.
Decided(path, field, default) ==
  FoldLeft(LAMBDA value, rule : IF rule[field] = Absent THEN value ELSE rule[field],
           default, Matching(path))

Shrinks(path) == Packed[Claimant(path)] < Size[Claimant(path)]
ToPack(path)  == Decided(path, "compress", "none") = "gzip" /\ Shrinks(path)
SizeFor(path) == IF ToPack(path) THEN Packed[Claimant(path)] ELSE Size[Claimant(path)]

\* An image to be read: no name in it has characters of several bytes.
Readable ==
  /\ phase = "done"
  /\ \A i \in DOMAIN objs : NameSize(objs[i], NameBytes) = NameSize(objs[i], NameLen)

Found(path)  == FindObjectByPath(image, path)
StatOf(path) == FillStat(image, Found(path).id)

\* The build fails just when entries of the configuration are at odds, or something is too
\* large: a file or directory is never put over another by a later entry.
FailsOnConflict ==
  /\ phase = "done"   => ~Conflict
  /\ phase = "failed" =>
       \/ Conflict
       \/ \E path \in Paths : IsFile(path) /\ SizeFor(path) > MaxContentSize(Data24)
       \/ \E i \in DOMAIN objs : NameSize(objs[i], NameLen) > 255

\* The extents of the files are as long as their data, lie within the image, and do not
\* overlap: no file's data is another's.
DataLiesApart ==
  LET files == { path \in Paths : IsFile(path) /\ ~Mounted(path) }
      extents(path) == GetExtents(image, Found(path).id)
      parts == UNION { { <<path, k>> : k \in DOMAIN extents(path) } : path \in files }
      start(p) == extents(p[1])[p[2]].offset
      end(p)   == start(p) + extents(p[1])[p[2]].length
  IN  /\ \A path \in files : FoldFunction(LAMBDA e, sum : e.length + sum, 0, extents(path))
                                = SizeFor(path)
      /\ \A p \in parts : start(p) >= BaseOffset /\ end(p) <= image.end
      /\ \A p, q \in parts : p # q => end(p) <= start(q) \/ end(q) <= start(p)

\* FWFS mounts the image, and finds in it just what the configuration asks for: each
\* file and directory of the sources, with the type and the size of its data, what is
\* made for targets, mount points that paths lead beyond, and nothing else, and the data
\* of each file where no other's is; in whatever order directories are listed, and however
\* many bytes offsets take.
ContentsAsConfigured ==
  Readable =>
    /\ Mounts(image) /\ DataLiesApart
    /\ \A path \in Paths :
         CASE Mounted(path) -> Found(path).tail # <<>>
           [] ~Mounted(path) /\ ~Claimed(path) /\ Needs(path) = {} /\ path # <<>> ->
                Found(path).id = 0
           [] OTHER ->
                /\ Found(path).id # 0 /\ Found(path).tail = <<>>
                /\ StatOf(path).type = TypeFor(path)
                /\ StatOf(path).size = IF IsFile(path) THEN SizeFor(path) ELSE 0
                /\ TypeFor(path) = MountPoint =>
                     Attribute(image, Found(path).id, VolumeIndex) = {Entries[ClaimOf(path)].index}

\* What the rules decide besides access: read only, and compression, which has to have
\* made the file smaller; the original size is then that of the source.
FlagsAsRuled(path) ==
  LET stat == StatOf(path) IN
  /\ stat.attr = IF Decided(path, "readonly", FALSE) THEN {"ReadOnly"} ELSE {}
  /\ IsFile(path) =>
       /\ stat.compression = IF ToPack(path)
                             THEN [type |-> "gzip", originalSize |-> Size[Claimant(path)]]
                             ELSE Uncompressed
       /\ Attribute(image, Found(path).id, Compression)
            = IF ToPack(path) THEN {stat.compression} ELSE {}

\* The access that the last rule says, and without one that of the root; but below a
\* directory with other access than the root's the root's may be reported, as the builder
\* leaves out an entry that an object inherits from any directory, and the reader lets it
\* inherit from the root.
AccessAsRuled(path) ==
  \A field \in {"read", "write"} :
    LET top   == Decided(<<>>, field, IF field = "read" THEN "guest" ELSE "admin")
        above == { n \in 1..(Len(path) - 1) : Decided(SubSeq(path, 1, n), field, top) # top }
    IN  \/ StatOf(path)[field] = Decided(path, field, top)
        \/ above # {} /\ StatOf(path)[field] = top

\* A file that has data has the hash of the data as it is stored, and a file that has none
\* has no hash.
HashStored(path) ==
  IsFile(path) => Attribute(image, Found(path).id, Md5Hash)
                    = IF SizeFor(path) = 0 THEN {} ELSE {DataOf(Claimant(path), ToPack(path))}

\* fgetxattr() and fenumxattr() give the same as stat(), and each attribute once.
EachGivenOnce(path) ==
  LET given == Enumerated(image, Found(path).id) IN
  \A type \in AttributeTypes :
    LET places == { k \in DOMAIN given : given[k].type = type }
    IN  /\ Cardinality(places) = Cardinality(Attribute(image, Found(path).id, type))
        /\ \A k \in places : given[k].value \in Attribute(image, Found(path).id, type)

\* The attributes of a file or directory are what the rules that match it decide, in the
\* order of the configuration, whichever way the file system is asked for them
\* (Config.applyRules, appendACE, appendCompression; fillStat(), fenumxattr()).
AttributesAsRuled ==
  Readable =>
    \A path \in Paths : Claimed(path) /\ ~Mounted(path) =>
      FlagsAsRuled(path) /\ AccessAsRuled(path) /\ HashStored(path) /\ EachGivenOnce(path)

\* At most one attribute of each type is in a directory's or a file's children, and one
\* child has a name: the reader takes the last of a type for stat() and the first for
\* fgetxattr(), and the first of a name; applyRules() and createFsObject() go
\* through rules and entries in sequence, several of which may be for one object.
ChildrenAreDistinct ==
  \A i \in DOMAIN objs :
    LET kids == objs[i].kids IN
    \A j, k \in DOMAIN kids :
      j # k => /\ objs[kids[j]].obt = objs[kids[k]].obt => NamedType(objs[kids[j]].obt)
               /\ objs[kids[j]].name = objs[kids[k]].name => objs[kids[j]].name = Absent
=============================================================================
