----------------------------- MODULE ImageReader -----------------------------
(***************************************************************************)
(* How FWFS::FileSystem finds its way in an image: the scan of mount(),    *)
(* child tables, references, paths, and what stat and the attribute calls  *)
(* make of the children of an object.                                      *)
(*                                                                         *)
(* An image has [at, end]: the objects and the entries of child tables at  *)
(* their offsets, and the offset of the end marker.  Of each there are     *)
(* header, the bytes of its type and size, and value; of named objects     *)
(* namelen and name.  Reading from an offset where there is nothing goes   *)
(* wrong in some way: 0 stands for no object, which is no object's offset. *)
(***************************************************************************)
EXTENDS FwfsObject, SequencesExt

\* FWFS_BASE_OFFSET, after the start marker.
BaseOffset == 4

HeaderAt(im, id)   == im.at[id].header
TypeAt(im, id)     == TypeOf(HeaderAt(im, id))
NextOffset(im, id) == id + ObjectSize(HeaderAt(im, id))

\* The objects that mount() sees: one after the other to the end marker.
Scanned(im) ==
  LET from[id \in Nat] ==
        IF id \notin DOMAIN im.at THEN <<>>
        ELSE IF TypeAt(im, id) = End THEN <<id>>
        ELSE <<id>> \o from[NextOffset(im, id)]
  IN  from[BaseOffset]

\* findObject(): an actual object, not another reference.
FindObject(im, id) ==
  IF id \in DOMAIN im.at /\ ~IsRef(HeaderAt(im, id)) THEN id ELSE 0

\* getChildObject()
GetChildObject(im, child) ==
  IF ~IsRef(HeaderAt(im, child)) THEN child
  ELSE LET id == FindObject(im, GetRef(HeaderAt(im, child)))
       IN  IF id # 0 /\ TypeAt(im, id) = TypeAt(im, child) THEN id ELSE 0

ChildTableOffset(im, id) ==
  id + ContentOffset(HeaderAt(im, id)) + NameOffset + im.at[id].namelen

\* The entries of the child table, as readChildObjectHeader() and next() go through it.
Children(im, id) ==
  LET last == NextOffset(im, id)
      from[child \in Nat] ==
        IF child >= last \/ child \notin DOMAIN im.at THEN <<>>
        ELSE <<child>> \o from[NextOffset(im, child)]
  IN  from[ChildTableOffset(im, id)]

OfType(im, ids, type) == SelectSeq(ids, LAMBDA id : TypeAt(im, id) = type)
LastOf(ids)           == IF ids = <<>> THEN 0 ELSE Last(ids)
FirstOf(ids)          == IF ids = <<>> THEN 0 ELSE Head(ids)

(***************************************************************************)
(* mount() and paths.                                                      *)
(***************************************************************************)
VolumeOf(im) == LastOf(OfType(im, Scanned(im), Volume))
RootOf(im)   == LastOf(OfType(im, Scanned(im), Directory))

Mounts(im) ==
  LET ids == Scanned(im) IN
  /\ ids # <<>>
  /\ TypeAt(im, LastOf(ids)) = End
  /\ VolumeOf(im) # 0
  /\ LET child == FirstOf(OfType(im, Children(im, VolumeOf(im)), Directory))
     IN  child # 0 /\ GetRef(HeaderAt(im, child)) = RootOf(im)
  /\ NextOffset(im, LastOf(ids)) = im.end

\* findChildObject(): 0 if there is none, or if a reference before it is bad.
FindChildObject(im, id, name) ==
  LET children == Children(im, id)
      i == SelectInSeq(children, LAMBDA child :
             /\ IsNamed(HeaderAt(im, child))
             /\ LET o == GetChildObject(im, child)
                IN  o = 0 \/ im.at[o].name = name)
  IN  IF i = 0 THEN 0 ELSE GetChildObject(im, children[i])

\* An object, or 0; and after a mount point the tail of the path, which is passed on.
FindObjectByPath(im, path) ==
  FoldLeft(LAMBDA found, name :
             CASE found.id = 0 -> found
               [] found.id # 0 /\ TypeAt(im, found.id) = MountPoint ->
                    [found EXCEPT !.tail = Append(@, name)]
               [] OTHER -> [found EXCEPT !.id = FindChildObject(im, found.id, name)],
           [id |-> RootOf(im), tail |-> <<>>], path)

(***************************************************************************)
(* fillStat(), readAttribute() and fenumxattr().                           *)
(***************************************************************************)
\* The value of the last child of a type, which is the one that is left.
LastValue(im, id, type, default) ==
  LET child == LastOf(OfType(im, Children(im, id), type))
  IN  IF child = 0 THEN default ELSE im.at[child].value

\* The data objects, references followed.
DataObjects(im, id) ==
  LET data == SelectSeq(Children(im, id), LAMBDA child : IsData(HeaderAt(im, child)))
  IN  [i \in 1..Len(data) |-> GetChildObject(im, data[i])]

DataSizeOf(im, id) ==
  FoldLeft(LAMBDA sum, o : sum + ContentSize(HeaderAt(im, o)), 0, DataObjects(im, id))

\* fgetextents(): where the data is.
GetExtents(im, id) ==
  LET data == DataObjects(im, id)
  IN  [i \in DOMAIN data |-> [offset |-> data[i] + ContentOffset(HeaderAt(im, data[i])),
                              length |-> ContentSize(HeaderAt(im, data[i]))]]

Uncompressed == [type |-> "none", originalSize |-> 0]

\* stat is what fillStat() begins with: the access of the root directory.  The Compressed
\* flag and the original size that checkStat() adds follow from the compression: left out.
StatWith(im, id, access) ==
  [type        |-> TypeAt(im, id),
   size        |-> DataSizeOf(im, id),
   attr        |-> UNION { im.at[child].value :
                             child \in Range(OfType(im, Children(im, id), ObjAttr)) },
   compression |-> LastValue(im, id, Compression, Uncompressed),
   read        |-> LastValue(im, id, ReadACE, access.read),
   write       |-> LastValue(im, id, WriteACE, access.write)]

NoAccess == [read |-> "any", write |-> "any"]

\* mount() leaves the access of the root directory in rootACL.
FillStat(im, id) == StatWith(im, id, StatWith(im, RootOf(im), NoAccess))

\* What an application gets by readAttribute(): of the first child of the type.
Attribute(im, id, type) ==
  LET child == FirstOf(OfType(im, Children(im, id), type))
  IN  IF child = 0 THEN {} ELSE {im.at[child].value}

\* The attributes fenumxattr() gives, in order; the time left out.
AttributeTypes == {ObjAttr, Compression, ReadACE, WriteACE, VolumeIndex, Md5Hash,
                   Comment, UserAttribute}

Enumerated(im, id) ==
  LET children == SelectSeq(Children(im, id), LAMBDA c : TypeAt(im, c) \in AttributeTypes)
  IN  [i \in 1..Len(children) |-> [type  |-> TypeAt(im, children[i]),
                                   value |-> im.at[GetChildObject(im, children[i])].value]]
=============================================================================
