----------------------------- MODULE FwfsObject -----------------------------
(***************************************************************************)
(* The encoding of objects: a type, with a flag for references to objects  *)
(* elsewhere in the image; and the size of what follows, in one, two or    *)
(* three bytes according to the type.  What follows a reference is the     *)
(* offset of the object, in as many bytes as it takes.                     *)
(*                                                                         *)
(* The builder writes headers, the file system reads them: both are here   *)
(* as operators on sequences of bytes.                                     *)
(***************************************************************************)
EXTENDS Naturals, Sequences

\* The types of objects.
End          == 0
Data8        == 1
ID32         == 2
ObjAttr      == 3
Compression  == 4
ReadACE      == 5
WriteACE     == 6
VolumeIndex  == 7
Md5Hash      == 8
Comment      == 9
UserAttribute == 10
Data16       == 32
Volume       == 33
MountPoint   == 34
Directory    == 35
File         == 36
Data24       == 64

\* The flag of a reference, FWOBT_REF.
Ref == 128

Byte == 0..255

ObjectTypes == {End, Data8, ID32, ObjAttr, Compression, ReadACE, WriteACE, VolumeIndex,
                Md5Hash, Comment, UserAttribute, Data16, Volume, MountPoint, Directory, File, Data24}

\* The widths of the size.
Narrow(type) == type < Data16
Middle(type) == type >= Data16 /\ type < Data24

NamedType(type) == type >= Volume /\ type < Data24
DataType(type)  == type \in {Data8, Data16, Data24}

MaxContentSize(type) ==
  CASE Narrow(type) -> 255
    [] Middle(type) -> 65535
    [] OTHER        -> 16777215

(***************************************************************************)
(* Writing: header() and refHeader() of the builder.                       *)
(***************************************************************************)
\* (mutation: the bytes of the size in the other order)
HeaderSwapped(type, size) ==
  CASE Narrow(type) -> <<type, size>>
    [] Middle(type) -> <<type, size \div 256, size % 256>>
    [] OTHER        -> <<type, size \div 65536, (size \div 256) % 256, size % 256>>

Header(type, size) ==
  CASE Narrow(type) -> <<type, size>>
    [] Middle(type) -> <<type, size % 256, size \div 256>>
    [] OTHER        -> <<type, size % 256, (size \div 256) % 256, size \div 65536>>

\* The bytes of an offset.
RefBytes(id) ==
  CASE id <= 255                     -> <<id>>
    [] 255 < id /\ id <= 65535       -> <<id % 256, id \div 256>>
    [] 65535 < id /\ id <= 16777215  -> <<id % 256, (id \div 256) % 256, id \div 65536>>
    [] OTHER -> <<id % 256, (id \div 256) % 256, (id \div 65536) % 256, id \div 16777216>>

RefHeader(type, id) == <<type + Ref, Len(RefBytes(id))>> \o RefBytes(id)

(***************************************************************************)
(* Reading: struct Object.                                                 *)
(***************************************************************************)
TypeOf(header) == header[1] % Ref
IsRef(header)  == header[1] >= Ref

IsNamed(header) == NamedType(TypeOf(header))
IsData(header)  == DataType(TypeOf(header))

ContentOffset(header) ==
  CASE IsRef(header) \/ Narrow(TypeOf(header)) -> 2
    [] ~IsRef(header) /\ Middle(TypeOf(header)) -> 3
    [] OTHER -> 4

ContentSize(header) ==
  CASE IsRef(header) \/ Narrow(TypeOf(header)) -> header[2]
    [] ~IsRef(header) /\ Middle(TypeOf(header)) -> header[3] * 256 + header[2]
    [] OTHER -> header[4] * 65536 + header[3] * 256 + header[2]

ObjectSize(header) == ContentOffset(header) + ContentSize(header)

\* getRef(): what follows is read as a word, and masked with its size.
RefByte(header, k) == IF k <= ContentSize(header) THEN header[2 + k] ELSE 0

GetRef(header) ==
  RefByte(header, 1) + RefByte(header, 2) * 256 + RefByte(header, 3) * 65536
    + RefByte(header, 4) * 16777216

\* What precedes the name in a named object: its length and a time.
NameOffset == 5
=============================================================================
