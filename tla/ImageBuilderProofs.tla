-------------------------- MODULE ImageBuilderProofs --------------------------
(***************************************************************************)
(* Theorems about ImageBuilder, and about FwfsObject, the encoding in which *)
(* it writes: what the builder writes of an object's type, size and        *)
(* reference is what the file system reads, for every size and offset; and *)
(* the tree of objects has each thing once, whatever the configuration.    *)
(***************************************************************************)
EXTENDS ImageBuilder, SourceTreeProofs, FiniteSetTheorems, SequenceTheorems, TLAPS

-----------------------------------------------------------------------------
(* The encoding of objects. *)

\* The types are below the flag of a reference.
LEMMA TypesAreSmall ==
  ASSUME NEW type \in ObjectTypes
  PROVE  type \in 0..127 /\ type % 128 = type /\ (type + 128) % 128 = type
  BY DEF ObjectTypes, End, Data8, ID32, ObjAttr, Compression, ReadACE, WriteACE,
         VolumeIndex, Md5Hash, Comment, UserAttribute, Data16, Volume, MountPoint, Directory, File, Data24

\* Two bytes make up the number they were taken from.
LEMMA TwoBytes ==
  ASSUME NEW n \in Nat, n <= 65535
  PROVE  /\ n % 256 \in Byte /\ n \div 256 \in Byte
         /\ (n \div 256) * 256 + (n % 256) = n
  <1> USE DEF Byte
  <1>1. n \div 256 \in Nat /\ n \div 256 <= 255
    BY SMT
  <1>2. n % 256 \in Byte
    BY SMT
  <1>3. (n \div 256) * 256 + (n % 256) = n
    BY SMT
  <1>4. n \div 256 \in Byte
    BY SMT, <1>1
  <1> QED
    BY SMT, <1>2, <1>3, <1>4

\* So do three.
LEMMA ThreeBytes ==
  ASSUME NEW n \in Nat, n <= 16777215
  PROVE  /\ n % 256 \in Byte /\ (n \div 256) % 256 \in Byte /\ n \div 65536 \in Byte
         /\ (n \div 65536) * 65536 + ((n \div 256) % 256) * 256 + (n % 256) = n
  <1> USE DEF Byte
  <1>1. n \div 65536 \in Nat /\ n \div 65536 <= 255
    BY SMT
  <1>2. n % 256 \in Byte
    BY SMT
  <1>3. n \div 256 \in Nat
    BY SMT
  <1>4. (n \div 256) % 256 \in Byte
    BY SMT, <1>3
  <1>5. n \div 65536 \in Byte
    BY SMT, <1>1
  <1>6. (n \div 65536) * 65536 + ((n \div 256) % 256) * 256 + (n % 256) = n
    BY SMT
  <1> QED
    BY SMT, <1>2, <1>4, <1>5, <1>6

\* And four.
LEMMA FourBytes ==
  ASSUME NEW n \in Nat, n <= 4294967295
  PROVE  /\ n % 256 \in Byte /\ (n \div 256) % 256 \in Byte
         /\ (n \div 65536) % 256 \in Byte /\ n \div 16777216 \in Byte
         /\ (n % 256) + ((n \div 256) % 256) * 256 + ((n \div 65536) % 256) * 65536
              + (n \div 16777216) * 16777216 = n
  <1> USE DEF Byte
  <1>1. n \div 16777216 \in Nat /\ n \div 16777216 <= 255
    BY SMT
  <1>2. n % 256 \in Byte
    BY SMT
  <1>3. n \div 256 \in Nat /\ n \div 65536 \in Nat
    BY SMT
  <1>4. (n \div 256) % 256 \in Byte /\ (n \div 65536) % 256 \in Byte
    BY SMT, <1>3
  <1>5. n \div 16777216 \in Byte
    BY SMT, <1>1
  <1>6. (n % 256) + ((n \div 256) % 256) * 256 + ((n \div 65536) % 256) * 65536
              + (n \div 16777216) * 16777216 = n
    BY SMT
  <1> QED
    BY SMT, <1>2, <1>4, <1>5, <1>6

\* The header of every object of every size that its type allows is made of bytes,
\* and the file system reads its type and size from it; so that adding the size to the
\* offset of the object leads to what comes after it, which next() relies on.
THEOREM HeaderDecodes ==
  ASSUME NEW type \in ObjectTypes, NEW size \in Nat,
         size <= MaxContentSize(type)
  PROVE  /\ Header(type, size) \in Seq(Byte)
         /\ ~IsRef(Header(type, size))
         /\ TypeOf(Header(type, size)) = type
         /\ ContentSize(Header(type, size)) = size
         /\ ContentOffset(Header(type, size)) = Len(Header(type, size))
  <1> SUFFICES ASSUME NEW h, h = Header(type, size)
               PROVE  /\ h \in Seq(Byte)
                      /\ ~IsRef(h) /\ TypeOf(h) = type
                      /\ ContentSize(h) = size /\ ContentOffset(h) = Len(h)
    OBVIOUS
  <1>1. type \in 0..127 /\ type % 128 = type
    BY SMT, TypesAreSmall
  <1>2. ASSUME h[1] = type
        PROVE  ~IsRef(h) /\ TypeOf(h) = type
    BY SMT, <1>1, <1>2 DEF IsRef, TypeOf, Ref
  <1>3. CASE Narrow(type)
    <2>0. ~Middle(type)
      BY SMT, <1>1, <1>3 DEF Narrow, Middle, Data16
    <2>1. MaxContentSize(type) = 255 /\ h = <<type, size>>
      BY SMT, <1>3, <2>0 DEF MaxContentSize, Header
    <2>2. size \in Byte
      <3>1. size <= 255
        BY SMT, <2>1
      <3> QED
        BY SMT, <3>1 DEF Byte
    <2>3. h[1] = type /\ h[2] = size /\ Len(h) = 2 /\ h \in Seq(Byte)
      BY SMT, <1>1, <2>1, <2>2 DEF Byte
    <2>4. ~IsRef(h) /\ TypeOf(h) = type
      BY SMT, <1>2, <2>3
    <2> QED
      BY SMT, <1>3, <2>0, <2>3, <2>4 DEF ContentSize, ContentOffset
  <1>4. CASE Middle(type)
    <2>1. ~Narrow(type)
      BY SMT, <1>1, <1>4 DEF Narrow, Middle, Data16
    <2>2. MaxContentSize(type) = 65535 /\ h = <<type, size % 256, size \div 256>>
      BY SMT, <1>4, <2>1 DEF MaxContentSize, Header
    <2>3. /\ h[1] = type /\ h[2] = size % 256 /\ h[3] = size \div 256
          /\ Len(h) = 3 /\ h \in Seq(Byte)
      BY SMT, <1>1, <2>2, TwoBytes DEF Byte
    <2>4. h[3] * 256 + h[2] = size
      BY SMT, <2>2, <2>3, TwoBytes
    <2>5. ~IsRef(h) /\ TypeOf(h) = type
      BY SMT, <1>2, <2>3
    <2> QED
      BY SMT, <1>4, <2>1, <2>3, <2>4, <2>5 DEF ContentSize, ContentOffset
  <1>5. CASE ~Narrow(type) /\ ~Middle(type)
    <2>1. /\ MaxContentSize(type) = 16777215
          /\ h = <<type, size % 256, (size \div 256) % 256, size \div 65536>>
      BY SMT, <1>5 DEF MaxContentSize, Header
    <2>2. /\ h[1] = type /\ h[2] = size % 256 /\ h[3] = (size \div 256) % 256
          /\ h[4] = size \div 65536 /\ Len(h) = 4 /\ h \in Seq(Byte)
      BY SMT, <1>1, <2>1, ThreeBytes DEF Byte
    <2>3. h[4] * 65536 + h[3] * 256 + h[2] = size
      BY SMT, <2>1, <2>2, ThreeBytes
    <2>4. ~IsRef(h) /\ TypeOf(h) = type
      BY SMT, <1>2, <2>2
    <2> QED
      BY SMT, <1>5, <2>2, <2>3, <2>4 DEF ContentSize, ContentOffset
  <1> QED
    BY SMT, <1>3, <1>4, <1>5

\* A reference to every offset of 32 bits is made of bytes, the file system reads the
\* type and the offset from it, and finds the end of it: whatever number of bytes
\* the builder has taken for the offset.
THEOREM ReferenceDecodes ==
  ASSUME NEW type \in ObjectTypes, NEW id \in Nat, id <= 4294967295
  PROVE  /\ RefHeader(type, id) \in Seq(Byte)
         /\ IsRef(RefHeader(type, id))
         /\ TypeOf(RefHeader(type, id)) = type
         /\ GetRef(RefHeader(type, id)) = id
         /\ ObjectSize(RefHeader(type, id)) = Len(RefHeader(type, id))
  <1> DEFINE b == RefBytes(id)
             h == <<type + 128, Len(b)>> \o b
  <1>1. type \in 0..127 /\ (type + 128) % 128 = type
    BY SMT, TypesAreSmall
  <1>2. RefHeader(type, id) = h
    BY SMT DEF RefHeader, Ref
  <1>3. /\ b \in Seq(Byte) /\ Len(b) \in 1..4
        /\ (IF 1 <= Len(b) THEN b[1] ELSE 0) + (IF 2 <= Len(b) THEN b[2] ELSE 0) * 256
             + (IF 3 <= Len(b) THEN b[3] ELSE 0) * 65536
             + (IF 4 <= Len(b) THEN b[4] ELSE 0) * 16777216 = id
    <2>1. CASE id <= 255
      <3>1. b = <<id>> /\ id \in Byte
        BY SMT, <2>1 DEF RefBytes, Byte
      <3> HIDE DEF b
      <3>2. b \in Seq(Byte) /\ Len(b) = 1 /\ b[1] = id
        BY SMT, <3>1
      <3> QED
        BY SMT, <3>1, <3>2 DEF Byte
    <2>2. CASE 255 < id /\ id <= 65535
      <3>1. b = <<id % 256, id \div 256>>
        BY SMT, <2>2 DEF RefBytes
      <3> HIDE DEF b
      <3>2. b \in Seq(Byte) /\ Len(b) = 2 /\ b[1] = id % 256 /\ b[2] = id \div 256
        BY SMT, <2>2, <3>1, TwoBytes
      <3> QED
        BY SMT, <2>2, <3>2, TwoBytes DEF Byte
    <2>3. CASE 65535 < id /\ id <= 16777215
      <3>1. b = <<id % 256, (id \div 256) % 256, id \div 65536>>
        BY SMT, <2>3 DEF RefBytes
      <3> HIDE DEF b
      <3>2. /\ b \in Seq(Byte) /\ Len(b) = 3
            /\ b[1] = id % 256 /\ b[2] = (id \div 256) % 256 /\ b[3] = id \div 65536
        BY SMT, <2>3, <3>1, ThreeBytes
      <3> QED
        BY SMT, <2>3, <3>2, ThreeBytes DEF Byte
    <2>4. CASE 16777215 < id
      <3>1. b = <<id % 256, (id \div 256) % 256, (id \div 65536) % 256, id \div 16777216>>
        BY SMT, <2>4 DEF RefBytes
      <3> HIDE DEF b
      <3>2. /\ b \in Seq(Byte) /\ Len(b) = 4
            /\ b[1] = id % 256 /\ b[2] = (id \div 256) % 256
            /\ b[3] = (id \div 65536) % 256 /\ b[4] = id \div 16777216
        BY SMT, <2>4, <3>1, FourBytes
      <3> QED
        BY SMT, <2>4, <3>2, FourBytes DEF Byte
    <2> QED
      BY SMT, <2>1, <2>2, <2>3, <2>4
  <1> HIDE DEF b
  <1>4. /\ h \in Seq(Byte) /\ Len(h) = Len(b) + 2
        /\ h[1] = type + 128 /\ h[2] = Len(b)
        /\ \A k \in 1..Len(b) : h[2 + k] = b[k]
    <2>1. type + 128 \in Byte /\ Len(b) \in Byte
      <3>1. Len(b) \in 1..4
        BY SMT, <1>3
      <3> QED
        BY SMT, <1>1, <3>1 DEF Byte
    <2> QED
      BY SMT, <1>3, <2>1
  <1> HIDE DEF h
  <1>5. IsRef(h) /\ TypeOf(h) = type /\ ContentOffset(h) = 2 /\ ContentSize(h) = Len(b)
    <2>1. IsRef(h) /\ TypeOf(h) = type
      BY SMT, <1>1, <1>4 DEF IsRef, TypeOf, Ref
    <2> QED
      BY SMT, <1>4, <2>1 DEF ContentOffset, ContentSize
  <1>6. \A k \in 1..4 : RefByte(h, k) = IF k <= Len(b) THEN b[k] ELSE 0
    BY SMT, <1>3, <1>4, <1>5 DEF RefByte
  <1>7. GetRef(h) = id
    BY SMT, <1>3, <1>6 DEF GetRef
  <1> QED
    BY SMT, <1>2, <1>3, <1>4, <1>5, <1>7 DEF ObjectSize

-----------------------------------------------------------------------------
(* Trees of objects. *)

IsObject(b) ==
  /\ b = [obt |-> b.obt, parent |-> b.parent, name |-> b.name, kids |-> b.kids,
          value |-> b.value, size |-> b.size]
  /\ b.obt \in ObjectTypes /\ b.parent \in Nat /\ b.name \in Names \cup {Absent}
  /\ b.name # Absent => NamedType(b.obt)
  /\ b.kids \in Seq(Nat)

\* Two children of one object: of one type and of one name they are not.
Differ(a, b) == (a.obt = b.obt => NamedType(a.obt)) /\ (a.name = b.name => a.name = Absent)

KidsAre(o, i) ==
  \A j \in 1..Len(o[i].kids) : o[i].kids[j] \in 1..Len(o) /\ o[o[i].kids[j]].parent = i

Apart(o, i) ==
  \A j, k \in 1..Len(o[i].kids) : j # k => Differ(o[o[i].kids[j]], o[o[i].kids[k]])

IsTree(o) ==
  /\ IsSequence(o)
  /\ \A i \in 1..Len(o) : IsObject(o[i]) /\ o[i].parent < i /\ KidsAre(o, i) /\ Apart(o, i)

\* What a file has before its data: what rules give it, and the hash.
Early == {ObjAttr, Compression, ReadACE, WriteACE, Md5Hash}

HasEarly(o, i) == \A j \in 1..Len(o[i].kids) : o[o[i].kids[j]].obt \in Early

\* An object has got more, or less.
Grows(o, q, i) == IsTree(q) /\ Len(q) >= Len(o) /\ (HasEarly(o, i) => HasEarly(q, i))

\* A field of an object is set.
LEMMA ObjectFields ==
  ASSUME NEW b, IsObject(b), NEW x
  PROVE  /\ [b EXCEPT !.kids = x] = [obt |-> b.obt, parent |-> b.parent, name |-> b.name, kids |-> x,
                                     value |-> b.value, size |-> b.size]
         /\ [b EXCEPT !.value = x] = [obt |-> b.obt, parent |-> b.parent, name |-> b.name,
                                      kids |-> b.kids, value |-> x, size |-> b.size]
  <1>1. b = [obt |-> b.obt, parent |-> b.parent, name |-> b.name, kids |-> b.kids,
             value |-> b.value, size |-> b.size]
    BY DEF IsObject
  <1>2. ASSUME NEW f1, NEW f2, NEW f3, NEW f4, NEW f5, NEW f6
        PROVE  LET r == [obt |-> f1, parent |-> f2, name |-> f3, kids |-> f4, value |-> f5, size |-> f6]
               IN  /\ [r EXCEPT !.kids = x] = [obt |-> f1, parent |-> f2, name |-> f3, kids |-> x,
                                               value |-> f5, size |-> f6]
                   /\ [r EXCEPT !.value = x] = [obt |-> f1, parent |-> f2, name |-> f3, kids |-> f4,
                                                value |-> x, size |-> f6]
    OBVIOUS
  <1> DEFINE r == [obt |-> b.obt, parent |-> b.parent, name |-> b.name, kids |-> b.kids,
                   value |-> b.value, size |-> b.size]
  <1>3. /\ [r EXCEPT !.kids = x] = [obt |-> b.obt, parent |-> b.parent, name |-> b.name, kids |-> x,
                                    value |-> b.value, size |-> b.size]
        /\ [r EXCEPT !.value = x] = [obt |-> b.obt, parent |-> b.parent, name |-> b.name,
                                     kids |-> b.kids, value |-> x, size |-> b.size]
    BY <1>2
  <1>4. b = r
    BY <1>1
  <1> HIDE DEF r
  <1> QED
    BY <1>3, <1>4

\* Some of the children, each at most as often as before.
Selects(f, s, t) ==
  /\ \A j \in 1..Len(s) : f[j] \in 1..Len(t) /\ s[j] = t[f[j]]
  /\ \A j, k \in 1..Len(s) : j # k => f[j] # f[k]

Alike(a, b) == a.obt = b.obt /\ a.parent = b.parent /\ a.name = b.name

\* A tree from which children are left out, or in which values are set, is one.
LEMMA TreeSelected ==
  ASSUME NEW o, IsTree(o), NEW q, IsSequence(q), Len(q) = Len(o),
         \A i \in 1..Len(o) : /\ IsObject(q[i]) /\ Alike(q[i], o[i])
                              /\ \E f : Selects(f, q[i].kids, o[i].kids)
  PROVE  \A i \in 1..Len(o) : Grows(o, q, i)
  <1>0. Len(o) \in Nat
    BY DEF IsTree, IsSequence
  <1>1. ASSUME NEW i \in 1..Len(q)
        PROVE  IsObject(q[i]) /\ q[i].parent < i /\ KidsAre(q, i) /\ Apart(q, i)
                 /\ (HasEarly(o, i) => HasEarly(q, i))
    <2> DEFINE s == q[i].kids
               t == o[i].kids
    <2>1. PICK f : Selects(f, s, t)
      OBVIOUS
    <2>2. KidsAre(o, i) /\ Apart(o, i) /\ o[i].parent < i
      BY DEF IsTree
    <2>3. \A j \in 1..Len(t) : t[j] \in 1..Len(o) /\ Alike(q[t[j]], o[t[j]])
      BY <2>2 DEF KidsAre
    <2> HIDE DEF s, t
    <2>4. \A j \in 1..Len(s) : f[j] \in 1..Len(t) /\ s[j] = t[f[j]]
      BY <2>1 DEF Selects
    <2>5. KidsAre(q, i)
      <3> SUFFICES ASSUME NEW j \in 1..Len(s)
                   PROVE  s[j] \in 1..Len(q) /\ q[s[j]].parent = i
        BY DEF KidsAre, s
      <3>1. f[j] \in 1..Len(t) /\ s[j] = t[f[j]]
        BY <2>4
      <3>2. t[f[j]] \in 1..Len(o) /\ o[t[f[j]]].parent = i
        BY <2>2, <3>1 DEF KidsAre, t
      <3> QED
        BY <2>3, <3>1, <3>2 DEF Alike
    <2>6. Apart(q, i)
      <3> SUFFICES ASSUME NEW j \in 1..Len(s), NEW k \in 1..Len(s), j # k
                   PROVE  Differ(q[s[j]], q[s[k]])
        BY DEF Apart, s
      <3>1. f[j] # f[k] /\ f[j] \in 1..Len(t) /\ f[k] \in 1..Len(t)
        BY <2>1, <2>4 DEF Selects
      <3>2. Differ(o[t[f[j]]], o[t[f[k]]])
        BY <2>2, <3>1 DEF Apart, t
      <3>3. s[j] = t[f[j]] /\ s[k] = t[f[k]]
        BY <2>4
      <3>4. Alike(q[t[f[j]]], o[t[f[j]]]) /\ Alike(q[t[f[k]]], o[t[f[k]]])
        BY <2>3, <3>1
      <3> QED
        BY <3>2, <3>3, <3>4 DEF Differ, Alike
    <2>7. HasEarly(o, i) => HasEarly(q, i)
      <3> SUFFICES ASSUME HasEarly(o, i), NEW j \in 1..Len(s)
                   PROVE  q[s[j]].obt \in Early
        BY DEF HasEarly, s
      <3>1. f[j] \in 1..Len(t) /\ s[j] = t[f[j]]
        BY <2>4
      <3>2. o[t[f[j]]].obt \in Early
        BY <3>1 DEF HasEarly, t
      <3> QED
        BY <2>3, <3>1, <3>2 DEF Alike
    <2> QED
      BY <2>2, <2>5, <2>6, <2>7 DEF Alike
  <1>2. IsTree(q)
    BY <1>1 DEF IsTree
  <1> QED
    BY <1>0, <1>1, <1>2 DEF Grows

\* Each child where it was.
LEMMA SameSelects ==
  ASSUME NEW t
  PROVE  Selects([j \in 1..Len(t) |-> j], t, t)
  BY DEF Selects

\* Without the one in a place.
LEMMA RemovalSelects ==
  ASSUME NEW t \in Seq(Nat), NEW m \in 1..Len(t)
  PROVE  /\ RemoveAt(t, m) \in Seq(Nat)
         /\ \E f : /\ Selects(f, RemoveAt(t, m), t)
                  /\ \A j \in 1..Len(RemoveAt(t, m)) : f[j] # m
  <1> DEFINE a == SubSeq(t, 1, m - 1)
             b == SubSeq(t, m + 1, Len(t))
             f == [j \in 1..(Len(t) - 1) |-> IF j < m THEN j ELSE j + 1]
  <1>1. /\ a \in Seq(Nat) /\ Len(a) = m - 1
        /\ \A j \in 1..(m - 1) : a[j] = t[j]
    <2>1. \A j \in 1..(m - 1) : t[j] \in Nat
      OBVIOUS
    <2> QED
      BY <2>1, SubSeqProperties
  <1>2. /\ b \in Seq(Nat) /\ Len(b) = Len(t) - m
        /\ \A j \in 1..(Len(t) - m) : b[j] = t[j + m]
    <2>1. m + 1 \in 1..(Len(t) + 1) /\ Len(t) \in 0..Len(t)
      OBVIOUS
    <2>2. b \in Seq(Nat) /\ Len(b) = Len(t) - m
      OBVIOUS
    <2> QED
      BY <2>2
  <1>3. RemoveAt(t, m) = a \o b
    BY DEF RemoveAt
  <1> HIDE DEF a, b
  <1>4. /\ a \o b \in Seq(Nat) /\ Len(a \o b) = Len(t) - 1
        /\ \A j \in 1..(Len(t) - 1) : (a \o b)[j] = IF j < m THEN a[j] ELSE b[j - (m - 1)]
    <2>1. /\ a \o b \in Seq(Nat) /\ Len(a \o b) = Len(a) + Len(b)
          /\ \A j \in 1..Len(a) + Len(b) : (a \o b)[j] = IF j <= Len(a) THEN a[j] ELSE b[j - Len(a)]
      BY <1>1, <1>2, ConcatProperties
    <2>2. Len(a) + Len(b) = Len(t) - 1
      BY <1>1, <1>2
    <2>3. \A j \in 1..(Len(t) - 1) : (j <= m - 1) <=> (j < m)
      OBVIOUS
    <2> QED
      BY <1>1, <2>1, <2>2, <2>3
  <1>5. ASSUME NEW j \in 1..(Len(t) - 1)
        PROVE  f[j] \in 1..Len(t) /\ (a \o b)[j] = t[f[j]]
    <2>1. CASE j < m
      <3>1. j \in 1..(m - 1) /\ f[j] = j /\ j \in 1..Len(t)
        BY <2>1
      <3>2. (a \o b)[j] = a[j]
        BY <1>4, <2>1
      <3>3. a[j] = t[j]
        BY <1>1, <3>1
      <3> QED
        BY <3>1, <3>2, <3>3
    <2>2. CASE ~(j < m)
      <3>1. j - (m - 1) \in 1..(Len(t) - m)
        BY <2>2
      <3>2. b[j - (m - 1)] = t[(j - (m - 1)) + m]
        BY <1>2, <3>1
      <3>3. (j - (m - 1)) + m = j + 1 /\ f[j] = j + 1 /\ j + 1 \in 1..Len(t)
        BY <2>2
      <3>4. (a \o b)[j] = b[j - (m - 1)]
        BY <1>4, <2>2
      <3> QED
        BY <3>2, <3>3, <3>4
    <2> QED
      BY <2>1, <2>2
  <1>6. /\ \A j, k \in 1..(Len(t) - 1) : j # k => f[j] # f[k]
        /\ \A j \in 1..(Len(t) - 1) : f[j] # m
    OBVIOUS
  <1> HIDE DEF f
  <1>7. Selects(f, a \o b, t)
    BY <1>4, <1>5, <1>6 DEF Selects
  <1> QED
    BY <1>3, <1>4, <1>6, <1>7

\* An element of a sequence is set.
LEMMA ElementSet ==
  ASSUME NEW o, IsSequence(o), NEW k \in 1..Len(o), NEW b
  PROVE  /\ IsSequence([o EXCEPT ![k] = b])
         /\ Len([o EXCEPT ![k] = b]) = Len(o)
         /\ [o EXCEPT ![k] = b][k] = b
         /\ \A i \in 1..Len(o) : i # k => [o EXCEPT ![k] = b][i] = o[i]
  <1> DEFINE S == { o[i] : i \in 1..Len(o) } \cup {b}
             q == [o EXCEPT ![k] = b]
  <1>1. o \in Seq(S) /\ b \in S
    BY DEF IsSequence
  <1> HIDE DEF S
  <1>2. q \in Seq(S) /\ Len(q) = Len(o) /\ q[k] = b /\ \A i \in 1..Len(o) : i # k => q[i] = o[i]
    BY <1>1
  <1> QED
    BY <1>2, SequenceIs

\* What is in a tree.
LEMMA TreeHas ==
  ASSUME NEW o, IsTree(o)
  PROVE  /\ IsSequence(o) /\ Len(o) \in Nat /\ DOMAIN o = 1..Len(o)
         /\ \A i \in 1..Len(o) :
              /\ IsObject(o[i]) /\ o[i].parent < i /\ o[i].parent \in Nat
              /\ o[i].kids \in Seq(Nat) /\ DOMAIN o[i].kids = 1..Len(o[i].kids)
              /\ Len(o[i].kids) \in Nat
  <1>1. IsSequence(o) /\ Len(o) \in Nat /\ DOMAIN o = 1..Len(o)
    BY DEF IsTree, IsSequence
  <1>2. \A i \in 1..Len(o) : IsObject(o[i]) /\ o[i].parent < i
    BY DEF IsTree
  <1>3. \A i \in 1..Len(o) : o[i].parent \in Nat /\ o[i].kids \in Seq(Nat)
    BY <1>2 DEF IsObject
  <1>4. \A i \in 1..Len(o) : DOMAIN o[i].kids = 1..Len(o[i].kids) /\ Len(o[i].kids) \in Nat
    BY <1>3
  <1> QED
    BY <1>1, <1>2, <1>3, <1>4

\* An object is set that is alike and has some of the children.
LEMMA ObjectSet ==
  ASSUME NEW o, IsTree(o), NEW k \in 1..Len(o), NEW b, IsObject(b), Alike(b, o[k]),
         \E f : Selects(f, b.kids, o[k].kids)
  PROVE  /\ \A i \in 1..Len(o) : Grows(o, [o EXCEPT ![k] = b], i)
         /\ Len([o EXCEPT ![k] = b]) = Len(o)
  <1> DEFINE q == [o EXCEPT ![k] = b]
  <1>1. /\ IsSequence(q) /\ Len(q) = Len(o) /\ q[k] = b
        /\ \A i \in 1..Len(o) : i # k => q[i] = o[i]
    BY TreeHas, ElementSet
  <1> HIDE DEF q
  <1>2. ASSUME NEW i \in 1..Len(o)
        PROVE  /\ IsObject(q[i]) /\ Alike(q[i], o[i])
               /\ \E f : Selects(f, q[i].kids, o[i].kids)
    <2>1. CASE i = k
      BY <1>1, <2>1
    <2>2. CASE i # k
      <3>1. q[i] = o[i]
        BY <1>1, <2>2
      <3> QED
        BY <3>1, TreeHas, SameSelects DEF Alike
    <2> QED
      BY <2>1, <2>2
  <1>3. \A i \in 1..Len(o) : Grows(o, q, i)
    BY <1>1, <1>2, TreeSelected
  <1> QED
    BY <1>1, <1>3 DEF q

\* A value is set.
LEMMA ValueSet ==
  ASSUME NEW o, IsTree(o), NEW k, NEW v
  PROVE  \A i \in 1..Len(o) : Grows(o, [o EXCEPT ![k] = [o[k] EXCEPT !.value = v]], i)
  <1>1. CASE k \in 1..Len(o)
    <2> DEFINE b == [o[k] EXCEPT !.value = v]
    <2>1. IsObject(o[k])
      BY <1>1, TreeHas
    <2>2. IsObject(b) /\ Alike(b, o[k]) /\ b.kids = o[k].kids
      <3>2. b = [obt |-> o[k].obt, parent |-> o[k].parent, name |-> o[k].name, kids |-> o[k].kids,
                 value |-> v, size |-> o[k].size]
        BY <2>1, ObjectFields
      <3> HIDE DEF b
      <3> QED
        BY <2>1, <3>2 DEF IsObject, Alike
    <2>3. \E f : Selects(f, b.kids, o[k].kids)
      BY <2>2, SameSelects
    <2> HIDE DEF b
    <2>4. \A i \in 1..Len(o) : Grows(o, [o EXCEPT ![k] = b], i)
      BY <1>1, <2>2, <2>3, ObjectSet
    <2> QED
      BY <2>4 DEF b
  <1>2. CASE k \notin 1..Len(o)
    <2> DEFINE w == [o[k] EXCEPT !.value = v]
    <2>1. DOMAIN o = 1..Len(o) /\ o = [i \in 1..Len(o) |-> o[i]]
      <3>1. o \in Seq({ o[i] : i \in 1..Len(o) })
        BY TreeHas DEF IsSequence
      <3> QED
        BY <3>1
    <2> HIDE DEF w
    <2>2. [o EXCEPT ![k] = w] = o
      BY <1>2, <2>1
    <2>3. \A i \in 1..Len(o) : Grows(o, o, i)
      BY TreeHas DEF Grows
    <2> QED
      BY <2>2, <2>3 DEF w
  <1> QED
    BY <1>1, <1>2

\* The least of some places is one of them.
LEMMA LeastPlace ==
  ASSUME NEW S, S \subseteq Nat, S # {}
  PROVE  Min(S) \in S
  BY LeastExists DEF Min

\* Children are left out of an object.
LEMMA KidsRemoved ==
  ASSUME NEW b, IsObject(b), NEW m \in 1..Len(b.kids)
  PROVE  LET c == [b EXCEPT !.kids = RemoveAt(b.kids, m)]
         IN  /\ IsObject(c) /\ Alike(c, b)
             /\ \E f : Selects(f, c.kids, b.kids) /\ \A j \in 1..Len(c.kids) : f[j] # m
  <1> DEFINE r == RemoveAt(b.kids, m)
             c == [b EXCEPT !.kids = r]
  <1>1. b.kids \in Seq(Nat)
    BY DEF IsObject
  <1>2. r \in Seq(Nat) /\ \E f : Selects(f, r, b.kids) /\ \A j \in 1..Len(r) : f[j] # m
    BY <1>1, RemovalSelects
  <1> HIDE DEF r
  <1>4. c = [obt |-> b.obt, parent |-> b.parent, name |-> b.name, kids |-> r,
             value |-> b.value, size |-> b.size]
    BY ObjectFields
  <1> HIDE DEF c
  <1>5. IsObject(c) /\ Alike(c, b) /\ c.kids = r
    BY <1>2, <1>4 DEF IsObject, Alike
  <1>6. /\ IsObject(c) /\ Alike(c, b)
        /\ \E f : Selects(f, c.kids, b.kids) /\ \A j \in 1..Len(c.kids) : f[j] # m
    BY <1>2, <1>5
  <1> QED
    BY <1>6 DEF c, r

\* No child of i has this type.
NoneOfType(q, i, obt) == \A j \in 1..Len(q[i].kids) : q[q[i].kids[j]].obt # obt

\* removeObject()
LEMMA ObjectRemoved ==
  ASSUME NEW o, IsTree(o), NEW i \in 1..Len(o), NEW m \in 1..Len(o[i].kids), NEW k, k = o[i].kids[m]
  PROVE  /\ Grows(o, RemoveObject(o, k), i) /\ Len(RemoveObject(o, k)) = Len(o)
         /\ ~NamedType(o[k].obt) => NoneOfType(RemoveObject(o, k), i, o[k].obt)
  <1> DEFINE places == { j \in DOMAIN o[i].kids : o[i].kids[j] = k }
             c == [o[i] EXCEPT !.kids = RemoveAt(o[i].kids, Min(places))]
             q == [o EXCEPT ![i] = c]
  <1>1. k \in 1..Len(o) /\ o[k].parent = i
    BY DEF IsTree, KidsAre
  <1>2. IsObject(o[i]) /\ DOMAIN o[i].kids = 1..Len(o[i].kids) /\ Len(o[i].kids) \in Nat
    BY TreeHas
  <1>3. Min(places) \in 1..Len(o[i].kids) /\ o[i].kids[Min(places)] = k
    <2>0. \A j \in places : j \in 1..Len(o[i].kids) /\ o[i].kids[j] = k
      BY <1>2
    <2>1. m \in places /\ places \subseteq 1..Len(o[i].kids) /\ places \subseteq Nat
      BY <1>2
    <2> HIDE DEF places
    <2> QED
      BY <2>0, <2>1, LeastPlace
  <1> HIDE DEF places
  <1>4. /\ IsObject(c) /\ Alike(c, o[i])
        /\ \E f : Selects(f, c.kids, o[i].kids) /\ \A j \in 1..Len(c.kids) : f[j] # Min(places)
    BY <1>2, <1>3, KidsRemoved
  <1>5. RemoveObject(o, k) = q
    BY <1>1, Zenon DEF RemoveObject, places
  <1> HIDE DEF c
  <1>6. (\A j \in 1..Len(o) : Grows(o, q, j)) /\ Len(q) = Len(o)
    BY <1>4, ObjectSet
  <1>7. /\ q[i] = c
        /\ \A j \in 1..Len(o) : q[j].obt = o[j].obt
    <2>1. q[i] = c /\ \A j \in 1..Len(o) : j # i => q[j] = o[j]
      BY TreeHas, ElementSet
    <2> QED
      BY <1>4, <2>1 DEF Alike
  <1> HIDE DEF q
  <1>8. ASSUME ~NamedType(o[k].obt), NEW j \in 1..Len(q[i].kids)
        PROVE  q[q[i].kids[j]].obt # o[k].obt
    <2>1. PICK f : Selects(f, c.kids, o[i].kids) /\ \A n \in 1..Len(c.kids) : f[n] # Min(places)
      BY <1>4
    <2>2. f[j] \in 1..Len(o[i].kids) /\ c.kids[j] = o[i].kids[f[j]] /\ f[j] # Min(places)
      BY <1>7, <1>8, <2>1 DEF Selects
    <2>3. Differ(o[o[i].kids[f[j]]], o[o[i].kids[Min(places)]])
      BY <1>3, <2>2 DEF IsTree, Apart
    <2>4. o[c.kids[j]].obt # o[k].obt
      BY <1>3, <1>8, <2>2, <2>3 DEF Differ
    <2>5. c.kids[j] \in 1..Len(o)
      BY <2>2 DEF IsTree, KidsAre
    <2> QED
      BY <1>7, <2>4, <2>5
  <1>9. Grows(o, q, i)
    BY <1>6
  <1>10. ~NamedType(o[k].obt) => NoneOfType(q, i, o[k].obt)
    BY <1>8 DEF NoneOfType
  <1> QED
    BY <1>5, <1>6, <1>9, <1>10

\* prune()
LEMMA TreePruned ==
  ASSUME NEW o, IsTree(o)
  PROVE  IsTree(Prune(o)) /\ Len(Prune(o)) = Len(o)
  <1> DEFINE empty(i) == { j \in DOMAIN o[i].kids : IsEmpty(o, o[i].kids[j]) }
             b(i) == IF empty(i) = {} THEN o[i] ELSE [o[i] EXCEPT !.kids = RemoveAt(o[i].kids, Min(empty(i)))]
             q == [i \in 1..Len(o) |-> b(i)]
  <1>1. Prune(o) = q
    <2>1. DOMAIN o = 1..Len(o)
      BY TreeHas
    <2> QED
      BY <2>1 DEF Prune
  <1>2. ASSUME NEW i \in 1..Len(o)
        PROVE  /\ IsObject(b(i)) /\ Alike(b(i), o[i])
               /\ \E f : Selects(f, b(i).kids, o[i].kids)
    <2>1. IsObject(o[i]) /\ DOMAIN o[i].kids = 1..Len(o[i].kids) /\ Len(o[i].kids) \in Nat
      BY TreeHas
    <2>2. CASE empty(i) = {}
      <3>1. b(i) = o[i]
        BY <2>2
      <3> HIDE DEF b
      <3> QED
        BY <2>1, <3>1, SameSelects DEF Alike
    <2>3. CASE empty(i) # {}
      <3> DEFINE m == Min(empty(i))
      <3>1. m \in 1..Len(o[i].kids)
        <4>1. empty(i) \subseteq 1..Len(o[i].kids) /\ empty(i) \subseteq Nat
          BY <2>1
        <4> HIDE DEF empty
        <4> QED
          BY <2>3, <4>1, LeastPlace
      <3>2. b(i) = [o[i] EXCEPT !.kids = RemoveAt(o[i].kids, m)]
        BY <2>3
      <3> HIDE DEF m, b
      <3> QED
        BY <2>1, <3>1, <3>2, KidsRemoved
    <2> QED
      BY <2>2, <2>3
  <1> HIDE DEF b
  <1>3. Len(o) \in Nat
    BY TreeHas
  <1>4. IsSequence(q) /\ Len(q) = Len(o) /\ \A i \in 1..Len(o) : q[i] = b(i)
    BY <1>3 DEF IsSequence
  <1> HIDE DEF q
  <1>5. \A i \in 1..Len(o) : Grows(o, q, i)
    <2>1. \A i \in 1..Len(o) : /\ IsObject(q[i]) /\ Alike(q[i], o[i])
                               /\ \E f : Selects(f, q[i].kids, o[i].kids)
      BY <1>2, <1>4
    <2> QED
      BY <1>4, <2>1, TreeSelected
  <1>6. IsTree(q)
    <2>1. CASE Len(o) = 0
      BY <1>4, <2>1 DEF IsTree
    <2>2. CASE Len(o) # 0
      <3>1. 1 \in 1..Len(o)
        BY <1>3, <2>2
      <3> QED
        BY <1>5, <3>1 DEF Grows
    <2> QED
      BY <2>1, <2>2
  <1> QED
    BY <1>1, <1>4, <1>6

\* What is the same of the objects when one is added.
Adds(o, obj, q) ==
  /\ IsTree(q) /\ Len(q) = Len(o) + 1 /\ q[Len(o) + 1] = obj
  /\ \A i \in 1..Len(o) :
       /\ Alike(q[i], o[i])
       /\ HasEarly(o, i) /\ (obj.obt \in Early \/ i # obj.parent) => HasEarly(q, i)

\* An object is added that differs from the other children.
LEMMA ObjectAdded ==
  ASSUME NEW o, IsTree(o), NEW obj, IsObject(obj), obj.kids = <<>>, obj.parent \in 1..Len(o),
         \A j \in 1..Len(o[obj.parent].kids) : Differ(o[o[obj.parent].kids[j]], obj)
  PROVE  Adds(o, obj, AddObject(o, obj))
  <1> DEFINE p == obj.parent
             n == Len(o) + 1
             c == [o[p] EXCEPT !.kids = Append(o[p].kids, n)]
             r == [o EXCEPT ![p] = c]
             q == Append(r, obj)
  <1>1. IsSequence(o) /\ Len(o) \in Nat /\ IsObject(o[p]) /\ o[p].kids \in Seq(Nat)
    BY TreeHas
  <1>2. IsObject(c) /\ Alike(c, o[p]) /\ c.kids = Append(o[p].kids, n)
    <2> DEFINE k == Append(o[p].kids, n)
    <2>1. k \in Seq(Nat)
      BY <1>1
    <2> HIDE DEF k
    <2>2. c = [obt |-> o[p].obt, parent |-> o[p].parent, name |-> o[p].name, kids |-> k,
               value |-> o[p].value, size |-> o[p].size]
      BY <1>1, ObjectFields DEF k
    <2>3. c.kids = k
      BY <2>2
    <2> HIDE DEF c
    <2>4. IsObject(c) /\ Alike(c, o[p])
      BY <1>1, <2>1, <2>2 DEF IsObject, Alike
    <2> QED
      BY <2>3, <2>4 DEF k
  <1>3. AddObject(o, obj) = q
    BY Zenon DEF AddObject
  <1> HIDE DEF c
  <1>4. /\ IsSequence(r) /\ Len(r) = Len(o) /\ r[p] = c
        /\ \A i \in 1..Len(o) : i # p => r[i] = o[i]
    BY <1>1, ElementSet
  <1> HIDE DEF r
  <1>5. /\ IsSequence(q) /\ Len(q) = n /\ q[n] = obj
        /\ \A i \in 1..Len(o) : q[i] = r[i]
    BY <1>4, AppendIs
  <1> HIDE DEF q
  <1>6. /\ Len(c.kids) = Len(o[p].kids) + 1 /\ c.kids[Len(c.kids)] = n
        /\ \A j \in 1..Len(o[p].kids) : c.kids[j] = o[p].kids[j]
        /\ Len(o[p].kids) \in Nat
    BY <1>1, <1>2, AppendProperties
  <1>7. \A i \in 1..Len(o) : IsObject(q[i]) /\ Alike(q[i], o[i]) /\ q[i].parent < i /\ o[i].parent < i
    <2> SUFFICES ASSUME NEW i \in 1..Len(o)
                 PROVE  IsObject(q[i]) /\ Alike(q[i], o[i]) /\ q[i].parent < i /\ o[i].parent < i
      OBVIOUS
    <2>1. IsObject(o[i]) /\ o[i].parent < i
      BY TreeHas
    <2>2. CASE i = p
      BY <1>2, <1>4, <1>5, <2>1, <2>2 DEF Alike
    <2>3. CASE i # p
      <3>1. q[i] = o[i]
        BY <1>4, <1>5, <2>3
      <3> QED
        BY <2>1, <3>1 DEF Alike
    <2> QED
      BY <2>2, <2>3
  <1>8. \A i \in 1..Len(o) : i # p => q[i].kids = o[i].kids
    BY <1>4, <1>5
  <1>9. q[p].kids = c.kids
    BY <1>4, <1>5
  <1>10. \A i \in 1..Len(o) : \A j \in 1..Len(o[i].kids) :
           /\ o[i].kids[j] \in 1..Len(o) /\ o[o[i].kids[j]].parent = i
           /\ Alike(q[o[i].kids[j]], o[o[i].kids[j]])
    BY <1>7 DEF IsTree, KidsAre
  <1>11. ASSUME NEW i \in 1..Len(o)
         PROVE  /\ KidsAre(q, i) /\ Apart(q, i)
                /\ (HasEarly(o, i) /\ (obj.obt \in Early \/ i # p) => HasEarly(q, i))
    <2>0. Apart(o, i)
      BY DEF IsTree
    <2>1. CASE i # p
      <3>1. q[i].kids = o[i].kids
        BY <1>8, <2>1
      <3>2. KidsAre(q, i)
        <4> SUFFICES ASSUME NEW j \in 1..Len(o[i].kids)
                     PROVE  o[i].kids[j] \in 1..Len(q) /\ q[o[i].kids[j]].parent = i
          BY <3>1 DEF KidsAre
        <4>1. /\ o[i].kids[j] \in 1..Len(o) /\ o[o[i].kids[j]].parent = i
              /\ Alike(q[o[i].kids[j]], o[o[i].kids[j]])
          BY <1>10
        <4> QED
          BY <1>1, <1>5, <4>1 DEF Alike
      <3>3. Apart(q, i)
        <4> SUFFICES ASSUME NEW j \in 1..Len(o[i].kids), NEW k \in 1..Len(o[i].kids), j # k
                     PROVE  Differ(q[o[i].kids[j]], q[o[i].kids[k]])
          BY <3>1 DEF Apart
        <4>1. Differ(o[o[i].kids[j]], o[o[i].kids[k]])
          BY <2>0 DEF Apart
        <4> QED
          BY <1>10, <4>1 DEF Differ, Alike
      <3>4. HasEarly(o, i) => HasEarly(q, i)
        <4> SUFFICES ASSUME HasEarly(o, i), NEW j \in 1..Len(o[i].kids)
                     PROVE  q[o[i].kids[j]].obt \in Early
          BY <3>1 DEF HasEarly
        <4>1. o[o[i].kids[j]].obt \in Early
          BY DEF HasEarly
        <4>2. Alike(q[o[i].kids[j]], o[o[i].kids[j]])
          BY <1>10
        <4> QED
          BY <4>1, <4>2 DEF Alike
      <3> QED
        BY <3>2, <3>3, <3>4
    <2>2. CASE i = p
      <3> DEFINE t == o[p].kids
                 s == c.kids
      <3>1. q[i].kids = s
        BY <1>9, <2>2
      <3>0. /\ Len(s) = Len(t) + 1 /\ s[Len(s)] = n /\ Len(t) \in Nat
            /\ \A j \in 1..Len(t) : s[j] = t[j]
        BY <1>6
      <3>2. \A j \in 1..Len(s) : \/ j \in 1..Len(t) /\ s[j] = t[j]
                                 \/ j = Len(t) + 1 /\ s[j] = n
        <4> HIDE DEF s, t, n
        <4> QED
          BY <3>0
      <3>3. \A j \in 1..Len(t) : t[j] \in 1..Len(o) /\ o[t[j]].parent = p /\ Alike(q[t[j]], o[t[j]])
                                  /\ Differ(o[t[j]], obj)
        BY <1>10
      <3> HIDE DEF s, t
      <3>4. KidsAre(q, i)
        <4> SUFFICES ASSUME NEW j \in 1..Len(s)
                     PROVE  s[j] \in 1..Len(q) /\ q[s[j]].parent = i
          BY <3>1 DEF KidsAre
        <4>1. CASE j \in 1..Len(t) /\ s[j] = t[j]
          BY <1>1, <1>5, <2>2, <3>3, <4>1 DEF Alike
        <4>2. CASE s[j] = n
          BY <1>1, <1>5, <2>2, <4>2
        <4> QED
          BY <3>2, <4>1, <4>2
      <3>5. \A j \in 1..Len(t) : Differ(q[t[j]], obj) /\ Differ(obj, q[t[j]])
        BY <3>3 DEF Differ, Alike
      <3>6. Apart(q, i)
        <4> SUFFICES ASSUME NEW j \in 1..Len(s), NEW k \in 1..Len(s), j # k
                     PROVE  Differ(q[s[j]], q[s[k]])
          BY <3>1 DEF Apart
        <4>1. CASE j \in 1..Len(t) /\ s[j] = t[j] /\ k \in 1..Len(t) /\ s[k] = t[k]
          <5>1. Differ(o[t[j]], o[t[k]])
            BY <2>0, <2>2, <4>1 DEF Apart, t
          <5>2. Alike(q[t[j]], o[t[j]]) /\ Alike(q[t[k]], o[t[k]])
            BY <3>3, <4>1
          <5> QED
            BY <4>1, <5>1, <5>2 DEF Differ, Alike
        <4>2. CASE j \in 1..Len(t) /\ s[j] = t[j] /\ s[k] = n
          BY <1>5, <3>5, <4>2
        <4>3. CASE k \in 1..Len(t) /\ s[k] = t[k] /\ s[j] = n
          BY <1>5, <3>5, <4>3
        <4> QED
          BY <3>2, <4>1, <4>2, <4>3
      <3>7. HasEarly(o, i) /\ obj.obt \in Early => HasEarly(q, i)
        <4> SUFFICES ASSUME HasEarly(o, i), obj.obt \in Early, NEW j \in 1..Len(s)
                     PROVE  q[s[j]].obt \in Early
          BY <3>1 DEF HasEarly
        <4>1. CASE j \in 1..Len(t) /\ s[j] = t[j]
          <5>1. o[t[j]].obt \in Early
            BY <2>2, <4>1 DEF HasEarly, t
          <5> QED
            BY <3>3, <4>1, <5>1 DEF Alike
        <4>2. CASE s[j] = n
          BY <1>5, <4>2
        <4> QED
          BY <3>2, <4>1, <4>2
      <3> QED
        BY <2>2, <3>4, <3>6, <3>7
    <2> QED
      BY <2>1, <2>2
  <1>12. KidsAre(q, n) /\ Apart(q, n)
    BY <1>5 DEF KidsAre, Apart
  <1>13. IsTree(q)
    <2> SUFFICES ASSUME NEW i \in 1..Len(q)
                 PROVE  IsObject(q[i]) /\ q[i].parent < i /\ KidsAre(q, i) /\ Apart(q, i)
      BY <1>5 DEF IsTree
    <2>1. CASE i \in 1..Len(o)
      BY <1>7, <1>11, <2>1
    <2>2. CASE i = n
      BY <1>1, <1>5, <1>12, <2>2
    <2> QED
      BY <1>1, <1>5, <2>1, <2>2
  <1> QED
    BY <1>3, <1>5, <1>7, <1>11, <1>13 DEF Adds

\* findObject(): a child of the type, if there is one.
LEMMA ChildFound ==
  ASSUME NEW o, IsTree(o), NEW i \in 1..Len(o), NEW obt
  PROVE  \/ /\ ChildOfType(o, i, obt) = 0
            /\ \A j \in 1..Len(o[i].kids) : o[o[i].kids[j]].obt # obt
         \/ \E m \in 1..Len(o[i].kids) :
              /\ ChildOfType(o, i, obt) = o[i].kids[m] /\ o[i].kids[m] \in 1..Len(o)
              /\ o[o[i].kids[m]].obt = obt /\ o[o[i].kids[m]].parent = i
  <1> DEFINE kids == o[i].kids
             places == { j \in DOMAIN kids : o[kids[j]].obt = obt }
  <1>1. DOMAIN kids = 1..Len(kids) /\ Len(kids) \in Nat
    BY TreeHas
  <1>2. ChildOfType(o, i, obt) = IF places = {} THEN 0 ELSE kids[Min(places)]
    BY DEF ChildOfType, FirstKid
  <1>3. CASE places = {}
    BY <1>1, <1>2, <1>3
  <1>4. CASE places # {}
    <2>1. Min(places) \in places
      <3>1. places \subseteq Nat
        BY <1>1
      <3> HIDE DEF places
      <3> QED
        BY <1>4, <3>1, LeastPlace
    <2> DEFINE m == Min(places)
    <2>2. m \in 1..Len(kids) /\ o[kids[m]].obt = obt
      BY <1>1, <2>1
    <2>3. kids[m] \in 1..Len(o) /\ o[kids[m]].parent = i
      BY <2>2 DEF IsTree, KidsAre
    <2>4. ChildOfType(o, i, obt) = kids[m]
      BY <1>2, <1>4
    <2> HIDE DEF m
    <2> QED
      BY <2>2, <2>3, <2>4
  <1> QED
    BY <1>3, <1>4

\* findChild(): likewise of a name.
LEMMA NameFound ==
  ASSUME NEW o, IsTree(o), NEW i \in 1..Len(o), NEW name \in Names
  PROVE  \/ /\ FindChild(o, i, name) = 0
            /\ \A j \in 1..Len(o[i].kids) : o[o[i].kids[j]].name # name
         \/ FindChild(o, i, name) \in 1..Len(o) /\ FindChild(o, i, name) # 0
  <1> DEFINE kids == o[i].kids
             places == { j \in DOMAIN kids : NamedType(o[kids[j]].obt) /\ o[kids[j]].name = name }
  <1>1. DOMAIN kids = 1..Len(kids) /\ Len(kids) \in Nat
    BY TreeHas
  <1>2. FindChild(o, i, name) = IF places = {} THEN 0 ELSE kids[Min(places)]
    BY DEF FindChild, FirstKid
  <1>3. \A j \in 1..Len(kids) : kids[j] \in 1..Len(o) /\ IsObject(o[kids[j]])
    BY TreeHas DEF IsTree, KidsAre
  <1>4. CASE places = {}
    <2>1. \A j \in 1..Len(kids) : o[kids[j]].name = name => NamedType(o[kids[j]].obt)
      BY <1>3, SourceAssumption DEF IsObject
    <2>2. \A j \in 1..Len(kids) : o[kids[j]].name # name
      BY <1>1, <1>4, <2>1
    <2>3. FindChild(o, i, name) = 0
      BY <1>2, <1>4
    <2> QED
      BY <2>2, <2>3
  <1>5. CASE places # {}
    <2>1. Min(places) \in places
      <3>1. places \subseteq Nat
        BY <1>1
      <3> HIDE DEF places
      <3> QED
        BY <1>5, <3>1, LeastPlace
    <2> DEFINE m == Min(places)
    <2>2. m \in 1..Len(kids)
      BY <1>1, <2>1
    <2>3. FindChild(o, i, name) = kids[m]
      BY <1>2, <1>5
    <2> HIDE DEF m, places
    <2>4. kids[m] \in 1..Len(o) /\ kids[m] # 0
      BY <1>3, <2>2
    <2> QED
      BY <2>3, <2>4
  <1> QED
    BY <1>4, <1>5

\* A child that has no name is added, where there is none of its type.
LEMMA ValueAdded ==
  ASSUME NEW o, IsTree(o), NEW i \in 1..Len(o), NEW obt \in ObjectTypes, ~NamedType(obt), NEW v, NEW size,
         \A j \in 1..Len(o[i].kids) : o[o[i].kids[j]].obt # obt
  PROVE  /\ Adds(o, Object(obt, i, Absent, v, size), AddValue(o, i, obt, v, size))
         /\ obt \in Early => Grows(o, AddValue(o, i, obt, v, size), i)
  <1> DEFINE obj == Object(obt, i, Absent, v, size)
             q == AddValue(o, i, obt, v, size)
  <1>1. /\ obj = [obt |-> obt, parent |-> i, name |-> Absent, kids |-> <<>>, value |-> v, size |-> size]
        /\ i \in Nat
    BY TreeHas DEF Object
  <1> HIDE DEF obj
  <1>2. IsObject(obj) /\ obj.kids = <<>> /\ obj.parent = i /\ obj.obt = obt /\ obj.name = Absent
    BY <1>1 DEF IsObject
  <1>3. \A j \in 1..Len(o[i].kids) : Differ(o[o[i].kids[j]], obj)
    BY <1>2 DEF Differ
  <1>4. Adds(o, obj, AddObject(o, obj))
    BY <1>2, <1>3, ObjectAdded
  <1>5. q = AddObject(o, obj)
    BY DEF AddValue, obj
  <1> HIDE DEF q
  <1>6. obt \in Early => Grows(o, q, i)
    BY <1>2, <1>4, <1>5, TreeHas DEF Adds, Grows
  <1> QED
    BY <1>4, <1>5, <1>6 DEF obj, q

\* A child with a name is added, where there is none of that name.
LEMMA NamedAdded ==
  ASSUME NEW o, IsTree(o), NEW i \in 1..Len(o), NEW obt \in ObjectTypes, NamedType(obt),
         NEW name \in Names \cup {Absent},
         name # Absent => \A j \in 1..Len(o[i].kids) : o[o[i].kids[j]].name # name
  PROVE  /\ IsTree(AddNamed(o, i, obt, name)) /\ Len(AddNamed(o, i, obt, name)) = Len(o) + 1
         /\ AddNamed(o, i, obt, name)[Len(o) + 1].kids = <<>>
         /\ HasEarly(AddNamed(o, i, obt, name), Len(o) + 1)
  <1> DEFINE obj == Object(obt, i, name, Absent, 0)
             q == AddNamed(o, i, obt, name)
  <1>1. /\ obj = [obt |-> obt, parent |-> i, name |-> name, kids |-> <<>>, value |-> Absent, size |-> 0]
        /\ i \in Nat
    BY TreeHas DEF Object
  <1> HIDE DEF obj
  <1>2. IsObject(obj) /\ obj.kids = <<>> /\ obj.parent = i /\ obj.obt = obt /\ obj.name = name
    BY <1>1 DEF IsObject
  <1>3. \A j \in 1..Len(o[i].kids) : Differ(o[o[i].kids[j]], obj)
    BY <1>2 DEF Differ
  <1>4. Adds(o, obj, AddObject(o, obj))
    BY <1>2, <1>3, ObjectAdded
  <1>5. q = AddObject(o, obj)
    BY DEF AddNamed, obj
  <1> HIDE DEF q
  <1>6. IsTree(q) /\ Len(q) = Len(o) + 1 /\ q[Len(o) + 1] = obj
    BY <1>4, <1>5 DEF Adds
  <1>7. HasEarly(q, Len(o) + 1) /\ q[Len(o) + 1].kids = <<>>
    BY <1>2, <1>6 DEF HasEarly
  <1> QED
    BY <1>6, <1>7 DEF q

-----------------------------------------------------------------------------
(* Rules. *)

\* What findInheritableObject() finds from each of the first n objects.
IsInheriting(from, o, obt, n) ==
  from = [j \in 1..n |-> IF ChildOfType(o, j, obt) # 0 \/ o[j].parent = 0 THEN ChildOfType(o, j, obt)
                         ELSE from[o[j].parent]]

\* Such a function exists.
LEMMA InheritingExists ==
  ASSUME NEW o, IsTree(o), NEW obt
  PROVE  \E from : IsInheriting(from, o, obt, Len(o))
  <1> DEFINE T == { m \in 0..Len(o) : ~\E from : IsInheriting(from, o, obt, m) }
  <1>0. Len(o) \in Nat /\ \A j \in 1..Len(o) : o[j].parent < j /\ o[j].parent \in Nat
    BY TreeHas
  <1> SUFFICES ASSUME T # {} PROVE FALSE
    BY <1>0
  <1>1. PICK m \in T : \A y \in T : m <= y
    <2>1. T \subseteq Nat
      BY <1>0
    <2> HIDE DEF T
    <2> QED
      BY <2>1, LeastExists
  <1>2. m # 0
    <2> DEFINE from0 == [j \in 1..0 |-> 0]
    <2>1. IsInheriting(from0, o, obt, 0)
      BY DEF IsInheriting
    <2> QED
      BY <2>1
  <1>3. m - 1 \in 0..Len(o) /\ m - 1 \notin T /\ m \in 1..Len(o)
    <2>1. m \in 0..Len(o)
      OBVIOUS
    <2>2. m - 1 \in 0..Len(o) /\ m \in 1..Len(o) /\ ~(m <= m - 1)
      BY <1>0, <1>2, <2>1
    <2> HIDE DEF T
    <2> QED
      BY <1>1, <2>2
  <1>4. PICK from : IsInheriting(from, o, obt, m - 1)
    BY <1>3
  <1> DEFINE body(f, j) == IF ChildOfType(o, j, obt) # 0 \/ o[j].parent = 0 THEN ChildOfType(o, j, obt)
                           ELSE f[o[j].parent]
             next == [j \in 1..m |-> IF j = m THEN body(from, m) ELSE from[j]]
  <1>5. ASSUME NEW j \in 1..m
        PROVE  next[j] = body(next, j)
    <2>1. o[j].parent # 0 => o[j].parent \in 1..(m - 1) /\ o[j].parent \in 1..m /\ o[j].parent # m
      BY <1>0, <1>3
    <2>2. next[j] = body(from, j)
      <3>1. CASE j = m
        BY <3>1
      <3>2. CASE j # m
        <4>1. j \in 1..(m - 1)
          BY <1>0, <1>3, <3>2
        <4>2. from[j] = body(from, j)
          BY <1>4, <4>1 DEF IsInheriting
        <4> QED
          BY <3>2, <4>2
      <3> QED
        BY <3>1, <3>2
    <2>3. o[j].parent # 0 => next[o[j].parent] = from[o[j].parent]
      BY <2>1
    <2> HIDE DEF next
    <2> QED
      BY <2>2, <2>3
  <1>6. IsInheriting(next, o, obt, m)
    <2>1. next = [j \in 1..m |-> next[j]]
      OBVIOUS
    <2> HIDE DEF next
    <2>2. [j \in 1..m |-> next[j]] = [j \in 1..m |-> body(next, j)]
      BY <1>5
    <2> QED
      BY <2>1, <2>2 DEF IsInheriting
  <1> QED
    BY <1>1, <1>6

\* The object's own child, or what its parent would find.
LEMMA InheritableIs ==
  ASSUME NEW o, IsTree(o), NEW obt, NEW i \in 1..Len(o), ChildOfType(o, i, obt) # 0
  PROVE  FindInheritable(o, i, obt) = ChildOfType(o, i, obt)
  <1>1. \E from : IsInheriting(from, o, obt, Len(o))
    BY InheritingExists
  <1>2. DOMAIN o = 1..Len(o)
    BY TreeHas
  <1> DEFINE f == CHOOSE from : IsInheriting(from, o, obt, Len(o))
  <1>3. FindInheritable(o, i, obt) = f[i]
    BY <1>2 DEF FindInheritable, IsInheriting
  <1>4. IsInheriting(f, o, obt, Len(o))
    BY <1>1
  <1> HIDE DEF f
  <1>5. f[i] = ChildOfType(o, i, obt)
    BY <1>4 DEF IsInheriting
  <1> QED
    BY <1>3, <1>5

\* setAttr()
LEMMA SetAttrGrows ==
  ASSUME NEW o, IsTree(o), NEW i \in 1..Len(o), NEW state
  PROVE  Grows(o, SetAttr(o, i, state), i)
  <1> DEFINE s == IF ChildOfType(o, i, ObjAttr) # 0 THEN o ELSE AddValue(o, i, ObjAttr, {}, 1)
             attr == ChildOfType(s, i, ObjAttr)
             v == IF state THEN s[attr].value \cup {"ReadOnly"} ELSE s[attr].value \ {"ReadOnly"}
  <1>1. ObjAttr \in ObjectTypes /\ ~NamedType(ObjAttr) /\ ObjAttr \in Early
    BY DEF ObjectTypes, NamedType, Early, ObjAttr, Volume
  <1>2. Grows(o, s, i)
    <2>1. CASE ChildOfType(o, i, ObjAttr) # 0
      BY <2>1, TreeHas DEF Grows
    <2>2. CASE ChildOfType(o, i, ObjAttr) = 0
      <3>1. \A j \in 1..Len(o[i].kids) : o[o[i].kids[j]].obt # ObjAttr
        BY <2>2, ChildFound
      <3>2. Grows(o, AddValue(o, i, ObjAttr, {}, 1), i)
        BY <1>1, <3>1, ValueAdded
      <3> QED
        BY <2>2, <3>2
    <2> QED
      BY <2>1, <2>2
  <1>3. SetAttr(o, i, state) = [s EXCEPT ![attr] = [s[attr] EXCEPT !.value = v]]
    BY Zenon DEF SetAttr
  <1> HIDE DEF s, attr, v
  <1>4. IsTree(s) /\ i \in 1..Len(s) /\ Len(s) \in Nat /\ Len(o) \in Nat
    BY <1>2, TreeHas DEF Grows
  <1>5. Grows(s, [s EXCEPT ![attr] = [s[attr] EXCEPT !.value = v]], i)
    BY <1>4, ValueSet
  <1> QED
    BY <1>2, <1>3, <1>4, <1>5 DEF Grows

\* appendCompression()
LEMMA CompressionGrows ==
  ASSUME NEW o, IsTree(o), NEW i \in 1..Len(o), NEW type
  PROVE  Grows(o, AppendCompression(o, i, type), i)
  <1> DEFINE old == ChildOfType(o, i, Compression)
             s == IF old = 0 THEN o ELSE RemoveObject(o, old)
             v == [type |-> type, originalSize |-> 0]
  <1>1. Compression \in ObjectTypes /\ ~NamedType(Compression) /\ Compression \in Early
    BY DEF ObjectTypes, NamedType, Early, Compression, Volume
  <1>2. Grows(o, s, i) /\ NoneOfType(s, i, Compression)
    <2>1. CASE /\ old = 0
               /\ \A j \in 1..Len(o[i].kids) : o[o[i].kids[j]].obt # Compression
      BY <2>1, TreeHas DEF Grows, NoneOfType
    <2>2. ASSUME NEW m \in 1..Len(o[i].kids), old = o[i].kids[m], o[i].kids[m] \in 1..Len(o),
                 o[o[i].kids[m]].obt = Compression
          PROVE  Grows(o, s, i) /\ NoneOfType(s, i, Compression)
      <3>1. s = RemoveObject(o, o[i].kids[m])
        BY <2>2
      <3> HIDE DEF s
      <3>2. Compression \in Early /\ ~NamedType(Compression)
        BY <1>1
      <3> QED
        BY <2>2, <3>1, <3>2, ObjectRemoved
    <2> QED
      BY <2>1, <2>2, ChildFound
  <1>3. AppendCompression(o, i, type) = IF type = "none" THEN s ELSE AddValue(s, i, Compression, v, 5)
    BY DEF AppendCompression
  <1> HIDE DEF s, v
  <1>4. IsTree(s) /\ i \in 1..Len(s) /\ Len(s) \in Nat /\ Len(o) \in Nat
    BY <1>2, TreeHas DEF Grows
  <1>5. Grows(s, AddValue(s, i, Compression, v, 5), i)
    BY <1>1, <1>2, <1>4, ValueAdded DEF NoneOfType
  <1>6. Len(AddValue(s, i, Compression, v, 5)) \in Nat
    BY <1>5, TreeHas DEF Grows
  <1> QED
    BY <1>2, <1>3, <1>4, <1>5, <1>6 DEF Grows

\* appendACE()
LEMMA ACEGrows ==
  ASSUME NEW o, IsTree(o), NEW i \in 1..Len(o), NEW obt \in {ReadACE, WriteACE}, NEW role
  PROVE  Grows(o, AppendACE(o, i, obt, role), i)
  <1> DEFINE ace == FindInheritable(o, i, obt)
  <1>1. obt \in ObjectTypes /\ ~NamedType(obt) /\ obt \in Early
    BY DEF ObjectTypes, NamedType, Early, ReadACE, WriteACE, Volume
  <1>2. CASE ace # 0 /\ o[ace].value = role
    <2>1. AppendACE(o, i, obt, role) = o
      BY <1>2 DEF AppendACE
    <2> QED
      BY <2>1, TreeHas DEF Grows
  <1>3. CASE ace # 0 /\ o[ace].value # role /\ o[ace].parent = i
    <2>1. AppendACE(o, i, obt, role) = [o EXCEPT ![ace] = [o[ace] EXCEPT !.value = role]]
      BY <1>3, Zenon DEF AppendACE
    <2> HIDE DEF ace
    <2>2. \A j \in 1..Len(o) : Grows(o, [o EXCEPT ![ace] = [o[ace] EXCEPT !.value = role]], j)
      BY ValueSet
    <2> QED
      BY <2>1, <2>2
  <1>4. CASE ~(ace # 0 /\ o[ace].value = role) /\ ~(ace # 0 /\ o[ace].value # role /\ o[ace].parent = i)
    <2>1. AppendACE(o, i, obt, role) = AddValue(o, i, obt, role, 1)
      BY <1>4 DEF AppendACE
    <2>2. ace = 0 \/ o[ace].parent # i
      BY <1>4
    <2> HIDE DEF ace
    <2>3. \A j \in 1..Len(o[i].kids) : o[o[i].kids[j]].obt # obt
      <3>1. ASSUME NEW m \in 1..Len(o[i].kids), ChildOfType(o, i, obt) = o[i].kids[m],
                   o[i].kids[m] \in 1..Len(o), o[o[i].kids[m]].parent = i
            PROVE  FALSE
        <4>1. ChildOfType(o, i, obt) # 0
          BY <3>1
        <4>2. ace = o[i].kids[m]
          BY <3>1, <4>1, InheritableIs DEF ace
        <4> QED
          BY <2>2, <3>1, <4>1, <4>2
      <3> QED
        BY <3>1, ChildFound
    <2> QED
      BY <1>1, <2>1, <2>3, ValueAdded
  <1> QED
    BY <1>2, <1>3, <1>4

\* What grows further has grown.
LEMMA GrowsOn ==
  ASSUME NEW o, NEW s, NEW q, NEW i, IsTree(o), Grows(o, s, i), Grows(s, q, i)
  PROVE  Grows(o, q, i)
  BY TreeHas DEF Grows

\* applyRules() of one rule.
LEMMA RuleGrows ==
  ASSUME NEW o, IsTree(o), NEW i \in 1..Len(o), NEW rule
  PROVE  Grows(o, ApplyRule(o, i, rule), i)
  <1> DEFINE s1 == IF rule.readonly = Absent THEN o ELSE SetAttr(o, i, rule.readonly)
             s2 == IF rule.compress = Absent THEN s1 ELSE AppendCompression(s1, i, rule.compress)
             s3 == IF rule.read = Absent THEN s2 ELSE AppendACE(s2, i, ReadACE, rule.read)
             s4 == IF rule.write = Absent THEN s3 ELSE AppendACE(s3, i, WriteACE, rule.write)
  <1>0. \A s : Grows(o, s, i) => IsTree(s) /\ i \in 1..Len(s) /\ Grows(s, s, i)
    <2> SUFFICES ASSUME NEW s, Grows(o, s, i)
                 PROVE  IsTree(s) /\ i \in 1..Len(s) /\ Grows(s, s, i)
      OBVIOUS
    <2>1. IsTree(s) /\ Len(s) \in Nat /\ Len(o) \in Nat /\ Len(s) >= Len(o)
      BY TreeHas DEF Grows
    <2> QED
      BY <2>1 DEF Grows
  <1>1. ApplyRule(o, i, rule) = s4
    BY DEF ApplyRule
  <1>2. Grows(o, s1, i)
    BY SetAttrGrows, TreeHas DEF Grows
  <1> HIDE DEF s1
  <1>3. Grows(s1, s2, i)
    BY <1>0, <1>2, CompressionGrows
  <1>4. Grows(o, s2, i)
    BY <1>2, <1>3, GrowsOn
  <1> HIDE DEF s2
  <1>5. Grows(s2, s3, i)
    BY <1>0, <1>4, ACEGrows
  <1>6. Grows(o, s3, i)
    BY <1>4, <1>5, GrowsOn
  <1> HIDE DEF s3
  <1>7. Grows(s3, s4, i)
    BY <1>0, <1>6, ACEGrows
  <1>8. Grows(o, s4, i)
    BY <1>6, <1>7, GrowsOn
  <1> QED
    BY <1>1, <1>8

\* The trees after each of the first n rules.
IsRuling(after, o, i, path, rules, n) ==
  after = [m \in 0..n |-> IF m = 0 THEN o
                          ELSE IF path \in rules[m].paths THEN ApplyRule(after[m - 1], i, rules[m])
                          ELSE after[m - 1]]

\* Such a function exists.
LEMMA RulingExists ==
  ASSUME NEW o, NEW i, NEW path, NEW rules, NEW n \in Nat
  PROVE  \E after : IsRuling(after, o, i, path, rules, n)
  <1> DEFINE T == { m \in Nat : ~\E after : IsRuling(after, o, i, path, rules, m) }
             body(f, m) == IF m = 0 THEN o
                           ELSE IF path \in rules[m].paths THEN ApplyRule(f[m - 1], i, rules[m])
                           ELSE f[m - 1]
  <1> SUFFICES ASSUME T # {} PROVE FALSE
    OBVIOUS
  <1>1. PICK m \in T : \A y \in T : m <= y
    <2>1. T \subseteq Nat
      OBVIOUS
    <2> HIDE DEF T
    <2> QED
      BY <2>1, LeastExists
  <1>2. m # 0
    <2> DEFINE after0 == [k \in 0..0 |-> o]
    <2>1. after0 = [k \in 0..0 |-> body(after0, k)]
      OBVIOUS
    <2>2. IsRuling(after0, o, i, path, rules, 0)
      BY <2>1 DEF IsRuling
    <2> QED
      BY <2>2
  <1>3. m - 1 \in Nat /\ m - 1 \notin T
    BY <1>1, <1>2
  <1>4. PICK after : IsRuling(after, o, i, path, rules, m - 1)
    BY <1>3
  <1>41. after = [k \in 0..(m - 1) |-> body(after, k)]
    BY <1>4 DEF IsRuling
  <1> DEFINE next == [k \in 0..m |-> IF k = m THEN body(after, m) ELSE after[k]]
  <1>5. ASSUME NEW k \in 0..m
        PROVE  next[k] = body(next, k)
    <2>1. next[k] = body(after, k)
      <3>1. CASE k = m
        BY <3>1
      <3>2. CASE k # m
        <4>1. k \in 0..(m - 1)
          BY <1>3, <3>2
        <4>2. after[k] = body(after, k)
          BY <1>41, <4>1
        <4> HIDE DEF body
        <4> QED
          BY <3>2, <4>2
      <3> QED
        BY <3>1, <3>2
    <2>2. k # 0 => next[k - 1] = after[k - 1]
      <3> HIDE DEF body
      <3>1. k # 0 => k - 1 \in 0..m /\ k - 1 # m
        BY <1>3
      <3> QED
        BY <3>1
    <2> HIDE DEF next
    <2>3. CASE k = 0
      BY <2>1, <2>3
    <2>4. CASE k # 0
      BY <2>1, <2>2, <2>4
    <2> QED
      BY <2>3, <2>4
  <1> HIDE DEF body
  <1>6. next = [k \in 0..m |-> body(next, k)]
    <2>1. next = [k \in 0..m |-> next[k]]
      OBVIOUS
    <2> HIDE DEF next
    <2> QED
      BY <1>5, <2>1
  <1> HIDE DEF next
  <1>7. IsRuling(next, o, i, path, rules, m)
    BY <1>6 DEF IsRuling, body
  <1> QED
    BY <1>1, <1>7

\* applyRules()
LEMMA RulesGrow ==
  ASSUME NEW o, IsTree(o), NEW i \in 1..Len(o), Len(config.rules) \in Nat
  PROVE  Grows(o, ApplyRules(o, i), i)
  <1> DEFINE rules == config.rules
             path == PathOf(o, i)
             n == Len(rules)
             f == CHOOSE after : IsRuling(after, o, i, path, rules, n)
             T == { m \in 0..n : ~Grows(o, f[m], i) }
  <1>1. ApplyRules(o, i) = f[n]
    BY DEF ApplyRules, IsRuling
  <1>2. IsRuling(f, o, i, path, rules, n)
    BY RulingExists
  <1> HIDE DEF f, rules, path
  <1>3. n \in Nat
    BY DEF rules
  <1>4. \A m \in 0..n : f[m] = IF m = 0 THEN o
                               ELSE IF path \in rules[m].paths THEN ApplyRule(f[m - 1], i, rules[m])
                               ELSE f[m - 1]
    BY <1>2 DEF IsRuling
  <1> HIDE DEF n
  <1> SUFFICES ASSUME T # {} PROVE FALSE
    BY <1>1, <1>3
  <1>5. PICK m \in T : \A y \in T : m <= y
    <2>1. T \subseteq Nat
      BY <1>3
    <2> HIDE DEF T
    <2> QED
      BY <2>1, LeastExists
  <1>6. m \in 0..n /\ ~Grows(o, f[m], i)
    OBVIOUS
  <1>7. m # 0
    BY <1>3, <1>4, <1>6, TreeHas DEF Grows
  <1>8. m - 1 \in 0..n /\ ~(m <= m - 1)
    BY <1>3, <1>6, <1>7
  <1>9. Grows(o, f[m - 1], i)
    BY <1>5, <1>8
  <1>10. IsTree(f[m - 1]) /\ i \in 1..Len(f[m - 1])
    <2>1. IsTree(f[m - 1]) /\ Len(f[m - 1]) \in Nat /\ Len(o) \in Nat /\ Len(f[m - 1]) >= Len(o)
      BY <1>9, TreeHas DEF Grows
    <2> QED
      BY <2>1
  <1>11. Grows(o, ApplyRule(f[m - 1], i, rules[m]), i)
    BY <1>9, <1>10, RuleGrows, GrowsOn
  <1> QED
    BY <1>4, <1>6, <1>7, <1>9, <1>11

-----------------------------------------------------------------------------
(* What is made for an entry. *)

\* A tree, and where in it.
IsPlace(at) ==
  at = [objs |-> at.objs, parent |-> at.parent] /\ IsTree(at.objs) /\ at.parent \in 1..Len(at.objs)

\* One directory further on.
LEMMA ThroughPlace ==
  ASSUME NEW at, IsPlace(at), NEW name \in Names
  PROVE  IsPlace(Through(at, name)) /\ Len(Through(at, name).objs) >= Len(at.objs)
  <1> DEFINE o == at.objs
             p == at.parent
             k == FindChild(o, p, name)
             q == AddNamed(o, p, Directory, name)
  <1>1. at = [objs |-> o, parent |-> p] /\ IsTree(o) /\ p \in 1..Len(o) /\ Len(o) \in Nat
    BY TreeHas DEF IsPlace
  <1>2. Through(at, name) = IF k # 0 THEN [at EXCEPT !.parent = k] ELSE [objs |-> q, parent |-> Len(o) + 1]
    BY DEF Through
  <1> HIDE DEF o, p
  <1>3. CASE k \in 1..Len(o) /\ k # 0
    <2>1. Through(at, name) = [objs |-> o, parent |-> k]
      BY <1>1, <1>2, <1>3
    <2> HIDE DEF k
    <2> QED
      BY <1>1, <1>3, <2>1 DEF IsPlace, o
  <1>4. CASE k = 0 /\ \A j \in 1..Len(o[p].kids) : o[o[p].kids[j]].name # name
    <2>1. Directory \in ObjectTypes /\ NamedType(Directory)
      BY DEF ObjectTypes, NamedType, Directory, Volume, Data24
    <2>2. IsTree(q) /\ Len(q) = Len(o) + 1
      BY <1>1, <1>4, <2>1, NamedAdded
    <2>3. Through(at, name) = [objs |-> q, parent |-> Len(o) + 1]
      BY <1>2, <1>4
    <2> HIDE DEF q, k
    <2> QED
      BY <1>1, <2>2, <2>3 DEF IsPlace, o
  <1> QED
    BY <1>1, <1>3, <1>4, NameFound

\* The places after each of the first n names.
IsWay(at, o, parent, names, n) ==
  at = [m \in 0..n |-> IF m = 0 THEN [objs |-> o, parent |-> parent] ELSE Through(at[m - 1], names[m])]

\* Such a function exists.
LEMMA WayExists ==
  ASSUME NEW o, NEW parent, NEW names, NEW n \in Nat
  PROVE  \E at : IsWay(at, o, parent, names, n)
  <1> DEFINE T == { m \in Nat : ~\E at : IsWay(at, o, parent, names, m) }
             body(f, m) == IF m = 0 THEN [objs |-> o, parent |-> parent] ELSE Through(f[m - 1], names[m])
  <1> SUFFICES ASSUME T # {} PROVE FALSE
    OBVIOUS
  <1>1. PICK m \in T : \A y \in T : m <= y
    <2>1. T \subseteq Nat
      OBVIOUS
    <2> HIDE DEF T
    <2> QED
      BY <2>1, LeastExists
  <1>2. m # 0
    <2> DEFINE at0 == [k \in 0..0 |-> [objs |-> o, parent |-> parent]]
    <2>1. at0 = [k \in 0..0 |-> body(at0, k)]
      OBVIOUS
    <2>2. IsWay(at0, o, parent, names, 0)
      BY <2>1 DEF IsWay
    <2> QED
      BY <2>2
  <1>3. m - 1 \in Nat /\ m - 1 \notin T
    BY <1>1, <1>2
  <1>4. PICK at : IsWay(at, o, parent, names, m - 1)
    BY <1>3
  <1>41. at = [k \in 0..(m - 1) |-> body(at, k)]
    BY <1>4 DEF IsWay
  <1> DEFINE next == [k \in 0..m |-> IF k = m THEN body(at, m) ELSE at[k]]
  <1>5. ASSUME NEW k \in 0..m
        PROVE  next[k] = body(next, k)
    <2>1. next[k] = body(at, k)
      <3>1. CASE k = m
        BY <3>1
      <3>2. CASE k # m
        <4>1. k \in 0..(m - 1)
          BY <1>3, <3>2
        <4>2. at[k] = body(at, k)
          BY <1>41, <4>1
        <4> HIDE DEF body
        <4> QED
          BY <3>2, <4>2
      <3> QED
        BY <3>1, <3>2
    <2>2. k # 0 => next[k - 1] = at[k - 1]
      <3> HIDE DEF body
      <3>1. k # 0 => k - 1 \in 0..m /\ k - 1 # m
        BY <1>3
      <3> QED
        BY <3>1
    <2> HIDE DEF next
    <2>3. CASE k = 0
      BY <2>1, <2>3
    <2>4. CASE k # 0
      BY <2>1, <2>2, <2>4
    <2> QED
      BY <2>3, <2>4
  <1> HIDE DEF body
  <1>6. next = [k \in 0..m |-> body(next, k)]
    <2>1. next = [k \in 0..m |-> next[k]]
      OBVIOUS
    <2> HIDE DEF next
    <2> QED
      BY <1>5, <2>1
  <1> HIDE DEF next
  <1>7. IsWay(next, o, parent, names, m)
    BY <1>6 DEF IsWay, body
  <1> QED
    BY <1>1, <1>7

\* The directories of a target.
LEMMA ResolvePlace ==
  ASSUME NEW o, IsTree(o), NEW parent \in 1..Len(o), NEW names \in Seq(Names)
  PROVE  IsPlace(Resolve(o, parent, names)) /\ Len(Resolve(o, parent, names).objs) >= Len(o)
  <1> DEFINE n == Len(names)
             f == CHOOSE at : IsWay(at, o, parent, names, n)
             Fine(at) == IsPlace(at) /\ Len(at.objs) >= Len(o)
             T == { m \in 0..n : ~Fine(f[m]) }
  <1>1. Resolve(o, parent, names) = f[n]
    BY DEF Resolve, IsWay
  <1>2. n \in Nat
    OBVIOUS
  <1>3. IsWay(f, o, parent, names, n)
    BY <1>2, WayExists
  <1> HIDE DEF f
  <1>4. \A m \in 0..n : f[m] = IF m = 0 THEN [objs |-> o, parent |-> parent] ELSE Through(f[m - 1], names[m])
    BY <1>3 DEF IsWay
  <1>5. \A m \in 1..n : names[m] \in Names
    OBVIOUS
  <1> HIDE DEF n
  <1> SUFFICES ASSUME T # {} PROVE FALSE
    BY <1>1, <1>2
  <1>6. PICK m \in T : \A y \in T : m <= y
    <2>1. T \subseteq Nat
      BY <1>2
    <2> HIDE DEF T
    <2> QED
      BY <2>1, LeastExists
  <1>7. m \in 0..n /\ ~Fine(f[m])
    OBVIOUS
  <1>8. m # 0
    <2>1. Fine([objs |-> o, parent |-> parent])
      BY TreeHas DEF IsPlace
    <2> HIDE DEF Fine
    <2> QED
      BY <1>2, <1>4, <1>7, <2>1
  <1>9. m - 1 \in 0..n /\ ~(m <= m - 1) /\ m \in 1..n
    BY <1>2, <1>7, <1>8
  <1>10. Fine(f[m - 1])
    BY <1>6, <1>9
  <1>11. Fine(Through(f[m - 1], names[m]))
    <2> DEFINE at == f[m - 1]
               next == Through(at, names[m])
    <2>1. IsPlace(next) /\ Len(next.objs) >= Len(at.objs)
      BY <1>5, <1>9, <1>10, ThroughPlace
    <2>2. Len(next.objs) \in Nat /\ Len(at.objs) \in Nat /\ Len(o) \in Nat /\ Len(at.objs) >= Len(o)
      BY <1>10, <2>1, TreeHas DEF IsPlace
    <2> HIDE DEF next, at
    <2>3. Fine(next)
      BY <2>1, <2>2
    <2> QED
      BY <2>3 DEF next, at
  <1> HIDE DEF Fine
  <1> QED
    BY <1>4, <1>7, <1>8, <1>11

\* What createFsObject() is to be called with.
Items(n) ==
  { item \in [parent : 1..n, target : Seq(Names), node : Nodes \cup {Absent}, index : (0..255) \cup {Absent}] :
      item.target = <<>> => IsDir(item.node) }

\* What holds of the builder at any time.
IInv ==
  /\ config \in Configs
  /\ IsTree(objs) /\ RootObject \in 1..Len(objs)
  /\ todo \in Seq(Items(Len(objs)))
  /\ phase \in {"build", "done", "failed"}
  /\ phase # "done" => image = Absent

\* The rules of a configuration are a sequence.
LEMMA RulesAreMany ==
  ASSUME config \in Configs
  PROVE  Len(config.rules) \in Nat
  BY BuilderAssumption

\* The target of an entry, apart from its last part.
LEMMA TargetParts ==
  ASSUME NEW item, item.target \in Seq(Names), item.target # <<>>
  PROVE  Front(item.target) \in Seq(Names) /\ Last(item.target) \in Names
  <1> DEFINE t == item.target
  <1>1. Len(t) \in Nat /\ Len(t) >= 1
    OBVIOUS
  <1> HIDE DEF t
  <1>2. t \in Seq(Names)
    BY DEF t
  <1>3. \A j \in 1..(Len(t) - 1) : t[j] \in Names
    BY <1>1, <1>2
  <1>4. SubSeq(t, 1, Len(t) - 1) \in Seq(Names)
    BY <1>1, <1>2, <1>3, SubSeqProperties
  <1>5. t[Len(t)] \in Names
    BY <1>1, <1>2
  <1> QED
    BY <1>4, <1>5 DEF Front, Last, t

\* Its object, which is new.
LEMMA CreatedGrows ==
  ASSUME IInv, NEW item \in Items(Len(objs)), item.target # <<>>, ~Taken(item),
         NEW obt \in {MountPoint, Directory, File}
  PROVE  LET made == Created(item, obt)
         IN  /\ IsTree(made.objs) /\ Len(made.objs) >= Len(objs) /\ made.id \in 1..Len(made.objs)
             /\ obt = File => HasEarly(made.objs, made.id)
  <1> DEFINE r == Resolved(item)
             i == Len(r.objs) + 1
             named == AddNamed(r.objs, r.parent, obt, Last(item.target))
             full == CASE obt = MountPoint -> AddValue(named, i, VolumeIndex, item.index, 1)
                       [] obt = File -> AddValue(named, i, Md5Hash, Absent, 16)
                       [] OTHER -> named
  <1>1. item.parent \in 1..Len(objs) /\ item.target \in Seq(Names)
    BY DEF Items
  <1>2. Front(item.target) \in Seq(Names) /\ Last(item.target) \in Names
    BY <1>1, TargetParts
  <1>3. r = Resolve(objs, item.parent, Front(item.target))
    BY DEF Resolved, IsRootItem
  <1>4. IsPlace(r) /\ Len(r.objs) >= Len(objs)
    BY <1>1, <1>2, <1>3, ResolvePlace DEF IInv
  <1>5. FindChild(r.objs, r.parent, Last(item.target)) = 0
    BY DEF Taken, IsRootItem
  <1>6. /\ Created(item, obt).id = i
        /\ Created(item, obt).objs = ApplyRules(full, i)
    BY DEF Created, MountPoint, File
  <1> HIDE DEF r
  <1>7. IsTree(r.objs) /\ r.parent \in 1..Len(r.objs) /\ Len(r.objs) \in Nat /\ Len(objs) \in Nat
    BY <1>4, TreeHas DEF IsPlace, IInv
  <1>8. \A j \in 1..Len(r.objs[r.parent].kids) : r.objs[r.objs[r.parent].kids[j]].name # Last(item.target)
    BY <1>2, <1>5, <1>7, NameFound
  <1>9. obt \in ObjectTypes /\ NamedType(obt)
    BY DEF ObjectTypes, NamedType, MountPoint, Directory, File, Volume, Data24
  <1>10. IsTree(named) /\ Len(named) = i /\ HasEarly(named, i) /\ named[i].kids = <<>>
    <2> DEFINE o == r.objs
               p == r.parent
               name == Last(item.target)
               q == AddNamed(o, p, obt, name)
    <2>1. IsTree(o) /\ p \in 1..Len(o) /\ name \in Names
      BY <1>2, <1>7
    <2>2. \A j \in 1..Len(o[p].kids) : o[o[p].kids[j]].name # name
      BY <1>8
    <2> HIDE DEF o, p, name
    <2>3. /\ IsTree(q) /\ Len(q) = Len(o) + 1 /\ HasEarly(q, Len(o) + 1)
          /\ q[Len(o) + 1].kids = <<>>
      BY <1>9, <2>1, <2>2, NamedAdded
    <2> QED
      BY <2>3 DEF o, p, name
  <1>11. \A j \in 1..Len(named[i].kids) : named[named[i].kids[j]].obt \in Early
    BY <1>10 DEF HasEarly
  <1>12. i \in 1..Len(named) /\ i \in Nat
    BY <1>7, <1>10
  <1>13. VolumeIndex \in ObjectTypes /\ ~NamedType(VolumeIndex) /\ VolumeIndex \notin Early
    BY DEF ObjectTypes, NamedType, Early, VolumeIndex, Volume, ObjAttr, Compression, ReadACE, WriteACE, Md5Hash
  <1>14. Md5Hash \in ObjectTypes /\ ~NamedType(Md5Hash) /\ Md5Hash \in Early
    BY DEF ObjectTypes, NamedType, Early, Md5Hash, Volume
  <1> HIDE DEF named, i
  <1>16. IsTree(full) /\ Len(full) >= i /\ Len(full) \in Nat /\ (obt = File => HasEarly(full, i))
    BY <1>10, <1>11, <1>12, <1>13, <1>14, ValueAdded, TreeHas DEF Adds, Grows
  <1> HIDE DEF full
  <1>17. Grows(full, ApplyRules(full, i), i)
    BY <1>12, <1>16, RulesGrow, RulesAreMany DEF IInv
  <1> QED
    BY <1>4, <1>6, <1>7, <1>12, <1>16, <1>17, TreeHas DEF Grows, i

\* More objects take nothing from what is to be done.
LEMMA ItemsOfMore ==
  ASSUME NEW m \in Nat, NEW n \in Nat, m <= n, NEW s \in Seq(Items(m))
  PROVE  s \in Seq(Items(n)) /\ (s # <<>> => Head(s) \in Items(m) /\ Tail(s) \in Seq(Items(n)))
  <1>1. Items(m) \subseteq Items(n)
    BY DEF Items
  <1>2. s \in Seq(Items(n))
    BY <1>1
  <1>3. s # <<>> => Head(s) \in Items(m) /\ Tail(s) \in Seq(Items(n))
    BY <1>2
  <1> QED
    BY <1>2, <1>3

\* What a configuration has is what may be asked for.
LEMMA RequestedItems ==
  ASSUME NEW c \in Configs, NEW n \in Nat, RootObject <= n
  PROVE  Requested(c) \in Seq(Items(n))
  <1> DEFINE a == [k \in DOMAIN c.sources |-> Item(RootObject, c.sources[k].target, c.sources[k].node, Absent)]
             b == [k \in DOMAIN c.mounts |-> Item(RootObject, c.mounts[k].target, Absent, c.mounts[k].index)]
  <1>1. /\ c.sources \in Seq(Source) /\ c.mounts \in Seq(Mount)
        /\ \A k \in DOMAIN c.sources : c.sources[k].target = <<>> => IsDir(c.sources[k].node)
        /\ \A k \in DOMAIN c.mounts : c.mounts[k].target # <<>>
        /\ Paths \subseteq Seq(Names)
    BY BuilderAssumption
  <1>2. RootObject \in 1..n
    BY DEF RootObject
  <1>3. a \in Seq(Items(n))
    <2>1. \A k \in DOMAIN c.sources : Item(RootObject, c.sources[k].target, c.sources[k].node, Absent) \in Items(n)
      <3> SUFFICES ASSUME NEW k \in DOMAIN c.sources
                   PROVE  Item(RootObject, c.sources[k].target, c.sources[k].node, Absent) \in Items(n)
        OBVIOUS
      <3>1. c.sources[k] \in Source
        BY <1>1
      <3>2. c.sources[k].target \in Seq(Names) /\ c.sources[k].node \in Nodes
        BY <1>1, <3>1 DEF Source
      <3> QED
        BY <1>1, <1>2, <3>2 DEF Item, Items
    <2>2. DOMAIN c.sources = 1..Len(c.sources) /\ Len(c.sources) \in Nat
      BY <1>1
    <2> QED
      BY <2>1, <2>2
  <1>4. b \in Seq(Items(n))
    <2>1. \A k \in DOMAIN c.mounts : Item(RootObject, c.mounts[k].target, Absent, c.mounts[k].index) \in Items(n)
      <3> SUFFICES ASSUME NEW k \in DOMAIN c.mounts
                   PROVE  Item(RootObject, c.mounts[k].target, Absent, c.mounts[k].index) \in Items(n)
        OBVIOUS
      <3>1. c.mounts[k] \in Mount
        BY <1>1
      <3>2. c.mounts[k].target \in Seq(Names) /\ c.mounts[k].index \in 0..255 /\ c.mounts[k].target # <<>>
        BY <1>1, <3>1 DEF Mount
      <3> QED
        BY <1>2, <3>2 DEF Item, Items
    <2>2. DOMAIN c.mounts = 1..Len(c.mounts) /\ Len(c.mounts) \in Nat
      BY <1>1
    <2> QED
      BY <2>1, <2>2
  <1>5. Requested(c) = a \o b
    BY DEF Requested
  <1> HIDE DEF a, b
  <1> QED
    BY <1>3, <1>4, <1>5

\* What is in a directory, in any order, is what may be asked for.
LEMMA ListedItems ==
  ASSUME NEW node \in Nodes, NEW listed \in SetToSeqs(Range(Kids[node])), NEW n \in Nat, NEW i \in 1..n
  PROVE  [k \in DOMAIN listed |-> Item(i, <<listed[k].name>>, listed[k].node, Absent)] \in Seq(Items(n))
  <1> DEFINE S == Range(Kids[node])
             len == Cardinality(S)
  <1>1. Kids[node] \in Seq(Kid)
    BY SourceAssumption
  <1>2. S \subseteq Kid
    BY <1>1 DEF Range
  <1>3. len \in Nat
    <2>1. Kids[node] \in Surjection(1..Len(Kids[node]), S)
      BY <1>1 DEF Surjection, Range
    <2>2. IsFiniteSet(1..Len(Kids[node]))
      BY <1>1, FS_Interval
    <2> HIDE DEF S
    <2>3. IsFiniteSet(S)
      BY <2>1, <2>2, FS_Surjection
    <2> QED
      BY <2>3, FS_CardinalityType
  <1>4. listed \in [1..len -> S]
    BY DEF SetToSeqs
  <1> HIDE DEF S, len
  <1>5. ASSUME NEW k \in 1..len
        PROVE  Item(i, <<listed[k].name>>, listed[k].node, Absent) \in Items(n)
    <2>1. listed[k] \in Kid
      BY <1>2, <1>4
    <2>2. listed[k].name \in Names /\ listed[k].node \in Nodes
      BY <2>1 DEF Kid
    <2>3. <<listed[k].name>> \in Seq(Names) /\ <<listed[k].name>> # <<>>
      BY <2>2
    <2> QED
      BY <2>2, <2>3 DEF Item, Items
  <1>6. DOMAIN listed = 1..len
    BY <1>4
  <1> QED
    BY <1>3, <1>5, <1>6

\* An entry is done with: its objects are there, and what is to be done next.
LEMMA EntryDone ==
  ASSUME IInv, phase = "build", IsTree(objs'), Len(objs') >= Len(objs), todo' \in Seq(Items(Len(objs'))),
         UNCHANGED <<config, phase, image>>
  PROVE  IInv'
  <1>1. RootObject \in 1..Len(objs')
    BY TreeHas DEF IInv
  <1> QED
    BY <1>1 DEF IInv

\* The first of the entries that are to be done, and the others.
LEMMA FirstItem ==
  ASSUME IInv, todo # <<>>
  PROVE  Head(todo) \in Items(Len(objs))
  BY TreeHas, ItemsOfMore DEF IInv

\* Of what is left to add, the rest.
LEMMA OtherItems ==
  ASSUME IInv, todo # <<>>, NEW o, IsTree(o), Len(o) >= Len(objs)
  PROVE  Tail(todo) \in Seq(Items(Len(o)))
  BY TreeHas, ItemsOfMore DEF IInv

\* Adding a mount point keeps the invariant.
LEMMA MountPointKept ==
  ASSUME IInv, AddMountPoint
  PROVE  IInv'
  <1> DEFINE item == Head(todo)
  <1>1. item \in Items(Len(objs)) /\ item.node = Absent
    BY FirstItem DEF AddMountPoint
  <1>2. item.target # <<>>
    BY <1>1, SourceAssumption DEF Items, IsDir
  <1>3. IsTree(objs') /\ Len(objs') >= Len(objs)
    BY <1>1, <1>2, CreatedGrows DEF AddMountPoint
  <1>4. todo' \in Seq(Items(Len(objs')))
    BY <1>3, OtherItems DEF AddMountPoint
  <1> QED
    BY <1>3, <1>4, EntryDone DEF AddMountPoint

\* Adding a directory keeps the invariant.
LEMMA DirectoryKept ==
  ASSUME IInv, AddDirectory
  PROVE  IInv'
  <1> DEFINE item == Head(todo)
             made == IF IsRootItem(item)
                     THEN [id |-> RootObject, objs |-> ApplyRules(objs, RootObject)]
                     ELSE Created(item, Directory)
  <1>1. item \in Items(Len(objs)) /\ IsDir(item.node) /\ ~Taken(item)
    BY FirstItem DEF AddDirectory
  <1>2. IsTree(made.objs) /\ Len(made.objs) >= Len(objs) /\ made.id \in 1..Len(made.objs)
    <2>1. CASE item.target = <<>>
      <3>1. made.id = RootObject /\ made.objs = ApplyRules(objs, RootObject)
        BY <2>1 DEF IsRootItem
      <3> HIDE DEF made
      <3>2. Grows(objs, ApplyRules(objs, RootObject), RootObject)
        BY RulesGrow, RulesAreMany DEF IInv
      <3>3. IsTree(made.objs) /\ Len(made.objs) >= Len(objs)
        BY <3>1, <3>2 DEF Grows
      <3>4. RootObject \in 1..Len(objs) /\ IsTree(objs)
        BY DEF IInv
      <3> QED
        BY <3>1, <3>3, <3>4, TreeHas
    <2>2. CASE item.target # <<>>
      <3>1. made = Created(item, Directory)
        BY <2>2 DEF IsRootItem
      <3> HIDE DEF made
      <3> QED
        BY <1>1, <2>2, <3>1, CreatedGrows
    <2> QED
      BY <2>1, <2>2
  <1>3. PICK listed \in SetToSeqs(Range(Kids[item.node])) :
          todo' = [k \in DOMAIN listed |-> Item(made.id, <<listed[k].name>>, listed[k].node, Absent)] \o Tail(todo)
    BY DEF AddDirectory
  <1>4. objs' = made.objs /\ UNCHANGED <<config, phase, image>> /\ phase = "build" /\ todo # <<>>
    BY DEF AddDirectory
  <1> HIDE DEF made
  <1>5. Len(made.objs) \in Nat /\ item.node \in Nodes
    BY <1>1, <1>2, TreeHas DEF IsDir
  <1> HIDE DEF item
  <1> DEFINE first == [k \in DOMAIN listed |-> Item(made.id, <<listed[k].name>>, listed[k].node, Absent)]
  <1>6. first \in Seq(Items(Len(made.objs)))
    BY <1>2, <1>5, ListedItems
  <1>7. Tail(todo) \in Seq(Items(Len(made.objs)))
    BY <1>2, <1>4, OtherItems
  <1> HIDE DEF first
  <1>8. first \o Tail(todo) \in Seq(Items(Len(made.objs)))
    BY <1>6, <1>7
  <1>9. todo' \in Seq(Items(Len(objs')))
    BY <1>3, <1>4, <1>8 DEF first
  <1> QED
    BY <1>2, <1>4, <1>9, EntryDone

\* The data of a file is its only data.
LEMMA DataAdded ==
  ASSUME NEW o, IsTree(o), NEW i \in 1..Len(o), HasEarly(o, i), NEW data, NEW size
  PROVE  IsTree(AppendData(o, i, data, size)) /\ Len(AppendData(o, i, data, size)) >= Len(o)
  <1> DEFINE obt == DataTypeFor(size)
             md5 == ChildOfType(o, i, Md5Hash)
             s == AddValue(o, i, obt, data, size)
             v == IF size = 0 THEN Absent ELSE data
             q == [s EXCEPT ![md5] = [s[md5] EXCEPT !.value = v]]
  <1>1. obt \in ObjectTypes /\ ~NamedType(obt) /\ obt \notin Early
    <2>1. obt \in {Data8, Data16, Data24}
      BY DEF DataTypeFor
    <2> HIDE DEF obt
    <2> QED
      BY <2>1 DEF ObjectTypes, NamedType, Early, Data8, Data16, Data24, Volume,
                  ObjAttr, Compression, ReadACE, WriteACE, Md5Hash
  <1> HIDE DEF obt
  <1>2. \A j \in 1..Len(o[i].kids) : o[o[i].kids[j]].obt # obt
    BY <1>1 DEF HasEarly
  <1>3. IsTree(s) /\ Len(s) = Len(o) + 1
    BY <1>1, <1>2, ValueAdded DEF Adds
  <1>4. AppendData(o, i, data, size) = q
    BY Zenon DEF AppendData, obt
  <1> HIDE DEF s, md5, v
  <1>5. 1 \in 1..Len(s) /\ Len(s) \in Nat /\ Len(o) \in Nat
    BY <1>3, TreeHas
  <1>6. Grows(s, q, 1)
    BY <1>3, <1>5, ValueSet
  <1>7. IsTree(q) /\ Len(q) >= Len(s) /\ Len(q) \in Nat
    BY <1>6, TreeHas DEF Grows
  <1> QED
    BY <1>3, <1>4, <1>5, <1>7

\* Adding a file keeps the invariant.
LEMMA FileKept ==
  ASSUME IInv, AddFile
  PROVE  IInv'
  <1> DEFINE item == Head(todo)
             made == Created(item, File)
             cmp == ChildOfType(made.objs, made.id, Compression)
             w == WithCompression(made, item.node)
  <1>1. item \in Items(Len(objs)) /\ ~IsDir(item.node) /\ ~Taken(item)
    BY FirstItem DEF AddFile
  <1>2. item.target # <<>>
    BY <1>1 DEF Items
  <1>3. /\ IsTree(made.objs) /\ Len(made.objs) >= Len(objs) /\ made.id \in 1..Len(made.objs)
        /\ HasEarly(made.objs, made.id)
    BY <1>1, <1>2, CreatedGrows
  <1>4. /\ objs' = AppendData(w, made.id, DataOf(item.node, Compressed(made, item.node)),
                              StoredSize(made, item.node))
        /\ todo' = Tail(todo) /\ UNCHANGED <<config, phase, image>> /\ phase = "build" /\ todo # <<>>
    BY DEF AddFile
  <1> HIDE DEF made, item
  <1>5. Grows(made.objs, w, made.id)
    <2>1. CASE cmp = 0
      <3>1. w = made.objs
        BY <2>1 DEF WithCompression
      <3> QED
        BY <1>3, <3>1, TreeHas DEF Grows
    <2>2. CASE cmp # 0 /\ Packed[item.node] < Size[item.node]
      <3> DEFINE o == made.objs
                 v == [o[cmp].value EXCEPT !.originalSize = Size[item.node]]
      <3>1. w = [o EXCEPT ![cmp] = [o[cmp] EXCEPT !.value = v]]
        BY <2>2, Zenon DEF WithCompression
      <3> HIDE DEF v, cmp, w, o
      <3>2. \A i \in 1..Len(o) : Grows(o, [o EXCEPT ![cmp] = [o[cmp] EXCEPT !.value = v]], i)
        BY <1>3, ValueSet DEF o
      <3> QED
        BY <1>3, <3>1, <3>2 DEF o
    <2>3. CASE cmp # 0 /\ ~(Packed[item.node] < Size[item.node])
      <3>1. w = RemoveObject(made.objs, cmp)
        BY <2>3 DEF WithCompression
      <3>2. PICK m \in 1..Len(made.objs[made.id].kids) : cmp = made.objs[made.id].kids[m]
        BY <1>3, <2>3, ChildFound
      <3> HIDE DEF w, cmp
      <3> QED
        BY <1>3, <3>1, <3>2, ObjectRemoved
    <2> QED
      BY <2>1, <2>2, <2>3
  <1> HIDE DEF w
  <1>6. /\ IsTree(w) /\ Len(w) >= Len(made.objs) /\ made.id \in 1..Len(w) /\ HasEarly(w, made.id)
        /\ Len(w) \in Nat /\ Len(made.objs) \in Nat /\ Len(objs) \in Nat
    BY <1>3, <1>5, TreeHas DEF Grows, IInv
  <1>7. IsTree(objs') /\ Len(objs') >= Len(w)
    BY <1>4, <1>6, DataAdded
  <1>8. Len(objs') >= Len(objs)
    BY <1>3, <1>6, <1>7, TreeHas
  <1>9. todo' \in Seq(Items(Len(objs')))
    BY <1>4, <1>7, <1>8, OtherItems
  <1> QED
    BY <1>4, <1>7, <1>8, <1>9, EntryDone

-----------------------------------------------------------------------------
(* The theorems. *)

\* An image begins with a volume, and the root directory with its access.
LEMMA NewImageTree ==
  IsTree(NewImage) /\ Len(NewImage) >= RootObject
  <1> DEFINE v == <<Object(Volume, 0, VolumeName, Absent, 0)>>
             w == AddValue(v, VolumeObject, ID32, "id", 4)
             root == AddNamed(w, VolumeObject, Directory, Absent)
             s == AppendACE(root, RootObject, ReadACE, "guest")
  <1>1. IsTree(v) /\ Len(v) = 1 /\ v[1].kids = <<>>
    <2> DEFINE obj == Object(Volume, 0, VolumeName, Absent, 0)
    <2>1. obj = [obt |-> Volume, parent |-> 0, name |-> VolumeName, kids |-> <<>>, value |-> Absent, size |-> 0]
      BY DEF Object
    <2>2. IsObject(obj) /\ obj.parent = 0 /\ obj.kids = <<>>
      <3>1. VolumeName \in Names /\ Volume \in ObjectTypes /\ NamedType(Volume)
        BY BuilderAssumption DEF ObjectTypes, NamedType, Volume, Data24
      <3> HIDE DEF obj
      <3> QED
        BY <2>1, <3>1 DEF IsObject
    <2> HIDE DEF obj
    <2>3. Len(v) = 1 /\ v[1] = obj /\ IsSequence(v)
      BY DEF IsSequence, obj
    <2> HIDE DEF v
    <2>4. KidsAre(v, 1) /\ Apart(v, 1)
      BY <2>2, <2>3 DEF KidsAre, Apart
    <2> QED
      BY <2>2, <2>3, <2>4 DEF IsTree
  <1> HIDE DEF v
  <1>2. IsTree(w) /\ Len(w) = 2
    <2>1. ID32 \in ObjectTypes /\ ~NamedType(ID32)
      BY DEF ObjectTypes, NamedType, ID32, Volume
    <2>2. VolumeObject \in 1..Len(v) /\ \A j \in 1..Len(v[VolumeObject].kids) : v[v[VolumeObject].kids[j]].obt # ID32
      BY <1>1 DEF VolumeObject
    <2>3. Adds(v, Object(ID32, VolumeObject, Absent, "id", 4), w)
      BY <1>1, <2>1, <2>2, ValueAdded, Zenon
    <2> HIDE DEF w
    <2> QED
      BY <1>1, <2>3 DEF Adds
  <1> HIDE DEF w
  <1>3. IsTree(root) /\ Len(root) = 3
    <2>1. Directory \in ObjectTypes /\ NamedType(Directory) /\ VolumeObject \in 1..Len(w)
      BY <1>2 DEF ObjectTypes, NamedType, Directory, Volume, Data24, VolumeObject
    <2>2. Absent \in Names \cup {Absent}
      OBVIOUS
    <2>3. IsTree(root) /\ Len(root) = Len(w) + 1
      BY <1>2, <2>1, <2>2, NamedAdded, Zenon
    <2> QED
      BY <1>2, <2>3
  <1> HIDE DEF root
  <1>4. Grows(root, s, RootObject) /\ IsTree(s) /\ Len(s) >= 3 /\ Len(s) \in Nat
    <2>1. RootObject \in 1..Len(root)
      BY <1>3 DEF RootObject
    <2> QED
      BY <1>3, <2>1, ACEGrows, TreeHas DEF Grows
  <1> HIDE DEF s
  <1>5. Grows(s, AppendACE(s, RootObject, WriteACE, "admin"), RootObject)
    <2>1. RootObject \in 1..Len(s)
      BY <1>4 DEF RootObject
    <2> QED
      BY <1>4, <2>1, ACEGrows
  <1>6. NewImage = AppendACE(s, RootObject, WriteACE, "admin")
    BY DEF NewImage, s, root, w, v
  <1>7. IsTree(NewImage) /\ Len(NewImage) >= Len(s) /\ Len(NewImage) \in Nat
    BY <1>5, <1>6, TreeHas DEF Grows
  <1> QED
    BY <1>4, <1>7 DEF RootObject

\* The new image satisfies the invariant.
LEMMA InitInv == Init => IInv
  <1> SUFFICES ASSUME Init PROVE IInv
    OBVIOUS
  <1>1. IsTree(NewImage) /\ Len(NewImage) \in Nat /\ RootObject \in 1..Len(NewImage)
    BY NewImageTree, TreeHas DEF RootObject
  <1>2. config \in Configs /\ objs = ApplyRules(NewImage, RootObject) /\ todo = Requested(config)
        /\ phase = "build" /\ image = Absent
    BY DEF Init
  <1>3. Grows(NewImage, objs, RootObject)
    BY <1>1, <1>2, RulesGrow, RulesAreMany
  <1>4. IsTree(objs) /\ Len(objs) \in Nat /\ RootObject <= Len(objs) /\ RootObject \in 1..Len(objs)
    BY <1>1, <1>3, TreeHas DEF Grows, RootObject
  <1>5. todo \in Seq(Items(Len(objs)))
    BY <1>2, <1>4, RequestedItems
  <1> QED
    BY <1>2, <1>4, <1>5 DEF IInv

\* Every step keeps the invariant.
LEMMA NextInv == IInv /\ [Next]_vars => IInv'
  <1> SUFFICES ASSUME IInv, [Next]_vars PROVE IInv'
    OBVIOUS
  <1>1. CASE phase = "build" /\ Fail
    BY <1>1 DEF Fail, IInv
  <1>2. CASE AddMountPoint
    BY <1>2, MountPointKept
  <1>3. CASE AddDirectory
    BY <1>3, DirectoryKept
  <1>4. CASE AddFile
    BY <1>4, FileKept
  <1>5. CASE WriteImage
    <2>1. objs' = Prune(objs) /\ phase' = "done" /\ UNCHANGED <<config, todo>>
      BY <1>5 DEF WriteImage
    <2>2. IsTree(objs') /\ Len(objs') = Len(objs)
      BY <2>1, TreePruned DEF IInv
    <2> QED
      BY <2>1, <2>2 DEF IInv
  <1>6. CASE UNCHANGED vars
    BY <1>6 DEF vars, IInv
  <1> QED
    BY <1>1, <1>2, <1>3, <1>4, <1>5, <1>6 DEF Next, AlreadyThere, DataTooLarge, WriteFails

\* The invariant gives the types.
LEMMA InvType == IInv => TypeOK
  <1> SUFFICES ASSUME IInv PROVE TypeOK
    OBVIOUS
  <1>1. IsTree(objs) /\ DOMAIN objs = 1..Len(objs)
    BY TreeHas DEF IInv
  <1>2. ASSUME NEW i \in DOMAIN objs
        PROVE  /\ objs[i].obt \in ObjectTypes /\ objs[i].parent < i
               /\ objs[i].name \in Names \cup {Absent}
               /\ \A k \in Range(objs[i].kids) : k \in DOMAIN objs /\ objs[k].parent = i
    <2>1. IsObject(objs[i]) /\ objs[i].parent < i /\ DOMAIN objs[i].kids = 1..Len(objs[i].kids)
      BY <1>1, TreeHas
    <2>2. KidsAre(objs, i)
      BY <1>1 DEF IsTree
    <2> QED
      BY <1>1, <2>1, <2>2 DEF IsObject, KidsAre, Range
  <1>3. ASSUME NEW k \in DOMAIN todo
        PROVE  todo[k].parent \in DOMAIN objs
    <2>1. todo[k] \in Items(Len(objs))
      BY DEF IInv
    <2> QED
      BY <1>1, <2>1 DEF Items
  <1> QED
    BY <1>2, <1>3 DEF TypeOK, IInv

\* The invariant tells the children of an object apart.
LEMMA InvApart == IInv => ChildrenAreDistinct
  <1> SUFFICES ASSUME IInv, NEW i \in DOMAIN objs, NEW j \in DOMAIN objs[i].kids, NEW k \in DOMAIN objs[i].kids,
                      j # k
               PROVE  LET kids == objs[i].kids IN
                      /\ objs[kids[j]].obt = objs[kids[k]].obt => NamedType(objs[kids[j]].obt)
                      /\ objs[kids[j]].name = objs[kids[k]].name => objs[kids[j]].name = Absent
    BY DEF ChildrenAreDistinct
  <1>1. IsTree(objs)
    BY DEF IInv
  <1>2. i \in 1..Len(objs)
    BY <1>1, TreeHas
  <1>3. j \in 1..Len(objs[i].kids) /\ k \in 1..Len(objs[i].kids)
    BY <1>1, <1>2, TreeHas
  <1>4. Differ(objs[objs[i].kids[j]], objs[objs[i].kids[k]])
    BY <1>1, <1>2, <1>3 DEF IsTree, Apart
  <1> QED
    BY <1>4 DEF Differ

\* Whatever is to be built, in whatever order directories are listed: objects form a tree,
\* and what is to be done is to be done in a directory that exists (FWFS.py: the objects'
\* constructors; fsbuild.py: createFsObject()).
THEOREM TypeCorrect == Spec => []TypeOK
  BY InitInv, NextInv, InvType, PTL DEF Spec

\* Likewise, whatever the rules: no object has two children of one name, nor two
\* attributes of one kind, nor two data (appendACE, appendCompression, setAttr,
\* findChild in createFsObject(), and the data of a file).
THEOREM NothingTwice == Spec => []ChildrenAreDistinct
  BY InitInv, NextInv, InvApart, PTL DEF Spec
=============================================================================
