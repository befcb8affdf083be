------------------------- MODULE ArchiveStreamProofs -------------------------
(***************************************************************************)
(* Proofs about ArchiveStream, for every tree, whatever fails and however  *)
(* the stream is read and reset.                                           *)
(***************************************************************************)
EXTENDS ArchiveStream, SourceTreeProofs, FiniteSetTheorems, SequenceTheorems, TLAPS

\* The last of the elements that an operator selects is at i, if none of those
\* behind it is selected.
LEMMA LastSelected ==
  ASSUME NEW I, NEW n \in Nat, I \subseteq 1..n, NEW i \in I, \A j \in I : j <= i
  PROVE  /\ I # {}
         /\ (CHOOSE x \in I : \A y \in I : x >= y) = i
  <1>1. \A x, y \in I : x >= y /\ y >= x => x = y
    OBVIOUS
  <1>2. \A y \in I : i >= y
    OBVIOUS
  <1> QED
    BY <1>1, <1>2

(***************************************************************************)
(* The length of a path.                                                   *)
(***************************************************************************)
\* The running total of the lengths of the names and the separators of a path.
IsSum(sum, p, n) ==
  sum = [i \in 0..n |->
           IF i = 0 THEN 0 ELSE sum[i - 1] + p[i].len + (IF i = 1 THEN 0 ELSE 1)]

\* There is one.
LEMMA SumExists ==
  ASSUME NEW p, NEW n \in Nat
  PROVE  \E sum : IsSum(sum, p, n)
  <1> DEFINE T == { m \in Nat : ~\E sum : IsSum(sum, p, m) }
             Sep(i) == IF i = 1 THEN 0 ELSE 1
  <1> SUFFICES ASSUME T # {} PROVE FALSE
    OBVIOUS
  <1>1. PICK m \in T : \A y \in T : m <= y
    <2>1. T \subseteq Nat
      OBVIOUS
    <2> HIDE DEF T
    <2> QED
      BY <2>1, LeastExists
  <1>2. m # 0
    <2> DEFINE sum0 == [i \in 0..0 |-> 0]
    <2>1. sum0 = [i \in 0..0 |-> IF i = 0 THEN 0 ELSE sum0[i - 1] + p[i].len + Sep(i)]
      OBVIOUS
    <2>2. IsSum(sum0, p, 0)
      BY <2>1 DEF IsSum
    <2> QED
      BY <2>2
  <1>3. m - 1 \in Nat /\ m - 1 \notin T
    BY <1>1, <1>2
  <1>4. PICK sum : IsSum(sum, p, m - 1)
    BY <1>3
  <1> DEFINE next == [i \in 0..m |-> IF i = m THEN sum[m - 1] + p[m].len + Sep(m) ELSE sum[i]]
  <1>5. ASSUME NEW i \in 0..m
        PROVE  next[i] = IF i = 0 THEN 0 ELSE next[i - 1] + p[i].len + Sep(i)
    <2>1. CASE i = 0
      BY <1>2, <1>3, <1>4, <2>1 DEF IsSum
    <2>2. CASE i = m
      BY <1>2, <1>3, <2>2
    <2>3. CASE i # 0 /\ i # m
      <3>1. i \in 0..(m - 1) /\ i - 1 \in 0..(m - 1) /\ i - 1 # m /\ i - 1 \in 0..m
        BY <1>3, <2>3
      <3>2. sum[i] = sum[i - 1] + p[i].len + Sep(i)
        BY <1>4, <2>3, <3>1 DEF IsSum
      <3> QED
        BY <2>3, <3>1, <3>2
    <2> QED
      BY <2>1, <2>2, <2>3
  <1>6. IsSum(next, p, m)
    <2>1. next = [i \in 0..m |-> next[i]]
      OBVIOUS
    <2> HIDE DEF next
    <2>2. [i \in 0..m |-> next[i]]
            = [i \in 0..m |-> IF i = 0 THEN 0 ELSE next[i - 1] + p[i].len + Sep(i)]
      BY <1>5
    <2> QED
      BY <2>1, <2>2 DEF IsSum
  <1> QED
    BY <1>1, <1>6

\* The length of a path is the last of its running total, a number if its names' are.
LEMMA PathLengthIs ==
  ASSUME NEW p, Len(p) \in Nat, \A i \in 1..Len(p) : p[i].len \in Nat
  PROVE  /\ \E sum : IsSum(sum, p, Len(p)) /\ PathLength(p) = sum[Len(p)]
         /\ PathLength(p) \in Nat
  <1>1. \E sum : IsSum(sum, p, Len(p))
    BY SumExists
  <1>2. PICK sum : IsSum(sum, p, Len(p)) /\ PathLength(p) = sum[Len(p)]
    BY <1>1 DEF PathLength, IsSum
  <1> DEFINE T == { i \in 0..Len(p) : sum[i] \notin Nat }
  <1>3. T = {}
    <2> SUFFICES ASSUME T # {} PROVE FALSE
      OBVIOUS
    <2>1. PICK i \in T : \A y \in T : i <= y
      <3>1. T \subseteq Nat
        OBVIOUS
      <3> HIDE DEF T
      <3> QED
        BY <3>1, LeastExists
    <2>2. i # 0
      BY <2>1, <1>2 DEF IsSum
    <2>3. i - 1 \in 0..Len(p) /\ i - 1 \notin T /\ i \in 1..Len(p)
      BY <2>1, <2>2
    <2>4. sum[i] = sum[i - 1] + p[i].len + (IF i = 1 THEN 0 ELSE 1)
      BY <1>2, <2>1, <2>2 DEF IsSum
    <2> QED
      BY <2>1, <2>3, <2>4
  <1> QED
    BY <1>2, <1>3

\* The running totals of a path and of what is longer agree.
LEMMA SumsAgree ==
  ASSUME NEW p, NEW q, NEW f, NEW g,
         Len(p) \in Nat, Len(q) \in Nat, Len(p) <= Len(q),
         \A i \in 1..Len(p) : q[i] = p[i],
         IsSum(f, p, Len(p)), IsSum(g, q, Len(q))
  PROVE  f[Len(p)] = g[Len(p)]
  <1> DEFINE T == { i \in 0..Len(p) : f[i] # g[i] }
  <1> SUFFICES ASSUME T # {} PROVE FALSE
    OBVIOUS
  <1>1. PICK i \in T : \A y \in T : i <= y
    <2>1. T \subseteq Nat
      OBVIOUS
    <2> HIDE DEF T
    <2> QED
      BY <2>1, LeastExists
  <1>2. i # 0
    BY <1>1 DEF IsSum
  <1>3. i - 1 \in 0..Len(p) /\ i - 1 \notin T
    BY <1>1, <1>2
  <1>4. /\ f[i] = f[i - 1] + p[i].len + (IF i = 1 THEN 0 ELSE 1)
        /\ g[i] = g[i - 1] + q[i].len + (IF i = 1 THEN 0 ELSE 1)
    BY <1>1, <1>2, <1>3 DEF IsSum
  <1> QED
    BY <1>1, <1>2, <1>3, <1>4

\* A name more adds its characters, and a separator unless it is the first.
LEMMA PathLengthStep ==
  ASSUME NEW p, NEW q, Len(p) \in Nat, Len(q) = Len(p) + 1,
         \A i \in 1..Len(p) : q[i] = p[i],
         \A i \in 1..Len(q) : q[i].len \in Nat
  PROVE  /\ PathLength(p) \in Nat
         /\ PathLength(q) = PathLength(p) + q[Len(q)].len + (IF Len(q) = 1 THEN 0 ELSE 1)
  <1>5. PathLength(p) \in Nat /\ \A i \in 1..Len(p) : p[i].len \in Nat
    <2>1. \A i \in 1..Len(p) : p[i].len \in Nat
      OBVIOUS
    <2> QED
      BY <2>1, PathLengthIs
  <1>1. PICK f : IsSum(f, p, Len(p)) /\ PathLength(p) = f[Len(p)]
    BY <1>5, PathLengthIs
  <1>2. PICK g : IsSum(g, q, Len(q)) /\ PathLength(q) = g[Len(q)]
    BY PathLengthIs
  <1>3. f[Len(p)] = g[Len(p)]
    BY <1>1, <1>2, SumsAgree
  <1>4. g[Len(q)] = g[Len(p)] + q[Len(q)].len + (IF Len(q) = 1 THEN 0 ELSE 1)
    <2>1. \A i \in 1..Len(q) : g[i] = g[i - 1] + q[i].len + (IF i = 1 THEN 0 ELSE 1)
      BY <1>2 DEF IsSum
    <2>2. Len(q) \in 1..Len(q) /\ Len(q) - 1 = Len(p)
      OBVIOUS
    <2> QED
      BY <2>1, <2>2
  <1> QED
    BY <1>1, <1>2, <1>3, <1>4, <1>5

(***************************************************************************)
(* currentPath.setLength().                                                *)
(***************************************************************************)
PathNode == [name : Names, len : Nat]

\* The first elements of a sequence.
LEMMA PrefixIs ==
  ASSUME NEW S, NEW s \in Seq(S), NEW m \in 0..Len(s)
  PROVE  /\ SubSeq(s, 1, m) \in Seq(S)
         /\ Len(SubSeq(s, 1, m)) = m
         /\ \A i \in 1..m : SubSeq(s, 1, m)[i] = s[i]
         /\ m = Len(s) => SubSeq(s, 1, m) = s
  <1>1. m \in Nat /\ m \in Int /\ 1 \in Int /\ \A i \in 1..m : s[i] \in S
    OBVIOUS
  <1>2. /\ SubSeq(s, 1, m) \in Seq(S)
        /\ Len(SubSeq(s, 1, m)) = IF 1 <= m THEN m - 1 + 1 ELSE 0
        /\ \A i \in 1..(m - 1 + 1) : SubSeq(s, 1, m)[i] = s[1 + i - 1]
    BY <1>1, SubSeqProperties
  <1>3. Len(SubSeq(s, 1, m)) = m
    <2>1. CASE 1 <= m
      BY <1>1, <1>2, <2>1
    <2>2. CASE ~(1 <= m)
      BY <1>1, <1>2, <2>2
    <2> QED
      BY <2>1, <2>2
  <1>4. \A i \in 1..m : SubSeq(s, 1, m)[i] = s[i]
    <2> SUFFICES ASSUME NEW i \in 1..m PROVE SubSeq(s, 1, m)[i] = s[i]
      OBVIOUS
    <2>1. i \in 1..(m - 1 + 1) /\ 1 + i - 1 = i
      BY <1>1
    <2> QED
      BY <1>2, <2>1
  <1>5. m = Len(s) => SubSeq(s, 1, m) = s
    <2> SUFFICES ASSUME m = Len(s) PROVE SubSeq(s, 1, m) = s
      OBVIOUS
    <2> DEFINE t == SubSeq(s, 1, m)
    <2>1. t \in Seq(S) /\ Len(t) = Len(s) /\ \A i \in 1..Len(s) : t[i] = s[i]
      BY <1>2, <1>3, <1>4
    <2> HIDE DEF t
    <2> QED
      BY <2>1, SeqEqual
  <1> QED
    BY <1>2, <1>3, <1>4, <1>5

\* What is left when something is taken off: the most names that fit, if what they
\* take is all that is left.
LEMMA TakeOffIs ==
  ASSUME NEW p, Len(p) \in Nat, NEW n, NEW m \in 0..Len(p),
         PathLength(SubSeq(p, 1, m)) = PathLength(p) - n,
         PathLength(p) - n \in Nat,
         \A j \in (m + 1)..Len(p) : ~(PathLength(SubSeq(p, 1, j)) <= PathLength(p) - n)
  PROVE  TakeOff(p, n) = SubSeq(p, 1, m)
  <1> DEFINE left == PathLength(p) - n
             L(k) == PathLength(SubSeq(p, 1, k))
             fits == { k \in 0..Len(p) : L(k) <= left }
             k == CHOOSE i \in fits : \A j \in fits : j <= i
  <1>1. left \in Nat /\ L(m) = left /\ \A j \in (m + 1)..Len(p) : ~(L(j) <= left)
    OBVIOUS
  <1>2. m \in fits /\ \A j \in fits : j \in Nat /\ j <= m
    <2> HIDE DEF L, left
    <2> QED
      BY <1>1
  <1>3. k = m
    <2> HIDE DEF fits
    <2>1. \A i \in fits : (\A j \in fits : j <= i) => i = m
      BY <1>2
    <2> QED
      BY <1>2, <2>1
  <1>4. PathLength(SubSeq(p, 1, k)) = left
    BY <1>3
  <1>5. TakeOff(p, n) = IF PathLength(SubSeq(p, 1, k)) = left THEN SubSeq(p, 1, k)
                        ELSE Append(SubSeq(p, 1, k),
                               [name |-> Absent,
                                len |-> left - PathLength(SubSeq(p, 1, k))
                                          - (IF k = 0 THEN 0 ELSE 1)])
    BY DEF TakeOff
  <1> HIDE DEF k, left
  <1> QED
    BY <1>3, <1>4, <1>5

\* The names of a path have a length.
LEMMA PathNodes ==
  ASSUME NEW p \in Seq(PathNode)
  PROVE  /\ Len(p) \in Nat
         /\ \A i \in 1..Len(p) : p[i] \in PathNode /\ p[i].len \in Nat /\ p[i].name \in Names
         /\ PathLength(p) \in Nat
  <1>1. Len(p) \in Nat /\ \A i \in 1..Len(p) : p[i] \in PathNode
    OBVIOUS
  <1>2. \A i \in 1..Len(p) : p[i].len \in Nat /\ p[i].name \in Names
    BY <1>1 DEF PathNode
  <1> QED
    BY <1>1, <1>2, PathLengthIs

\* Taking off nothing.
LEMMA TakeOffNothing ==
  ASSUME NEW p \in Seq(PathNode)
  PROVE  TakeOff(p, 0) = p
  <1>1. Len(p) \in Nat /\ PathLength(p) \in Nat
    BY PathNodes
  <1> DEFINE m == Len(p)
             whole == SubSeq(p, 1, m)
  <1>2. whole = p
    BY <1>1, PrefixIs
  <1>3. PathLength(whole) = PathLength(p) - 0 /\ PathLength(p) - 0 \in Nat
    <2> HIDE DEF whole
    <2> QED
      BY <1>1, <1>2
  <1>4. m \in 0..Len(p) /\ \A j \in (m + 1)..Len(p) : FALSE
    BY <1>1
  <1>5. TakeOff(p, 0) = whole
    BY <1>1, <1>3, <1>4, TakeOffIs
  <1> QED
    BY <1>2, <1>5

\* Taking off the characters of the last name and of the separator before it.
LEMMA TakeOffLast ==
  ASSUME NEW p \in Seq(PathNode), p # <<>>, NEW n,
         n = p[Len(p)].len + (IF Len(p) = 1 THEN 0 ELSE 1), n > 0
  PROVE  TakeOff(p, n) = SubSeq(p, 1, Len(p) - 1)
  <1> DEFINE m == Len(p) - 1
             front == SubSeq(p, 1, m)
  <1>1. Len(p) \in Nat /\ m \in Nat /\ m \in 0..Len(p) /\ Len(p) \in 1..Len(p)
    OBVIOUS
  <1>2. front \in Seq(PathNode) /\ Len(front) = m /\ \A i \in 1..m : front[i] = p[i]
    BY <1>1, PrefixIs
  <1>3. PathLength(front) \in Nat /\ PathLength(p) = PathLength(front) + n
    <2> HIDE DEF front
    <2>1. \A i \in 1..Len(p) : p[i].len \in Nat
      BY PathNodes
    <2>2. Len(front) \in Nat /\ Len(p) = Len(front) + 1 /\ \A i \in 1..Len(front) : p[i] = front[i]
      BY <1>1, <1>2
    <2>3. /\ PathLength(front) \in Nat
          /\ PathLength(p) = PathLength(front) + p[Len(p)].len + (IF Len(p) = 1 THEN 0 ELSE 1)
      BY <2>1, <2>2, PathLengthStep
    <2> QED
      BY <1>1, <2>1, <2>3
  <1>4. SubSeq(p, 1, Len(p)) = p
    BY <1>1, PrefixIs
  <1>5. n \in Nat
    BY <1>1, PathNodes
  <1>6. PathLength(front) = PathLength(p) - n /\ PathLength(p) - n \in Nat
    <2> HIDE DEF front
    <2> QED
      BY <1>3, <1>5
  <1>7. ~(PathLength(SubSeq(p, 1, Len(p))) <= PathLength(p) - n)
    <2> DEFINE whole == SubSeq(p, 1, Len(p))
    <2>1. whole = p
      BY <1>4
    <2> HIDE DEF whole, front
    <2>2. ~(PathLength(whole) <= PathLength(p) - n)
      BY <1>3, <1>5, <1>6, <2>1
    <2> QED
      BY <2>2 DEF whole
  <1>8. \A j \in (m + 1)..Len(p) : ~(PathLength(SubSeq(p, 1, j)) <= PathLength(p) - n)
    <2>1. \A j \in (m + 1)..Len(p) : j = Len(p)
      BY <1>1
    <2> QED
      BY <1>7, <2>1
  <1> QED
    BY <1>1, <1>6, <1>8, TakeOffIs

(***************************************************************************)
(* What is produced is there to be mounted.                                *)
(***************************************************************************)
\* The object that was queued last, and the ones before it.
Produced(k) == out[Len(out) - k]

\* The root directory and the volume that refers to it are the last to go out.
VolumeProduced(k) ==
  /\ Len(out) > k + 1
  /\ Produced(k).type = "Volume"
  /\ Produced(k + 1).type = "Directory"
  /\ Produced(k).root = Produced(k + 1).at

\* In which state and phase there is a directory that is being enumerated.
InDirectory ==
  /\ level \in Nat
  /\ state \in {"dataHeader", "dataContent", "fileHeader"} => level > 0
  /\ phase.kind \in {"reading", "filing", "closing"} => level > 0
  /\ phase.kind = "opening" /\ level = 0 => phase.kid.name = Absent /\ state = "start"

\* The root is a directory, even if it is a mount point in what it is read from.
RootIsDirectory ==
  /\ DOMAIN dirs = 0..MaxLevels
  /\ level > 0 => "type" \in DOMAIN dirs[0] /\ dirs[0].type = "Directory"

\* What is known of the end of the stream in each state.
EndOfStream ==
  /\ state = "dirHeader" => Len(out) > 0 /\ Produced(0).at = streamOffset
  /\ state = "dirHeader" /\ level = 0 => Produced(0).type = "Directory"
  /\ state = "volumeHeader" => VolumeProduced(0)
  /\ state \in {"end", "done"} /\ "Root" \notin failed =>
       VolumeProduced(1) /\ Produced(0).type = "EndMarker"

MountInv ==
  /\ IsSequence(out)
  /\ produced = streamOffset + queuedSize
  /\ InDirectory
  /\ RootIsDirectory
  /\ EndOfStream

\* A block that is queued, but for what state it leaves the stream in.
LEMMA QueueingIs ==
  ASSUME NEW o, NEW newState, MountInv, o.at = produced, QueueStream(o, newState)
  PROVE  /\ IsSequence(out')
         /\ produced' = streamOffset' + queuedSize'
         /\ state' = newState /\ phase' = Ready
         /\ Len(out) \in Nat /\ Len(out') = Len(out) + 1
         /\ out'[Len(out')] = o /\ o.at = streamOffset'
         /\ \A i \in 1..Len(out) : out'[i] = out[i]
  <1>1. out' = Append(out, o) /\ IsSequence(out)
    BY DEF QueueStream, MountInv
  <1>2. produced' = streamOffset' + queuedSize' /\ o.at = streamOffset'
    BY DEF QueueStream, MountInv
  <1>3. /\ IsSequence(out')
        /\ Len(out) \in Nat
        /\ Len(out') = Len(out) + 1
        /\ out'[Len(out) + 1] = o
        /\ \A i \in 1..Len(out) : out'[i] = out[i]
    BY <1>1, AppendIs
  <1> QED
    BY <1>2, <1>3 DEF QueueStream

\* The header of an object, or data, that goes out within a directory.
LEMMA QueueingWithin ==
  ASSUME NEW o, NEW newState, MountInv, o.at = produced, QueueStream(o, newState),
         newState \in {"dataHeader", "dataContent", "fileHeader"},
         level > 0, level' = level, RootIsDirectory'
  PROVE  MountInv'
  <1>1. /\ IsSequence(out')
        /\ produced' = streamOffset' + queuedSize'
        /\ state' = newState /\ phase' = Ready
    BY QueueingIs
  <1>2. InDirectory'
    BY <1>1 DEF MountInv, InDirectory, Ready, Stalled
  <1>3. EndOfStream'
    BY <1>1 DEF EndOfStream
  <1> QED
    BY <1>1, <1>2, <1>3 DEF MountInv

\* A change of directories[] above the root, or of the root's children.
LEMMA RootKept ==
  ASSUME NEW a, NEW type, MountInv, level > 0, level' = level,
         dirs' = [dirs EXCEPT ![level] = a, ![level - 1] = WithRef(@, type)]
  PROVE  RootIsDirectory'
  <1>1. level \in Nat /\ DOMAIN dirs = 0..MaxLevels /\ MaxLevels \in Nat
    BY ArchiveAssumption DEF MountInv, RootIsDirectory, InDirectory
  <1>2. DOMAIN dirs' = 0..MaxLevels
    BY <1>1
  <1>3. "type" \in DOMAIN dirs[0] /\ dirs[0].type = "Directory"
    BY DEF MountInv, RootIsDirectory
  <1>4. CASE level - 1 = 0
    <2>1. dirs'[0] = [dirs[0] EXCEPT !.content = Append(@, RefTo(type))]
      BY <1>1, <1>4 DEF WithRef
    <2> QED
      BY <1>2, <1>3, <2>1 DEF RootIsDirectory
  <1>5. CASE level - 1 # 0
    <2>1. dirs'[0] = dirs[0]
      BY <1>1, <1>5
    <2> QED
      BY <1>2, <1>3, <2>1 DEF RootIsDirectory
  <1> QED
    BY <1>4, <1>5

\* The object of a file goes out.
LEMMA FileHeaderKeeps ==
  ASSUME NEW e, MountInv, level > 0, SendFileHeader(e)
  PROVE  MountInv'
  <1>1. RootIsDirectory'
    BY RootKept DEF SendFileHeader
  <1>2. Named(e).at = produced
    BY DEF Named
  <1> QED
    BY <1>1, <1>2, QueueingWithin DEF SendFileHeader

\* The header of a block of data does, or if there are no more the file.
LEMMA DataHeaderKeeps ==
  ASSUME NEW e, NEW blocks, MountInv, level > 0, SendDataHeader(e, blocks)
  PROVE  MountInv'
  <1>1. CASE SendFileHeader(e)
    BY <1>1, FileHeaderKeeps
  <1>2. CASE /\ QueueStream(Data(Head(blocks)), "dataHeader")
             /\ dirs' = [dirs EXCEPT ![level] = WithRef(e, "Data")]
             /\ UNCHANGED level
    <2>1. level \in Nat /\ DOMAIN dirs = 0..MaxLevels /\ MaxLevels \in Nat
      BY ArchiveAssumption DEF MountInv, RootIsDirectory, InDirectory
    <2>2. RootIsDirectory'
      BY <1>2, <2>1 DEF MountInv, RootIsDirectory
    <2>3. Data(Head(blocks)).at = produced
      BY DEF Data
    <2> QED
      BY <1>2, <2>2, <2>3, QueueingWithin
  <1> QED
    BY <1>1, <1>2 DEF SendDataHeader

\* readFileEntry(), whether the file can be opened or not.
LEMMA ReadFileEntryKeeps ==
  ASSUME MountInv, ReadFileEntry
  PROVE  MountInv'
  <1>1. level > 0
    BY DEF ReadFileEntry, MountInv, InDirectory
  <1>2. CASE CannotOpen
    <2>1. UNCHANGED <<state, level, dirs, streamOffset, queuedSize, out, produced>>
          /\ phase' = Reading /\ failed \subseteq failed'
      BY <1>2 DEF CannotOpen
    <2>2. InDirectory'
      BY <1>1, <2>1 DEF MountInv, InDirectory, Reading
    <2>3. EndOfStream'
      BY <2>1 DEF MountInv, EndOfStream, VolumeProduced, Produced
    <2> QED
      BY <2>1, <2>2, <2>3 DEF MountInv, RootIsDirectory
  <1>3. CASE \E e : SendFileHeader(e)
    BY <1>1, <1>3, FileHeaderKeeps
  <1>4. CASE \E e, blocks : SendDataHeader(e, blocks)
    BY <1>1, <1>4, DataHeaderKeeps
  <1>5. CannotOpen \/ (\E e : SendFileHeader(e)) \/ (\E e, blocks : SendDataHeader(e, blocks))
    <2> DEFINE kid  == phase.kid
               node == Lookup(Top, Append(PathNames(path), kid.name))
               file == [NoEntry EXCEPT !.type = "File", !.name = kid.name, !.node = node]
               whole == [file EXCEPT !.content = <<Inline(kid.node)>>]
    <2>1. \/ CannotOpen
          \/ SendFileHeader(whole)
          \/ SendDataHeader(file, <<Size[kid.node]>>)
          \/ \E blocks \in Encodings[kid.node] : SendDataHeader(file, blocks)
      BY DEF ReadFileEntry
    <2> HIDE DEF kid, file, whole
    <2> QED
      BY <2>1
  <1> QED
    BY <1>2, <1>3, <1>4, <1>5

\* A directory is entered, open or not: the root, or one below it.
LEMMA OpenDirectoryKeeps ==
  ASSUME MountInv, OpenDirectory
  PROVE  MountInv'
  <1>1. level \in Nat /\ DOMAIN dirs = 0..MaxLevels /\ MaxLevels \in Nat /\ level <= MaxLevels
    BY ArchiveAssumption DEF MountInv, RootIsDirectory, InDirectory, OpenDirectory
  <1>2. UNCHANGED <<state, streamOffset, queuedSize, out, produced>>
        /\ level' = level + 1 /\ failed \subseteq failed'
        /\ phase' \in {Reading, Closing} /\ phase.kind = "opening"
    BY DEF OpenDirectory
  <1>3. InDirectory'
    BY <1>1, <1>2 DEF InDirectory, Reading, Closing
  <1>4. EndOfStream'
    BY <1>1, <1>2 DEF MountInv, EndOfStream, VolumeProduced, Produced
  <1>5. PICK e : /\ dirs' = [dirs EXCEPT ![level] = e]
                 /\ "type" \in DOMAIN e /\ e.type = KindOf(phase.kid)
    <2> DEFINE kid  == phase.kid
               node == Lookup(Top, PathNames(Enter(kid).path))
               entry(got, isOpen) ==
                 [type |-> KindOf(kid), name |-> kid.name,
                  node |-> IF isOpen THEN node ELSE kid.node,
                  content |-> Attributes(kid, got), open |-> isOpen, next |-> 1,
                  namelen |-> Enter(kid).namelen]
    <2>1. \E got, isOpen : dirs' = [dirs EXCEPT ![level] = entry(got, isOpen)]
      BY DEF OpenDirectory
    <2>2. PICK got, isOpen : dirs' = [dirs EXCEPT ![level] = entry(got, isOpen)]
      BY <2>1
    <2>3. /\ "type" \in DOMAIN entry(got, isOpen)
          /\ entry(got, isOpen).type = KindOf(phase.kid)
      OBVIOUS
    <2> QED
      BY <2>2, <2>3
  <1>6. RootIsDirectory'
    <2>1. CASE level = 0
      <3>1. phase.kid.name = Absent
        BY <1>2, <2>1 DEF MountInv, InDirectory
      <3>2. e.type = "Directory"
        BY <1>5, <3>1 DEF KindOf
      <3> QED
        BY <1>1, <1>5, <2>1, <3>2 DEF RootIsDirectory
    <2>2. CASE level > 0
      <3>1. dirs'[0] = dirs[0]
        BY <1>1, <1>5, <2>2
      <3> QED
        BY <1>1, <1>5, <2>2, <3>1 DEF MountInv, RootIsDirectory
    <2> QED
      BY <1>1, <2>1, <2>2
  <1> QED
    BY <1>2, <1>3, <1>4, <1>6 DEF MountInv

\* The next entry of a directory.
LEMMA ReadDirectoryKeeps ==
  ASSUME MountInv, ReadDirectory
  PROVE  MountInv'
  <1>1. level > 0 /\ level \in Nat /\ DOMAIN dirs = 0..MaxLevels /\ MaxLevels \in Nat
    BY ArchiveAssumption DEF MountInv, RootIsDirectory, InDirectory, ReadDirectory
  <1>2. UNCHANGED <<state, level, streamOffset, queuedSize, out, produced>>
        /\ failed \subseteq failed'
    BY DEF ReadDirectory
  <1>3. phase' = Reading \/ phase' = Closing \/ \E k : phase' = Opening(k) \/ phase' = Filing(k)
    BY DEF ReadDirectory, Skip
  <1>4. InDirectory'
    BY <1>1, <1>2, <1>3 DEF InDirectory, Reading, Closing, Opening, Filing
  <1>5. EndOfStream'
    BY <1>2 DEF MountInv, EndOfStream, VolumeProduced, Produced
  <1>6. dirs' = dirs \/ dirs' = [dirs EXCEPT ![level - 1].next = @ + 1]
    BY DEF ReadDirectory
  <1>7. "type" \in DOMAIN dirs[0] /\ dirs[0].type = "Directory"
    BY <1>1 DEF MountInv, RootIsDirectory
  <1>8. RootIsDirectory'
    <2>1. CASE dirs' = dirs
      BY <1>2, <2>1 DEF MountInv, RootIsDirectory
    <2>2. CASE dirs' = [dirs EXCEPT ![level - 1].next = @ + 1]
      <3>1. dirs'[0] = dirs[0] \/ dirs'[0] = [dirs[0] EXCEPT !.next = @ + 1]
        BY <1>1, <2>2
      <3> QED
        BY <1>1, <1>7, <2>2, <3>1 DEF RootIsDirectory
    <2> QED
      BY <1>6, <2>1, <2>2
  <1> QED
    BY <1>2, <1>4, <1>5, <1>8 DEF MountInv


\* The object of a directory goes out; after that of the root there is no other.
LEMMA CloseDirectoryKeeps ==
  ASSUME MountInv, CloseDirectory
  PROVE  MountInv'
  <1> DEFINE e == dirs[level - 1]
  <1>1. level > 0 /\ level \in Nat /\ DOMAIN dirs = 0..MaxLevels /\ MaxLevels \in Nat
    BY ArchiveAssumption DEF MountInv, RootIsDirectory, InDirectory, CloseDirectory
  <1>2. QueueStream(Named(e), "dirHeader") /\ level' = level - 1
    BY DEF CloseDirectory
  <1>3. Named(e).at = produced /\ Named(e).type = e.type
    BY DEF Named
  <1> DEFINE o == Named(e)
  <1>4. /\ IsSequence(out')
        /\ produced' = streamOffset' + queuedSize'
        /\ state' = "dirHeader" /\ phase' = Ready
        /\ Len(out) \in Nat /\ Len(out') = Len(out) + 1
        /\ out'[Len(out')] = o /\ o.at = streamOffset'
    <2> HIDE DEF o
    <2>1. QueueStream(o, "dirHeader") /\ o.at = produced
      BY <1>2, <1>3 DEF o
    <2> QED
      BY <2>1, QueueingIs
  <1>5. InDirectory'
    BY <1>1, <1>2, <1>4 DEF InDirectory, Ready, Stalled
  <1>6. "type" \in DOMAIN dirs[0] /\ dirs[0].type = "Directory"
    BY <1>1 DEF MountInv, RootIsDirectory
  <1>7. RootIsDirectory'
    <2>1. DOMAIN dirs' = 0..MaxLevels
      BY <1>1 DEF CloseDirectory
    <2>2. ASSUME level' > 0 PROVE "type" \in DOMAIN dirs'[0] /\ dirs'[0].type = "Directory"
      <3>1. dirs'[0] = dirs[0] \/ dirs'[0] = WithRef(dirs[0], e.type)
        BY <1>1, <1>2, <2>2 DEF CloseDirectory
      <3> QED
        BY <1>6, <3>1 DEF WithRef
    <2> QED
      BY <2>1, <2>2 DEF RootIsDirectory
  <1>8. EndOfStream'
    <2>1. Produced(0)' = o
      BY <1>4 DEF Produced
    <2>2. level' = 0 => o.type = "Directory"
      BY <1>1, <1>2, <1>3, <1>6
    <2> HIDE DEF o
    <2> QED
      BY <1>4, <2>1, <2>2 DEF EndOfStream
  <1> QED
    BY <1>4, <1>5, <1>7, <1>8 DEF MountInv

\* A block that goes out while nothing is being enumerated.
LEMMA MarkerKeeps ==
  ASSUME NEW o, NEW newState, MountInv, o.at = produced, QueueStream(o, newState), Unmoved,
         newState \in {"start", "volumeHeader", "end"},
         newState = "volumeHeader" =>
           level = 0 /\ state = "dirHeader" /\ o.type = "Volume" /\ o.root = streamOffset,
         newState = "end" =>
           "Root" \in failed' \/ (VolumeProduced(0) /\ o.type = "EndMarker")
  PROVE  MountInv'
  <1>1. /\ IsSequence(out')
        /\ produced' = streamOffset' + queuedSize'
        /\ state' = newState /\ phase' = Ready
        /\ Len(out) \in Nat /\ Len(out') = Len(out) + 1
        /\ out'[Len(out')] = o /\ o.at = streamOffset'
        /\ \A i \in 1..Len(out) : out'[i] = out[i]
    BY QueueingIs
  <1>2. InDirectory' /\ RootIsDirectory'
    BY <1>1 DEF MountInv, InDirectory, RootIsDirectory, Unmoved, Ready, Stalled
  <1>3. Produced(0)' = o
    BY <1>1 DEF Produced
  <1>4. Len(out) > 0 => Produced(1)' = Produced(0)
    BY <1>1 DEF Produced
  <1>5. Len(out) > 1 => Produced(2)' = Produced(1)
    BY <1>1 DEF Produced
  <1>6. EndOfStream'
    <2>1. CASE newState = "volumeHeader"
      <3>1. Len(out) > 0 /\ Produced(0).at = streamOffset /\ Produced(0).type = "Directory"
        BY <2>1 DEF MountInv, EndOfStream
      <3>2. VolumeProduced(0)'
        BY <1>1, <1>3, <1>4, <2>1, <3>1 DEF VolumeProduced
      <3> QED
        BY <1>1, <2>1, <3>2 DEF EndOfStream
    <2>2. CASE newState = "end"
      <3>1. ASSUME "Root" \notin failed' PROVE VolumeProduced(1)' /\ Produced(0)'.type = "EndMarker"
        <4>1. VolumeProduced(0) /\ o.type = "EndMarker"
          BY <2>2, <3>1
        <4> QED
          BY <1>1, <1>3, <1>4, <1>5, <4>1 DEF VolumeProduced
      <3> QED
        BY <1>1, <2>2, <3>1 DEF EndOfStream
    <2>3. CASE newState = "start"
      BY <1>1, <2>3 DEF EndOfStream
    <2> QED
      BY <2>1, <2>2, <2>3
  <1> QED
    BY <1>1, <1>2, <1>6 DEF MountInv

\* fillBuffers(): what comes next, in each state.
LEMMA FillBuffersKeeps ==
  ASSUME MountInv, FillBuffers
  PROVE  MountInv'
  <1>1. CASE state = "idle" /\ QueueStream(Marker("StartMarker"), "start") /\ Unmoved
    <2>1. Marker("StartMarker").at = produced
      BY DEF Marker
    <2> QED
      BY <1>1, <2>1, MarkerKeeps
  <1>2. CASE state = "start" /\ OpenRootDirectory
    <2>1. CASE GotoEnd /\ "Root" \in failed'
      <3>1. Marker("EndMarker").at = produced
        BY DEF Marker
      <3> QED
        BY <2>1, <3>1, MarkerKeeps DEF GotoEnd
    <2>2. CASE /\ \E root : phase' = Opening([name |-> Absent, node |-> root])
               /\ UNCHANGED <<state, streamOffset, queuedSize, out, produced, failed>>
               /\ Unmoved
      <3>1. phase'.kind = "opening" /\ phase'.kid.name = Absent
        BY <2>2 DEF Opening
      <3>2. InDirectory'
        BY <1>2, <2>2, <3>1 DEF MountInv, InDirectory, Unmoved
      <3>3. EndOfStream' /\ RootIsDirectory'
        BY <2>2 DEF MountInv, EndOfStream, RootIsDirectory, VolumeProduced, Produced, Unmoved
      <3> QED
        BY <2>2, <3>2, <3>3 DEF MountInv
    <2>3. QED
      BY <1>2, <2>1, <2>2 DEF OpenRootDirectory
  <1>3. CASE state = "dataHeader" /\ SendDataContent
    <2>1. Content(dataBlock).at = produced
      BY DEF Content
    <2>2. level > 0
      BY <1>3 DEF MountInv, InDirectory
    <2>3. RootIsDirectory'
      BY <1>3 DEF SendDataContent, MountInv, RootIsDirectory
    <2> QED
      BY <1>3, <2>1, <2>2, <2>3, QueueingWithin DEF SendDataContent
  <1>4. CASE state = "dataContent" /\ SendDataHeader(dirs[level], encoder.blocks)
    <2>1. level > 0
      BY <1>4 DEF MountInv, InDirectory
    <2> QED
      BY <1>4, <2>1, DataHeaderKeeps
  <1>5. CASE (state = "fileHeader" \/ (state = "dirHeader" /\ level > 0)) /\ Continue /\ UNCHANGED failed
    <2>1. level > 0
      BY <1>5 DEF MountInv, InDirectory
    <2>2. InDirectory'
      BY <1>5, <2>1 DEF MountInv, InDirectory, Continue, Unmoved, Reading
    <2>3. EndOfStream' /\ RootIsDirectory'
      BY <1>5 DEF MountInv, EndOfStream, RootIsDirectory, VolumeProduced, Produced, Continue, Unmoved
    <2> QED
      BY <1>5, <2>2, <2>3 DEF MountInv, Continue
  <1>6. CASE state = "dirHeader" /\ level = 0 /\ QueueStream(Volume, "volumeHeader") /\ Unmoved
    <2>1. Volume.at = produced /\ Volume.type = "Volume" /\ Volume.root = streamOffset
      BY DEF Volume
    <2> QED
      BY <1>6, <2>1, MarkerKeeps
  <1>7. CASE state = "volumeHeader" /\ GotoEnd
    <2>1. Marker("EndMarker").at = produced /\ Marker("EndMarker").type = "EndMarker"
      BY DEF Marker
    <2>2. VolumeProduced(0)
      BY <1>7 DEF MountInv, EndOfStream
    <2> QED
      BY <1>7, <2>1, <2>2, MarkerKeeps DEF GotoEnd
  <1>8. CASE /\ state = "end" /\ state' = Finished
             /\ UNCHANGED <<phase, streamOffset, queuedSize, out, produced, failed>>
             /\ Unmoved
    <2>1. InDirectory'
      BY <1>8 DEF MountInv, InDirectory, Unmoved, Finished
    <2>2. EndOfStream' /\ RootIsDirectory'
      BY <1>8 DEF MountInv, EndOfStream, RootIsDirectory, VolumeProduced, Produced, Unmoved, Finished
    <2> QED
      BY <1>8, <2>1, <2>2 DEF MountInv
  <1> QED
    BY <1>1, <1>2, <1>3, <1>4, <1>5, <1>6, <1>7, <1>8 DEF FillBuffers

\* The stream starts again from nothing.
LEMMA ResetKeeps ==
  ASSUME MountInv, Reset
  PROVE  MountInv'
  <1>1. /\ state' = "idle" /\ level' = 0 /\ out' = <<>> /\ phase' = Ready
        /\ produced' = 0 /\ streamOffset' = 0 /\ queuedSize' = 0
    BY DEF Reset
  <1>2. IsSequence(out')
    BY <1>1, EmptySeq, SequenceIs
  <1>3. DOMAIN dirs' = 0..MaxLevels
    BY DEF Reset, MountInv, RootIsDirectory
  <1> QED
    BY <1>1, <1>2, <1>3 DEF MountInv, InDirectory, RootIsDirectory, EndOfStream, Ready, Stalled

\* How the stream begins, and each of its steps.
THEOREM MountInvHolds == Spec => []MountInv
  <1>1. Init => MountInv
    <2> SUFFICES ASSUME Init PROVE MountInv
      OBVIOUS
    <2>1. IsSequence(<<>>)
      BY EmptySeq, SequenceIs
    <2> QED
      BY <2>1 DEF Init, MountInv, InDirectory, RootIsDirectory, EndOfStream, Ready, Stalled
  <1>2. MountInv /\ [Next]_vars => MountInv'
    <2> SUFFICES ASSUME MountInv, [Next]_vars PROVE MountInv'
      OBVIOUS
    <2>1. CASE Step
      BY <2>1, ReadFileEntryKeeps, OpenDirectoryKeeps, ReadDirectoryKeeps, CloseDirectoryKeeps DEF Step
    <2>2. CASE UNCHANGED vars \/ ReadFails \/ \E n \in 1..source : Read(n)
      <3>1. /\ UNCHANGED <<state, level, dirs, streamOffset, queuedSize, out, produced>>
            /\ failed' = failed \/ state = "dataContent"
            /\ phase' = phase \/ phase' = Ready \/ phase' = Stalled
        BY <2>2 DEF vars, Read, ReadFails
      <3>2. MountInv => InDirectory' /\ RootIsDirectory'
        BY <3>1 DEF MountInv, InDirectory, RootIsDirectory, Ready, Stalled
      <3>3. MountInv => EndOfStream'
        BY <3>1 DEF MountInv, EndOfStream, VolumeProduced, Produced
      <3> QED
        BY <3>1, <3>2, <3>3 DEF MountInv
    <2> QED
      BY <2>1, <2>2, FillBuffersKeeps, ResetKeeps DEF Next
  <1> QED
    BY <1>1, <1>2, PTL DEF Spec

\* A stream that ends is an image that mount() takes: its last volume refers to its
\* last directory, whatever has failed, the root directory excepted.
THEOREM EndsMountable == Spec => []SuccessIsMountable
  <1>1. MountInv => SuccessIsMountable
    <2> SUFFICES ASSUME MountInv, state = "done", "Root" \notin failed PROVE Mountable
      BY DEF SuccessIsMountable
    <2> DEFINE n == Len(out)
    <2>1. n \in Nat
      BY AppendIs DEF MountInv
    <2>2. n > 2 /\ out[n].type = "EndMarker" /\ out[n - 1].type = "Volume"
          /\ out[n - 2].type = "Directory" /\ out[n - 1].root = out[n - 2].at
      BY <2>1 DEF MountInv, EndOfStream, VolumeProduced, Produced
    <2>3. TheVolume = n - 1
      <3> DEFINE I == { i \in 1..n : out[i].type = "Volume" }
      <3>1. I \subseteq 1..n /\ n - 1 \in I /\ \A j \in I : j <= n - 1
        BY <2>1, <2>2
      <3>2. I # {} /\ (CHOOSE x \in I : \A y \in I : x >= y) = n - 1
        <4> HIDE DEF I
        <4> QED
          BY <2>1, <3>1, LastSelected
      <3> QED
        BY <3>2 DEF TheVolume, SelectLastInSeq, Max
    <2>4. LastDirectory = n - 2
      <3> DEFINE I == { i \in 1..n : out[i].type = "Directory" }
      <3>1. I \subseteq 1..n /\ n - 2 \in I /\ \A j \in I : j <= n - 2
        BY <2>1, <2>2
      <3>2. I # {} /\ (CHOOSE x \in I : \A y \in I : x >= y) = n - 2
        <4> HIDE DEF I
        <4> QED
          BY <2>1, <3>1, LastSelected
      <3> QED
        BY <3>2 DEF LastDirectory, SelectLastInSeq, Max
    <2> QED
      BY <2>1, <2>2, <2>3, <2>4 DEF Mountable
  <1> QED
    BY <1>1, MountInvHolds, PTL

(***************************************************************************)
(* The directories on the way to the current one.                          *)
(***************************************************************************)
RootNode == Lookup(Top, RootPath)

\* Which nodes are enumerated when they are open.
IsEntered(n) == n = RootNode \/ Kind[n] = "Directory" \/ IncludeMountPoints

\* How deep a tree is: a number that decreases on the way down.
IsDepth(depth) ==
  /\ depth \in [Nodes -> Nat]
  /\ RootNode \in Nodes => depth[RootNode] + 2 <= MaxLevels
  /\ \A n \in Nodes : IsEntered(n) =>
       \A k \in DOMAIN Kids[n] : IsDir(Kids[n][k].node) => depth[Kids[n][k].node] < depth[n]

Depth == CHOOSE depth : IsDepth(depth)

\* The tree is not deeper than directories[] is long.
ShallowTree == \E depth : IsDepth(depth)

\* A name and the separator before it are counted in a byte.
NamesFit == \A n \in Names : NameLen[n] + 1 < ByteSize

\* The stream is reset where it has not gone below the root.
ResetAtRoot == ResetLevels \subseteq {0, 1}

Archivable == ShallowTree /\ DistinctNames /\ NamesFit /\ ResetAtRoot

\* In which state and phase of a call there is a directory or a file.
CallInv ==
  /\ phase \notin {Ready, Stalled} => state \in {"start", "fileHeader", "dirHeader"}
  /\ phase = Stalled => state = "dataContent"
  /\ state \in {"idle", "volumeHeader", "end", "done"} => level = 0
  /\ state = "start" /\ phase = Ready => level = 0
  /\ state \in {"dataHeader", "dataContent", "fileHeader"} => level > 0
  /\ encoder.used <=> state \in {"dataHeader", "dataContent"}
  /\ phase.kind \in {"reading", "filing", "closing"} => level > 0
  /\ phase.kind = "opening" /\ level = 0 => state = "start"

\* Where the current path has the name of the directory at a level.
PathIndex(i) == Len(RootPath) + i

\* The current path is that of the root and of the directories below it, and each of
\* them knows how many characters of the path are its own.
PathInv ==
  /\ path \in Seq(PathNode)
  /\ Len(path) = PathIndex(IF level = 0 THEN 0 ELSE level - 1)
  /\ \A i \in 1..Len(RootPath) : path[i].name = RootPath[i]
  /\ \A i \in 1..(level - 1) :
       /\ path[PathIndex(i)].name = dirs[i].name
       /\ path[PathIndex(i)].len > 0
       /\ dirs[i].namelen = path[PathIndex(i)].len + (IF PathIndex(i) = 1 THEN 0 ELSE 1)

\* The first n names of a path.
NamesTo(p, n) == [i \in 1..n |-> p[i].name]

\* Each directory is where its path leads to, and leaves room for those below it.
NodeInv ==
  \A i \in 0..(level - 1) :
    /\ dirs[i].node \in Nodes
    /\ dirs[i].node = Lookup(Top, NamesTo(path, PathIndex(i)))
    /\ dirs[i].open => IsEntered(dirs[i].node)
    /\ Depth[dirs[i].node] + i + 2 <= MaxLevels

\* What is about to be opened is the root or an entry of the current directory.
OpeningInv ==
  phase.kind = "opening" =>
    /\ IsDir(phase.kid.node)
    /\ IF level = 0 THEN phase.kid = [name |-> Absent, node |-> RootNode]
       ELSE \E k \in DOMAIN Kids[dirs[level - 1].node] :
              phase.kid = Kids[dirs[level - 1].node][k]

\* The stream's own variables have their types.
StreamInv ==
  /\ state \in States
  /\ phase \in Phases
  /\ encoder \in [used : BOOLEAN, blocks : Seq(Nat \ {0})]
  /\ dataBlock \in Nat
  /\ source \in 0..queuedSize
  /\ streamOffset \in Nat
  /\ queuedSize \in Nat
  /\ failed \subseteq Calls

\* directories[] has an entry for each level down to the current directory, all of them
\* open but perhaps the last, and room for one of what is in that.
DirsInv ==
  /\ level \in Nat
  /\ level < MaxLevels
  /\ dirs \in [0..MaxLevels -> Entries]
  /\ \A i \in 0..MaxLevels :
       /\ dirs[i].open => i < level
       /\ i < level /\ ~dirs[i].open => i = level - 1 /\ phase = Closing
  /\ dirs[0].namelen = 0

\* The directories that are open in the file system.
OpenLevels == { i \in 0..MaxLevels : dirs[i].open }

\* What is open is counted.
OpenInv ==
  /\ opened.dirs = Cardinality(OpenLevels)
  /\ opened.files = IF encoder.used THEN 1 ELSE 0
  /\ opened = [dirs |-> opened.dirs, files |-> opened.files]

TreeInv ==
  /\ StreamInv
  /\ DirsInv
  /\ CallInv
  /\ PathInv
  /\ NodeInv
  /\ OpeningInv
  /\ OpenInv

\* What the phases of a call are.
LEMMA PhaseIs ==
  ASSUME phase \in Phases
  PROVE  /\ phase.kind \in {"ready", "stalled", "reading", "closing", "opening", "filing"}
         /\ phase = Ready <=> phase.kind = "ready"
         /\ phase = Stalled <=> phase.kind = "stalled"
         /\ phase = Closing <=> phase.kind = "closing"
         /\ phase = Reading <=> phase.kind = "reading"
         /\ phase.kind = "filing" => phase.kid \in Kid
         /\ phase.kind = "opening" =>
              /\ phase.kid.node \in Nodes
              /\ phase.kid.name \in Names \cup {Absent}
              /\ phase.kid = [name |-> phase.kid.name, node |-> phase.kid.node]
  <1>1. CASE phase \in {Ready, Stalled, Reading, Closing}
    BY <1>1 DEF Ready, Stalled, Reading, Closing
  <1>2. CASE phase \in { Filing(k) : k \in Kid }
    BY <1>2 DEF Filing, Ready, Stalled, Reading, Closing
  <1>3. CASE phase \in { Opening(k) : k \in [name : Names \cup {Absent}, node : Nodes] }
    <2>1. PICK k \in [name : Names \cup {Absent}, node : Nodes] : phase = Opening(k)
      BY <1>3
    <2>2. k.node \in Nodes /\ k.name \in Names \cup {Absent} /\ k = [name |-> k.name, node |-> k.node]
      OBVIOUS
    <2>3. phase.kid = k /\ phase.kind = "opening"
      BY <2>1 DEF Opening
    <2> QED
      BY <2>1, <2>2, <2>3 DEF Ready, Stalled, Reading, Closing, Opening
  <1> QED
    BY <1>1, <1>2, <1>3 DEF Phases

\* The names of a path, one by one.
LEMMA NamesToStep ==
  ASSUME NEW p, NEW n \in Nat
  PROVE  Lookup(Top, NamesTo(p, n + 1)) = Descend(Lookup(Top, NamesTo(p, n)), p[n + 1].name)
  <1> DEFINE a == NamesTo(p, n)
             b == NamesTo(p, n + 1)
  <1>1. Len(a) = n /\ Len(b) = n + 1 /\ \A i \in 1..n : b[i] = a[i]
    BY DEF NamesTo
  <1>2. b[n + 1] = p[n + 1].name
    BY DEF NamesTo
  <1> HIDE DEF a, b
  <1>3. Lookup(Top, b) = Descend(Lookup(Top, a), b[Len(b)])
    BY <1>1, LookupStep
  <1> QED
    BY <1>1, <1>2, <1>3 DEF a, b

\* Only the names count.
LEMMA NamesToSame ==
  ASSUME NEW p, NEW q, NEW n, \A i \in 1..n : p[i].name = q[i].name
  PROVE  NamesTo(p, n) = NamesTo(q, n)
  BY DEF NamesTo

\* The path of the root is what the archive is rooted at.
LEMMA PathOfRoot ==
  ASSUME NEW p, \A i \in 1..Len(RootPath) : p[i].name = RootPath[i]
  PROVE  NamesTo(p, Len(RootPath)) = RootPath
  <1>1. RootPath \in Seq(Names)
    BY ArchiveAssumption
  <1>2. RootPath = [i \in 1..Len(RootPath) |-> RootPath[i]]
    BY <1>1
  <1> QED
    BY <1>2 DEF NamesTo

\* The names of the current path.
LEMMA PathNamesIs == PathNames(path) = NamesTo(path, Len(path))
  BY DEF PathNames, NamesTo

\* The tree has a depth.
LEMMA DepthIs == ShallowTree => IsDepth(Depth)
  BY DEF ShallowTree, Depth

(***************************************************************************)
(* What goes into the entry of a directory, and the steps at one level.    *)
(***************************************************************************)
\* What an item may refer to.
RefTypes == {"Data", "File", "Directory", "MountPoint"}

\* An object takes some room, whatever is in it.
LEMMA LengthIs ==
  ASSUME NEW content \in Seq(Items)
  PROVE  Length(content) \in Nat
  <1>1. Len(content) \in Nat
    OBVIOUS
  <1>2. CASE content # <<>> /\ content[1].kind = "inline"
    <2>1. content[1] \in Items
      BY <1>2, ElementOfSeq
    <2>2. content[1].len \in Nat
      BY <1>2, <2>1 DEF Items, VolumeIndex
    <2> QED
      BY <1>1, <1>2, <2>2 DEF Length
  <1>3. CASE ~(content # <<>> /\ content[1].kind = "inline")
    BY <1>1, <1>3 DEF Length
  <1> QED
    BY <1>2, <1>3

\* A reference is added to what an entry has, and nothing else changes.
LEMMA WithRefIs ==
  ASSUME NEW e \in Entries, NEW type \in RefTypes, StreamInv
  PROVE  /\ WithRef(e, type) \in Entries
         /\ WithRef(e, type).type = e.type
         /\ WithRef(e, type).name = e.name
         /\ WithRef(e, type).node = e.node
         /\ WithRef(e, type).open = e.open
         /\ WithRef(e, type).next = e.next
         /\ WithRef(e, type).namelen = e.namelen
         /\ WithRef(e, type).content = Append(e.content, RefTo(type))
  <1>1. RefTo(type) \in Items
    <2>1. streamOffset + queuedSize \in Nat
      BY DEF StreamInv
    <2> QED
      BY <2>1 DEF RefTo, Ref, Items, RefTypes
  <1>2. e.content \in Seq(Items)
    BY DEF Entries
  <1>3. Append(e.content, RefTo(type)) \in Seq(Items)
    BY <1>1, <1>2, AppendProperties
  <1> DEFINE c == Append(e.content, RefTo(type))
  <1>4. WithRef(e, type) = [e EXCEPT !.content = c]
    BY DEF WithRef
  <1> HIDE DEF c
  <1>5. [e EXCEPT !.content = c] \in Entries
    BY <1>3 DEF Entries, c
  <1> QED
    BY <1>4, <1>5 DEF Entries, c

\* The stream's variables after a block has been queued.
LEMMA QueueTyped ==
  ASSUME NEW o, NEW newState \in States, StreamInv, QueueStream(o, newState), o.len \in Nat,
         encoder' \in [used : BOOLEAN, blocks : Seq(Nat \ {0})], dataBlock' \in Nat,
         failed' \subseteq Calls
  PROVE  StreamInv' /\ state' = newState /\ phase' = Ready
  <1>1. streamOffset' \in Nat /\ queuedSize' \in Nat /\ source' \in 0..queuedSize'
    BY DEF QueueStream, StreamInv
  <1>2. phase' \in Phases
    BY DEF QueueStream, Phases
  <1> QED
    BY <1>1, <1>2 DEF QueueStream, StreamInv

\* What two directories[] say alike about a level.
SameEntry(d, e) ==
  /\ e.type = d.type
  /\ e.name = d.name
  /\ e.node = d.node
  /\ e.open = d.open
  /\ e.namelen = d.namelen

\* The directories on the way stay the same, but for what is in them.
LEMMA WayKept ==
  ASSUME TreeInv, UNCHANGED <<path, level>>, phase = Closing => phase' = Closing,
         dirs' \in [0..MaxLevels -> Entries],
         \A i \in 0..MaxLevels : i < level \/ i = 0 => SameEntry(dirs[i], dirs'[i]),
         \A i \in 0..MaxLevels : i >= level => ~dirs'[i].open
  PROVE  /\ DirsInv'
         /\ PathInv'
         /\ NodeInv'
         /\ OpenLevels' = OpenLevels
  <1>1. level \in Nat /\ level < MaxLevels /\ MaxLevels \in Nat
    BY ArchiveAssumption DEF TreeInv, DirsInv
  <1>2. dirs'[0].namelen = 0
    BY <1>1 DEF TreeInv, DirsInv, SameEntry
  <1>3. \A i \in 0..MaxLevels : dirs'[i].open = dirs[i].open \/ (~dirs'[i].open /\ ~dirs[i].open)
    BY <1>1 DEF TreeInv, DirsInv, SameEntry
  <1>4. DirsInv'
    BY <1>1, <1>2, <1>3 DEF TreeInv, DirsInv
  <1>5. PathInv'
    <2>1. \A i \in 1..(level - 1) : i \in 0..MaxLevels /\ i < level
      BY <1>1
    <2>2. \A i \in 1..(level - 1) : dirs'[i].name = dirs[i].name /\ dirs'[i].namelen = dirs[i].namelen
      BY <2>1 DEF SameEntry
    <2> QED
      BY <2>2 DEF TreeInv, PathInv, PathIndex
  <1>6. NodeInv'
    <2>1. \A i \in 0..(level - 1) : i \in 0..MaxLevels /\ i < level
      BY <1>1
    <2>2. \A i \in 0..(level - 1) : dirs'[i].node = dirs[i].node /\ dirs'[i].open = dirs[i].open
      BY <2>1 DEF SameEntry
    <2> QED
      BY <2>2 DEF TreeInv, NodeInv, PathIndex
  <1>7. OpenLevels' = OpenLevels
    BY <1>3 DEF OpenLevels
  <1> QED
    BY <1>4, <1>5, <1>6, <1>7

\* The object of a file goes out.
LEMMA FileHeaderTree ==
  ASSUME NEW e \in Entries, ~e.open, TreeInv, level > 0, phase # Closing,
         SendFileHeader(e), failed' \subseteq Calls
  PROVE  TreeInv'
  <1>1. level \in Nat /\ level < MaxLevels /\ MaxLevels \in Nat
        /\ dirs \in [0..MaxLevels -> Entries] /\ level \in 0..MaxLevels
        /\ level - 1 \in 0..MaxLevels
    BY ArchiveAssumption DEF TreeInv, DirsInv
  <1>2. StreamInv' /\ state' = "fileHeader" /\ phase' = Ready
    <2>1. Named(e).len \in Nat
      <3>1. e.content \in Seq(Items)
        BY DEF Entries
      <3> QED
        BY <3>1, LengthIs DEF Named
    <2>2. encoder' \in [used : BOOLEAN, blocks : Seq(Nat \ {0})] /\ dataBlock' \in Nat
      BY EmptySeq DEF SendFileHeader, NoEncoder, TreeInv, StreamInv
    <2> DEFINE o == Named(e)
    <2>3. QueueStream(o, "fileHeader") /\ "fileHeader" \in States
      BY DEF SendFileHeader, States
    <2> HIDE DEF o
    <2>4. o.len \in Nat
      BY <2>1 DEF o
    <2> QED
      BY <2>2, <2>3, <2>4, QueueTyped DEF TreeInv
  <1> DEFINE ref == WithRef(dirs[level - 1], e.type)
  <1>3. /\ ref \in Entries
        /\ SameEntry(dirs[level - 1], ref)
    <2>1. e.type \in RefTypes /\ dirs[level - 1] \in Entries
      BY <1>1 DEF Entries, RefTypes
    <2> QED
      BY <2>1, WithRefIs DEF TreeInv, SameEntry
  <1>4. dirs' = [dirs EXCEPT ![level] = e, ![level - 1] = ref]
    BY <1>1 DEF SendFileHeader
  <1> HIDE DEF ref
  <1>5. dirs' \in [0..MaxLevels -> Entries]
    BY <1>1, <1>3, <1>4
  <1>6. \A i \in 0..MaxLevels :
          dirs'[i] = IF i = level THEN e ELSE IF i = level - 1 THEN ref ELSE dirs[i]
    BY <1>1, <1>4
  <1>7. /\ \A i \in 0..MaxLevels : i < level \/ i = 0 => SameEntry(dirs[i], dirs'[i])
        /\ \A i \in 0..MaxLevels : i >= level => ~dirs'[i].open
    BY <1>1, <1>3, <1>6 DEF TreeInv, DirsInv, SameEntry
  <1>8. UNCHANGED <<path, level>>
    BY DEF SendFileHeader
  <1>9. DirsInv' /\ PathInv' /\ NodeInv' /\ OpenLevels' = OpenLevels
    BY <1>2, <1>5, <1>7, <1>8, WayKept
  <1>10. CallInv' /\ OpeningInv'
    BY <1>1, <1>2, <1>8 DEF CallInv, OpeningInv, Ready, SendFileHeader, NoEncoder, Stalled
  <1>11. OpenInv'
    BY <1>9 DEF TreeInv, OpenInv, SendFileHeader, NoEncoder
  <1> QED
    BY <1>2, <1>9, <1>10, <1>11 DEF TreeInv

\* The header of a block of data goes out, or if there are no more the file.
LEMMA DataHeaderTree ==
  ASSUME NEW e \in Entries, ~e.open, NEW blocks \in Seq(Nat \ {0}), TreeInv, level > 0,
         phase # Closing, SendDataHeader(e, blocks), failed' \subseteq Calls
  PROVE  TreeInv'
  <1>1. CASE SendFileHeader(e)
    BY <1>1, FileHeaderTree
  <1>2. CASE blocks # <<>> /\ ~SendFileHeader(e)
    <2>1. level \in Nat /\ level < MaxLevels /\ MaxLevels \in Nat
          /\ dirs \in [0..MaxLevels -> Entries] /\ level \in 0..MaxLevels
      BY ArchiveAssumption DEF TreeInv, DirsInv
    <2>2. Head(blocks) \in Nat /\ Tail(blocks) \in Seq(Nat \ {0})
      BY <1>2, HeadTailProperties
    <2>3. /\ QueueStream(Data(Head(blocks)), "dataHeader")
          /\ dataBlock' = Head(blocks)
          /\ encoder' = [used |-> TRUE, blocks |-> Tail(blocks)]
          /\ dirs' = [dirs EXCEPT ![level] = WithRef(e, "Data")]
          /\ opened' = [opened EXCEPT !.files = 1]
          /\ UNCHANGED <<path, level>>
      BY <1>2 DEF SendDataHeader, Encoder
    <2>4. StreamInv' /\ state' = "dataHeader" /\ phase' = Ready
      <3> DEFINE o == Data(Head(blocks))
      <3>1. o.len \in Nat
        BY DEF Data
      <3>2. QueueStream(o, "dataHeader") /\ "dataHeader" \in States
        BY <2>3 DEF States
      <3>3. encoder' \in [used : BOOLEAN, blocks : Seq(Nat \ {0})] /\ dataBlock' \in Nat
        BY <2>2, <2>3
      <3> HIDE DEF o
      <3> QED
        BY <3>1, <3>2, <3>3, QueueTyped DEF TreeInv
    <2> DEFINE new == WithRef(e, "Data")
    <2>5. new \in Entries /\ ~new.open
      BY WithRefIs DEF TreeInv, RefTypes
    <2>6. dirs' = [dirs EXCEPT ![level] = new]
      BY <2>3
    <2> HIDE DEF new
    <2>7. dirs' \in [0..MaxLevels -> Entries]
      BY <2>1, <2>5, <2>6
    <2>8. \A i \in 0..MaxLevels : dirs'[i] = IF i = level THEN new ELSE dirs[i]
      BY <2>1, <2>6
    <2>9. /\ \A i \in 0..MaxLevels : i < level \/ i = 0 => SameEntry(dirs[i], dirs'[i])
          /\ \A i \in 0..MaxLevels : i >= level => ~dirs'[i].open
      <3>1. \A i \in 0..MaxLevels : i < level \/ i = 0 => dirs'[i] = dirs[i]
        BY <2>1, <2>8
      <3>2. \A i \in 0..MaxLevels : i >= level /\ i # level => ~dirs'[i].open
        BY <2>1, <2>8 DEF TreeInv, DirsInv
      <3>3. ~dirs'[level].open
        BY <2>1, <2>5, <2>8
      <3> QED
        BY <3>1, <3>2, <3>3 DEF SameEntry
    <2>10. DirsInv' /\ PathInv' /\ NodeInv' /\ OpenLevels' = OpenLevels
      BY <2>3, <2>4, <2>7, <2>9, WayKept
    <2>11. CallInv' /\ OpeningInv'
      BY <2>1, <2>3, <2>4 DEF CallInv, OpeningInv, Ready, Stalled
    <2>12. OpenInv'
      BY <2>3, <2>10 DEF TreeInv, OpenInv
    <2> QED
      BY <2>4, <2>10, <2>11, <2>12 DEF TreeInv
  <1> QED
    BY <1>1, <1>2 DEF SendDataHeader

\* What readFileEntry() looks up is what the current directory has by the name.
LEMMA FileNode ==
  ASSUME TreeInv, level > 0, NEW kid
  PROVE  LET node == Lookup(Top, Append(PathNames(path), kid.name)) IN
         /\ node = Descend(dirs[level - 1].node, kid.name)
         /\ node \in Nodes \cup {Absent}
  <1> DEFINE names == PathNames(path)
             more  == Append(names, kid.name)
  <1>1. Len(path) \in Nat /\ Len(path) = PathIndex(level - 1) /\ level - 1 \in 0..(level - 1)
    BY DEF TreeInv, PathInv, DirsInv
  <1>2. IsSequence(names) /\ Len(names) = Len(path)
    BY <1>1 DEF PathNames, IsSequence
  <1>3. /\ Len(more) = Len(names) + 1 /\ more[Len(more)] = kid.name
        /\ \A i \in 1..Len(names) : more[i] = names[i]
    <2> HIDE DEF names
    <2> QED
      BY <1>2, AppendIs
  <1> HIDE DEF more
  <1>4. Lookup(Top, more) = Descend(Lookup(Top, names), kid.name)
    <2> HIDE DEF names
    <2> QED
      BY <1>1, <1>2, <1>3, LookupStep
  <1>5. names = NamesTo(path, Len(path))
    BY PathNamesIs
  <1>6. Lookup(Top, names) = dirs[level - 1].node /\ dirs[level - 1].node \in Nodes
    BY <1>1, <1>5 DEF TreeInv, NodeInv
  <1>7. Lookup(Top, more) \in Nodes \cup {Absent}
    BY <1>4, <1>6, DescendType
  <1> QED
    BY <1>4, <1>6, <1>7 DEF more

\* What is stored inline is an item.
LEMMA InlineIs ==
  ASSUME NEW n \in Nodes
  PROVE  Size[n] \in Nat /\ Inline(n) \in Items /\ <<Inline(n)>> \in Seq(Items)
  <1>1. Size[n] \in Nat
    BY SourceAssumption
  <1>2. Inline(n) \in [kind : {"inline"}, len : Nat]
    BY <1>1 DEF Inline
  <1>3. Inline(n) \in Items
    BY <1>2 DEF Items
  <1> QED
    BY <1>1, <1>3

\* The levels above the current one have an entry as well.
LEMMA NoEntryIs == NoEntry \in Entries /\ ~NoEntry.open
  <1>1. <<>> \in Seq(Items)
    OBVIOUS
  <1> QED
    BY <1>1 DEF NoEntry, Entries

\* The entry of a file, as readFileEntry() makes it, and with its data inline.
FileEntry(name, node) == [NoEntry EXCEPT !.type = "File", !.name = name, !.node = node]

WholeFile(name, node, content) == [FileEntry(name, node) EXCEPT !.content = content]

\* Both are entries, and are not open.
LEMMA FileIs ==
  ASSUME NEW name \in Names, NEW node \in Nodes \cup {Absent}, NEW content \in Seq(Items),
         NEW e \in {FileEntry(name, node), WholeFile(name, node, content)}
  PROVE  /\ e \in Entries /\ e.type = "File" /\ e.name = name /\ e.node = node /\ ~e.open
         /\ e = FileEntry(name, node) => e.content = <<>>
         /\ e = WholeFile(name, node, content) => e.content = content
  <1> DEFINE none  == NoEntry
             file  == [none EXCEPT !.type = "File", !.name = name, !.node = node]
             whole == [file EXCEPT !.content = content]
  <1>1. /\ file.type = "File" /\ file.name = name /\ file.node = node
        /\ file.content = <<>> /\ ~file.open
    BY DEF NoEntry
  <1>2. none \in Entries
    BY NoEntryIs
  <1> HIDE DEF none
  <1>3. file \in Entries
    BY <1>2 DEF Entries
  <1> HIDE DEF file
  <1>4. /\ whole \in Entries /\ whole.type = file.type /\ whole.name = file.name
        /\ whole.node = file.node /\ whole.content = content /\ whole.open = file.open
    BY <1>3 DEF Entries
  <1>5. file = FileEntry(name, node) /\ whole = WholeFile(name, node, content)
    BY DEF file, none, FileEntry, WholeFile
  <1> HIDE DEF whole
  <1> QED
    BY <1>1, <1>3, <1>4, <1>5

\* What readFileEntry() does with a file that it can open.
LEMMA ReadFileEntryIs ==
  ASSUME TreeInv, ReadFileEntry, ~CannotOpen
  PROVE  \E e \in Entries :
           /\ ~e.open /\ e.type = "File" /\ e.name = phase.kid.name
           /\ e.node = Descend(dirs[level - 1].node, e.name)
           /\ \/ SendFileHeader(e) /\ e.content = <<Inline(phase.kid.node)>>
              \/ \E blocks \in Seq(Nat \ {0}) : SendDataHeader(e, blocks) /\ e.content = <<>>
           /\ failed' \subseteq failed \cup {"Read"}
  <1> DEFINE kid     == phase.kid
             name    == kid.name
             node    == Lookup(Top, Append(PathNames(path), name))
             n       == kid.node
             content == <<Inline(n)>>
             file    == FileEntry(name, node)
             whole   == WholeFile(name, node, content)
  <1>1. name \in Names /\ n \in Nodes
    BY PhaseIs DEF ReadFileEntry, TreeInv, StreamInv, Kid
  <1>2. level > 0
    BY DEF ReadFileEntry, TreeInv, CallInv
  <1>3. node \in Nodes \cup {Absent} /\ node = Descend(dirs[level - 1].node, name)
    BY <1>2, FileNode
  <1>4. /\ failed' \subseteq failed \cup {"Read"}
        /\ \/ SendFileHeader(whole)
           \/ Size[n] >= MaxInline /\ SendDataHeader(file, <<Size[n]>>)
           \/ \E blocks \in Encodings[n] : SendDataHeader(file, blocks)
    BY DEF ReadFileEntry, FileEntry, WholeFile
  <1> HIDE DEF n
  <1>5. Size[n] \in Nat /\ content \in Seq(Items)
    BY <1>1, InlineIs
  <1> HIDE DEF name, node, content
  <1>6. /\ file \in Entries /\ file.type = "File" /\ file.name = name
        /\ file.node = node /\ file.content = <<>> /\ ~file.open
        /\ whole \in Entries /\ whole.type = "File" /\ whole.name = name
        /\ whole.node = node /\ whole.content = content /\ ~whole.open
    BY <1>1, <1>3, <1>5, FileIs
  <1> HIDE DEF file, whole
  <1>7. \A blocks \in Encodings[n] : blocks \in Seq(Nat \ {0})
    BY <1>1, ArchiveAssumption
  <1>8. Size[n] >= MaxInline => <<Size[n]>> \in Seq(Nat \ {0})
    BY <1>5, ArchiveAssumption
  <1>9. \/ SendFileHeader(whole)
        \/ \E blocks \in Seq(Nat \ {0}) : SendDataHeader(file, blocks)
    BY <1>4, <1>7, <1>8
  <1>10. name = phase.kid.name /\ content = <<Inline(phase.kid.node)>>
    BY DEF name, content, n
  <1> HIDE DEF kid
  <1> QED
    BY <1>3, <1>4, <1>6, <1>9, <1>10
\* The levels and the entries, as directories[] has them.
LEMMA LevelsAre ==
  ASSUME TreeInv
  PROVE  /\ level \in Nat /\ MaxLevels \in Nat /\ level < MaxLevels
         /\ level \in 0..MaxLevels
         /\ level > 0 => level - 1 \in 0..MaxLevels /\ level - 1 \in 0..(level - 1)
         /\ dirs \in [0..MaxLevels -> Entries]
         /\ Len(RootPath) \in Nat
         /\ Len(path) \in Nat
         /\ \A i \in 1..Len(path) : path[i] \in PathNode
  <1>1. path \in Seq(PathNode) /\ RootPath \in Seq(Names)
    BY ArchiveAssumption DEF TreeInv, PathInv
  <1>2. level \in Nat /\ MaxLevels \in Nat /\ level < MaxLevels /\ dirs \in [0..MaxLevels -> Entries]
    BY ArchiveAssumption DEF TreeInv, DirsInv
  <1> QED
    BY <1>1, <1>2

\* The current directory and its path stay, and phase and state are others.
LEMMA NothingMoves ==
  ASSUME TreeInv, UNCHANGED <<path, level, dirs, opened, encoder>>,
         phase = Closing => phase' = Closing
  PROVE  DirsInv' /\ PathInv' /\ NodeInv' /\ OpenInv'
  <1>1. DirsInv'
    BY DEF TreeInv, DirsInv
  <1>2. PathInv'
    BY DEF TreeInv, PathInv, PathIndex
  <1>3. NodeInv'
    BY DEF TreeInv, NodeInv, PathIndex
  <1>4. OpenInv'
    BY DEF TreeInv, OpenInv, OpenLevels
  <1> QED
    BY <1>1, <1>2, <1>3, <1>4

\* readFileEntry(), whether the file can be opened or not.
LEMMA ReadFileEntryTree ==
  ASSUME TreeInv, ReadFileEntry
  PROVE  TreeInv'
  <1>1. phase.kind = "filing" /\ level > 0 /\ phase \notin {Ready, Stalled} /\ phase # Closing
    BY PhaseIs DEF ReadFileEntry, TreeInv, StreamInv, CallInv
  <1>2. CASE CannotOpen
    <2>1. UNCHANGED <<state, path, level, dirs, encoder, dataBlock, source, streamOffset,
                      queuedSize, opened>>
          /\ phase' = Reading /\ failed' = failed \cup {"Open"}
      BY <1>2 DEF CannotOpen
    <2>2. DirsInv' /\ PathInv' /\ NodeInv' /\ OpenInv'
      BY <1>1, <2>1, NothingMoves
    <2>3. StreamInv'
      BY <2>1 DEF TreeInv, StreamInv, Phases, Calls
    <2>4. CallInv'
      BY <1>1, <2>1 DEF TreeInv, CallInv, Reading, Ready, Stalled
    <2>5. OpeningInv'
      BY <2>1 DEF OpeningInv, Reading
    <2> QED
      BY <2>2, <2>3, <2>4, <2>5 DEF TreeInv
  <1>3. CASE ~CannotOpen
    <2>1. PICK e \in Entries :
            /\ ~e.open /\ failed' \subseteq failed \cup {"Read"}
            /\ SendFileHeader(e) \/ \E blocks \in Seq(Nat \ {0}) : SendDataHeader(e, blocks)
      BY <1>3, ReadFileEntryIs
    <2>2. failed' \subseteq Calls
      BY <2>1 DEF TreeInv, StreamInv, Calls
    <2> QED
      BY <1>1, <2>1, <2>2, FileHeaderTree, DataHeaderTree
  <1> QED
    BY <1>2, <1>3

\* The next entry of a directory.
LEMMA ReadDirectoryTree ==
  ASSUME TreeInv, ReadDirectory
  PROVE  TreeInv'
  <1> DEFINE top == level - 1
             n   == dirs[top].node
             kid == Kids[n][dirs[top].next]
  <1>1. phase.kind = "reading" /\ level > 0 /\ phase \notin {Ready, Stalled} /\ phase # Closing
    BY PhaseIs DEF ReadDirectory, TreeInv, StreamInv, CallInv
  <1>2. /\ level \in Nat /\ MaxLevels \in Nat /\ level < MaxLevels
        /\ top \in 0..MaxLevels /\ dirs \in [0..MaxLevels -> Entries]
    BY <1>1, LevelsAre
  <1>3. UNCHANGED <<state, path, level, encoder, dataBlock, source, streamOffset,
                    queuedSize, opened>>
    BY DEF ReadDirectory
  <1>4. CASE phase' = Closing /\ failed' \subseteq failed \cup {"Readdir"} /\ UNCHANGED dirs
    <2>1. DirsInv' /\ PathInv' /\ NodeInv' /\ OpenInv'
      BY <1>1, <1>3, <1>4, NothingMoves
    <2>2. StreamInv'
      BY <1>3, <1>4 DEF TreeInv, StreamInv, Phases, Calls
    <2>3. CallInv'
      BY <1>1, <1>3, <1>4 DEF TreeInv, CallInv, Closing, Ready, Stalled
    <2>4. OpeningInv'
      BY <1>4 DEF OpeningInv, Closing
    <2> QED
      BY <2>1, <2>2, <2>3, <2>4 DEF TreeInv
  <1>5. CASE /\ ~(dirs[top].next > Len(Kids[n]))
             /\ dirs' = [dirs EXCEPT ![top].next = @ + 1]
             /\ phase' = CASE kid.node \in Skipped -> Skip(kid)
                           [] kid.node \notin Skipped /\ IsDir(kid.node) -> Opening(kid)
                           [] OTHER -> Filing(kid)
             /\ UNCHANGED failed
    <2>1. dirs[top] \in Entries /\ dirs[top].next \in Nat \ {0}
      BY <1>2 DEF Entries
    <2> DEFINE new == [dirs[top] EXCEPT !.next = @ + 1]
    <2>2. new \in Entries /\ SameEntry(dirs[top], new)
      BY <2>1 DEF Entries, SameEntry
    <2>3. dirs' = [dirs EXCEPT ![top] = new]
      BY <1>2, <1>5
    <2> HIDE DEF new
    <2>4. \A i \in 0..MaxLevels : dirs'[i] = IF i = top THEN new ELSE dirs[i]
      BY <1>2, <2>3
    <2>5. dirs' \in [0..MaxLevels -> Entries]
      BY <1>2, <2>2, <2>3
    <2>6. /\ \A i \in 0..MaxLevels : i < level \/ i = 0 => SameEntry(dirs[i], dirs'[i])
          /\ \A i \in 0..MaxLevels : i >= level => ~dirs'[i].open
      BY <1>2, <2>2, <2>4 DEF TreeInv, DirsInv, SameEntry
    <2>7. DirsInv' /\ PathInv' /\ NodeInv' /\ OpenLevels' = OpenLevels
      BY <1>1, <1>3, <2>5, <2>6, WayKept
    <2>8. n \in Nodes
      BY <1>1, LevelsAre DEF TreeInv, NodeInv
    <2>9. /\ Kids[n] \in Seq(Kid)
          /\ dirs[top].next \in DOMAIN Kids[n]
          /\ dirs[top].next \in 1..Len(Kids[n])
      <3> DEFINE kids == Kids[n]
                 next == dirs[top].next
      <3>1. kids \in Seq(Kid)
        BY <2>8, SourceAssumption
      <3>2. next \in Nat \ {0} /\ ~(next > Len(kids))
        BY <1>5, <2>1
      <3> HIDE DEF kids, next
      <3>3. next \in 1..Len(kids)
        BY <3>1, <3>2
      <3>4. next \in DOMAIN kids
        BY <3>1, <3>3
      <3> QED
        BY <3>1, <3>3, <3>4 DEF kids, next
    <2>10. kid \in Kid /\ kid.name \in Names /\ kid.node \in Nodes
      <3> DEFINE kids == Kids[n]
                 next == dirs[top].next
      <3>1. kid \in Kid
        <4>1. kids \in Seq(Kid) /\ next \in 1..Len(kids)
          BY <2>9
        <4>2. kid = kids[next]
          OBVIOUS
        <4> HIDE DEF kid, kids, next
        <4> QED
          BY <4>1, <4>2, ElementOfSeq, Zenon
      <3> QED
        BY <3>1 DEF Kid
    <2>11. \/ phase' = Reading
           \/ phase' = Opening(kid) /\ IsDir(kid.node)
           \/ phase' = Filing(kid)
      BY <1>5 DEF Skip
    <2>12. SameEntry(dirs[top], dirs'[top])
      BY <1>2, <2>2, <2>4
    <2>13. n = dirs'[top].node
      BY <2>12 DEF SameEntry
    <2>14. \E k \in DOMAIN Kids[n] : kid = Kids[n][k]
      BY <2>9
    <2> HIDE DEF kid, n
    <2>15. phase' \in Phases /\ phase' \notin {Ready, Stalled}
      <3>1. kid \in [name : Names \cup {Absent}, node : Nodes]
        BY <2>10 DEF Kid
      <3>2. CASE phase' = Reading
        BY <3>2 DEF Phases, Reading, Ready, Stalled
      <3>3. CASE phase' = Opening(kid)
        BY <3>1, <3>3 DEF Phases, Opening, Ready, Stalled
      <3>4. CASE phase' = Filing(kid)
        BY <2>10, <3>4 DEF Phases, Filing, Ready, Stalled
      <3> QED
        BY <2>11, <3>2, <3>3, <3>4
    <2>16. StreamInv'
      BY <1>3, <1>5, <2>15 DEF TreeInv, StreamInv
    <2>17. CallInv'
      BY <1>1, <1>3, <2>11, <2>15 DEF TreeInv, CallInv
    <2>18. OpeningInv'
      <3> SUFFICES ASSUME phase'.kind = "opening" PROVE OpeningInv'
        BY DEF OpeningInv
      <3>1. phase' = Opening(kid) /\ IsDir(kid.node)
        BY <2>11 DEF Opening, Reading, Filing
      <3>2. phase'.kid = kid
        BY <3>1 DEF Opening
      <3> QED
        BY SMTT(20), <1>1, <1>3, <2>13, <2>14, <3>1, <3>2 DEF OpeningInv
    <2>19. OpenInv'
      BY <1>3, <2>7 DEF TreeInv, OpenInv
    <2> QED
      BY <2>7, <2>16, <2>17, <2>18, <2>19 DEF TreeInv
  <1> QED
    BY <1>4, <1>5 DEF ReadDirectory

(***************************************************************************)
(* The steps from one level to another.                                    *)
(***************************************************************************)
\* The entry of a directory that is entered.
NewDirectory(isOpen, content) ==
  [type |-> KindOf(phase.kid), name |-> phase.kid.name,
   node |-> IF isOpen THEN Lookup(Top, PathNames(Enter(phase.kid).path)) ELSE phase.kid.node,
   content |-> content, open |-> isOpen, next |-> 1, namelen |-> Enter(phase.kid).namelen]

\* What opendir() may have done, and what is kept of the attributes.
LEMMA OpenDirectoryIs ==
  ASSUME OpenDirectory
  PROVE  /\ phase.kind = "opening"
         /\ path' = Enter(phase.kid).path
         /\ level' = level + 1
         /\ UNCHANGED <<state, encoder, dataBlock, source, streamOffset, queuedSize, out, produced>>
         /\ \E isOpen \in BOOLEAN : \E content \in {<<>>, <<VolumeIndex>>} :
              /\ dirs' = [dirs EXCEPT ![level] = NewDirectory(isOpen, content)]
              /\ phase' = IF isOpen THEN Reading ELSE Closing
              /\ opened' = IF isOpen THEN [opened EXCEPT !.dirs = @ + 1] ELSE opened
              /\ isOpen => Enumerated(phase.kid)
              /\ failed \subseteq failed' /\ failed' \subseteq failed \cup {"Attributes", "Opendir"}
  <1> DEFINE kid  == phase.kid
             node == Lookup(Top, PathNames(Enter(kid).path))
             entry(got, isOpen) ==
               [type |-> KindOf(kid), name |-> kid.name,
                node |-> IF isOpen THEN node ELSE kid.node,
                content |-> Attributes(kid, got), open |-> isOpen, next |-> 1,
                namelen |-> Enter(kid).namelen]
  <1>1. PICK got \in {node # Absent} \cup (IF "Attributes" \in Faults THEN {FALSE} ELSE {}),
             isOpen \in OpendirResults(kid, node) :
          /\ dirs' = [dirs EXCEPT ![level] = entry(got, isOpen)]
          /\ phase' = IF isOpen THEN Reading ELSE Closing
          /\ opened' = IF isOpen THEN [opened EXCEPT !.dirs = @ + 1] ELSE opened
          /\ failed' = failed \cup (IF got THEN {} ELSE {"Attributes"})
                              \cup (IF isOpen \/ ~Enumerated(kid) THEN {} ELSE {"Opendir"})
    BY Zenon DEF OpenDirectory
  <1>2. isOpen \in BOOLEAN /\ (isOpen => Enumerated(kid))
    <2> HIDE DEF node, kid
    <2> QED
      BY DEF OpendirResults
  <1>3. Attributes(kid, got) \in {<<>>, <<VolumeIndex>>}
    BY DEF Attributes
  <1>4. entry(got, isOpen) = NewDirectory(isOpen, Attributes(kid, got))
    BY DEF NewDirectory
  <1>5. failed \subseteq failed' /\ failed' \subseteq failed \cup {"Attributes", "Opendir"}
    BY <1>1
  <1> DEFINE content == Attributes(kid, got)
  <1>6. /\ content \in {<<>>, <<VolumeIndex>>}
        /\ dirs' = [dirs EXCEPT ![level] = NewDirectory(isOpen, content)]
    BY <1>1, <1>3, <1>4
  <1> HIDE DEF content
  <1>7. \E open \in BOOLEAN : \E c \in {<<>>, <<VolumeIndex>>} :
              /\ dirs' = [dirs EXCEPT ![level] = NewDirectory(open, c)]
              /\ phase' = IF open THEN Reading ELSE Closing
              /\ opened' = IF open THEN [opened EXCEPT !.dirs = @ + 1] ELSE opened
              /\ open => Enumerated(phase.kid)
              /\ failed \subseteq failed' /\ failed' \subseteq failed \cup {"Attributes", "Opendir"}
    BY <1>1, <1>2, <1>5, <1>6
  <1>8. /\ phase.kind = "opening"
        /\ path' = Enter(phase.kid).path
        /\ level' = level + 1
        /\ UNCHANGED <<state, encoder, dataBlock, source, streamOffset, queuedSize, out, produced>>
    BY DEF OpenDirectory
  <1> QED
    BY <1>7, <1>8

\* What is entered: the root, by the path there was, or an entry of the current directory,
\* by that path and its name.
LEMMA EnterIs ==
  ASSUME TreeInv, Archivable, phase.kind = "opening"
  PROVE  LET kid == phase.kid
             p   == Enter(kid).path
         IN  /\ kid.node \in Nodes /\ IsDir(kid.node) /\ kid.name \in Names \cup {Absent}
             /\ p \in Seq(PathNode) /\ Len(p) = PathIndex(level)
             /\ \A i \in 1..Len(path) : p[i] = path[i]
             /\ level = 0 => p = path /\ kid.name = Absent /\ kid.node = RootNode
             /\ level > 0 =>
                  /\ kid.name \in Names
                  /\ p[Len(p)].name = kid.name
                  /\ p[Len(p)].len > 0
                  /\ Enter(kid).namelen = p[Len(p)].len + (IF Len(p) = 1 THEN 0 ELSE 1)
             /\ level = 0 => Enter(kid).namelen = 0
             /\ Lookup(Top, NamesTo(p, PathIndex(level))) = kid.node
             /\ Depth[kid.node] + level + 2 <= MaxLevels
  <1> DEFINE kid == phase.kid
             p   == Enter(kid).path
  <1>1. kid.node \in Nodes /\ IsDir(kid.node) /\ kid.name \in Names \cup {Absent} /\ phase # Closing
    BY PhaseIs DEF TreeInv, StreamInv, OpeningInv
  <1>2. IsDepth(Depth)
    BY DepthIs DEF Archivable
  <1>3. CASE level = 0
    <2>1. kid.name = Absent /\ kid.node = RootNode
      BY <1>3 DEF TreeInv, OpeningInv
    <2>2. p = path /\ Enter(kid).namelen = dirs[0].namelen
      BY <1>3 DEF Enter
    <2>3. Len(path) = PathIndex(0) /\ path \in Seq(PathNode)
      BY <1>3 DEF TreeInv, PathInv
    <2>4. PathIndex(0) = Len(RootPath)
      BY LevelsAre DEF PathIndex
    <2>5. NamesTo(path, Len(RootPath)) = RootPath
      BY PathOfRoot DEF TreeInv, PathInv
    <2>6. Lookup(Top, NamesTo(path, PathIndex(0))) = kid.node
      BY <2>1, <2>4, <2>5 DEF RootNode
    <2>7. Depth[kid.node] + 2 <= MaxLevels
      BY <1>1, <1>2, <2>1 DEF IsDepth
    <2>8. Depth[kid.node] \in Nat
      BY <1>1, <1>2 DEF IsDepth
    <2>9. dirs[0].namelen = 0
      BY DEF TreeInv, DirsInv
    <2> QED
      BY <1>1, <1>3, <2>1, <2>2, <2>3, <2>6, <2>7, <2>8, <2>9
  <1>4. CASE level > 0
    <2> DEFINE d == dirs[level - 1]
               x == [name |-> kid.name, len |-> NameLen[kid.name]]
    <2>1. PICK k \in DOMAIN Kids[d.node] : kid = Kids[d.node][k]
      BY <1>1, <1>4 DEF TreeInv, OpeningInv
    <2>2. /\ level \in Nat /\ level - 1 \in 0..(level - 1) /\ level - 1 \in 0..MaxLevels
          /\ Len(RootPath) \in Nat /\ Len(path) \in Nat /\ level <= MaxLevels /\ MaxLevels \in Nat
      BY <1>4, LevelsAre
    <2>3. /\ d.node \in Nodes
          /\ d.node = Lookup(Top, NamesTo(path, PathIndex(level - 1)))
          /\ d.open => IsEntered(d.node)
          /\ Depth[d.node] + (level - 1) + 2 <= MaxLevels
      BY <2>2 DEF TreeInv, NodeInv
    <2>4. d.open
      BY <1>1, <1>4, <2>2 DEF TreeInv, DirsInv
    <2>5. Kids[d.node] \in Seq(Kid)
      BY <2>3, SourceAssumption
    <2>6. kid \in Kid /\ kid.name \in Names
      <3>1. k \in 1..Len(Kids[d.node])
        BY <2>5
      <3>2. kid \in Kid
        BY <2>1, <2>5, <3>1, ElementOfSeq
      <3> QED
        BY <3>2 DEF Kid
    <2>7. NameLen[kid.name] \in Nat /\ NameLen[kid.name] > 0 /\ NameLen[kid.name] + 1 < ByteSize
      <3>1. NameLen[kid.name] \in 1..(ByteSize - 1)
        BY <2>6, ArchiveAssumption
      <3> QED
        BY <2>6, <3>1 DEF Archivable, NamesFit
    <2>8. Depth[kid.node] < Depth[d.node] /\ Depth[kid.node] \in Nat /\ Depth[d.node] \in Nat
      BY <1>1, <1>2, <2>1, <2>3, <2>4 DEF IsDepth
    <2>9. Descend(d.node, kid.name) = kid.node
      BY <2>1, <2>3, DescendIs DEF Archivable
    <2>10. p = Append(path, x) /\ Enter(kid).namelen = CharactersAdded(kid)
      BY <1>4 DEF Enter
    <2>11. path \in Seq(PathNode) /\ Len(path) = PathIndex(level - 1) /\ x \in PathNode
      BY <1>4, <2>6, <2>7 DEF TreeInv, PathInv, PathNode
    <2>12. /\ p \in Seq(PathNode) /\ Len(p) = Len(path) + 1 /\ p[Len(path) + 1] = x
           /\ \A i \in 1..Len(path) : p[i] = path[i]
      <3> HIDE DEF x, p
      <3> QED
        BY <2>10, <2>11, AppendProperties
    <2>13. PathIndex(level) = Len(path) + 1 /\ PathIndex(level) = PathIndex(level - 1) + 1
      BY <2>2, <2>11 DEF PathIndex
    <2>14. CharactersAdded(kid) = NameLen[kid.name] + (IF Len(path) = 0 THEN 0 ELSE 1)
      <3>1. path = <<>> <=> Len(path) = 0
        BY <2>11
      <3>2. ByteSize \in Nat
        BY <2>6, <2>7, ArchiveAssumption
      <3>3. \A c \in Nat : c < ByteSize => c % ByteSize = c
        BY <3>2
      <3> QED
        BY <2>7, <3>1, <3>2, <3>3 DEF CharactersAdded
    <2>15. NamesTo(p, Len(path)) = NamesTo(path, Len(path))
      <3> HIDE DEF p
      <3> QED
        BY <2>12, NamesToSame
    <2>16. Lookup(Top, NamesTo(p, Len(path) + 1)) = kid.node
      <3>1. Lookup(Top, NamesTo(p, Len(path) + 1))
              = Descend(Lookup(Top, NamesTo(p, Len(path))), p[Len(path) + 1].name)
        <4> HIDE DEF p
        <4> QED
          BY <2>2, NamesToStep
      <3>2. p[Len(path) + 1].name = kid.name
        BY <2>12
      <3> HIDE DEF p, d, kid
      <3> QED
        BY <2>3, <2>9, <2>11, <2>15, <3>1, <3>2
    <2>17. Depth[kid.node] + level + 2 <= MaxLevels
      BY SMTT(20), <2>2, <2>3, <2>8
    <2>18. p[Len(p)].name = kid.name /\ p[Len(p)].len = NameLen[kid.name]
      <3> HIDE DEF p
      <3> QED
        BY <2>12
    <2>19. Len(p) = PathIndex(level) /\ (Len(p) = 1 <=> Len(path) = 0)
      <3> HIDE DEF p
      <3> QED
        BY <2>2, <2>12, <2>13
    <2>20. Enter(kid).namelen = p[Len(p)].len + (IF Len(p) = 1 THEN 0 ELSE 1) /\ p[Len(p)].len > 0
      <3> HIDE DEF p, kid
      <3> QED
        BY <2>7, <2>10, <2>14, <2>18, <2>19
    <2>21. Lookup(Top, NamesTo(p, PathIndex(level))) = kid.node
      <3> HIDE DEF p, kid
      <3> QED
        BY <2>13, <2>16
    <2>22. p \in Seq(PathNode) /\ \A i \in 1..Len(path) : p[i] = path[i]
      BY <2>12
    <2> QED
      BY <1>1, <1>4, <2>6, <2>17, <2>18, <2>19, <2>20, <2>21, <2>22
  <1> QED
    BY <1>3, <1>4, LevelsAre

\* There are finitely many open ones.
LEMMA LevelsFinite == IsFiniteSet(OpenLevels)
  <1>1. IsFiniteSet(0..MaxLevels)
    <2>1. 0 \in Int /\ MaxLevels \in Int
      BY ArchiveAssumption
    <2> QED
      BY <2>1, FS_Interval
  <1>2. OpenLevels \subseteq 0..MaxLevels
    BY DEF OpenLevels
  <1> QED
    BY <1>1, <1>2, FS_Subset

\* A directory is entered, open or not.
LEMMA OpenDirectoryTree ==
  ASSUME TreeInv, Archivable, OpenDirectory
  PROVE  TreeInv'
  <1> DEFINE kid == phase.kid
             p   == Enter(kid).path
  <1>1. /\ phase.kind = "opening"
        /\ path' = p
        /\ level' = level + 1
        /\ UNCHANGED <<state, encoder, dataBlock, source, streamOffset, queuedSize>>
    BY OpenDirectoryIs
  <1>2. PICK isOpen \in BOOLEAN, content \in {<<>>, <<VolumeIndex>>} :
          /\ dirs' = [dirs EXCEPT ![level] = NewDirectory(isOpen, content)]
          /\ phase' = IF isOpen THEN Reading ELSE Closing
          /\ opened' = IF isOpen THEN [opened EXCEPT !.dirs = @ + 1] ELSE opened
          /\ isOpen => Enumerated(kid)
          /\ failed \subseteq failed' /\ failed' \subseteq failed \cup {"Attributes", "Opendir"}
    BY OpenDirectoryIs
  <1>3. /\ level \in Nat /\ MaxLevels \in Nat /\ level < MaxLevels
        /\ level \in 0..MaxLevels
        /\ dirs \in [0..MaxLevels -> Entries]
        /\ Len(RootPath) \in Nat /\ Len(path) \in Nat
    BY LevelsAre
  <1>4. /\ kid.node \in Nodes /\ IsDir(kid.node) /\ kid.name \in Names \cup {Absent}
        /\ p \in Seq(PathNode) /\ Len(p) = PathIndex(level)
        /\ \A i \in 1..Len(path) : p[i] = path[i]
    BY <1>1, EnterIs
  <1>5. /\ level = 0 => p = path /\ kid.name = Absent /\ kid.node = RootNode
        /\ level > 0 =>
             /\ kid.name \in Names
             /\ p[Len(p)].name = kid.name
             /\ p[Len(p)].len > 0
             /\ Enter(kid).namelen = p[Len(p)].len + (IF Len(p) = 1 THEN 0 ELSE 1)
        /\ level = 0 => Enter(kid).namelen = 0
    BY <1>1, EnterIs
  <1>6. /\ Lookup(Top, NamesTo(p, PathIndex(level))) = kid.node
        /\ Depth[kid.node] + level + 2 <= MaxLevels
    BY <1>1, EnterIs
  <1>7. phase \notin {Ready, Stalled} /\ phase # Closing
    BY <1>1 DEF Ready, Closing, Stalled
  <1> DEFINE new == NewDirectory(isOpen, content)
  <1>8. new.node = kid.node
    <2>1. PathNames(p) = NamesTo(p, Len(p))
      BY DEF PathNames, NamesTo
    <2>2. Lookup(Top, PathNames(p)) = kid.node
      BY <1>4, <1>6, <2>1
    <2> QED
      BY <2>2 DEF NewDirectory
  <1>9. /\ new.open = isOpen /\ new.name = kid.name /\ new.namelen = Enter(kid).namelen
        /\ new.type = KindOf(kid) /\ new.content = content /\ new.next = 1
    BY DEF NewDirectory
  <1>10. new = [type |-> new.type, name |-> new.name, node |-> new.node, content |-> new.content,
                open |-> new.open, next |-> new.next, namelen |-> new.namelen]
    BY DEF NewDirectory
  <1>11. new.type \in {"File", "Directory", "MountPoint"}
    BY <1>4, <1>9, SourceAssumption DEF KindOf
  <1>12. new.content \in Seq(Items)
    <2>1. VolumeIndex \in Items
      BY DEF Items
    <2>2. <<VolumeIndex>> \in Seq(Items) /\ <<>> \in Seq(Items)
      BY <2>1
    <2> HIDE DEF new
    <2> QED
      BY <1>9, <2>2
  <1>13. new.namelen \in Nat
    <2>1. CASE level = 0
      BY <1>5, <1>9, <2>1
    <2>2. CASE level > 0
      <3>1. Len(p) \in 1..Len(p)
        BY <1>3, <1>4, <2>2 DEF PathIndex
      <3>2. p[Len(p)] \in PathNode
        BY <1>4, <3>1, ElementOfSeq
      <3>3. p[Len(p)].len \in Nat
        BY <3>2 DEF PathNode
      <3> QED
        BY <1>5, <1>9, <2>2, <3>3
    <2> QED
      BY <1>3, <2>1, <2>2
  <1> HIDE DEF new, p, kid
  <1>14. new \in Entries
    <2> DEFINE t == new.type
               a == new.name
               n == new.node
               c == new.content
               o == new.open
               x == new.next
               l == new.namelen
    <2>1. new = [type |-> t, name |-> a, node |-> n, content |-> c, open |-> o, next |-> x,
                 namelen |-> l]
      BY <1>10
    <2>2. /\ t \in {"File", "Directory", "MountPoint"} /\ a \in Names \cup {Absent}
          /\ n \in Nodes \cup {Absent} /\ c \in Seq(Items) /\ o \in BOOLEAN
          /\ x \in Nat \ {0} /\ l \in Nat
      BY <1>4, <1>8, <1>9, <1>11, <1>12, <1>13
    <2> HIDE DEF t, a, n, c, o, x, l
    <2> QED
      BY <2>1, <2>2 DEF Entries
  <1>15. dirs' = [dirs EXCEPT ![level] = new]
    BY <1>2 DEF new
  <1>16. dirs' \in [0..MaxLevels -> Entries]
         /\ \A i \in 0..MaxLevels : dirs'[i] = IF i = level THEN new ELSE dirs[i]
    BY <1>3, <1>14, <1>15
  <1>17. phase' \in {Reading, Closing} /\ (phase' = Closing <=> ~isOpen)
    BY <1>2 DEF Reading, Closing
  <1>18. Depth[kid.node] \in Nat
    BY <1>4, DepthIs DEF Archivable, IsDepth
  <1>19. level + 1 < MaxLevels
    BY <1>3, <1>6, <1>18
  <1>20. DirsInv'
    <2>1. dirs'[0].namelen = 0
      BY <1>3, <1>5, <1>9, <1>16 DEF TreeInv, DirsInv
    <2>2. \A i \in 0..MaxLevels :
            /\ dirs'[i].open => i < level + 1
            /\ i < level + 1 /\ ~dirs'[i].open => i = level /\ ~isOpen
      BY <1>3, <1>7, <1>9, <1>16 DEF TreeInv, DirsInv
    <2> QED
      BY <1>1, <1>3, <1>16, <1>17, <1>19, <2>1, <2>2 DEF DirsInv
  <1>21. PathInv'
    <2>1. Len(path') = PathIndex(IF level' = 0 THEN 0 ELSE level' - 1)
      BY <1>1, <1>3, <1>4
    <2>2. \A i \in 1..Len(RootPath) : path'[i].name = RootPath[i]
      <3>1. \A i \in 1..Len(RootPath) : i \in 1..Len(path)
        BY <1>3 DEF TreeInv, PathInv, PathIndex
      <3> QED
        BY <1>1, <1>4, <3>1 DEF TreeInv, PathInv
    <2>3. ASSUME NEW i \in 1..(level' - 1)
          PROVE  /\ path'[PathIndex(i)].name = dirs'[i].name
                 /\ path'[PathIndex(i)].len > 0
                 /\ dirs'[i].namelen
                      = path'[PathIndex(i)].len + (IF PathIndex(i) = 1 THEN 0 ELSE 1)
      <3>1. i \in 1..level /\ level > 0
        BY <1>1, <1>3, <2>3
      <3>2. CASE i = level
        <4>1. dirs'[i] = new /\ PathIndex(i) = Len(p)
          BY <1>3, <1>4, <1>16, <3>2
        <4> QED
          BY <1>1, <1>5, <1>9, <3>1, <4>1
      <3>3. CASE i < level
        <4>1. i \in 1..(level - 1) /\ dirs'[i] = dirs[i]
          BY <1>3, <1>16, <3>1, <3>3
        <4>2. PathIndex(i) \in 1..Len(path)
          BY <1>3, <3>1, <4>1 DEF TreeInv, PathInv, PathIndex
        <4>3. path'[PathIndex(i)] = path[PathIndex(i)]
          BY <1>1, <1>4, <4>2
        <4> QED
          BY <4>1, <4>3 DEF TreeInv, PathInv
      <3> QED
        BY <1>3, <3>1, <3>2, <3>3
    <2> QED
      BY <1>1, <1>4, <2>1, <2>2, <2>3 DEF PathInv, PathIndex
  <1>22. NodeInv'
    <2> SUFFICES ASSUME NEW i \in 0..(level' - 1)
                 PROVE  /\ dirs'[i].node \in Nodes
                        /\ dirs'[i].node = Lookup(Top, NamesTo(path', PathIndex(i)))
                        /\ dirs'[i].open => IsEntered(dirs'[i].node)
                        /\ Depth[dirs'[i].node] + i + 2 <= MaxLevels
      BY DEF NodeInv, PathIndex
    <2>1. i \in 0..level /\ i \in 0..MaxLevels
      BY <1>1, <1>3
    <2>2. CASE i = level
      <3>1. dirs'[i] = new
        BY <1>16, <2>1, <2>2
      <3>2. isOpen => IsEntered(kid.node)
        <4>1. isOpen => KindOf(kid) = "Directory" \/ IncludeMountPoints
          BY <1>2 DEF Enumerated, kid
        <4>2. KindOf(kid) = "Directory" => kid.node = RootNode \/ Kind[kid.node] = "Directory"
          <5>1. CASE level = 0
            BY <1>5, <5>1
          <5>2. CASE level > 0
            <6>1. kid.name # Absent
              BY <1>5, <5>2, SourceAssumption
            <6> QED
              BY <6>1 DEF KindOf
          <5> QED
            BY <1>3, <5>1, <5>2
        <4> QED
          BY <4>1, <4>2 DEF IsEntered
      <3> QED
        BY <1>1, <1>4, <1>6, <1>8, <1>9, <2>2, <3>1, <3>2
    <2>3. CASE i < level
      <3>1. i \in 0..(level - 1) /\ dirs'[i] = dirs[i]
        BY <1>3, <1>16, <2>1, <2>3
      <3>2. PathIndex(i) \in 0..Len(path)
        BY <1>3, <3>1 DEF TreeInv, PathInv, PathIndex
      <3>3. \A j \in 1..PathIndex(i) : j \in 1..Len(path)
        BY <1>3, <3>2
      <3>4. \A j \in 1..PathIndex(i) : path'[j].name = path[j].name
        BY <1>1, <1>4, <3>3
      <3>5. NamesTo(path', PathIndex(i)) = NamesTo(path, PathIndex(i))
        BY <3>4 DEF NamesTo
      <3> QED
        BY <3>1, <3>5 DEF TreeInv, NodeInv
    <2> QED
      BY <1>3, <2>1, <2>2, <2>3
  <1>23. OpenInv'
    <2>1. OpenLevels \subseteq 0..MaxLevels /\ level \notin OpenLevels
      BY <1>3 DEF OpenLevels, TreeInv, DirsInv
    <2>2. IsFiniteSet(OpenLevels)
      BY LevelsFinite
    <2>3. CASE isOpen
      <3>1. OpenLevels' = OpenLevels \cup {level}
        BY <1>3, <1>9, <1>16, <2>3 DEF OpenLevels
      <3>2. Cardinality(OpenLevels \cup {level}) = Cardinality(OpenLevels) + 1
        BY <2>1, <2>2, FS_AddElement
      <3>3. opened' = [dirs |-> opened.dirs + 1, files |-> opened.files]
        BY <1>2, <2>3 DEF TreeInv, OpenInv
      <3> QED
        BY <1>1, <3>1, <3>2, <3>3 DEF TreeInv, OpenInv
    <2>4. CASE ~isOpen
      <3>1. OpenLevels' = OpenLevels
        BY <1>3, <1>9, <1>16, <2>1, <2>4 DEF OpenLevels
      <3>2. opened' = opened
        BY <1>2, <2>4
      <3> QED
        BY <1>1, <3>1, <3>2 DEF TreeInv, OpenInv
    <2> QED
      BY <2>3, <2>4
  <1>24. StreamInv'
    BY <1>1, <1>2, <1>17 DEF TreeInv, StreamInv, Phases, Calls
  <1>25. CallInv'
    BY <1>1, <1>3, <1>7, <1>17 DEF TreeInv, CallInv, Reading, Closing, Ready, Stalled
  <1>26. OpeningInv'
    BY <1>17 DEF OpeningInv, Reading, Closing
  <1> QED
    BY <1>20, <1>21, <1>22, <1>23, <1>24, <1>25, <1>26 DEF TreeInv

\* The path of the directory above.
LEMMA PathAbove ==
  ASSUME TreeInv, level > 0, NEW p, p = TakeOff(path, dirs[level - 1].namelen)
  PROVE  /\ p \in Seq(PathNode)
         /\ Len(p) = PathIndex(IF level - 1 = 0 THEN 0 ELSE level - 2)
         /\ Len(p) <= Len(path)
         /\ \A i \in 1..Len(p) : p[i] = path[i]
  <1>1. /\ level \in Nat /\ Len(RootPath) \in Nat /\ Len(path) \in Nat
        /\ path \in Seq(PathNode) /\ Len(path) = PathIndex(level - 1)
    BY LevelsAre DEF TreeInv, PathInv
  <1>2. CASE level = 1
    <2>1. dirs[level - 1].namelen = 0
      BY <1>2 DEF TreeInv, DirsInv
    <2>2. p = path
      BY <1>1, <2>1, TakeOffNothing
    <2> QED
      BY <1>1, <1>2, <2>2
  <1>3. CASE level > 1
    <2> DEFINE n == dirs[level - 1].namelen
    <2>1. level - 1 \in 1..(level - 1)
      BY <1>1, <1>3
    <2>2. /\ path[PathIndex(level - 1)].len > 0
          /\ n = path[PathIndex(level - 1)].len + (IF PathIndex(level - 1) = 1 THEN 0 ELSE 1)
      BY <2>1 DEF TreeInv, PathInv
    <2>3. Len(path) \in 1..Len(path) /\ path # <<>>
      BY <1>1, <1>3 DEF PathIndex
    <2>4. path[Len(path)].len \in Nat
      BY <1>1, <2>3, PathNodes
    <2>5. n = path[Len(path)].len + (IF Len(path) = 1 THEN 0 ELSE 1) /\ n > 0
      BY <1>1, <2>2, <2>4
    <2> HIDE DEF n
    <2>6. TakeOff(path, n) = SubSeq(path, 1, Len(path) - 1)
      BY <1>1, <2>3, <2>5, TakeOffLast
    <2>7. Len(path) - 1 \in 0..Len(path)
      BY <1>1, <2>3
    <2> DEFINE q == SubSeq(path, 1, Len(path) - 1)
    <2>8. q \in Seq(PathNode) /\ Len(q) = Len(path) - 1 /\ \A i \in 1..(Len(path) - 1) : q[i] = path[i]
      BY <1>1, <2>7, PrefixIs
    <2>9. p = q
      BY <2>6 DEF n
    <2> HIDE DEF q
    <2> QED
      BY <1>1, <1>3, <2>8, <2>9 DEF PathIndex
  <1> QED
    BY <1>1, <1>2, <1>3

\* The object of a directory goes out, and the directory above is the current one.
LEMMA CloseDirectoryTree ==
  ASSUME TreeInv, CloseDirectory
  PROVE  TreeInv'
  <1> DEFINE top == level - 1
             e   == dirs[top]
  <1>1. phase = Closing /\ level > 0 /\ phase \notin {Ready, Stalled}
    BY PhaseIs DEF CloseDirectory, TreeInv, StreamInv, CallInv
  <1>2. /\ level \in Nat /\ MaxLevels \in Nat /\ level < MaxLevels
        /\ level \in 0..MaxLevels
        /\ top \in 0..MaxLevels /\ top \in Nat /\ top \in 0..(level - 1)
        /\ dirs \in [0..MaxLevels -> Entries]
        /\ Len(RootPath) \in Nat /\ Len(path) \in Nat
    BY <1>1, LevelsAre
  <1>3. e \in Entries /\ e.type \in RefTypes /\ e.content \in Seq(Items)
    BY <1>2 DEF Entries, RefTypes
  <1>4. /\ QueueStream(Named(e), "dirHeader")
        /\ path' = TakeOff(path, e.namelen)
        /\ level' = top
        /\ opened' = IF e.open THEN [opened EXCEPT !.dirs = @ - 1] ELSE opened
        /\ UNCHANGED <<encoder, dataBlock, failed>>
    BY DEF CloseDirectory
  <1>5. StreamInv' /\ state' = "dirHeader" /\ phase' = Ready
    <2> DEFINE o == Named(e)
    <2>1. o.len \in Nat
      BY <1>3, LengthIs DEF Named
    <2>2. QueueStream(o, "dirHeader") /\ "dirHeader" \in States
      BY <1>4 DEF States
    <2>3. encoder' \in [used : BOOLEAN, blocks : Seq(Nat \ {0})] /\ dataBlock' \in Nat /\ failed' \subseteq Calls
      BY <1>4 DEF TreeInv, StreamInv
    <2> HIDE DEF o
    <2> QED
      BY <2>1, <2>2, <2>3, QueueTyped DEF TreeInv
  <1>6. /\ DOMAIN dirs' = 0..MaxLevels
        /\ \A i \in 0..MaxLevels :
             dirs'[i] = IF i = level THEN NoEntry ELSE IF i = top THEN Closed(e)
                        ELSE IF i = top - 1 THEN WithRef(dirs[i], e.type) ELSE dirs[i]
    BY <1>2 DEF CloseDirectory
  <1>7. Closed(e) \in Entries /\ ~Closed(e).open /\ Closed(e).namelen = e.namelen
    <2> HIDE DEF e
    <2> QED
      BY <1>3 DEF Closed, Entries
  <1>8. \A i \in 0..MaxLevels :
          /\ WithRef(dirs[i], e.type) \in Entries
          /\ SameEntry(dirs[i], WithRef(dirs[i], e.type))
    <2> SUFFICES ASSUME NEW i \in 0..MaxLevels
                 PROVE  /\ WithRef(dirs[i], e.type) \in Entries
                        /\ SameEntry(dirs[i], WithRef(dirs[i], e.type))
      OBVIOUS
    <2> DEFINE d == dirs[i]
               t == e.type
    <2>1. d \in Entries /\ t \in RefTypes
      BY <1>2, <1>3
    <2> HIDE DEF d, t
    <2>2. WithRef(d, t) \in Entries /\ SameEntry(d, WithRef(d, t))
      BY <2>1, WithRefIs DEF TreeInv, SameEntry
    <2> QED
      BY <2>2 DEF d, t
  <1>9. \A i \in 0..MaxLevels : i < top => SameEntry(dirs[i], dirs'[i])
    BY <1>2, <1>6, <1>8 DEF SameEntry
  <1>10. dirs' \in [0..MaxLevels -> Entries]
    <2>1. \A i \in 0..MaxLevels : dirs'[i] \in Entries
      BY <1>2, <1>6, <1>7, <1>8, NoEntryIs
    <2>2. dirs' = [i \in 0..MaxLevels |-> dirs'[i]]
      BY <1>6 DEF CloseDirectory
    <2> QED
      BY <2>1, <2>2
  <1>11. \A i \in 0..MaxLevels : dirs'[i].open <=> dirs[i].open /\ i # top
    <2> SUFFICES ASSUME NEW i \in 0..MaxLevels PROVE dirs'[i].open <=> dirs[i].open /\ i # top
      OBVIOUS
    <2>1. CASE i = level
      BY <1>2, <1>6, <2>1, NoEntryIs DEF TreeInv, DirsInv
    <2>2. CASE i = top
      BY <1>2, <1>6, <1>7, <2>2
    <2>3. CASE i # level /\ i # top
      BY <1>2, <1>6, <1>8, <2>3 DEF SameEntry
    <2> QED
      BY <2>1, <2>2, <2>3
  <1> HIDE DEF e
  <1>12. DirsInv'
    <2>1. dirs'[0].namelen = 0
      <3>1. CASE top = 0
        BY <1>2, <1>6, <1>7, <3>1 DEF TreeInv, DirsInv, e
      <3>2. CASE top > 0
        BY <1>2, <1>9, <3>2 DEF TreeInv, DirsInv, SameEntry
      <3> QED
        BY <1>2, <3>1, <3>2
    <2>2. \A i \in 0..MaxLevels :
            /\ dirs'[i].open => i < top
            /\ i < top => dirs'[i].open
      BY <1>2, <1>11 DEF TreeInv, DirsInv
    <2> QED
      BY <1>2, <1>4, <1>10, <2>1, <2>2 DEF DirsInv
  <1>13. /\ path' \in Seq(PathNode)
         /\ Len(path') = PathIndex(IF top = 0 THEN 0 ELSE top - 1)
         /\ Len(path') <= Len(path)
         /\ \A i \in 1..Len(path') : path'[i] = path[i]
    BY <1>1, <1>2, <1>4, PathAbove DEF e
  <1>14. Len(path') \in Nat
    BY <1>13
  <1>15. PathInv'
    <2>1. \A i \in 1..Len(RootPath) : path'[i].name = RootPath[i]
      <3>1. \A i \in 1..Len(RootPath) : i \in 1..Len(path')
        BY <1>2, <1>13, <1>14 DEF PathIndex
      <3> QED
        BY <1>13, <3>1 DEF TreeInv, PathInv
    <2>2. ASSUME NEW i \in 1..(top - 1)
          PROVE  /\ path'[PathIndex(i)].name = dirs'[i].name
                 /\ path'[PathIndex(i)].len > 0
                 /\ dirs'[i].namelen
                      = path'[PathIndex(i)].len + (IF PathIndex(i) = 1 THEN 0 ELSE 1)
      <3>1. i \in 1..(level - 1) /\ i \in 0..MaxLevels /\ i < top
        BY <1>2
      <3>2. PathIndex(i) \in 1..Len(path')
        BY <1>2, <1>13, <1>14, <3>1 DEF PathIndex
      <3>3. path'[PathIndex(i)] = path[PathIndex(i)]
        BY <1>13, <3>2
      <3>4. dirs'[i].name = dirs[i].name /\ dirs'[i].namelen = dirs[i].namelen
        BY <1>9, <3>1 DEF SameEntry
      <3> QED
        BY <3>1, <3>3, <3>4 DEF TreeInv, PathInv
    <2> QED
      BY <1>4, <1>13, <2>1, <2>2 DEF PathInv, PathIndex
  <1>16. NodeInv'
    <2> SUFFICES ASSUME NEW i \in 0..(top - 1)
                 PROVE  /\ dirs'[i].node \in Nodes
                        /\ dirs'[i].node = Lookup(Top, NamesTo(path', PathIndex(i)))
                        /\ dirs'[i].open => IsEntered(dirs'[i].node)
                        /\ Depth[dirs'[i].node] + i + 2 <= MaxLevels
      BY <1>4 DEF NodeInv, PathIndex
    <2>1. i \in 0..(level - 1) /\ i \in 0..MaxLevels /\ i < top
      BY <1>2
    <2>2. dirs'[i].node = dirs[i].node /\ dirs'[i].open = dirs[i].open
      BY <1>9, <2>1 DEF SameEntry
    <2>3. PathIndex(i) \in 0..Len(path')
      BY <1>2, <1>13, <1>14, <2>1 DEF PathIndex
    <2>4. \A j \in 1..PathIndex(i) : path'[j].name = path[j].name
      <3>1. \A j \in 1..PathIndex(i) : j \in 1..Len(path')
        BY <1>14, <2>3
      <3> QED
        BY <1>13, <3>1
    <2>5. NamesTo(path', PathIndex(i)) = NamesTo(path, PathIndex(i))
      BY <2>4 DEF NamesTo
    <2> QED
      BY <2>1, <2>2, <2>5 DEF TreeInv, NodeInv
  <1>17. OpenInv'
    <2>1. IsFiniteSet(OpenLevels)
      BY LevelsFinite
    <2>2. OpenLevels' = OpenLevels \ {top}
      BY <1>2, <1>11 DEF OpenLevels
    <2>3. CASE e.open
      <3>1. top \in OpenLevels
        BY <1>2, <2>3 DEF OpenLevels, e
      <3>2. Cardinality(OpenLevels \ {top}) = Cardinality(OpenLevels) - 1
        BY <2>1, <3>1, FS_RemoveElement
      <3>3. opened' = [dirs |-> opened.dirs - 1, files |-> opened.files]
        BY <1>4, <2>3 DEF TreeInv, OpenInv
      <3> QED
        BY <1>4, <2>2, <3>2, <3>3 DEF TreeInv, OpenInv
    <2>4. CASE ~e.open
      <3>1. OpenLevels' = OpenLevels
        BY <1>2, <2>2, <2>4 DEF OpenLevels, e
      <3> QED
        BY <1>4, <2>4, <3>1 DEF TreeInv, OpenInv
    <2> QED
      BY <2>3, <2>4
  <1>18. CallInv'
    BY <1>1, <1>2, <1>4, <1>5 DEF TreeInv, CallInv, Ready, Stalled
  <1>19. OpeningInv'
    BY <1>5 DEF OpeningInv, Ready, Stalled
  <1> QED
    BY <1>5, <1>12, <1>15, <1>16, <1>17, <1>18, <1>19 DEF TreeInv

(***************************************************************************)
(* The calls of the stream, and what holds of all of it.                   *)
(***************************************************************************)
\* A block goes out while the current directory and its path stay.
LEMMA QueueingTree ==
  ASSUME NEW o, NEW newState \in States, TreeInv, phase = Ready, QueueStream(o, newState),
         o.len \in Nat, UNCHANGED <<path, level, dirs, encoder, opened>>, dataBlock' \in Nat,
         failed' \subseteq Calls,
         newState \in {"idle", "start", "volumeHeader", "end", "done"} => level = 0,
         newState \in {"dataHeader", "dataContent", "fileHeader"} => level > 0,
         encoder.used <=> newState \in {"dataHeader", "dataContent"}
  PROVE  TreeInv'
  <1>1. encoder' \in [used : BOOLEAN, blocks : Seq(Nat \ {0})]
    BY DEF TreeInv, StreamInv
  <1>2. StreamInv' /\ state' = newState /\ phase' = Ready
    BY <1>1, QueueTyped DEF TreeInv
  <1>3. DirsInv' /\ PathInv' /\ NodeInv' /\ OpenInv'
    BY NothingMoves DEF Ready, Closing, Stalled
  <1>4. CallInv' /\ OpeningInv'
    BY <1>2 DEF TreeInv, CallInv, OpeningInv, Ready, Stalled
  <1> QED
    BY <1>2, <1>3, <1>4 DEF TreeInv

\* fillBuffers(): what comes next, in each state.
LEMMA FillBuffersTree ==
  ASSUME TreeInv, FillBuffers
  PROVE  TreeInv'
  <1>1. phase = Ready /\ phase # Closing
    BY DEF FillBuffers, Ready, Closing, Stalled
  <1>2. dataBlock \in Nat /\ failed \subseteq Calls
    BY DEF TreeInv, StreamInv
  <1>3. \A type : Marker(type).len \in Nat
    BY DEF Marker
  <1>4. GotoEnd /\ level = 0 /\ ~encoder.used /\ failed' \subseteq Calls => TreeInv'
    <2> SUFFICES ASSUME GotoEnd, level = 0, ~encoder.used, failed' \subseteq Calls PROVE TreeInv'
      OBVIOUS
    <2> DEFINE o == Marker("EndMarker")
    <2>1. QueueStream(o, "end") /\ o.len \in Nat /\ "end" \in States
      BY <1>3 DEF GotoEnd, States
    <2>2. UNCHANGED <<path, level, dirs, encoder, opened>> /\ dataBlock' \in Nat
      BY <1>2 DEF GotoEnd, Unmoved
    <2> HIDE DEF o
    <2> QED
      BY <1>1, <2>1, <2>2, QueueingTree
  <1>5. CASE state = "idle" /\ QueueStream(Marker("StartMarker"), "start") /\ Unmoved /\ UNCHANGED failed
    <2> DEFINE o == Marker("StartMarker")
    <2>1. QueueStream(o, "start") /\ o.len \in Nat /\ "start" \in States
      BY <1>3, <1>5 DEF States
    <2>2. UNCHANGED <<path, level, dirs, encoder, opened>> /\ dataBlock' \in Nat /\ failed' \subseteq Calls
      BY <1>2, <1>5 DEF Unmoved
    <2>3. level = 0 /\ ~encoder.used
      BY <1>5 DEF TreeInv, CallInv
    <2> HIDE DEF o
    <2> QED
      BY <1>1, <2>1, <2>2, <2>3, QueueingTree
  <1>6. CASE state = "start" /\ OpenRootDirectory
    <2>1. level = 0 /\ ~encoder.used
      BY <1>1, <1>6 DEF TreeInv, CallInv
    <2>2. CASE GotoEnd /\ failed' = failed \cup {"Root"}
      <3>1. failed' \subseteq Calls
        BY <1>2, <2>2 DEF Calls
      <3> QED
        BY <1>4, <2>1, <2>2, <3>1
    <2> DEFINE root == Lookup(Top, PathNames(path))
    <2>3. CASE /\ IsDir(root)
               /\ phase' = Opening([name |-> Absent, node |-> root])
               /\ UNCHANGED <<state, source, streamOffset, queuedSize, out, produced, failed>>
               /\ Unmoved
      <3>1. root = RootNode
        <4>1. Len(path) = Len(RootPath)
          BY <2>1, LevelsAre DEF TreeInv, PathInv, PathIndex
        <4>2. NamesTo(path, Len(RootPath)) = RootPath
          BY PathOfRoot DEF TreeInv, PathInv
        <4> QED
          BY <4>1, <4>2, PathNamesIs DEF RootNode
      <3>2. root \in Nodes
        BY <2>3 DEF IsDir
      <3> HIDE DEF root
      <3> DEFINE kid == [name |-> Absent, node |-> root]
      <3>3. kid \in [name : Names \cup {Absent}, node : Nodes] /\ kid.node = root
        BY <3>2
      <3>4. phase' = Opening(kid) /\ phase'.kid = kid /\ phase' \in Phases /\ phase' \notin {Ready, Stalled}
            /\ phase'.kind = "opening"
        <4>1. phase' = Opening(kid)
          BY <2>3
        <4> HIDE DEF kid
        <4> QED
          BY <3>3, <4>1 DEF Phases, Opening, Ready, Stalled
      <3>5. UNCHANGED <<path, level, dirs, encoder, opened, dataBlock>>
        BY <2>3 DEF Unmoved
      <3>6. DirsInv' /\ PathInv' /\ NodeInv' /\ OpenInv'
        BY <1>1, <3>5, NothingMoves
      <3>7. StreamInv'
        BY <2>3, <3>4, <3>5 DEF TreeInv, StreamInv
      <3>8. OpeningInv'
        BY <2>1, <2>3, <3>1, <3>3, <3>4, <3>5 DEF OpeningInv
      <3>9. CallInv'
        <4> HIDE DEF kid
        <4> QED
          BY <1>6, <2>1, <2>3, <3>4, <3>5 DEF TreeInv, CallInv
      <3> QED
        BY <3>6, <3>7, <3>8, <3>9 DEF TreeInv
    <2> QED
      BY <1>6, <2>2, <2>3 DEF OpenRootDirectory
  <1>7. CASE state = "dataHeader" /\ SendDataContent /\ UNCHANGED failed
    <2> DEFINE o == Content(dataBlock)
    <2>1. QueueStream(o, "dataContent") /\ o.len \in Nat /\ "dataContent" \in States
      BY <1>2, <1>7 DEF SendDataContent, States, Content
    <2>2. UNCHANGED <<path, level, dirs, encoder, opened>> /\ dataBlock' \in Nat /\ failed' \subseteq Calls
      BY <1>2, <1>7 DEF SendDataContent
    <2>3. level > 0 /\ encoder.used
      BY <1>7 DEF TreeInv, CallInv
    <2> HIDE DEF o
    <2> QED
      BY <1>1, <2>1, <2>2, <2>3, QueueingTree
  <1>8. CASE state = "dataContent" /\ SendDataHeader(dirs[level], encoder.blocks) /\ UNCHANGED failed
    <2> DEFINE e == dirs[level]
               b == encoder.blocks
    <2>1. level > 0 /\ failed' \subseteq Calls
      BY <1>2, <1>8 DEF TreeInv, CallInv
    <2>2. e \in Entries /\ ~e.open
      BY LevelsAre DEF TreeInv, DirsInv
    <2>3. b \in Seq(Nat \ {0})
      BY DEF TreeInv, StreamInv
    <2>4. SendDataHeader(e, b)
      BY <1>8
    <2> HIDE DEF e, b
    <2> QED
      BY <1>1, <2>1, <2>2, <2>3, <2>4, DataHeaderTree
  <1>9. CASE (state = "fileHeader" \/ (state = "dirHeader" /\ level > 0)) /\ Continue /\ UNCHANGED failed
    <2>1. UNCHANGED <<state, path, level, dirs, encoder, opened, dataBlock, source, streamOffset,
                      queuedSize, failed>>
          /\ phase' = Reading
      BY <1>9 DEF Continue, Unmoved
    <2>2. DirsInv' /\ PathInv' /\ NodeInv' /\ OpenInv'
      BY <1>1, <2>1, NothingMoves
    <2>3. StreamInv'
      BY <2>1 DEF TreeInv, StreamInv, Phases
    <2>4. CallInv' /\ OpeningInv'
      BY <1>9, <2>1 DEF TreeInv, CallInv, OpeningInv, Ready, Reading, Stalled
    <2> QED
      BY <2>2, <2>3, <2>4 DEF TreeInv
  <1>10. CASE state = "dirHeader" /\ level = 0 /\ QueueStream(Volume, "volumeHeader") /\ Unmoved
              /\ UNCHANGED failed
    <2> DEFINE o == Volume
    <2>1. QueueStream(o, "volumeHeader") /\ o.len \in Nat /\ "volumeHeader" \in States
      BY <1>10 DEF States, Volume
    <2>2. UNCHANGED <<path, level, dirs, encoder, opened>> /\ dataBlock' \in Nat /\ failed' \subseteq Calls
      BY <1>2, <1>10 DEF Unmoved
    <2>3. level = 0 /\ ~encoder.used
      BY <1>10 DEF TreeInv, CallInv
    <2> HIDE DEF o
    <2> QED
      BY <1>1, <2>1, <2>2, <2>3, QueueingTree
  <1>11. CASE state = "volumeHeader" /\ GotoEnd /\ UNCHANGED failed
    <2>1. level = 0 /\ ~encoder.used
      BY <1>11 DEF TreeInv, CallInv
    <2> QED
      BY <1>2, <1>4, <1>11, <2>1
  <1>12. CASE /\ state = "end" /\ state' = Finished
              /\ UNCHANGED <<phase, source, streamOffset, queuedSize, out, produced, failed>>
              /\ Unmoved
    <2>1. UNCHANGED <<path, level, dirs, encoder, opened, dataBlock>> /\ state' = "done"
      BY <1>12 DEF Unmoved, Finished
    <2>2. DirsInv' /\ PathInv' /\ NodeInv' /\ OpenInv'
      BY <1>1, <2>1, NothingMoves
    <2>3. StreamInv'
      BY <1>12, <2>1 DEF TreeInv, StreamInv, States
    <2>4. CallInv' /\ OpeningInv'
      BY <1>1, <1>12, <2>1 DEF TreeInv, CallInv, OpeningInv, Ready, Stalled
    <2> QED
      BY <2>2, <2>3, <2>4 DEF TreeInv
  <1> QED
    BY <1>5, <1>6, <1>7, <1>8, <1>9, <1>10, <1>11, <1>12 DEF FillBuffers

\* The stream starts again where it has not gone below the root, so that its path is that
\* of the root.
LEMMA ResetTree ==
  ASSUME TreeInv, Archivable, Reset
  PROVE  TreeInv'
  <1>1. /\ state' = "idle" /\ level' = 0 /\ phase' = Ready /\ path' = path
        /\ dataBlock' = dataBlock /\ encoder' = NoEncoder /\ source' = 0 /\ streamOffset' = 0
        /\ queuedSize' = 0 /\ failed' = {}
        /\ dirs' = [i \in DOMAIN dirs |-> IF i <= level THEN NoEntry ELSE dirs[i]]
        /\ opened' = [files |-> 0, dirs |-> opened.dirs - Cardinality(ClosedByReset)]
    BY DEF Reset
  <1>2. level \in {0, 1}
    BY DEF Reset, Archivable, ResetAtRoot
  <1>3. /\ level \in Nat /\ MaxLevels \in Nat /\ level < MaxLevels
        /\ level \in 0..MaxLevels /\ dirs \in [0..MaxLevels -> Entries]
    BY LevelsAre
  <1>4. \A i \in 0..MaxLevels : dirs'[i] = IF i <= level THEN NoEntry ELSE dirs[i]
    BY <1>1, <1>3
  <1>5. DirsInv'
    <2>1. dirs' \in [0..MaxLevels -> Entries]
      BY <1>1, <1>3, NoEntryIs
    <2>2. \A i \in 0..MaxLevels : ~dirs'[i].open
      BY <1>3, <1>4, NoEntryIs DEF TreeInv, DirsInv
    <2>3. dirs'[0].namelen = 0
      BY <1>3, <1>4 DEF NoEntry
    <2> QED
      BY <1>1, <1>3, <2>1, <2>2, <2>3 DEF DirsInv
  <1>6. PathInv' /\ NodeInv'
    BY <1>1, <1>2 DEF TreeInv, PathInv, NodeInv, PathIndex
  <1>7. OpenInv'
    <2>1. ClosedByReset = OpenLevels
      BY <1>3 DEF ClosedByReset, OpenLevels, TreeInv, DirsInv
    <2>2. opened.dirs - Cardinality(ClosedByReset) = 0
      <3>1. Cardinality(OpenLevels) \in Nat
        BY LevelsFinite, FS_CardinalityType
      <3> QED
        BY <2>1, <3>1 DEF TreeInv, OpenInv
    <2>3. OpenLevels' = {}
      BY <1>5, <1>1, <1>3 DEF OpenLevels, DirsInv
    <2>4. Cardinality({}) = 0
      BY FS_EmptySet
    <2>5. opened' = [files |-> 0, dirs |-> 0]
      BY <1>1, <2>2
    <2> QED
      BY <1>1, <2>3, <2>4, <2>5 DEF OpenInv, NoEncoder
  <1>8. StreamInv'
    BY <1>1, EmptySeq DEF TreeInv, StreamInv, NoEncoder, States, Phases
  <1>9. CallInv' /\ OpeningInv'
    BY <1>1 DEF CallInv, OpeningInv, Ready, NoEncoder, Stalled
  <1> QED
    BY <1>5, <1>6, <1>7, <1>8, <1>9 DEF TreeInv

\* How the stream begins.
LEMMA InitTree == Init => TreeInv
  <1> SUFFICES ASSUME Init PROVE TreeInv
    OBVIOUS
  <1>1. MaxLevels \in Nat \ {0} /\ RootPath \in Seq(Names) /\ Len(RootPath) \in Nat
    BY ArchiveAssumption
  <1>2. StreamInv
    BY EmptySeq DEF Init, StreamInv, NoEncoder, States, Phases
  <1>3. dirs \in [0..MaxLevels -> Entries] /\ \A i \in 0..MaxLevels : dirs[i] = NoEntry
    BY NoEntryIs DEF Init
  <1>4. DirsInv
    BY <1>1, <1>3, NoEntryIs DEF Init, DirsInv, NoEntry
  <1>5. CallInv /\ OpeningInv
    BY DEF Init, CallInv, OpeningInv, Ready, NoEncoder, Stalled
  <1>6. PathInv
    <2> DEFINE x(i) == [name |-> RootPath[i], len |-> NameLen[RootPath[i]]]
    <2>1. \A i \in 1..Len(RootPath) : x(i) \in PathNode
      <3> SUFFICES ASSUME NEW i \in 1..Len(RootPath) PROVE x(i) \in PathNode
        OBVIOUS
      <3>1. RootPath[i] \in Names
        BY <1>1
      <3>2. NameLen[RootPath[i]] \in 1..(ByteSize - 1)
        BY <3>1, ArchiveAssumption
      <3> QED
        BY <3>1, <3>2 DEF PathNode
    <2>2. path = [i \in 1..Len(RootPath) |-> x(i)] /\ level = 0
      BY DEF Init
    <2>3. \A i \in 1..Len(RootPath) : x(i).name = RootPath[i]
      OBVIOUS
    <2> HIDE DEF x
    <2>4. path \in Seq(PathNode) /\ Len(path) = Len(RootPath)
      BY <1>1, <2>1, <2>2
    <2>5. \A i \in 1..Len(RootPath) : path[i].name = RootPath[i]
      BY <2>2, <2>3
    <2>6. Len(path) = PathIndex(0)
      BY <1>1, <2>4 DEF PathIndex
    <2>7. Len(path) = PathIndex(IF level = 0 THEN 0 ELSE level - 1)
      BY <2>2, <2>6
    <2>8. 1..(level - 1) = {}
      BY <2>2
    <2> QED
      BY <2>4, <2>5, <2>7, <2>8 DEF PathInv
  <1>7. NodeInv
    BY DEF Init, NodeInv
  <1>8. OpenInv
    <2>1. OpenLevels = {}
      BY <1>3, NoEntryIs DEF OpenLevels
    <2>2. Cardinality({}) = 0
      BY FS_EmptySet
    <2> QED
      BY <2>1, <2>2 DEF Init, OpenInv, NoEncoder
  <1> QED
    BY <1>2, <1>4, <1>5, <1>6, <1>7, <1>8 DEF TreeInv

\* Each step of the stream.
LEMMA NextTree ==
  ASSUME Archivable, TreeInv, [Next]_vars
  PROVE  TreeInv'
  <1>1. CASE Step
    BY <1>1, ReadFileEntryTree, OpenDirectoryTree, ReadDirectoryTree, CloseDirectoryTree DEF Step
  <1>2. CASE \E n \in 1..source : Read(n)
    <2>1. PICK n \in 1..source : Read(n)
      BY <1>2
    <2>2. UNCHANGED <<state, path, level, dirs, encoder, dataBlock, streamOffset,
                      queuedSize, opened, failed>>
          /\ source' = source - n /\ phase \in {Ready, Stalled} /\ phase' = Ready
      BY <2>1 DEF Read
    <2>3. phase # Closing
      BY <2>2 DEF Ready, Stalled, Closing
    <2>4. DirsInv' /\ PathInv' /\ NodeInv' /\ OpenInv'
      BY <2>2, <2>3, NothingMoves
    <2>5. StreamInv'
      BY <2>2 DEF TreeInv, StreamInv, Phases
    <2>6. CallInv' /\ OpeningInv'
      BY <2>2 DEF TreeInv, CallInv, OpeningInv, Ready, Stalled
    <2> QED
      BY <2>4, <2>5, <2>6 DEF TreeInv
  <1>3. CASE UNCHANGED vars
    <2>1. UNCHANGED <<state, phase, path, level, dirs, encoder, dataBlock, source, streamOffset,
                      queuedSize, opened, failed>>
      BY <1>3 DEF vars
    <2>2. DirsInv' /\ PathInv' /\ NodeInv' /\ OpenInv'
      BY <2>1, NothingMoves
    <2>3. StreamInv' /\ CallInv' /\ OpeningInv'
      BY <2>1 DEF TreeInv, StreamInv, CallInv, OpeningInv
    <2> QED
      BY <2>2, <2>3 DEF TreeInv
  <1>4. CASE ReadFails
    <2>1. /\ UNCHANGED <<state, path, level, dirs, encoder, dataBlock, source, streamOffset,
                         queuedSize, opened>>
          /\ state = "dataContent" /\ phase = Ready /\ phase' = Stalled
          /\ failed' = failed \cup {"Read"}
      BY <1>4 DEF ReadFails
    <2>2. phase # Closing
      BY <2>1 DEF Ready, Closing, Stalled
    <2>3. DirsInv' /\ PathInv' /\ NodeInv' /\ OpenInv'
      BY <2>1, <2>2, NothingMoves
    <2>4. StreamInv'
      BY <2>1 DEF TreeInv, StreamInv, Phases, Calls
    <2>5. CallInv' /\ OpeningInv'
      BY <2>1 DEF TreeInv, CallInv, OpeningInv, Ready, Stalled
    <2> QED
      BY <2>3, <2>4, <2>5 DEF TreeInv
  <1> QED
    BY <1>1, <1>2, <1>3, <1>4, FillBuffersTree, ResetTree DEF Next

\* The inductive invariant.
THEOREM TreeInvHolds == Archivable => (Spec => []TreeInv)
  <1> SUFFICES ASSUME Archivable PROVE Spec => []TreeInv
    OBVIOUS
  <1>1. TreeInv /\ [Next]_vars => TreeInv'
    BY NextTree
  <1> QED
    BY <1>1, InitTree, PTL DEF Spec

\* Each variable of the stream has its type: what it queues has a size, each entry of
\* directories[] is one, and what is open is on the way to the current directory.
THEOREM StreamTyped == Archivable => (Spec => []TypeOK)
  <1> SUFFICES ASSUME Archivable PROVE Spec => []TypeOK
    OBVIOUS
  <1>1. TreeInv => TypeOK
    <2> SUFFICES ASSUME TreeInv PROVE TypeOK
      OBVIOUS
    <2>1. level \in 0..(MaxLevels + 1)
      BY LevelsAre
    <2>2. path \in Seq([name : Names \cup {Absent}, len : Nat])
      <3> DEFINE T == [name : Names \cup {Absent}, len : Nat]
      <3>1. PathNode \subseteq T
        BY DEF PathNode
      <3>2. path \in Seq(PathNode)
        BY DEF TreeInv, PathInv
      <3> HIDE DEF T
      <3>3. \A i \in 1..Len(path) : path[i] \in T
        BY <3>1, <3>2, ElementOfSeq
      <3>4. path = [i \in 1..Len(path) |-> path[i]] /\ Len(path) \in Nat
        BY <3>2
      <3>5. path \in Seq(T)
        BY <3>3, <3>4
      <3> QED
        BY <3>5 DEF T
    <2> QED
      BY <2>1, <2>2 DEF TreeInv, StreamInv, DirsInv, TypeOK
  <1> QED
    BY <1>1, TreeInvHolds, PTL

\* The stream closes what it opens and is at the path that its directories tell, whatever
\* has failed, and never goes deeper than there is room for.
THEOREM WayIsTracked == Archivable => (Spec => []DirectoriesTracked)
  <1> SUFFICES ASSUME Archivable PROVE Spec => []DirectoriesTracked
    OBVIOUS
  <1>1. TreeInv => DirectoriesTracked
    <2> SUFFICES ASSUME TreeInv PROVE DirectoriesTracked
      OBVIOUS
    <2>1. /\ level \in Nat /\ MaxLevels \in Nat /\ level < MaxLevels
          /\ Len(RootPath) \in Nat /\ Len(path) \in Nat
      BY LevelsAre
    <2>2. NothingLeaks
      <3>1. state \in {"idle", "done"} => opened.dirs = 0 /\ opened.files = 0
        <4> SUFFICES ASSUME state \in {"idle", "done"} PROVE opened.dirs = 0 /\ opened.files = 0
          OBVIOUS
        <4>1. level = 0 /\ ~encoder.used
          BY DEF TreeInv, CallInv
        <4>2. OpenLevels = {}
          BY <2>1, <4>1 DEF OpenLevels, TreeInv, DirsInv
        <4>3. Cardinality({}) = 0
          BY FS_EmptySet
        <4> QED
          BY <4>1, <4>2, <4>3 DEF TreeInv, OpenInv
      <3> QED
        BY <3>1 DEF TreeInv, OpenInv, OpenLevels, NothingLeaks
    <2>3. PathTracksLevels
      <3> DEFINE m == IF level = 0 THEN 0 ELSE level - 1
                 below == [i \in 1..m |-> dirs[i].name]
                 names == PathNames(path)
                 whole == RootPath \o below
      <3>1. m \in Nat /\ Len(path) = Len(RootPath) + m
        BY <2>1 DEF TreeInv, PathInv, PathIndex
      <3>2. RootPath \in Seq(Names)
        BY ArchiveAssumption
      <3>3. \A i \in 1..m : i \in 1..(level - 1) /\ Len(RootPath) + i \in 1..Len(path)
        BY <2>1, <3>1
      <3>4. \A i \in 1..m : dirs[i].name = path[Len(RootPath) + i].name /\ dirs[i].name \in Names
        <4> SUFFICES ASSUME NEW i \in 1..m
                     PROVE  dirs[i].name = path[Len(RootPath) + i].name /\ dirs[i].name \in Names
          OBVIOUS
        <4>1. dirs[i].name = path[Len(RootPath) + i].name
          BY <3>3 DEF TreeInv, PathInv, PathIndex
        <4>2. path[Len(RootPath) + i].name \in Names
          BY <3>3, PathNodes DEF TreeInv, PathInv
        <4> QED
          BY <4>1, <4>2
      <3> HIDE DEF m
      <3>5. below \in Seq(Names) /\ Len(below) = m /\ \A i \in 1..m : below[i] = dirs[i].name
        BY <3>1, <3>4
      <3>6. names \in Seq(Names) /\ Len(names) = Len(path)
            /\ \A i \in 1..Len(path) : names[i] = path[i].name
        BY <2>1, PathNodes DEF TreeInv, PathInv, PathNames
      <3> HIDE DEF below
      <3>7. whole \in Seq(Names) /\ Len(whole) = Len(RootPath) + m
            /\ \A i \in 1..(Len(RootPath) + m) :
                 whole[i] = IF i <= Len(RootPath) THEN RootPath[i] ELSE below[i - Len(RootPath)]
        BY <3>2, <3>5, ConcatProperties
      <3>8. \A i \in 1..Len(path) : names[i] = whole[i]
        <4> SUFFICES ASSUME NEW i \in 1..Len(path) PROVE names[i] = whole[i]
          OBVIOUS
        <4> HIDE DEF names, whole
        <4>1. CASE i <= Len(RootPath)
          <5>1. path[i].name = RootPath[i]
            BY <2>1, <4>1 DEF TreeInv, PathInv
          <5> QED
            BY <2>1, <3>1, <3>6, <3>7, <4>1, <5>1
        <4>2. CASE i > Len(RootPath)
          <5>1. i - Len(RootPath) \in 1..m /\ Len(RootPath) + (i - Len(RootPath)) = i
            BY <2>1, <3>1, <4>2
          <5>2. below[i - Len(RootPath)] = path[i].name
            BY <3>4, <3>5, <5>1
          <5> QED
            BY <2>1, <3>1, <3>6, <3>7, <4>2, <5>2
        <4> QED
          BY <2>1, <4>1, <4>2
      <3>9. names = whole
        <4> HIDE DEF names, whole
        <4> QED
          BY <3>1, <3>6, <3>7, <3>8, SeqEqual
      <3> QED
        BY <3>9 DEF PathTracksLevels, below, m
    <2> QED
      BY <2>1, <2>2, <2>3 DEF DirectoriesTracked
  <1> QED
    BY <1>1, TreeInvHolds, PTL

(***************************************************************************)
(* References.                                                             *)
(***************************************************************************)
\* The size of the data block of which the header has gone out.
Due == IF state = "dataHeader" THEN {dataBlock} ELSE {}

\* Block j of s is what an item of a node of that type refers to.
IsReferred(s, due, item, node, type, j) ==
  /\ s[j].at = item.id
  /\ s[j].type = item.type
  /\ item.type \in NamedTypes => Descend(node, s[j].name) = s[j].node
  /\ item.type = "Data" =>
       /\ type = "File"
       /\ IF j = Len(s) THEN s[j].size \in due ELSE s[j + 1].len = s[j].size

Resolves(s, due, item, node, type) ==
  item.kind = "ref" => \E j \in 1..Len(s) : IsReferred(s, due, item, node, type, j)

\* All of what an entry has so far resolves.
AllResolve(s, due, e) ==
  \A k \in 1..Len(e.content) : Resolves(s, due, e.content[k], e.node, e.type)

\* What the directories on the way have resolves, and what the file has whose data goes out.
ContentInv ==
  /\ \A i \in 0..(level - 1) : AllResolve(out, Due, dirs[i])
  /\ encoder.used =>
       /\ dirs[level].type = "File"
       /\ dirs[level].node = Descend(dirs[level - 1].node, dirs[level].name)
       /\ AllResolve(out, Due, dirs[level])

ReferenceInv == ReferencesResolve /\ ContentInv

\* What resolves does so when a block is added, if that is the one that is due.
LEMMA StillResolves ==
  ASSUME NEW s, IsSequence(s), NEW o, NEW due, NEW more, \A n \in due : o.len = n,
         NEW item, NEW node, NEW type, Resolves(s, due, item, node, type)
  PROVE  Resolves(Append(s, o), more, item, node, type)
  <1> DEFINE t == Append(s, o)
  <1>1. /\ Len(s) \in Nat /\ Len(t) = Len(s) + 1 /\ t[Len(s) + 1] = o
        /\ \A i \in 1..Len(s) : t[i] = s[i]
    BY AppendIs
  <1> HIDE DEF t
  <1> SUFFICES ASSUME item.kind = "ref"
               PROVE  \E j \in 1..Len(t) : IsReferred(t, more, item, node, type, j)
    BY DEF Resolves, t
  <1>2. PICK j \in 1..Len(s) : IsReferred(s, due, item, node, type, j)
    BY DEF Resolves
  <1>3. t[j] = s[j] /\ j \in 1..Len(t) /\ j # Len(t)
    BY <1>1
  <1>4. item.type = "Data" => t[j + 1].len = s[j].size
    <2> SUFFICES ASSUME item.type = "Data" PROVE t[j + 1].len = s[j].size
      OBVIOUS
    <2>1. CASE j = Len(s)
      BY <1>1, <1>2, <2>1 DEF IsReferred
    <2>2. CASE j # Len(s)
      <3>1. j + 1 \in 1..Len(s)
        BY <1>1, <2>2
      <3> QED
        BY <1>1, <1>2, <2>2, <3>1 DEF IsReferred
    <2> QED
      BY <2>1, <2>2
  <1>5. IsReferred(t, more, item, node, type, j)
    BY <1>2, <1>3, <1>4 DEF IsReferred
  <1> QED
    BY <1>3, <1>5

\* Likewise all that an entry has.
LEMMA AllStillResolve ==
  ASSUME NEW s, IsSequence(s), NEW o, NEW due, NEW more, \A n \in due : o.len = n,
         NEW e, AllResolve(s, due, e)
  PROVE  AllResolve(Append(s, o), more, e)
  <1> SUFFICES ASSUME NEW k \in 1..Len(e.content)
               PROVE  Resolves(Append(s, o), more, e.content[k], e.node, e.type)
    BY DEF AllResolve
  <1> DEFINE item == e.content[k]
             node == e.node
             type == e.type
  <1>1. Resolves(s, due, item, node, type)
    BY DEF AllResolve
  <1> HIDE DEF item, node, type
  <1>2. Resolves(Append(s, o), more, item, node, type)
    BY <1>1, StillResolves
  <1> QED
    BY <1>2 DEF item, node, type

\* An item that is added to the content of an entry and refers to the last block.
LEMMA OneMoreResolves ==
  ASSUME NEW s, NEW due, NEW e, AllResolve(s, due, e), NEW item, NEW f,
         e.content \in Seq(Items), item \in Items,
         f.content = Append(e.content, item), f.node = e.node, f.type = e.type,
         Len(s) \in Nat \ {0}, IsReferred(s, due, item, e.node, e.type, Len(s))
  PROVE  AllResolve(s, due, f)
  <1> DEFINE c == e.content
             d == f.content
  <1>1. Len(c) \in Nat /\ Len(d) = Len(c) + 1 /\ d[Len(d)] = item
        /\ \A k \in 1..Len(c) : d[k] = c[k]
    BY AppendProperties
  <1> SUFFICES ASSUME NEW k \in 1..Len(d) PROVE Resolves(s, due, d[k], f.node, f.type)
    BY DEF AllResolve
  <1>2. CASE k = Len(d)
    <2>1. Len(s) \in 1..Len(s)
      OBVIOUS
    <2>2. Resolves(s, due, item, e.node, e.type)
      BY <2>1 DEF Resolves
    <2> QED
      BY <1>1, <1>2, <2>2
  <1>3. CASE k # Len(d)
    <2>1. k \in 1..Len(c)
      BY <1>1, <1>3
    <2>2. Resolves(s, due, c[k], e.node, e.type)
      BY <2>1 DEF AllResolve
    <2> QED
      BY <1>1, <2>1, <2>2
  <1> QED
    BY <1>2, <1>3

\* No reference of an object changes when a block is added, and a new object may refer to
\* the ones before.
LEMMA ReferencesKept ==
  ASSUME MountInv, ReferencesResolve, NEW o, NEW newState, QueueStream(o, newState),
         o.type \in NamedTypes => AllResolve(out, {}, o)
  PROVE  ReferencesResolve'
  <1> DEFINE n == Len(out)
             t == out'
  <1>1. /\ n \in Nat /\ Len(t) = n + 1 /\ t[n + 1] = o
        /\ \A i \in 1..n : t[i] = out[i]
    BY AppendIs DEF QueueStream, MountInv
  <1> HIDE DEF t
  <1> SUFFICES ASSUME NEW i \in 1..Len(t), t[i].type \in NamedTypes,
                      NEW k \in 1..Len(t[i].content), t[i].content[k].kind = "ref"
               PROVE  \E j \in 1..(i - 1) :
                        /\ t[j].at = t[i].content[k].id
                        /\ t[j].type = t[i].content[k].type
                        /\ t[i].content[k].type = "Data" =>
                             t[i].type = "File" /\ t[j + 1].len = t[j].size
                        /\ t[i].content[k].type \in NamedTypes =>
                             Descend(t[i].node, t[j].name) = t[j].node
    BY DEF ReferencesResolve, Referred, t
  <1> DEFINE item == t[i].content[k]
  <1>2. CASE i = n + 1
    <2>1. Resolves(out, {}, item, t[i].node, t[i].type)
      BY <1>1, <1>2 DEF AllResolve
    <2>2. PICK j \in 1..n : IsReferred(out, {}, item, t[i].node, t[i].type, j)
      BY <2>1 DEF Resolves
    <2>3. t[j] = out[j] /\ j \in 1..(i - 1)
      BY <1>1, <1>2
    <2>4. item.type = "Data" => t[i].type = "File" /\ t[j + 1].len = t[j].size
      <3> SUFFICES ASSUME item.type = "Data" PROVE t[i].type = "File" /\ t[j + 1].len = t[j].size
        OBVIOUS
      <3>1. j # n /\ t[i].type = "File" /\ out[j + 1].len = out[j].size
        BY <2>2 DEF IsReferred
      <3>2. j + 1 \in 1..n
        BY <1>1, <3>1
      <3> QED
        BY <1>1, <2>3, <3>1, <3>2
    <2> QED
      BY <2>2, <2>3, <2>4 DEF IsReferred
  <1>3. CASE i # n + 1
    <2>1. i \in 1..n /\ t[i] = out[i]
      BY <1>1, <1>3
    <2>2. PICK j \in 1..(i - 1) :
            /\ out[j].at = item.id
            /\ out[j].type = item.type
            /\ item.type = "Data" => out[i].type = "File" /\ out[j + 1].len = out[j].size
            /\ item.type \in NamedTypes => Descend(out[i].node, out[j].name) = out[j].node
      BY <2>1 DEF ReferencesResolve, Referred
    <2>3. j \in 1..n /\ j + 1 \in 1..n
      BY <1>1, <2>1
    <2>4. t[j] = out[j] /\ t[j + 1] = out[j + 1]
      BY <1>1, <2>3
    <2> QED
      BY <2>1, <2>2, <2>4
  <1> QED
    BY <1>2, <1>3

\* The entry that an object is added to.
LEMMA ObjectReferred ==
  ASSUME MountInv, StreamInv, NEW e, e.type \in NamedTypes, NEW d \in Entries,
         e.node = Descend(d.node, e.name), AllResolve(out, Due, d), Due = {},
         NEW newState, QueueStream(Named(e), newState)
  PROVE  AllResolve(out', Due', WithRef(d, e.type))
  <1> DEFINE o    == Named(e)
             t    == Append(out, o)
             due  == Due'
             item == RefTo(e.type)
             f    == WithRef(d, e.type)
             none == Due
  <1>1. /\ o.at = produced /\ o.type = e.type /\ o.name = e.name /\ o.node = e.node
    BY DEF Named
  <1>2. out' = t /\ IsSequence(out) /\ produced = streamOffset + queuedSize
    BY DEF QueueStream, MountInv
  <1>3. e.type \in RefTypes
    BY DEF NamedTypes, RefTypes
  <1>4. f.content = Append(d.content, item) /\ f.node = d.node /\ f.type = d.type
    BY <1>3, WithRefIs
  <1>5. item.id = produced /\ item.type = e.type /\ item \in Items
    BY <1>2, <1>3 DEF RefTo, Ref, Items, RefTypes, StreamInv
  <1>6. d.content \in Seq(Items)
    BY DEF Entries
  <1> HIDE DEF o, item, f, due, none
  <1>7. AllResolve(t, due, d)
    <2>1. AllResolve(out, none, d) /\ \A n \in none : o.len = n
      BY DEF none
    <2> QED
      BY <1>2, <2>1, AllStillResolve
  <1>8. Len(t) \in Nat \ {0} /\ t[Len(t)] = o
    BY <1>2, AppendIs
  <1>9. IsReferred(t, due, item, d.node, d.type, Len(t))
    BY <1>1, <1>5, <1>8 DEF IsReferred, NamedTypes
  <1> HIDE DEF t
  <1>10. AllResolve(t, due, f)
    BY <1>4, <1>5, <1>6, <1>7, <1>8, <1>9, OneMoreResolves
  <1> QED
    BY <1>2, <1>10 DEF due, f

\* The object of a file.
LEMMA FileHeaderRefers ==
  ASSUME NEW e \in Entries, e.type = "File", e.node = Descend(dirs[level - 1].node, e.name),
         AllResolve(out, {}, e), TreeInv, MountInv, ReferenceInv, level > 0,
         state # "dataHeader", SendFileHeader(e)
  PROVE  ReferenceInv'
  <1> DEFINE d == dirs[level - 1]
  <1>1. /\ level \in Nat /\ level \in 0..MaxLevels /\ MaxLevels \in Nat
        /\ level - 1 \in 0..MaxLevels /\ level - 1 \in 0..(level - 1)
        /\ dirs \in [0..MaxLevels -> Entries] /\ d \in Entries
    BY LevelsAre
  <1>2. Due = {} /\ e.type \in NamedTypes
    BY DEF Due, NamedTypes
  <1>3. /\ QueueStream(Named(e), "fileHeader")
        /\ dirs' = [dirs EXCEPT ![level] = e, ![level - 1] = WithRef(@, e.type)]
        /\ ~encoder'.used /\ level' = level
    BY DEF SendFileHeader, NoEncoder
  <1>4. ReferencesResolve'
    <2> DEFINE o == Named(e)
    <2>1. o.content = e.content /\ o.node = e.node /\ o.type = e.type
      BY DEF Named
    <2>2. QueueStream(o, "fileHeader")
      BY <1>3
    <2> HIDE DEF o
    <2>3. AllResolve(out, {}, o)
      BY <2>1 DEF AllResolve
    <2> QED
      BY <2>2, <2>3, ReferencesKept DEF ReferenceInv
  <1>5. AllResolve(out', Due', WithRef(d, e.type))
    <2>1. AllResolve(out, Due, d)
      BY <1>1 DEF ReferenceInv, ContentInv
    <2> HIDE DEF d
    <2>2. e.node = Descend(d.node, e.name)
      BY DEF d
    <2> QED
      BY <1>1, <1>2, <1>3, <2>1, <2>2, ObjectReferred DEF TreeInv
  <1>6. \A i \in 0..(level' - 1) : AllResolve(out', Due', dirs'[i])
    <2> SUFFICES ASSUME NEW i \in 0..(level - 1) PROVE AllResolve(out', Due', dirs'[i])
      BY <1>3
    <2>1. CASE i = level - 1
      <3>1. dirs'[i] = WithRef(d, e.type)
        BY <1>1, <1>3, <2>1
      <3> QED
        BY <1>5, <3>1
    <2>2. CASE i # level - 1
      <3> DEFINE c   == dirs[i]
                 o   == Named(e)
                 due == Due'
      <3>1. dirs'[i] = c
        BY <1>1, <1>3, <2>2
      <3>2. AllResolve(out, {}, c)
        BY <1>2 DEF ReferenceInv, ContentInv
      <3>3. out' = Append(out, o) /\ IsSequence(out)
        BY <1>3 DEF QueueStream, MountInv
      <3> HIDE DEF c, o, due
      <3>4. AllResolve(Append(out, o), due, c)
        BY <3>2, <3>3, AllStillResolve
      <3> QED
        BY <3>1, <3>3, <3>4 DEF due
    <2> QED
      BY <2>1, <2>2
  <1> QED
    BY <1>3, <1>4, <1>6 DEF ReferenceInv, ContentInv

\* The header of a block of data, or if there are no more the object of the file.
LEMMA DataHeaderRefers ==
  ASSUME NEW e \in Entries, e.type = "File", e.node = Descend(dirs[level - 1].node, e.name),
         AllResolve(out, {}, e), NEW blocks \in Seq(Nat \ {0}), TreeInv, MountInv, ReferenceInv,
         level > 0, state # "dataHeader", SendDataHeader(e, blocks)
  PROVE  ReferenceInv'
  <1>1. CASE SendFileHeader(e)
    BY <1>1, FileHeaderRefers
  <1>2. CASE blocks # <<>> /\ ~SendFileHeader(e)
    <2> DEFINE n    == Head(blocks)
               o    == Data(n)
               t    == Append(out, o)
               item == RefTo("Data")
               f    == WithRef(e, "Data")
    <2>1. /\ QueueStream(o, "dataHeader")
          /\ dataBlock' = n
          /\ encoder' = Encoder(Tail(blocks))
          /\ dirs' = [dirs EXCEPT ![level] = f]
          /\ UNCHANGED <<path, level>>
      BY <1>2 DEF SendDataHeader
    <2>2. /\ level \in Nat /\ level \in 0..MaxLevels /\ level - 1 \in 0..MaxLevels
          /\ dirs \in [0..MaxLevels -> Entries]
      BY LevelsAre
    <2>3. o.at = produced /\ o.type = "Data" /\ o.size = n
      BY DEF Data
    <2>4. out' = t /\ IsSequence(out) /\ produced = streamOffset + queuedSize /\ Due' = {n}
      BY <2>1 DEF QueueStream, MountInv, Due
    <2>5. f.content = Append(e.content, item) /\ f.node = e.node /\ f.type = e.type /\ f.name = e.name
      BY WithRefIs DEF RefTypes, TreeInv
    <2>6. item.id = produced /\ item.type = "Data" /\ item \in Items
      BY <2>4 DEF RefTo, Ref, Items, TreeInv, StreamInv
    <2>7. e.content \in Seq(Items)
      BY DEF Entries
    <2> HIDE DEF n, o, item, f
    <2>8. ReferencesResolve'
      BY <2>1, <2>3, ReferencesKept DEF ReferenceInv, NamedTypes
    <2>9. AllResolve(t, {n}, e)
      <3> DEFINE due == {n}
      <3> HIDE DEF due
      <3>1. AllResolve(t, due, e)
        BY <2>4, AllStillResolve
      <3> QED
        BY <3>1 DEF due
    <2>10. Len(t) \in Nat \ {0} /\ t[Len(t)] = o
      BY <2>4, AppendIs
    <2>11. IsReferred(t, {n}, item, e.node, e.type, Len(t))
      BY <2>3, <2>6, <2>10 DEF IsReferred, NamedTypes
    <2>12. AllResolve(t, {n}, f)
      <3> DEFINE due == {n}
      <3> HIDE DEF due, t
      <3>1. AllResolve(t, due, f)
        BY <2>5, <2>6, <2>7, <2>9, <2>10, <2>11, OneMoreResolves DEF due
      <3> QED
        BY <3>1 DEF due
    <2>13. \A i \in 0..(level - 1) : AllResolve(out', Due', dirs'[i])
      <3> SUFFICES ASSUME NEW i \in 0..(level - 1) PROVE AllResolve(out', Due', dirs'[i])
        OBVIOUS
      <3> DEFINE c   == dirs[i]
                 due == Due'
      <3>1. dirs'[i] = c
        BY <2>1, <2>2
      <3>2. AllResolve(out, {}, c)
        BY DEF ReferenceInv, ContentInv, Due
      <3> HIDE DEF c, due
      <3>3. AllResolve(t, due, c)
        BY <2>4, <3>2, AllStillResolve
      <3> QED
        BY <2>4, <3>1, <3>3 DEF due
    <2>14. dirs'[level] = f /\ dirs'[level - 1] = dirs[level - 1] /\ level' = level
      BY <2>1, <2>2
    <2>15. f.node = Descend(dirs[level - 1].node, f.name)
      BY <2>5
    <2>16. AllResolve(out', Due', dirs'[level'])
      BY <2>4, <2>12, <2>14
    <2>17. dirs'[level'].type = "File"
           /\ dirs'[level'].node = Descend(dirs'[level' - 1].node, dirs'[level'].name)
      BY <2>5, <2>14, <2>15
    <2> QED
      BY <2>8, <2>13, <2>14, <2>16, <2>17 DEF ReferenceInv, ContentInv
  <1> QED
    BY <1>1, <1>2 DEF SendDataHeader

\* A step that queues no block and keeps what directories[] has.
LEMMA NothingQueued ==
  ASSUME ReferenceInv, UNCHANGED <<level, dirs, encoder, out>>, Due' = Due
  PROVE  ReferenceInv'
  <1>1. ReferencesResolve'
    BY DEF ReferenceInv, ReferencesResolve, Referred
  <1>2. ContentInv'
    BY DEF ReferenceInv, ContentInv
  <1> QED
    BY <1>1, <1>2 DEF ReferenceInv

\* readFileEntry(): a file begins with nothing, or with its data inline.
LEMMA ReadFileEntryRefers ==
  ASSUME TreeInv, MountInv, ReferenceInv, ReadFileEntry
  PROVE  ReferenceInv'
  <1>1. phase.kind = "filing" /\ level > 0 /\ phase \notin {Ready, Stalled} /\ state # "dataHeader"
    BY PhaseIs DEF ReadFileEntry, TreeInv, StreamInv, CallInv
  <1>2. CASE CannotOpen
    BY <1>2, NothingQueued DEF CannotOpen, Due
  <1>3. CASE ~CannotOpen
    <2>1. PICK e \in Entries :
            /\ e.type = "File"
            /\ e.node = Descend(dirs[level - 1].node, e.name)
            /\ \/ SendFileHeader(e) /\ e.content = <<Inline(phase.kid.node)>>
               \/ \E blocks \in Seq(Nat \ {0}) : SendDataHeader(e, blocks) /\ e.content = <<>>
      BY <1>3, ReadFileEntryIs
    <2>2. CASE SendFileHeader(e) /\ e.content = <<Inline(phase.kid.node)>>
      <3>1. Inline(phase.kid.node).kind # "ref"
        BY DEF Inline
      <3>2. AllResolve(out, {}, e)
        BY <2>2, <3>1 DEF AllResolve, Resolves
      <3> QED
        BY <1>1, <2>1, <2>2, <3>2, FileHeaderRefers
    <2>3. ASSUME NEW blocks \in Seq(Nat \ {0}), SendDataHeader(e, blocks), e.content = <<>>
          PROVE  ReferenceInv'
      <3>1. AllResolve(out, {}, e)
        BY <2>3 DEF AllResolve
      <3> QED
        BY <1>1, <2>1, <2>3, <3>1, DataHeaderRefers
    <2> QED
      BY <2>1, <2>2, <2>3
  <1> QED
    BY <1>2, <1>3

\* A directory begins with nothing that is a reference.
LEMMA OpenDirectoryRefers ==
  ASSUME TreeInv, ReferenceInv, OpenDirectory
  PROVE  ReferenceInv'
  <1>1. /\ phase.kind = "opening"
        /\ level' = level + 1
        /\ UNCHANGED <<state, encoder, dataBlock, streamOffset, queuedSize, out>>
    BY OpenDirectoryIs
  <1>2. PICK isOpen \in BOOLEAN, content \in {<<>>, <<VolumeIndex>>} :
          dirs' = [dirs EXCEPT ![level] = NewDirectory(isOpen, content)]
    BY OpenDirectoryIs
  <1> DEFINE new == NewDirectory(isOpen, content)
  <1>3. new.content = content
    BY DEF NewDirectory
  <1>4. AllResolve(out, Due, new)
    BY <1>3 DEF AllResolve, Resolves, VolumeIndex
  <1> HIDE DEF new
  <1>5. level \in Nat /\ level \in 0..MaxLevels /\ dirs \in [0..MaxLevels -> Entries]
    BY LevelsAre
  <1>6. \A i \in 0..level : dirs'[i] = IF i = level THEN new ELSE dirs[i]
    BY <1>2, <1>5, LevelsAre DEF new
  <1>7. Due' = Due /\ ~encoder'.used
    <2>1. phase \notin {Ready, Stalled}
      BY <1>1 DEF Ready, Stalled
    <2> QED
      BY <1>1, <2>1 DEF Due, TreeInv, CallInv
  <1>8. \A i \in 0..(level' - 1) : AllResolve(out', Due', dirs'[i])
    <2> SUFFICES ASSUME NEW i \in 0..level PROVE AllResolve(out, Due, dirs'[i])
      BY <1>1, <1>5, <1>7
    <2>1. i # level => AllResolve(out, Due, dirs[i])
      BY <1>5 DEF ReferenceInv, ContentInv
    <2> QED
      BY <1>4, <1>6, <2>1
  <1>9. ReferencesResolve'
    BY <1>1 DEF ReferenceInv, ReferencesResolve, Referred
  <1> QED
    BY <1>7, <1>8, <1>9 DEF ReferenceInv, ContentInv

\* Going on to the next entry of a directory adds nothing.
LEMMA ReadDirectoryRefers ==
  ASSUME TreeInv, ReferenceInv, ReadDirectory
  PROVE  ReferenceInv'
  <1>1. /\ phase.kind = "reading" /\ level > 0
        /\ UNCHANGED <<state, level, encoder, dataBlock, out>>
        /\ UNCHANGED dirs \/ dirs' = [dirs EXCEPT ![level - 1].next = @ + 1]
    BY DEF ReadDirectory, TreeInv, CallInv
  <1>2. CASE UNCHANGED dirs
    BY <1>1, <1>2, NothingQueued DEF Due
  <1>3. CASE dirs' = [dirs EXCEPT ![level - 1].next = @ + 1]
    <2> DEFINE d   == dirs[level - 1]
               new == [d EXCEPT !.next = @ + 1]
    <2>1. /\ level \in Nat /\ level - 1 \in 0..MaxLevels /\ d \in Entries
          /\ dirs \in [0..MaxLevels -> Entries] /\ level < MaxLevels /\ MaxLevels \in Nat
      BY <1>1, LevelsAre
    <2>2. new.content = d.content /\ new.node = d.node /\ new.type = d.type
      BY <2>1 DEF Entries
    <2>3. \A i \in 0..MaxLevels : dirs'[i] = IF i = level - 1 THEN new ELSE dirs[i]
      BY <1>3, <2>1
    <2> HIDE DEF new
    <2>4. \A i \in 0..(level - 1) : AllResolve(out, Due, dirs'[i])
      <3> SUFFICES ASSUME NEW i \in 0..(level - 1) PROVE AllResolve(out, Due, dirs'[i])
        OBVIOUS
      <3>1. AllResolve(out, Due, dirs[i]) /\ i \in 0..MaxLevels
        BY <2>1 DEF ReferenceInv, ContentInv
      <3>2. CASE i = level - 1
        <4>1. dirs'[i] = new /\ AllResolve(out, Due, d)
          BY <2>3, <3>1, <3>2
        <4> HIDE DEF d
        <4>2. AllResolve(out, Due, new)
          BY <2>2, <4>1 DEF AllResolve
        <4> QED
          BY <4>1, <4>2
      <3>3. CASE i # level - 1
        BY <2>3, <3>1, <3>3
      <3> QED
        BY <3>2, <3>3
    <2>5. Due' = Due /\ ~encoder'.used
      <3>1. phase \notin {Ready, Stalled}
        BY <1>1 DEF Ready, Stalled
      <3> QED
        BY <1>1, <3>1 DEF Due, TreeInv, CallInv
    <2>6. ReferencesResolve'
      BY <1>1 DEF ReferenceInv, ReferencesResolve, Referred
    <2> QED
      BY <1>1, <2>4, <2>5, <2>6 DEF ReferenceInv, ContentInv
  <1> QED
    BY <1>1, <1>2, <1>3

\* A directory on the way is what the one above it has by its name.
LEMMA DirectoryOfParent ==
  ASSUME TreeInv, NEW i \in 1..(level - 1)
  PROVE  dirs[i].node = Descend(dirs[i - 1].node, dirs[i].name)
  <1> DEFINE n == PathIndex(i - 1)
  <1>1. level \in Nat /\ Len(RootPath) \in Nat /\ i - 1 \in 0..(level - 1) /\ i \in 0..(level - 1)
    BY LevelsAre
  <1>2. n \in Nat /\ PathIndex(i) = n + 1
    BY <1>1 DEF PathIndex
  <1>3. /\ dirs[i].node = Lookup(Top, NamesTo(path, n + 1))
        /\ dirs[i - 1].node = Lookup(Top, NamesTo(path, n))
    BY <1>1, <1>2 DEF TreeInv, NodeInv
  <1>4. path[n + 1].name = dirs[i].name
    BY <1>2 DEF TreeInv, PathInv
  <1> HIDE DEF n
  <1>5. Lookup(Top, NamesTo(path, n + 1)) = Descend(Lookup(Top, NamesTo(path, n)), path[n + 1].name)
    BY <1>2, NamesToStep
  <1> QED
    BY <1>3, <1>4, <1>5

\* The object of a directory goes out, and the one above it refers to it.
LEMMA CloseDirectoryRefers ==
  ASSUME TreeInv, MountInv, ReferenceInv, CloseDirectory
  PROVE  ReferenceInv'
  <1> DEFINE top == level - 1
             e   == dirs[top]
             o   == Named(e)
  <1>1. phase.kind = "closing" /\ level > 0 /\ phase \notin {Ready, Stalled} /\ state # "dataHeader" /\ ~encoder.used
    <2>1. phase.kind = "closing" /\ phase \notin {Ready, Stalled}
      BY DEF CloseDirectory, Ready, Stalled
    <2> QED
      BY <2>1 DEF TreeInv, CallInv
  <1>2. /\ level \in Nat /\ MaxLevels \in Nat /\ level < MaxLevels
        /\ top \in 0..MaxLevels /\ top \in 0..(level - 1)
        /\ dirs \in [0..MaxLevels -> Entries]
    BY <1>1, LevelsAre
  <1>3. e \in Entries /\ e.type \in NamedTypes
    BY <1>2 DEF Entries, NamedTypes
  <1>4. /\ QueueStream(o, "dirHeader")
        /\ level' = top
        /\ UNCHANGED <<encoder, dataBlock>>
    BY DEF CloseDirectory
  <1>5. \A i \in 0..(top - 1) :
          dirs'[i] = IF i = top - 1 THEN WithRef(dirs[i], e.type) ELSE dirs[i]
    BY <1>2 DEF CloseDirectory
  <1>6. Due = {}
    BY <1>1 DEF Due
  <1>7. ReferencesResolve'
    <2>1. o.content = e.content /\ o.node = e.node /\ o.type = e.type
      BY DEF Named
    <2>2. AllResolve(out, {}, e)
      BY <1>2, <1>6 DEF ReferenceInv, ContentInv
    <2> HIDE DEF o
    <2>3. AllResolve(out, {}, o)
      BY <2>1, <2>2 DEF AllResolve
    <2> QED
      BY <1>4, <2>3, ReferencesKept DEF ReferenceInv
  <1>8. \A i \in 0..(level' - 1) : AllResolve(out', Due', dirs'[i])
    <2> SUFFICES ASSUME NEW i \in 0..(top - 1) PROVE AllResolve(out', Due', dirs'[i])
      BY <1>4
    <2>1. i \in 0..(level - 1) /\ i \in 0..MaxLevels /\ top \in Nat
      BY <1>2
    <2>2. AllResolve(out, Due, dirs[i]) /\ dirs[i] \in Entries
      BY <1>2, <2>1 DEF ReferenceInv, ContentInv
    <2> DEFINE d == dirs[i]
    <2>3. CASE i = top - 1
      <3>1. e.node = Descend(d.node, e.name)
        <4>1. top \in 1..(level - 1) /\ top - 1 = i
          BY <1>2, <2>1, <2>3
        <4> QED
          BY <4>1, DirectoryOfParent
      <3>2. QueueStream(Named(e), "dirHeader")
        BY <1>4
      <3>3. dirs'[i] = WithRef(d, e.type)
        BY <1>5, <2>3
      <3> HIDE DEF e, d
      <3>4. d \in Entries /\ AllResolve(out, Due, d)
        BY <2>2 DEF d
      <3>5. AllResolve(out', Due', WithRef(d, e.type))
        BY <1>3, <1>6, <3>1, <3>2, <3>4, ObjectReferred DEF TreeInv
      <3> QED
        BY <3>3, <3>5
    <2>4. CASE i # top - 1
      <3> DEFINE due == Due'
      <3>1. dirs'[i] = d /\ AllResolve(out, {}, d)
        BY <1>5, <1>6, <2>2, <2>4
      <3>2. out' = Append(out, o) /\ IsSequence(out)
        BY <1>4 DEF QueueStream, MountInv
      <3> HIDE DEF d, o, due
      <3>3. AllResolve(Append(out, o), due, d)
        BY <3>1, <3>2, AllStillResolve
      <3> QED
        BY <3>1, <3>2, <3>3 DEF due
    <2> QED
      BY <2>3, <2>4
  <1>9. ~encoder'.used
    BY <1>1, <1>4
  <1> QED
    BY <1>7, <1>8, <1>9 DEF ReferenceInv, ContentInv

\* A block that is not an object, the data that is due in particular.
LEMMA BlockRefers ==
  ASSUME TreeInv, MountInv, ReferenceInv, NEW o, o.type \notin NamedTypes, NEW newState,
         QueueStream(o, newState), \A n \in Due : o.len = n, UNCHANGED <<level, dirs, encoder>>
  PROVE  ReferenceInv'
  <1>1. out' = Append(out, o) /\ IsSequence(out)
    BY DEF QueueStream, MountInv
  <1>2. ReferencesResolve'
    BY ReferencesKept DEF ReferenceInv
  <1>3. \A i \in 0..level : AllResolve(out, Due, dirs[i]) => AllResolve(out', Due', dirs'[i])
    <2> SUFFICES ASSUME NEW i \in 0..level, AllResolve(out, Due, dirs[i])
                 PROVE  AllResolve(out', Due', dirs'[i])
      OBVIOUS
    <2> DEFINE e   == dirs[i]
               due == Due'
               old == Due
    <2>1. dirs'[i] = e /\ AllResolve(out, old, e) /\ \A n \in old : o.len = n
      OBVIOUS
    <2> HIDE DEF e, due, old
    <2>2. AllResolve(Append(out, o), due, e)
      BY <1>1, <2>1, AllStillResolve
    <2> QED
      BY <1>1, <2>1, <2>2 DEF due
  <1>4. level \in Nat
    BY LevelsAre
  <1>5. ContentInv'
    <2>1. \A i \in 0..(level - 1) : i \in 0..level
      BY <1>4
    <2>2. level \in 0..level
      BY <1>4
    <2> QED
      BY <1>3, <2>1, <2>2 DEF ReferenceInv, ContentInv
  <1> QED
    BY <1>2, <1>5 DEF ReferenceInv

\* fillBuffers(), in each state.
LEMMA FillBuffersRefers ==
  ASSUME TreeInv, MountInv, ReferenceInv, FillBuffers
  PROVE  ReferenceInv'
  <1>1. \A type : type \in {"StartMarker", "EndMarker"} =>
          Marker(type).type \notin NamedTypes
    BY DEF Marker, NamedTypes
  <1>2. GotoEnd /\ state # "dataHeader" => ReferenceInv'
    <2> SUFFICES ASSUME GotoEnd, state # "dataHeader" PROVE ReferenceInv'
      OBVIOUS
    <2> DEFINE o == Marker("EndMarker")
    <2>1. QueueStream(o, "end") /\ o.type \notin NamedTypes /\ UNCHANGED <<level, dirs, encoder>>
      BY <1>1 DEF GotoEnd, Unmoved
    <2>2. Due = {}
      BY DEF Due
    <2> HIDE DEF o
    <2> QED
      BY <2>1, <2>2, BlockRefers
  <1>3. CASE state = "idle" /\ QueueStream(Marker("StartMarker"), "start") /\ Unmoved
    <2> DEFINE o == Marker("StartMarker")
    <2>1. QueueStream(o, "start") /\ o.type \notin NamedTypes /\ UNCHANGED <<level, dirs, encoder>>
      BY <1>1, <1>3 DEF Unmoved
    <2>2. Due = {}
      BY <1>3 DEF Due
    <2> HIDE DEF o
    <2> QED
      BY <2>1, <2>2, BlockRefers
  <1>4. CASE state = "start" /\ OpenRootDirectory
    <2>1. CASE UNCHANGED <<state, out>> /\ Unmoved
      BY <2>1, NothingQueued DEF Unmoved, Due
    <2> QED
      BY <1>2, <1>4, <2>1 DEF OpenRootDirectory
  <1>5. CASE state = "dataHeader" /\ SendDataContent
    <2> DEFINE o == Content(dataBlock)
    <2>1. /\ QueueStream(o, "dataContent") /\ o.type \notin NamedTypes
          /\ UNCHANGED <<level, dirs, encoder>>
      BY <1>5 DEF SendDataContent, Content, NamedTypes
    <2>2. \A n \in Due : o.len = n
      BY DEF Due, Content
    <2> HIDE DEF o
    <2> QED
      BY <2>1, <2>2, BlockRefers
  <1>6. CASE state = "dataContent" /\ SendDataHeader(dirs[level], encoder.blocks)
    <2> DEFINE e == dirs[level]
               b == encoder.blocks
    <2>1. level > 0 /\ encoder.used
      BY <1>6 DEF TreeInv, CallInv
    <2>2. e \in Entries
      BY LevelsAre
    <2>3. b \in Seq(Nat \ {0})
      BY DEF TreeInv, StreamInv
    <2>4. Due = {}
      BY <1>6 DEF Due
    <2>5. /\ e.type = "File" /\ e.node = Descend(dirs[level - 1].node, e.name)
          /\ AllResolve(out, {}, e)
      BY <2>1, <2>4 DEF ReferenceInv, ContentInv
    <2>6. SendDataHeader(e, b) /\ state # "dataHeader"
      BY <1>6
    <2> HIDE DEF e, b
    <2> QED
      BY <2>1, <2>2, <2>3, <2>5, <2>6, DataHeaderRefers
  <1>7. CASE (state = "fileHeader" \/ (state = "dirHeader" /\ level > 0)) /\ Continue
    BY <1>7, NothingQueued DEF Continue, Unmoved, Due
  <1>8. CASE state = "dirHeader" /\ level = 0 /\ QueueStream(Volume, "volumeHeader") /\ Unmoved
    <2> DEFINE o == Volume
    <2>1. /\ QueueStream(o, "volumeHeader") /\ o.type \notin NamedTypes
          /\ UNCHANGED <<level, dirs, encoder>>
      BY <1>8 DEF Unmoved, Volume, NamedTypes
    <2>2. Due = {}
      BY <1>8 DEF Due
    <2> HIDE DEF o
    <2> QED
      BY <2>1, <2>2, BlockRefers
  <1>9. CASE state = "volumeHeader" /\ GotoEnd
    BY <1>2, <1>9
  <1>10. CASE state = "end" /\ state' = Finished /\ UNCHANGED out /\ Unmoved
    <2>1. Due' = Due
      BY <1>10 DEF Due, Finished
    <2> QED
      BY <1>10, <2>1, NothingQueued DEF Unmoved
  <1> QED
    BY <1>3, <1>4, <1>5, <1>6, <1>7, <1>8, <1>9, <1>10 DEF FillBuffers

\* Each step of the stream.
LEMMA NextRefers ==
  ASSUME TreeInv, MountInv, ReferenceInv, [Next]_vars
  PROVE  ReferenceInv'
  <1>1. CASE Step
    BY <1>1, ReadFileEntryRefers, OpenDirectoryRefers, ReadDirectoryRefers, CloseDirectoryRefers
       DEF Step
  <1>2. CASE UNCHANGED vars \/ ReadFails \/ \E n \in 1..source : Read(n)
    <2>1. UNCHANGED <<state, level, dirs, encoder, dataBlock, out>>
      BY <1>2 DEF vars, Read, ReadFails
    <2> QED
      BY <2>1, NothingQueued DEF Due
  <1>3. CASE Reset
    <2>1. level' = 0 /\ out' = <<>> /\ ~encoder'.used
      BY <1>3 DEF Reset, NoEncoder
    <2> QED
      BY <2>1 DEF ReferenceInv, ContentInv, ReferencesResolve
  <1> QED
    BY <1>1, <1>2, <1>3, FillBuffersRefers DEF Next

\* What an object refers to has been produced before it, is of the type that the reference
\* says, and has the name by which the directory has it; and what data refers to is as long
\* as its header says.
THEOREM EveryReferenceResolves == Archivable => (Spec => []ReferencesResolve)
  <1> SUFFICES ASSUME Archivable PROVE Spec => []ReferencesResolve
    OBVIOUS
  <1>1. Init => ReferenceInv
    BY DEF Init, ReferenceInv, ContentInv, ReferencesResolve, NoEncoder
  <1>2. TreeInv /\ MountInv /\ ReferenceInv /\ [Next]_vars => ReferenceInv'
    BY NextRefers
  <1>3. ReferenceInv => ReferencesResolve
    BY DEF ReferenceInv
  <1> QED
    BY <1>1, <1>2, <1>3, TreeInvHolds, MountInvHolds, PTL DEF Spec
=============================================================================
