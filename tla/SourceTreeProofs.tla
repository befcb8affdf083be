-------------------------- MODULE SourceTreeProofs --------------------------
(***************************************************************************)
(* Lemmas about SourceTree: sequences, and where paths lead to.            *)
(***************************************************************************)
EXTENDS SourceTree, SequenceTheorems, WellFoundedInduction, TLAPS

(***************************************************************************)
(* Sequences of whatever elements.                                         *)
(***************************************************************************)
IsSequence(s) == s \in Seq({ s[i] : i \in 1..Len(s) })

\* What is in a sequence of any set is a sequence.
LEMMA SequenceIs ==
  ASSUME NEW S, NEW s \in Seq(S)
  PROVE  IsSequence(s)
  BY DEF IsSequence

\* A sequence and one element more.
LEMMA AppendIs ==
  ASSUME NEW s, NEW o, IsSequence(s)
  PROVE  /\ IsSequence(Append(s, o))
         /\ Len(s) \in Nat
         /\ Len(Append(s, o)) = Len(s) + 1
         /\ Append(s, o)[Len(s) + 1] = o
         /\ \A i \in 1..Len(s) : Append(s, o)[i] = s[i]
  <1> DEFINE S == { s[i] : i \in 1..Len(s) } \cup {o}
  <1>1. s \in Seq(S)
    BY DEF IsSequence
  <1>2. o \in S
    OBVIOUS
  <1> HIDE DEF S
  <1>3. Append(s, o) \in Seq(S)
    BY <1>1, <1>2
  <1>4. IsSequence(Append(s, o))
    BY <1>3, SequenceIs
  <1> QED
    BY <1>1, <1>2, <1>3, <1>4, AppendProperties

\* A set of numbers has a least.
LEMMA LeastExists ==
  ASSUME NEW S, S \subseteq Nat, S # {}
  PROVE  \E x \in S : \A y \in S : x <= y
  <1>1. PICK x \in S : \A y \in S : <<y, x>> \notin OpToRel(<, Nat)
    BY NatLessThanWellFounded, WFMin, Zenon
  <1>2. x \in Nat /\ \A y \in S : y \in Nat
    OBVIOUS
  <1>3. \A y \in S : ~(y < x)
    BY <1>1, <1>2, Zenon DEF OpToRel
  <1> QED
    BY <1>2, <1>3

(***************************************************************************)
(* Paths.                                                                  *)
(***************************************************************************)
\* A way along the names of p from a node, as Lookup() goes it.
IsWalk(at, from, p, n) ==
  at = [k \in 0..n |-> IF k = 0 THEN from ELSE Descend(at[k - 1], p[k])]

\* There is one as long as may be.
LEMMA WalkExists ==
  ASSUME NEW from, NEW p, NEW n \in Nat
  PROVE  \E at : IsWalk(at, from, p, n)
  <1> DEFINE T == { m \in Nat : ~\E at : IsWalk(at, from, p, m) }
  <1> SUFFICES ASSUME T # {} PROVE FALSE
    OBVIOUS
  <1>1. PICK m \in T : \A y \in T : m <= y
    <2>1. T \subseteq Nat
      OBVIOUS
    <2> HIDE DEF T
    <2> QED
      BY <2>1, LeastExists
  <1>2. m # 0
    <2> DEFINE at0 == [k \in 0..0 |-> from]
    <2>1. at0 = [k \in 0..0 |-> IF k = 0 THEN from ELSE Descend(at0[k - 1], p[k])]
      OBVIOUS
    <2>2. IsWalk(at0, from, p, 0)
      BY <2>1 DEF IsWalk
    <2> QED
      BY <2>2
  <1>3. m - 1 \in Nat /\ m - 1 \notin T
    BY <1>1, <1>2
  <1>4. PICK at : IsWalk(at, from, p, m - 1)
    BY <1>3
  <1> DEFINE next == [k \in 0..m |-> IF k = m THEN Descend(at[m - 1], p[m]) ELSE at[k]]
  <1>5. ASSUME NEW k \in 0..m
        PROVE  next[k] = IF k = 0 THEN from ELSE Descend(next[k - 1], p[k])
    <2>1. CASE k = 0
      BY <1>2, <1>3, <1>4, <2>1 DEF IsWalk
    <2>2. CASE k = m
      BY <1>2, <1>3, <2>2
    <2>3. CASE k # 0 /\ k # m
      <3>1. k \in 0..(m - 1) /\ k - 1 \in 0..(m - 1) /\ k - 1 # m /\ k - 1 \in 0..m
        BY <1>3, <2>3
      <3>2. at[k] = Descend(at[k - 1], p[k])
        BY <1>4, <2>3, <3>1 DEF IsWalk
      <3> QED
        BY <2>3, <3>1, <3>2
    <2> QED
      BY <2>1, <2>2, <2>3
  <1>6. IsWalk(next, from, p, m)
    <2>1. next = [k \in 0..m |-> next[k]]
      OBVIOUS
    <2> HIDE DEF next
    <2>2. [k \in 0..m |-> next[k]]
            = [k \in 0..m |-> IF k = 0 THEN from ELSE Descend(next[k - 1], p[k])]
      BY <1>5
    <2> QED
      BY <2>1, <2>2 DEF IsWalk
  <1> QED
    BY <1>1, <1>6

\* The ways along a path and along what is longer lead to the same nodes.
LEMMA WalksAgree ==
  ASSUME NEW from, NEW p, NEW q, NEW f, NEW g,
         Len(p) \in Nat, Len(q) \in Nat, Len(p) <= Len(q),
         \A i \in 1..Len(p) : q[i] = p[i],
         IsWalk(f, from, p, Len(p)), IsWalk(g, from, q, Len(q))
  PROVE  f[Len(p)] = g[Len(p)]
  <1> DEFINE T == { k \in 0..Len(p) : f[k] # g[k] }
  <1> SUFFICES ASSUME T # {} PROVE FALSE
    OBVIOUS
  <1>1. PICK k \in T : \A y \in T : k <= y
    <2>1. T \subseteq Nat
      OBVIOUS
    <2> HIDE DEF T
    <2> QED
      BY <2>1, LeastExists
  <1>2. k # 0
    BY <1>1 DEF IsWalk
  <1>3. k - 1 \in 0..Len(p) /\ k - 1 \notin T
    BY <1>1, <1>2
  <1>4. f[k] = Descend(f[k - 1], p[k]) /\ g[k] = Descend(g[k - 1], q[k])
    BY <1>1, <1>2, <1>3 DEF IsWalk
  <1> QED
    BY <1>1, <1>2, <1>3, <1>4

\* What a path leads to is where the way along it ends.
LEMMA LookupIs ==
  ASSUME NEW from, NEW p, Len(p) \in Nat
  PROVE  \E at : IsWalk(at, from, p, Len(p)) /\ Lookup(from, p) = at[Len(p)]
  <1>1. \E at : IsWalk(at, from, p, Len(p))
    BY WalkExists
  <1> QED
    BY <1>1 DEF Lookup, IsWalk

\* A path that is longer by a name leads to what its directory has by that name.
LEMMA LookupStep ==
  ASSUME NEW from, NEW p, NEW q, Len(p) \in Nat, Len(q) = Len(p) + 1,
         \A i \in 1..Len(p) : q[i] = p[i]
  PROVE  Lookup(from, q) = Descend(Lookup(from, p), q[Len(q)])
  <1>1. PICK f : IsWalk(f, from, p, Len(p)) /\ Lookup(from, p) = f[Len(p)]
    BY LookupIs
  <1>2. PICK g : IsWalk(g, from, q, Len(q)) /\ Lookup(from, q) = g[Len(q)]
    BY LookupIs
  <1>3. f[Len(p)] = g[Len(p)]
    BY <1>1, <1>2, WalksAgree
  <1>4. g[Len(q)] = Descend(g[Len(p)], q[Len(q)])
    BY <1>2 DEF IsWalk
  <1> QED
    BY <1>1, <1>2, <1>3, <1>4

\* Paths of the same names lead to the same node.
LEMMA LookupSame ==
  ASSUME NEW from, NEW p, NEW q, Len(p) \in Nat, Len(q) = Len(p),
         \A i \in 1..Len(p) : q[i] = p[i]
  PROVE  Lookup(from, q) = Lookup(from, p)
  <1>1. PICK f : IsWalk(f, from, p, Len(p)) /\ Lookup(from, p) = f[Len(p)]
    BY LookupIs
  <1>2. PICK g : IsWalk(g, from, q, Len(q)) /\ Lookup(from, q) = g[Len(q)]
    BY LookupIs
  <1>3. f[Len(p)] = g[Len(p)]
    BY <1>1, <1>2, WalksAgree
  <1> QED
    BY <1>1, <1>2, <1>3

\* A directory has each name once.
DistinctNames ==
  \A n \in Nodes : \A j, k \in DOMAIN Kids[n] : Kids[n][j].name = Kids[n][k].name => j = k

\* What a directory has by a name is a node, or nothing.
LEMMA DescendType ==
  ASSUME NEW n \in Nodes \cup {Absent}, NEW name
  PROVE  Descend(n, name) \in Nodes \cup {Absent}
  <1>1. CASE n = Absent \/ KidsNamed(n, name) = {}
    BY <1>1 DEF Descend
  <1>2. CASE n \in Nodes /\ n # Absent /\ KidsNamed(n, name) # {}
    <2> DEFINE T == KidsNamed(n, name)
    <2>1. Kids[n] \in Seq(Kid)
      BY <1>2, SourceAssumption
    <2>2. T \subseteq 1..Len(Kids[n]) /\ T \subseteq Nat
      <3>1. DOMAIN Kids[n] = 1..Len(Kids[n]) /\ 1..Len(Kids[n]) \subseteq Nat
        BY <2>1
      <3>2. T \subseteq DOMAIN Kids[n]
        BY DEF KidsNamed
      <3> HIDE DEF T
      <3> QED
        BY <3>1, <3>2
    <2>3. T # {}
      BY <1>2
    <2> HIDE DEF T
    <2> DEFINE c == CHOOSE k \in T : \A j \in T : k <= j
    <2>4. c \in T
      BY <2>2, <2>3, LeastExists
    <2>5. Descend(n, name) = Kids[n][c].node
      BY <1>2 DEF Descend, T
    <2> HIDE DEF c
    <2>6. Kids[n][c] \in Kid
      BY <2>1, <2>2, <2>4, ElementOfSeq
    <2>7. Kids[n][c].node \in Nodes
      BY <2>6 DEF Kid
    <2> QED
      BY <2>5, <2>7
  <1> QED
    BY <1>1, <1>2

\* It is the entry with that name, if each name is there once.
LEMMA DescendIs ==
  ASSUME NEW n \in Nodes, NEW k \in DOMAIN Kids[n], DistinctNames
  PROVE  Descend(n, Kids[n][k].name) = Kids[n][k].node
  <1> DEFINE T == KidsNamed(n, Kids[n][k].name)
  <1>1. Kids[n] \in Seq(Kid) /\ n # Absent
    BY SourceAssumption
  <1>2. T = {k}
    BY DEF KidsNamed, DistinctNames
  <1>3. k \in Nat
    BY <1>1
  <1>4. (CHOOSE i \in T : \A j \in T : i <= j) = k
    <2> HIDE DEF T
    <2> QED
      BY <1>2, <1>3
  <1>5. Descend(n, Kids[n][k].name) = Kids[n][CHOOSE i \in T : \A j \in T : i <= j].node
    BY <1>1, <1>2 DEF Descend
  <1> HIDE DEF T
  <1> QED
    BY <1>4, <1>5

\* A path leads to a node, or to nothing.
LEMMA LookupType ==
  ASSUME NEW from \in Nodes \cup {Absent}, NEW p, Len(p) \in Nat
  PROVE  Lookup(from, p) \in Nodes \cup {Absent}
  <1>1. PICK at : IsWalk(at, from, p, Len(p)) /\ Lookup(from, p) = at[Len(p)]
    BY LookupIs
  <1> DEFINE T == { k \in 0..Len(p) : at[k] \notin Nodes \cup {Absent} }
  <1> SUFFICES ASSUME T # {} PROVE FALSE
    BY <1>1
  <1>2. PICK k \in T : \A y \in T : k <= y
    <2>1. T \subseteq Nat
      OBVIOUS
    <2> HIDE DEF T
    <2> QED
      BY <2>1, LeastExists
  <1>3. k # 0
    BY <1>1, <1>2 DEF IsWalk
  <1>4. k - 1 \in 0..Len(p) /\ k - 1 \notin T
    BY <1>2, <1>3
  <1>5. at[k - 1] \in Nodes \cup {Absent}
    BY <1>4
  <1>6. at[k] = Descend(at[k - 1], p[k])
    BY <1>1, <1>2, <1>3, <1>4 DEF IsWalk
  <1>7. at[k] \in Nodes \cup {Absent}
    BY <1>5, <1>6, DescendType
  <1> QED
    BY <1>2, <1>7

\* Nothing is below nothing.
LEMMA LookupPrefix ==
  ASSUME NEW from, NEW p, NEW q, Len(p) \in Nat, Len(q) \in Nat, Len(p) <= Len(q),
         \A i \in 1..Len(p) : q[i] = p[i], Lookup(from, q) # Absent
  PROVE  Lookup(from, p) # Absent
  <1>1. PICK f : IsWalk(f, from, p, Len(p)) /\ Lookup(from, p) = f[Len(p)]
    BY LookupIs
  <1>2. PICK g : IsWalk(g, from, q, Len(q)) /\ Lookup(from, q) = g[Len(q)]
    BY LookupIs
  <1>3. f[Len(p)] = g[Len(p)]
    BY <1>1, <1>2, WalksAgree
  <1> SUFFICES ASSUME g[Len(p)] = Absent PROVE FALSE
    BY <1>1, <1>3
  <1> DEFINE T == { k \in Len(p)..Len(q) : g[k] # Absent }
  <1>4. PICK k \in T : \A y \in T : k <= y
    <2>1. T \subseteq Nat /\ Len(q) \in T
      BY <1>2
    <2> HIDE DEF T
    <2> QED
      BY <2>1, LeastExists
  <1>5. k # Len(p)
    BY <1>4
  <1>6. k - 1 \in Len(p)..Len(q) /\ k - 1 \notin T /\ k \in 0..Len(q) /\ k # 0
    BY <1>4, <1>5
  <1>7. g[k] = Descend(g[k - 1], q[k])
    BY <1>2, <1>6 DEF IsWalk
  <1>8. g[k] = Absent
    BY <1>6, <1>7 DEF Descend
  <1> QED
    BY <1>4, <1>8

\* What a directory has by a name is one of its entries.
LEMMA DescendEntry ==
  ASSUME NEW n \in Nodes, NEW name, Descend(n, name) # Absent
  PROVE  \E k \in 1..Len(Kids[n]) : Kids[n][k].name = name /\ Kids[n][k].node = Descend(n, name)
  <1> DEFINE T == KidsNamed(n, name)
             c == CHOOSE k \in T : \A j \in T : k <= j
  <1>1. Kids[n] \in Seq(Kid)
    BY SourceAssumption
  <1>2. T \subseteq 1..Len(Kids[n]) /\ T \subseteq Nat /\ T # {}
    <2>1. DOMAIN Kids[n] = 1..Len(Kids[n]) /\ 1..Len(Kids[n]) \subseteq Nat
      BY <1>1
    <2>2. T \subseteq DOMAIN Kids[n]
      BY DEF KidsNamed
    <2>3. T # {}
      BY DEF Descend
    <2> HIDE DEF T
    <2> QED
      BY <2>1, <2>2, <2>3
  <1>3. c \in T
    <2> HIDE DEF T
    <2> QED
      BY <1>2, LeastExists
  <1>4. Descend(n, name) = Kids[n][c].node
    BY <1>2 DEF Descend
  <1> HIDE DEF c
  <1>5. Kids[n][c].name = name
    BY <1>3 DEF KidsNamed
  <1> QED
    BY <1>2, <1>3, <1>4, <1>5
=============================================================================
