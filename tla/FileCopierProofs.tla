-------------------------- MODULE FileCopierProofs --------------------------
(***************************************************************************)
(* Proofs about FileCopier, for every tree, whatever fails and whatever    *)
(* the error handler says.                                                 *)
(***************************************************************************)
EXTENDS FileCopier, SourceTreeProofs, FiniteSetTheorems, SequenceTheorems, TLAPS

(***************************************************************************)
(* Sequences.                                                              *)
(***************************************************************************)
\* Taking off what was appended.
LEMMA FrontOfAppend ==
  ASSUME NEW S, NEW s \in Seq(S), NEW e \in S
  PROVE  Front(Append(s, e)) = s
  <1>1. Len(Append(s, e)) - 1 = Len(s)
    OBVIOUS
  <1>2. SubSeq(Append(s, e), 1, Len(s)) = s
    OBVIOUS
  <1> QED
    BY <1>1, <1>2 DEF Front

\* Taking off the last element.
LEMMA FrontType ==
  ASSUME NEW S, NEW s \in Seq(S), s # <<>>
  PROVE  /\ Front(s) \in Seq(S)
         /\ Len(Front(s)) = Len(s) - 1
         /\ \A i \in 1..Len(Front(s)) : Front(s)[i] = s[i]
  <1> DEFINE n == Len(s) - 1
  <1>1. n \in Nat /\ \A i \in 1..n : s[i] \in S
    OBVIOUS
  <1>2. /\ SubSeq(s, 1, n) \in Seq(S)
        /\ Len(SubSeq(s, 1, n)) = IF 1 <= n THEN n - 1 + 1 ELSE 0
        /\ \A i \in 1..(n - 1 + 1) : SubSeq(s, 1, n)[i] = s[1 + i - 1]
    <2> HIDE DEF n
    <2> QED
      BY <1>1, SubSeqProperties
  <1> HIDE DEF n
  <1>3. Len(SubSeq(s, 1, n)) = n
    <2>1. CASE 1 <= n
      BY <1>1, <1>2, <2>1
    <2>2. CASE ~(1 <= n)
      BY <1>1, <1>2, <2>2
    <2> QED
      BY <2>1, <2>2
  <1>4. \A i \in 1..n : SubSeq(s, 1, n)[i] = s[i]
    <2> SUFFICES ASSUME NEW i \in 1..n PROVE SubSeq(s, 1, n)[i] = s[i]
      OBVIOUS
    <2>1. i \in 1..(n - 1 + 1) /\ 1 + i - 1 = i
      BY <1>1
    <2> QED
      BY <1>2, <2>1
  <1>5. Front(s) = SubSeq(s, 1, n)
    BY DEF Front, n
  <1>6. Len(Front(s)) = n /\ Front(s) \in Seq(S)
    BY <1>2, <1>3, <1>5
  <1>7. \A i \in 1..Len(Front(s)) : Front(s)[i] = s[i]
    BY <1>4, <1>5, <1>6
  <1> QED
    BY <1>6, <1>7 DEF n

\* The last element of a sequence.
LEMMA LastIndex ==
  ASSUME NEW S, NEW s \in Seq(S), s # <<>>
  PROVE  Len(s) \in 1..Len(s) /\ s[Len(s)] \in S
  OBVIOUS

\* A sequence that begins another has its elements.
LEMMA PrefixIs ==
  ASSUME NEW S, NEW p \in Seq(S), NEW q \in Seq(S)
  PROVE  IsPrefix(p, q) <=> Len(p) <= Len(q) /\ \A i \in 1..Len(p) : q[i] = p[i]
  <1> DEFINE n == Len(p)
  <1>1. n \in Nat /\ Len(q) \in Nat
    OBVIOUS
  <1>2. ASSUME NEW s \in Seq(S), n <= Len(s)
        PROVE  /\ SubSeq(s, 1, n) \in Seq(S) /\ Len(SubSeq(s, 1, n)) = n
               /\ \A i \in 1..n : SubSeq(s, 1, n)[i] = s[i]
    <2>1. Len(s) \in Nat /\ \A i \in 1..n : s[i] \in S
      BY <1>1, <1>2
    <2>2. /\ SubSeq(s, 1, n) \in Seq(S)
          /\ Len(SubSeq(s, 1, n)) = IF 1 <= n THEN n - 1 + 1 ELSE 0
          /\ \A i \in 1..(n - 1 + 1) : SubSeq(s, 1, n)[i] = s[1 + i - 1]
      <3> HIDE DEF n
      <3> QED
        BY <1>1, <2>1, SubSeqProperties
    <2> HIDE DEF n
    <2>3. Len(SubSeq(s, 1, n)) = n
      BY <1>1, <2>2
    <2>4. \A i \in 1..n : i \in 1..(n - 1 + 1) /\ 1 + i - 1 = i
      BY <1>1
    <2> QED
      BY <2>2, <2>3, <2>4
  <1>3. ASSUME n <= Len(q)
        PROVE  SubSeq(p, 1, n) = SubSeq(q, 1, n) <=> \A i \in 1..n : q[i] = p[i]
    <2> DEFINE x == SubSeq(p, 1, n)
               y == SubSeq(q, 1, n)
    <2>1. /\ x \in Seq(S) /\ Len(x) = n /\ \A i \in 1..n : x[i] = p[i]
          /\ y \in Seq(S) /\ Len(y) = n /\ \A i \in 1..n : y[i] = q[i]
      <3>1. n <= Len(p)
        BY <1>1
      <3> QED
        BY <1>2, <1>3, <3>1
    <2> HIDE DEF x, y
    <2>2. (\A i \in 1..n : x[i] = y[i]) => x = y
      BY <2>1, SeqEqual
    <2>3. x = y <=> \A i \in 1..n : q[i] = p[i]
      BY <2>1, <2>2
    <2> QED
      BY <2>3 DEF x, y
  <1> QED
    BY <1>3 DEF IsPrefix

\* What two sequences begin with.
LEMMA SameBeginning ==
  ASSUME NEW S, NEW p \in Seq(S), NEW q \in Seq(S), NEW k \in Nat,
         k <= Len(p), k <= Len(q), \A i \in 1..k : q[i] = p[i]
  PROVE  SubSeq(q, 1, k) = SubSeq(p, 1, k)
  <1>1. ASSUME NEW s \in Seq(S), k <= Len(s)
        PROVE  /\ SubSeq(s, 1, k) \in Seq(S) /\ Len(SubSeq(s, 1, k)) = k
               /\ \A i \in 1..k : SubSeq(s, 1, k)[i] = s[i]
    <2>1. Len(s) \in Nat /\ \A i \in 1..k : s[i] \in S
      BY <1>1
    <2>2. /\ SubSeq(s, 1, k) \in Seq(S)
          /\ Len(SubSeq(s, 1, k)) = IF 1 <= k THEN k - 1 + 1 ELSE 0
          /\ \A i \in 1..(k - 1 + 1) : SubSeq(s, 1, k)[i] = s[1 + i - 1]
      BY <2>1, SubSeqProperties
    <2>3. \A i \in 1..k : i \in 1..(k - 1 + 1) /\ 1 + i - 1 = i
      OBVIOUS
    <2> QED
      BY <2>2, <2>3
  <1> DEFINE x == SubSeq(p, 1, k)
             y == SubSeq(q, 1, k)
  <1>2. /\ x \in Seq(S) /\ Len(x) = k /\ \A i \in 1..k : x[i] = p[i]
        /\ y \in Seq(S) /\ Len(y) = k /\ \A i \in 1..k : y[i] = q[i]
    BY <1>1
  <1> HIDE DEF x, y
  <1>3. x = y
    BY <1>2, SeqEqual
  <1> QED
    BY <1>3 DEF x, y

\* Sequences that end the same way.
LEMMA AppendsEqual ==
  ASSUME NEW S, NEW p \in Seq(S), NEW q \in Seq(S), NEW x \in S, NEW y \in S,
         Append(p, x) = Append(q, y)
  PROVE  p = q /\ x = y
  <1>1. Front(Append(p, x)) = p /\ Front(Append(q, y)) = q
    BY FrontOfAppend
  <1>2. /\ Append(p, x)[Len(p) + 1] = x /\ Append(q, y)[Len(q) + 1] = y
    BY AppendProperties
  <1> QED
    BY <1>1, <1>2

\* A path that is not empty is one of its directory, and a name.
LEMMA PathParts ==
  ASSUME NEW p \in Seq(Names), Len(p) > 0
  PROVE  \E f \in Seq(Names), name \in Names : p = Append(f, name) /\ Len(p) = Len(f) + 1
  <1>1. /\ Front(p) \in Seq(Names) /\ Len(Front(p)) = Len(p) - 1
        /\ \A i \in 1..Len(Front(p)) : Front(p)[i] = p[i]
    BY FrontType
  <1>2. Last(p) \in Names /\ Last(p) = p[Len(p)] /\ Len(p) \in Nat
    BY DEF Last
  <1>3. p = Append(Front(p), Last(p))
    <2> DEFINE q == Append(Front(p), Last(p))
    <2>1. /\ q \in Seq(Names) /\ Len(q) = Len(p)
          /\ q[Len(p)] = Last(p)
          /\ \A i \in 1..Len(Front(p)) : q[i] = Front(p)[i]
      BY <1>1, <1>2, AppendProperties
    <2>2. \A i \in 1..Len(p) : q[i] = p[i]
      <3> HIDE DEF q
      <3> QED
        BY <1>1, <1>2, <2>1
    <2> HIDE DEF q
    <2>3. p = q
      BY <2>1, <2>2, SeqEqual
    <2> QED
      BY <2>3 DEF q
  <1> QED
    BY <1>1, <1>2, <1>3

-----------------------------------------------------------------------------
(***************************************************************************)
(* Type correctness.                                                       *)
(***************************************************************************)
\* The frame of the current directory is replaced.
LEMMA UpdateStack ==
  ASSUME StackOK, stack # <<>>, NEW f \in Frames, Update(f),
         f.path = Current.path,
         f.phase # "opendir" => Node(f.path) \in Nodes
  PROVE  StackOK' /\ stack' # <<>>
  <1>1. /\ stack' \in Seq(Frames)
        /\ Len(stack') = Len(stack)
        /\ \A i \in 1..Len(stack) : stack'[i] = IF i = Len(stack) THEN f ELSE stack[i]
    BY DEF StackOK, Update
  <1>2. \A i \in 1..Len(stack) : stack'[i].path = stack[i].path
    BY <1>1 DEF Current
  <1>3. Len(stack) \in Nat
    BY DEF StackOK
  <1>4. ASSUME NEW i \in 1..Len(stack'), stack'[i].phase # "opendir"
        PROVE  Node(stack'[i].path) \in Nodes
    BY <1>1, <1>4 DEF StackOK
  <1>5. ASSUME NEW i \in 2..Len(stack')
        PROVE  Front(stack'[i].path) = stack'[i - 1].path
    <2>1. i \in 1..Len(stack) /\ i - 1 \in 1..Len(stack)
      BY <1>1, <1>3
    <2> QED
      BY <1>1, <1>2, <2>1 DEF StackOK
  <1>6. stack' # <<>>
    BY <1>1 DEF StackOK
  <1> QED
    BY <1>1, <1>4, <1>5, <1>6 DEF StackOK, Node

\* While there is a job or a stack, the call is in progress.
LEMMA InProgress ==
  ASSUME ResultOK, job # NoJob \/ stack # <<>>
  PROVE  result = "running"
  BY DEF ResultOK

\* What is known of a job.
LEMMA JobType ==
  ASSUME TypeOK, NEW phase, job.phase = phase, phase # "none"
  PROVE  /\ job \in Jobs
         /\ job # NoJob
         /\ result = "running"
         /\ job.path \in Seq(Names)
         /\ job.target \in Seq(Names)
         /\ job.next \in Nat \ {0}
         /\ job.isFile \in BOOLEAN
  <1>1. job # NoJob
    BY DEF NoJob
  <1>2. job \in Jobs
    BY <1>1 DEF TypeOK, JobOK
  <1> QED
    BY <1>1, <1>2, InProgress DEF TypeOK, Jobs

\* A job that has ended leaves nothing to be known.
LEMMA NoJobOK ==
  ASSUME job' = NoJob
  PROVE  JobOK'
  BY DEF JobOK, NoJob

\* The state in which a job's caller goes on.
LEMMA SucceedOK ==
  ASSUME TypeOK, result = "running", Succeed
  PROVE  StackOK' /\ JobOK' /\ ResultOK'
  <1>1. JobOK'
    BY NoJobOK DEF Succeed
  <1>2. StackOK'
    BY DEF Succeed, TypeOK, StackOK, Node
  <1>3. ResultOK'
    BY DEF Succeed, TypeOK, ResultOK
  <1> QED
    BY <1>1, <1>2, <1>3

\* The state in which every caller has returned false.
LEMMA StopOK ==
  ASSUME Stop
  PROVE  StackOK' /\ JobOK' /\ ResultOK'
  <1>1. JobOK'
    BY NoJobOK DEF Stop
  <1>2. stack' = <<>>
    BY DEF Stop
  <1>3. stack' \in Seq(Frames) /\ Len(stack') = 0
    BY <1>2
  <1>4. StackOK'
    BY <1>3 DEF StackOK
  <1>5. ResultOK'
    BY DEF Stop, ResultOK
  <1> QED
    BY <1>1, <1>4, <1>5

\* What the handler has been told of.
LEMMA TellOK ==
  ASSUME TypeOK, NEW operation \in Operations, NEW path \in Seq(Names), NEW goOn,
         Tell(operation, path, goOn), UNCHANGED <<dst, dstAttr, asked, silent>>
  PROVE  StoreOK' /\ HistoryOK'
  <1>1. StoreOK'
    BY DEF TypeOK, StoreOK
  <1>2. HistoryOK'
    BY DEF TypeOK, HistoryOK, Tell
  <1> QED
    BY <1>1, <1>2

\* A job that ends with an error.
LEMMA FailOK ==
  ASSUME TypeOK, result = "running", NEW operation \in Operations,
         NEW path \in Seq(Names), Fail(operation, path)
  PROVE  TypeOK'
  <1>1. PICK goOn \in Answers :
           Tell(operation, path, goOn) /\ (IF goOn THEN Succeed ELSE Stop)
    BY DEF Fail
  <1>2. StoreOK' /\ HistoryOK'
    BY <1>1, TellOK DEF Fail
  <1>3. StackOK' /\ JobOK' /\ ResultOK'
    <2>1. CASE goOn
      BY <1>1, <2>1, SucceedOK
    <2>2. CASE ~goOn
      BY <1>1, <2>2, StopOK
    <2> QED
      BY <2>1, <2>2
  <1> QED
    BY <1>2, <1>3 DEF TypeOK

\* A job that goes on.
LEMMA ProceedOK ==
  ASSUME TypeOK, result = "running", NEW j \in Jobs, Proceed(j),
         DOMAIN dst \subseteq DOMAIN dst',
         j.phase \in {"target", "create", "data", "attributes"} => Node(j.path) \in Nodes,
         j.phase \in {"data", "attributes"} => j.target \in DOMAIN dst'
  PROVE  StackOK' /\ JobOK' /\ ResultOK'
  <1>1. JobOK'
    BY DEF Proceed, JobOK, Node, Exists
  <1>2. StackOK'
    BY DEF Proceed, TypeOK, StackOK, Node
  <1>3. ResultOK'
    BY DEF Proceed, TypeOK, ResultOK
  <1> QED
    BY <1>1, <1>2, <1>3

\* A step that tells nobody of anything.
LEMMA QuietOK ==
  ASSUME TypeOK, Quiet
  PROVE  HistoryOK'
  BY DEF TypeOK, HistoryOK, Quiet

\* A file or directory is stored.
LEMMA StoreType ==
  ASSUME StoreOK, NEW path \in Seq(Names), NEW item \in Item, dst' = Store(path, item)
  PROVE  /\ StoreOK'
         /\ DOMAIN dst \subseteq DOMAIN dst'
         /\ path \in DOMAIN dst'
  BY DEF StoreOK, Store

-----------------------------------------------------------------------------
(***************************************************************************)
(* The steps of a job.                                                     *)
(***************************************************************************)
\* Opening the source of a job.
LEMMA OpenSourceType == TypeOK /\ OpenSource => TypeOK'
  <1> SUFFICES ASSUME TypeOK, OpenSource PROVE TypeOK'
    OBVIOUS
  <1>1. job \in Jobs /\ result = "running" /\ job.path \in Seq(Names)
    BY JobType DEF OpenSource
  <1>2. CASE Fail("open", job.path)
    BY <1>1, <1>2, FailOK DEF Operations
  <1>3. CASE /\ Node(job.path) \in Nodes
             /\ Proceed([job EXCEPT !.phase = IF job.isFile THEN "create" ELSE "target"])
             /\ UNCHANGED dst
             /\ Quiet
    <2> DEFINE j == [job EXCEPT !.phase = IF job.isFile THEN "create" ELSE "target"]
    <2>1. /\ j \in Jobs
          /\ j.phase \in {"create", "target"}
          /\ j.path = job.path
      BY <1>1 DEF Jobs
    <2>2. Proceed(j) /\ DOMAIN dst \subseteq DOMAIN dst'
      BY <1>3
    <2> HIDE DEF j
    <2>3. StackOK' /\ JobOK' /\ ResultOK'
      BY <1>1, <1>3, <2>1, <2>2, ProceedOK
    <2> QED
      BY <1>3, <2>3, QuietOK DEF TypeOK, StoreOK
  <1> QED
    BY <1>2, <1>3 DEF OpenSource

\* Opening the target whose attributes are to be set.
LEMMA OpenTargetType == TypeOK /\ OpenTarget => TypeOK'
  <1> SUFFICES ASSUME TypeOK, OpenTarget PROVE TypeOK'
    OBVIOUS
  <1>1. /\ job \in Jobs /\ result = "running" /\ job.target \in Seq(Names)
        /\ Node(job.path) \in Nodes
    BY JobType DEF OpenTarget, TypeOK, JobOK
  <1>2. CASE Fail("open", job.target)
    BY <1>1, <1>2, FailOK DEF Operations
  <1>3. CASE /\ job.target \in DOMAIN dst
             /\ Proceed([job EXCEPT !.phase = "attributes"])
             /\ UNCHANGED dst
             /\ Quiet
    <2> DEFINE j == [job EXCEPT !.phase = "attributes"]
    <2>1. j \in Jobs /\ j.path = job.path /\ j.target = job.target
      BY <1>1 DEF Jobs
    <2>2. Proceed(j) /\ DOMAIN dst \subseteq DOMAIN dst' /\ j.target \in DOMAIN dst'
      BY <1>3, <2>1
    <2> HIDE DEF j
    <2>3. StackOK' /\ JobOK' /\ ResultOK'
      BY <1>1, <2>1, <2>2, ProceedOK
    <2> QED
      BY <1>3, <2>3, QuietOK DEF TypeOK, StoreOK
  <1> QED
    BY <1>2, <1>3 DEF OpenTarget

\* Creating the target file.
LEMMA CreateTargetType == TypeOK /\ CreateTarget => TypeOK'
  <1> SUFFICES ASSUME TypeOK, CreateTarget PROVE TypeOK'
    OBVIOUS
  <1>1. /\ job \in Jobs /\ result = "running" /\ job.target \in Seq(Names)
        /\ Node(job.path) \in Nodes
    BY JobType DEF CreateTarget, TypeOK, JobOK
  <1>2. CASE Fail("create", job.target)
    BY <1>1, <1>2, FailOK DEF Operations
  <1>3. CASE /\ dst' = Store(job.target, NewFile(job.target))
             /\ Proceed([job EXCEPT !.phase = "data"])
             /\ Quiet
    <2> DEFINE j == [job EXCEPT !.phase = "data"]
    <2>1. j \in Jobs /\ j.path = job.path /\ j.target = job.target
      BY <1>1 DEF Jobs
    <2>2. NewFile(job.target) \in Item
      BY DEF NewFile, Exists, Item, TypeOK, StoreOK
    <2>3. StoreOK' /\ DOMAIN dst \subseteq DOMAIN dst' /\ job.target \in DOMAIN dst'
      BY <1>1, <1>3, <2>2, StoreType DEF TypeOK
    <2>4. Proceed(j)
      BY <1>3
    <2> HIDE DEF j
    <2>5. StackOK' /\ JobOK' /\ ResultOK'
      BY <1>1, <2>1, <2>3, <2>4, ProceedOK
    <2> QED
      BY <1>3, <2>3, <2>5, QuietOK DEF TypeOK
  <1> QED
    BY <1>2, <1>3 DEF CreateTarget

\* Copying a block of data.
LEMMA CopyBlockType == TypeOK /\ CopyBlock => TypeOK'
  <1> SUFFICES ASSUME TypeOK, CopyBlock PROVE TypeOK'
    OBVIOUS
  <1>1. /\ job \in Jobs /\ result = "running" /\ job.path \in Seq(Names)
        /\ job.target \in Seq(Names)
        /\ Node(job.path) \in Nodes /\ job.target \in DOMAIN dst
    BY JobType DEF CopyBlock, TypeOK, JobOK, Exists
  <1> DEFINE more == [job EXCEPT !.next = @ + 1]
             last == [job EXCEPT !.phase = "attributes", !.next = 1]
  <1>2. /\ more \in Jobs /\ more.path = job.path /\ more.target = job.target
        /\ last \in Jobs /\ last.path = job.path /\ last.target = job.target
    <2>1. job.next \in Nat \ {0} /\ job.next + 1 \in Nat \ {0}
      BY <1>1 DEF Jobs
    <2>2. more \in Jobs /\ more.path = job.path /\ more.target = job.target
      BY <1>1, <2>1 DEF Jobs
    <2>3. last \in Jobs /\ last.path = job.path /\ last.target = job.target
      <3> DEFINE j == [job EXCEPT !.phase = "attributes"]
      <3>1. j \in Jobs /\ j.path = job.path /\ j.target = job.target
        BY <1>1 DEF Jobs
      <3>2. last = [j EXCEPT !.next = 1]
        OBVIOUS
      <3> HIDE DEF j, last
      <3> QED
        BY <3>1, <3>2 DEF Jobs
    <2> QED
      BY <2>2, <2>3
  <1>3. ASSUME NEW j \in {more, last}, Proceed(j), DOMAIN dst \subseteq DOMAIN dst'
        PROVE  StackOK' /\ JobOK' /\ ResultOK'
    <2>1. j \in Jobs /\ j.path = job.path /\ j.target = job.target
      BY <1>2
    <2> HIDE DEF more, last
    <2> QED
      BY <1>1, <1>3, <2>1, ProceedOK
  <1>4. CASE Fail("read", job.path)
    BY <1>1, <1>4, FailOK DEF Operations
  <1>5. CASE Fail("write", job.target)
    BY <1>1, <1>5, FailOK DEF Operations
  <1>6. CASE dst' = [dst EXCEPT ![job.target].size = @ + 1] /\ Proceed(more) /\ Quiet
    <2> DEFINE item == [dst[job.target] EXCEPT !.size = @ + 1]
    <2>1. dst \in [DOMAIN dst -> Item] /\ dst[job.target] \in Item
      BY <1>1 DEF TypeOK, StoreOK
    <2>2. item \in Item
      BY <2>1 DEF Item
    <2>3. dst' = [dst EXCEPT ![job.target] = item]
      BY <1>6
    <2> HIDE DEF item
    <2>4. StoreOK' /\ DOMAIN dst \subseteq DOMAIN dst'
      BY <2>1, <2>2, <2>3 DEF TypeOK, StoreOK
    <2> QED
      BY <1>3, <1>6, <2>4, QuietOK DEF TypeOK
  <1>7. CASE Proceed(more) /\ UNCHANGED <<dst, dstAttr, asked, told, declined>>
    <2>1. StoreOK' /\ HistoryOK' /\ DOMAIN dst \subseteq DOMAIN dst'
      BY <1>7 DEF TypeOK, StoreOK, HistoryOK
    <2> QED
      BY <1>3, <1>7, <2>1 DEF TypeOK
  <1>8. CASE Proceed(last) /\ UNCHANGED dst /\ Quiet
    <2>1. StoreOK' /\ DOMAIN dst \subseteq DOMAIN dst'
      BY <1>8 DEF TypeOK, StoreOK
    <2> QED
      BY <1>3, <1>8, <2>1, QuietOK DEF TypeOK
  <1> QED
    BY <1>4, <1>5, <1>6, <1>7, <1>8 DEF CopyBlock

\* Copying an attribute.
LEMMA CopyAttributeType == TypeOK /\ CopyAttribute => TypeOK'
  <1> SUFFICES ASSUME TypeOK, CopyAttribute PROVE TypeOK'
    OBVIOUS
  <1> DEFINE attrs == Attrs[Node(job.path)]
             more  == [job EXCEPT !.next = @ + 1]
  <1>1. /\ job \in Jobs /\ result = "running" /\ job.path \in Seq(Names)
        /\ job.target \in Seq(Names) /\ job.phase = "attributes"
        /\ Node(job.path) \in Nodes /\ job.target \in DOMAIN dst
        /\ job.next \in Nat \ {0}
    BY JobType DEF CopyAttribute, TypeOK, JobOK, Exists
  <1>2. attrs \in Seq(Tags) /\ Len(attrs) \in Nat
    BY <1>1, CopierAssumption
  <1>3. ASSUME NEW n \in Nat \ {0}, Proceed([job EXCEPT !.next = n]),
               DOMAIN dst \subseteq DOMAIN dst'
        PROVE  StackOK' /\ JobOK' /\ ResultOK'
    <2> DEFINE j == [job EXCEPT !.next = n]
    <2>1. j \in Jobs /\ j.path = job.path /\ j.target = job.target
      BY <1>1 DEF Jobs
    <2>2. Proceed(j)
      BY <1>3
    <2> HIDE DEF j
    <2> QED
      BY <1>1, <1>3, <2>1, <2>2, ProceedOK
  <1>4. CASE Fail("enumattr", job.path)
    BY <1>1, <1>4, FailOK DEF Operations
  <1>5. CASE /\ job.next <= Len(attrs)
             /\ dst' = [dst EXCEPT ![job.target].attrs = @ \cup {attrs[job.next]}]
             /\ Proceed(more)
             /\ Quiet
    <2>1. attrs[job.next] \in Tags
      BY <1>1, <1>2, <1>5
    <2> HIDE DEF attrs
    <2>2. StoreOK' /\ DOMAIN dst \subseteq DOMAIN dst'
      BY <1>1, <1>5, <2>1 DEF TypeOK, StoreOK, Item
    <2>3. job.next + 1 \in Nat \ {0}
      BY <1>1
    <2>4. StackOK' /\ JobOK' /\ ResultOK'
      BY <1>3, <1>5, <2>2, <2>3
    <2> QED
      BY <1>5, <2>2, <2>4, QuietOK DEF TypeOK
  <1>6. CASE /\ \E goOn \in Answers :
                  /\ Tell("setattr", job.target, goOn)
                  /\ Proceed(AfterRefused(goOn))
             /\ UNCHANGED <<dst, dstAttr, asked, silent>>
    <2>1. PICK goOn \in Answers : Tell("setattr", job.target, goOn)
                                  /\ Proceed(AfterRefused(goOn))
      BY <1>6
    <2>2. StoreOK' /\ HistoryOK'
      BY <1>1, <1>6, <2>1, TellOK DEF Operations
    <2>3. \E n \in Nat \ {0} : Proceed([job EXCEPT !.next = n])
      <3>1. CASE goOn
        <4>1. AfterRefused(goOn) = [job EXCEPT !.next = job.next + 1]
          BY <3>1 DEF AfterRefused
        <4>2. job.next + 1 \in Nat \ {0}
          BY <1>1
        <4> QED
          BY <2>1, <4>1, <4>2
      <3>2. CASE ~goOn
        <4>1. AfterRefused(goOn) = [job EXCEPT !.next = Len(attrs) + 1]
          BY <3>2 DEF AfterRefused
        <4>2. Len(attrs) + 1 \in Nat \ {0}
          BY <1>2
        <4> QED
          BY <2>1, <4>1, <4>2
      <3> QED
        BY <3>1, <3>2
    <2>4. StackOK' /\ JobOK' /\ ResultOK'
      BY <1>3, <1>6, <2>3
    <2> QED
      BY <2>2, <2>4 DEF TypeOK
  <1>7. CASE Succeed /\ UNCHANGED dst /\ Quiet
    BY <1>1, <1>7, SucceedOK, QuietOK DEF TypeOK, StoreOK
  <1> QED
    BY <1>4, <1>5, <1>6, <1>7 DEF CopyAttribute

-----------------------------------------------------------------------------
(***************************************************************************)
(* The steps of copyDir().                                                 *)
(***************************************************************************)
\* What is known of the current directory.
LEMMA FrameType ==
  ASSUME TypeOK, NEW phase, InDir(phase)
  PROVE  /\ stack # <<>> /\ job = NoJob /\ result = "running"
         /\ Len(stack) \in Nat \ {0}
         /\ Current \in Frames /\ Current.phase = phase
         /\ Current.path \in Seq(Names)
         /\ Current.next \in Nat \ {0}
         /\ Current.todo \in Seq(Names)
         /\ phase # "opendir" => Node(Current.path) \in Nodes
  <1>1. stack # <<>> /\ job = NoJob /\ Current.phase = phase
    BY DEF InDir
  <1>2. stack \in Seq(Frames)
    BY DEF TypeOK, StackOK
  <1>3. Len(stack) \in 1..Len(stack) /\ Current \in Frames /\ Len(stack) \in Nat \ {0}
    BY <1>1, <1>2, LastIndex DEF Current
  <1>4. phase # "opendir" => Node(Current.path) \in Nodes
    BY <1>1, <1>3 DEF TypeOK, StackOK, Current
  <1>5. result = "running"
    BY <1>1, InProgress DEF TypeOK
  <1> QED
    BY <1>1, <1>3, <1>4, <1>5 DEF Frames

\* What stays when only the stack changes.
LEMMA JobKept ==
  ASSUME TypeOK, UNCHANGED <<job, dst>>
  PROVE  JobOK' /\ StoreOK'
  <1>1. JobOK'
    BY DEF TypeOK, JobOK, Node, Exists
  <1>2. StoreOK'
    BY DEF TypeOK, StoreOK
  <1> QED
    BY <1>1, <1>2

\* Opening the source directory.
LEMMA OpenDirType == TypeOK /\ OpenDir => TypeOK'
  <1> SUFFICES ASSUME TypeOK, OpenDir PROVE TypeOK'
    OBVIOUS
  <1>1. /\ stack # <<>> /\ Current \in Frames /\ result = "running"
        /\ UNCHANGED dst /\ Quiet
    BY FrameType DEF OpenDir
  <1>2. HistoryOK' /\ StoreOK'
    BY <1>1, QuietOK DEF TypeOK, StoreOK
  <1>3. CASE Stop
    BY <1>2, <1>3, StopOK DEF TypeOK
  <1>4. CASE /\ IsDir(Node(Current.path))
             /\ Update([Current EXCEPT !.phase = "entries", !.open = TRUE])
             /\ UNCHANGED <<job, result>>
    <2> DEFINE f == [Current EXCEPT !.phase = "entries", !.open = TRUE]
    <2>1. f \in Frames /\ f.path = Current.path
      BY <1>1 DEF Frames
    <2>2. Update(f) /\ Node(Current.path) \in Nodes
      BY <1>4 DEF IsDir
    <2> HIDE DEF f
    <2>3. StackOK' /\ stack' # <<>>
      BY <1>1, <2>1, <2>2, UpdateStack DEF TypeOK
    <2>4. JobOK'
      BY <1>1, <1>4, JobKept
    <2>5. ResultOK'
      BY <1>1, <1>4 DEF ResultOK
    <2> QED
      BY <1>2, <2>3, <2>4, <2>5 DEF TypeOK
  <1> QED
    BY <1>3, <1>4 DEF OpenDir

\* The next entry of a directory.
LEMMA NextEntryType == TypeOK /\ NextEntry => TypeOK'
  <1> SUFFICES ASSUME TypeOK, NextEntry PROVE TypeOK'
    OBVIOUS
  <1> DEFINE kids == Kids[Node(Current.path)]
             kid  == kids[Current.next]
             f    == [Current EXCEPT !.next = @ + 1]
  <1>1. /\ stack # <<>> /\ Current \in Frames /\ result = "running"
        /\ Current.path \in Seq(Names) /\ Current.todo \in Seq(Names)
        /\ Current.next \in Nat \ {0} /\ Node(Current.path) \in Nodes
        /\ Current.phase = "entries"
    BY FrameType DEF NextEntry
  <1>2. UNCHANGED <<result, dst, dstAttr, asked, told, declined>>
    BY DEF NextEntry
  <1>3. StoreOK' /\ HistoryOK' /\ ResultOK'
    BY <1>1, <1>2 DEF TypeOK, StoreOK, HistoryOK, ResultOK
  <1>4. ~(Current.next > Len(kids)) => kid \in Kid
    BY <1>1, SourceAssumption
  <1>5. f \in Frames /\ f.path = Current.path /\ f.todo = Current.todo
    BY <1>1 DEF Frames
  <1>6. CASE Update(CloseDir(Current)) /\ UNCHANGED job
    <2> DEFINE g == CloseDir(Current)
    <2>1. g \in Frames /\ g.path = Current.path
      BY <1>1 DEF Frames, CloseDir
    <2>2. Update(g)
      BY <1>6
    <2> HIDE DEF g
    <2>3. StackOK'
      BY <1>1, <2>1, <2>2, UpdateStack DEF TypeOK
    <2>4. JobOK'
      BY <1>2, <1>6, JobKept
    <2> QED
      BY <1>3, <2>3, <2>4 DEF TypeOK
  <1>7. CASE /\ ~(Current.next > Len(kids))
             /\ Update([f EXCEPT !.todo = @ \o Entered(kid)])
             /\ UNCHANGED job
    <2> DEFINE g == [f EXCEPT !.todo = @ \o Entered(kid)]
    <2>1. Entered(kid) \in Seq(Names)
      BY <1>4, <1>7 DEF Entered, Kid
    <2>2. f.todo \o Entered(kid) \in Seq(Names)
      BY <1>1, <1>5, <2>1, ConcatProperties
    <2> HIDE DEF f, kid
    <2>3. g \in Frames /\ g.path = Current.path
      BY <1>5, <2>2 DEF Frames
    <2>4. Update(g)
      BY <1>7
    <2> HIDE DEF g
    <2>5. StackOK'
      BY <1>1, <2>3, <2>4, UpdateStack DEF TypeOK
    <2>6. JobOK'
      BY <1>2, <1>7, JobKept
    <2> QED
      BY <1>3, <2>5, <2>6 DEF TypeOK
  <1>8. CASE /\ ~(Current.next > Len(kids))
             /\ Update(f)
             /\ job' = Job(Append(f.path, kid.name), Append(f.path, TargetName(kid)), TRUE)
    <2>1. kid.name \in Names /\ TargetName(kid) \in Names
      BY <1>4, <1>8, CopierAssumption DEF TargetName, Kid
    <2>2. /\ Append(f.path, kid.name) \in Seq(Names)
          /\ Append(f.path, TargetName(kid)) \in Seq(Names)
      BY <1>1, <1>5, <2>1
    <2> HIDE DEF f, kid
    <2>3. job' \in Jobs /\ job'.phase = "source"
      BY <1>8, <2>2 DEF Job, Jobs
    <2>4. JobOK'
      BY <2>3 DEF JobOK
    <2>5. StackOK'
      BY <1>1, <1>5, <1>8, UpdateStack DEF TypeOK
    <2> QED
      BY <1>3, <2>4, <2>5 DEF TypeOK
  <1> QED
    BY <1>6, <1>7, <1>8 DEF NextEntry

\* The call of copyDir() for the next of the directories.
LEMMA EnterDirectoryOK ==
  ASSUME TypeOK, InDir("directories"), Current.todo # <<>>,
         EnterDirectory(Append(Current.path, Head(Current.todo)))
  PROVE  StackOK' /\ JobOK' /\ ResultOK'
  <1> DEFINE path == Append(Current.path, Head(Current.todo))
             n    == Len(stack)
             f    == [Current EXCEPT !.todo = Tail(@)]
  <1>1. /\ stack # <<>> /\ Current \in Frames /\ result = "running"
        /\ Current.path \in Seq(Names) /\ Current.todo \in Seq(Names)
        /\ Node(Current.path) \in Nodes /\ Current.phase = "directories"
        /\ n \in Nat \ {0} /\ stack \in Seq(Frames)
    BY FrameType DEF TypeOK, StackOK
  <1>2. Head(Current.todo) \in Names /\ Tail(Current.todo) \in Seq(Names)
    BY <1>1, HeadTailProperties
  <1>3. path \in Seq(Names) /\ Front(path) = Current.path
    BY <1>1, <1>2, FrontOfAppend
  <1>4. f \in Frames /\ f.path = Current.path /\ f.phase = "directories"
    BY <1>1, <1>2 DEF Frames
  <1>5. Frame(path) \in Frames /\ Frame(path).path = path /\ Frame(path).phase = "opendir"
    BY <1>3 DEF Frame, Frames
  <1>6. /\ stack' = Append([stack EXCEPT ![n] = f], Frame(path))
        /\ job' = Job(path, path, FALSE)
        /\ result' = result
    BY DEF EnterDirectory, Current
  <1> HIDE DEF path, f
  <1>7. JobOK'
    <2>1. job' \in Jobs /\ job'.phase = "source"
      BY <1>3, <1>6 DEF Job, Jobs
    <2> QED
      BY <2>1 DEF JobOK
  <1>8. /\ stack' \in Seq(Frames)
        /\ Len(stack') = n + 1
        /\ \A i \in 1..n : stack'[i] = IF i = n THEN f ELSE stack[i]
        /\ stack'[n + 1] = Frame(path)
    <2> DEFINE s == [stack EXCEPT ![n] = f]
    <2>1. /\ s \in Seq(Frames)
          /\ Len(s) = n
          /\ \A i \in 1..n : s[i] = IF i = n THEN f ELSE stack[i]
      BY <1>1, <1>4
    <2>2. stack' = Append(s, Frame(path))
      BY <1>6
    <2> HIDE DEF s, n
    <2>3. /\ stack' \in Seq(Frames)
          /\ Len(stack') = Len(s) + 1
          /\ \A i \in 1..Len(s) : stack'[i] = s[i]
          /\ stack'[Len(s) + 1] = Frame(path)
      BY <1>5, <2>1, <2>2, AppendProperties
    <2> QED
      BY <2>1, <2>3
  <1>9. \A i \in 1..n : stack'[i].path = stack[i].path
    BY <1>4, <1>8 DEF Current
  <1>10. ASSUME NEW i \in 1..Len(stack'), stack'[i].phase # "opendir"
         PROVE  Node(stack'[i].path) \in Nodes
    <2>1. i \in 1..n
      BY <1>1, <1>5, <1>8, <1>10
    <2>2. CASE i = n
      BY <1>1, <1>4, <1>8, <2>1, <2>2
    <2>3. CASE i # n
      BY <1>8, <1>10, <2>1, <2>3 DEF TypeOK, StackOK
    <2> QED
      BY <2>2, <2>3
  <1>11. ASSUME NEW i \in 2..Len(stack')
         PROVE  Front(stack'[i].path) = stack'[i - 1].path
    <2>1. CASE i = n + 1
      <3>1. stack'[i - 1].path = Current.path
        BY <1>1, <1>9, <2>1 DEF Current
      <3> QED
        BY <1>3, <1>5, <1>8, <2>1, <3>1
    <2>2. CASE i # n + 1
      <3>1. i \in 2..n /\ i \in 1..n /\ i - 1 \in 1..n
        BY <1>1, <1>8, <2>2
      <3> QED
        BY <1>9, <3>1 DEF TypeOK, StackOK
    <2> QED
      BY <2>1, <2>2
  <1>12. StackOK'
    BY <1>8, <1>10, <1>11 DEF StackOK, Node
  <1>13. ResultOK'
    BY <1>1, <1>6 DEF ResultOK
  <1> QED
    BY <1>7, <1>12, <1>13

\* The end of a call of copyDir(), or the next of its directories.
LEMMA NextDirectoryType == TypeOK /\ NextDirectory => TypeOK'
  <1> SUFFICES ASSUME TypeOK, NextDirectory PROVE TypeOK'
    OBVIOUS
  <1> DEFINE path == Append(Current.path, Head(Current.todo))
  <1>1. /\ stack # <<>> /\ job = NoJob /\ result = "running"
        /\ Current.path \in Seq(Names) /\ Current.todo \in Seq(Names)
        /\ stack \in Seq(Frames) /\ Len(stack) \in Nat \ {0}
        /\ InDir("directories")
    BY FrameType DEF NextDirectory, TypeOK, StackOK
  <1>2. CASE /\ stack' = Front(stack)
             /\ result' = IF Len(stack) = 1 THEN "done" ELSE result
             /\ UNCHANGED <<job, dst>>
             /\ Quiet
    <2>1. /\ stack' \in Seq(Frames)
          /\ Len(stack') = Len(stack) - 1
          /\ \A i \in 1..Len(stack') : stack'[i] = stack[i]
      BY <1>1, <1>2, FrontType
    <2>2. \A i \in 1..Len(stack') : i \in 1..Len(stack) /\ (i > 1 => i - 1 \in 1..Len(stack'))
      BY <1>1, <2>1
    <2>3. StackOK'
      BY <2>1, <2>2 DEF TypeOK, StackOK, Node
    <2>4. ResultOK'
      <3>1. CASE Len(stack) = 1
        BY <1>1, <1>2, <2>1, <3>1 DEF ResultOK
      <3>2. CASE Len(stack) # 1
        BY <1>1, <1>2, <3>2 DEF ResultOK
      <3> QED
        BY <3>1, <3>2
    <2> QED
      BY <1>2, <2>3, <2>4, JobKept, QuietOK DEF TypeOK
  <1>3. ASSUME Current.todo # <<>>
        PROVE  path \in Seq(Names)
    BY <1>1, <1>3, HeadTailProperties
  <1>4. CASE /\ Current.todo # <<>>
             /\ dst' = Store(path, NewDir)
             /\ EnterDirectory(path)
             /\ Quiet
    <2>1. NewDir \in Item
      BY DEF NewDir, Item
    <2>2. StoreOK'
      BY <1>3, <1>4, <2>1, StoreType DEF TypeOK
    <2>3. StackOK' /\ JobOK' /\ ResultOK'
      BY <1>1, <1>4, EnterDirectoryOK
    <2> QED
      BY <1>4, <2>2, <2>3, QuietOK DEF TypeOK
  <1>5. CASE /\ Current.todo # <<>>
             /\ \E goOn \in Answers :
                  /\ Tell("mkdir", path, goOn)
                  /\ IF goOn THEN EnterDirectory(path) ELSE Stop
             /\ UNCHANGED <<dst, dstAttr, asked, silent>>
    <2>1. PICK goOn \in Answers : /\ Tell("mkdir", path, goOn)
                                  /\ IF goOn THEN EnterDirectory(path) ELSE Stop
      BY <1>5
    <2>2. StoreOK' /\ HistoryOK'
      BY <1>3, <1>5, <2>1, TellOK DEF Operations
    <2>3. StackOK' /\ JobOK' /\ ResultOK'
      <3>1. CASE goOn
        BY <1>1, <1>5, <2>1, <3>1, EnterDirectoryOK
      <3>2. CASE ~goOn
        BY <2>1, <3>2, StopOK
      <3> QED
        BY <3>1, <3>2
    <2> QED
      BY <2>2, <2>3 DEF TypeOK
  <1> QED
    BY <1>2, <1>4, <1>5 DEF NextDirectory

-----------------------------------------------------------------------------
\* A call begins.
LEMMA BeginType ==
  ASSUME TypeOK, NEW call \in Calls, Begin(call)
  PROVE  TypeOK'
  <1>1. call.path \in Seq(Names) /\ call.function \in Functions
    BY CopierAssumption
  <1>2. /\ job' = Job(call.path, call.path, call.function = "copyFile")
        /\ stack' = IF call.function = "copyDir" THEN <<Frame(call.path)>> ELSE <<>>
        /\ result' = "running"
        /\ asked' = call /\ told' = {} /\ declined' = {}
        /\ UNCHANGED <<dst, dstAttr>>
    BY DEF Begin
  <1>3. JobOK'
    <2>1. job' \in Jobs /\ job'.phase = "source"
      BY <1>1, <1>2 DEF Job, Jobs
    <2> QED
      BY <2>1 DEF JobOK
  <1>4. StackOK'
    <2>1. Frame(call.path) \in Frames /\ Frame(call.path).phase = "opendir"
      BY <1>1 DEF Frame, Frames
    <2>2. /\ stack' \in Seq(Frames) /\ Len(stack') \in {0, 1}
          /\ Len(stack') = 1 => stack'[1] = Frame(call.path)
      BY <1>2, <2>1
    <2> QED
      BY <2>1, <2>2 DEF StackOK
  <1>5. ResultOK' /\ StoreOK' /\ HistoryOK'
    BY <1>2 DEF TypeOK, ResultOK, StoreOK, HistoryOK
  <1> QED
    BY <1>3, <1>4, <1>5 DEF TypeOK

\* Every step keeps the types.
LEMMA NextType == TypeOK /\ [Next]_vars => TypeOK'
  <1> SUFFICES ASSUME TypeOK, [Next]_vars PROVE TypeOK'
    OBVIOUS
  <1>1. CASE Step
    BY <1>1, OpenSourceType, OpenTargetType, CreateTargetType, CopyBlockType,
       CopyAttributeType, OpenDirType, NextEntryType, NextDirectoryType DEF Step
  <1>2. CASE \E call \in Calls : Begin(call)
    BY <1>2, BeginType
  <1>3. CASE UNCHANGED vars
    BY <1>3 DEF vars, TypeOK, StackOK, JobOK, StoreOK, HistoryOK, ResultOK, Node, Exists
  <1> QED
    BY <1>1, <1>2, <1>3 DEF Next

\* At first there is nothing in progress.
LEMMA InitType == Init => TypeOK
  <1> SUFFICES ASSUME Init PROVE TypeOK
    OBVIOUS
  <1>1. stack \in Seq(Frames) /\ Len(stack) = 0
    BY DEF Init
  <1>2. StackOK
    BY <1>1 DEF StackOK
  <1>3. JobOK
    BY DEF Init, JobOK, NoJob
  <1>4. StoreOK
    BY CopierAssumption DEF Init, StoreOK
  <1>5. HistoryOK /\ ResultOK
    BY DEF Init, HistoryOK, ResultOK
  <1> QED
    BY <1>2, <1>3, <1>4, <1>5 DEF TypeOK

\* The copier's state is as its types say: a job reads from a node that exists and
\* writes to a path that exists, and the stack is a path of directories.
THEOREM TypeCorrect == Spec => []TypeOK
  BY InitType, NextType, PTL DEF Spec

-----------------------------------------------------------------------------
(***************************************************************************)
(* Stopping when the handler says so.                                      *)
(***************************************************************************)
\* What the handler declines to go on after, attributes excepted, ends the call.
Refused == declined \ {"setattr"} # {}

RefusedIsStopped == Refused => result = "stopped"

\* There are only steps while a call is in progress.
LEMMA StepIsRunning == TypeOK /\ Step => result = "running"
  <1> SUFFICES ASSUME TypeOK, Step, result # "running" PROVE FALSE
    OBVIOUS
  <1>1. job = NoJob /\ stack = <<>>
    BY DEF TypeOK, ResultOK
  <1>2. job.phase = "none"
    BY <1>1 DEF NoJob
  <1>3. /\ ~OpenSource /\ ~OpenTarget /\ ~CreateTarget
        /\ ~CopyBlock /\ ~CopyAttribute
    BY <1>2 DEF OpenSource, OpenTarget, CreateTarget, CopyBlock, CopyAttribute
  <1>4. ~OpenDir /\ ~NextEntry /\ ~NextDirectory
    BY <1>1 DEF OpenDir, NextEntry, NextDirectory, InDir
  <1> QED
    BY <1>3, <1>4 DEF Step

\* What a step does when the handler is told of an error: it stops, or goes on with
\* nothing more declined, or the error was one of setting an attribute.
LEMMA StepDeclines ==
  ASSUME Step
  PROVE  \/ declined' = declined
         \/ result' = "stopped"
         \/ declined' = declined \cup {"setattr"}
  <1>1. ASSUME NEW operation, NEW path, Fail(operation, path)
        PROVE  declined' = declined \/ result' = "stopped"
    <2>1. PICK goOn \in Answers :
             Tell(operation, path, goOn) /\ (IF goOn THEN Succeed ELSE Stop)
      BY <1>1 DEF Fail
    <2>2. CASE goOn
      BY <2>1, <2>2 DEF Tell
    <2>3. CASE ~goOn
      BY <2>1, <2>3 DEF Stop
    <2> QED
      BY <2>2, <2>3
  <1>2. CASE OpenSource
    BY <1>1, <1>2 DEF OpenSource, Quiet
  <1>3. CASE OpenTarget
    BY <1>1, <1>3 DEF OpenTarget, Quiet
  <1>4. CASE CreateTarget
    BY <1>1, <1>4 DEF CreateTarget, Quiet
  <1>5. CASE CopyBlock
    BY <1>1, <1>5 DEF CopyBlock, Quiet
  <1>6. CASE CopyAttribute
    <2>1. \/ Fail("enumattr", job.path)
          \/ Quiet
          \/ \E goOn \in Answers : Tell("setattr", job.target, goOn)
      BY <1>6 DEF CopyAttribute
    <2>2. ASSUME NEW goOn \in Answers, Tell("setattr", job.target, goOn)
          PROVE  declined' = declined \/ declined' = declined \cup {"setattr"}
      BY <2>2 DEF Tell
    <2> QED
      BY <1>1, <2>1, <2>2 DEF Quiet
  <1>7. CASE OpenDir
    BY <1>7 DEF OpenDir, Quiet
  <1>8. CASE NextEntry
    BY <1>8 DEF NextEntry
  <1>9. CASE NextDirectory
    <2> DEFINE path == Append(Current.path, Head(Current.todo))
    <2>1. \/ Quiet
          \/ \E goOn \in Answers : /\ Tell("mkdir", path, goOn)
                                   /\ IF goOn THEN EnterDirectory(path) ELSE Stop
      BY <1>9 DEF NextDirectory
    <2>2. ASSUME NEW goOn \in Answers, Tell("mkdir", path, goOn),
                 IF goOn THEN EnterDirectory(path) ELSE Stop
          PROVE  declined' = declined \/ result' = "stopped"
      BY <2>2 DEF Tell, Stop
    <2> QED
      BY <2>1, <2>2 DEF Quiet
  <1> QED
    BY <1>2, <1>3, <1>4, <1>5, <1>6, <1>7, <1>8, <1>9 DEF Step

\* A call that the handler has stopped stays so.
LEMMA RefusalKept == TypeOK /\ RefusedIsStopped /\ [Next]_vars => RefusedIsStopped'
  <1> SUFFICES ASSUME TypeOK, RefusedIsStopped, [Next]_vars PROVE RefusedIsStopped'
    OBVIOUS
  <1>1. CASE Step
    <2>1. ~Refused
      BY <1>1, StepIsRunning DEF RefusedIsStopped
    <2>2. CASE result' = "stopped"
      BY <2>2 DEF RefusedIsStopped
    <2>3. CASE declined' = declined \/ declined' = declined \cup {"setattr"}
      BY <2>1, <2>3 DEF RefusedIsStopped, Refused
    <2> QED
      BY <1>1, <2>2, <2>3, StepDeclines
  <1>2. CASE \E call \in Calls : Begin(call)
    BY <1>2 DEF Begin, RefusedIsStopped, Refused
  <1>3. CASE UNCHANGED vars
    BY <1>3 DEF vars, RefusedIsStopped, Refused
  <1> QED
    BY <1>1, <1>2, <1>3 DEF Next

\* Once the error handler has returned false for anything but an attribute that could
\* not be set, however deep the directory is, nothing more is written and the
\* call does not succeed: every caller of handleError() passes the result on.
THEOREM RefusalIsObeyed == Spec => RefusalStops
  <1>1. Init => TypeOK /\ RefusedIsStopped
    BY InitType DEF Init, RefusedIsStopped, Refused
  <1>2. ASSUME TypeOK, RefusedIsStopped, [Next]_vars, Refused
        PROVE  dst' = dst /\ result' # "done"
    <2>1. result = "stopped"
      BY <1>2 DEF RefusedIsStopped
    <2>2. ~Step
      BY <1>2, <2>1, StepIsRunning
    <2>3. CASE \E call \in Calls : Begin(call)
      BY <2>3 DEF Begin
    <2>4. CASE UNCHANGED vars
      BY <2>1, <2>4 DEF vars
    <2> QED
      BY <1>2, <2>2, <2>3, <2>4 DEF Next
  <1>3. TypeOK /\ RefusedIsStopped /\ [Next]_vars
          => [Refused => dst' = dst /\ result' # "done"]_vars
    BY <1>2
  <1>4. TypeOK /\ RefusedIsStopped /\ [Next]_vars => TypeOK' /\ RefusedIsStopped'
    BY NextType, RefusalKept
  <1>5. RefusalStops <=> [][Refused => dst' = dst /\ result' # "done"]_vars
    BY DEF RefusalStops, Refused
  <1> QED
    BY <1>1, <1>3, <1>4, <1>5, PTL DEF Spec

-----------------------------------------------------------------------------
(***************************************************************************)
(* Open directories.                                                       *)
(***************************************************************************)
\* Only the directory whose entries are being copied is open.
OpenIsCurrent ==
  \A i \in 1..Len(stack) : stack[i].open => i = Len(stack) /\ stack[i].phase = "entries"

\* The frame of the current directory is replaced.
LEMMA UpdateOpen ==
  ASSUME StackOK, OpenIsCurrent, stack # <<>>, NEW f \in Frames, Update(f),
         f.open => f.phase = "entries"
  PROVE  OpenIsCurrent'
  <1>1. /\ Len(stack') = Len(stack)
        /\ \A i \in 1..Len(stack) : stack'[i] = IF i = Len(stack) THEN f ELSE stack[i]
    BY DEF StackOK, Update
  <1> QED
    BY <1>1 DEF OpenIsCurrent

\* No directory is open when there is none.
LEMMA NoneOpen ==
  ASSUME stack' = <<>>
  PROVE  OpenIsCurrent'
  <1>1. Len(stack') = 0
    OBVIOUS
  <1> QED
    BY <1>1 DEF OpenIsCurrent

\* What becomes of the frame of a directory whose entries are being copied.
LEMMA EntryUpdates ==
  ASSUME TypeOK, NextEntry
  PROVE  \/ Update(CloseDir(Current))
         \/ \E todo \in Seq(Names) :
              Update([[Current EXCEPT !.next = @ + 1] EXCEPT !.todo = todo])
  <1> DEFINE kids == Kids[Node(Current.path)]
             kid  == kids[Current.next]
             f    == [Current EXCEPT !.next = @ + 1]
  <1>1. /\ Current \in Frames /\ Current.todo \in Seq(Names)
        /\ Current.next \in Nat \ {0} /\ Node(Current.path) \in Nodes
    BY FrameType DEF NextEntry
  <1>2. /\ f = [f EXCEPT !.todo = @] /\ f.todo = Current.todo
        /\ \A t : [f EXCEPT !.todo = t] = [[Current EXCEPT !.next = @ + 1] EXCEPT !.todo = t]
    BY <1>1 DEF Frames
  <1>3. ASSUME ~(Current.next > Len(kids))
        PROVE  f.todo \o Entered(kid) \in Seq(Names)
    <2>1. kids \in Seq(Kid)
      BY <1>1, SourceAssumption
    <2>2. Current.next \in 1..Len(kids)
      BY <1>1, <1>3, <2>1
    <2> HIDE DEF kids
    <2>3. kid \in Kid
      BY <2>1, <2>2
    <2> HIDE DEF kid
    <2>4. kid.name \in Names
      BY <2>3 DEF Kid
    <2>5. <<kid.name>> \in Seq(Names) /\ <<>> \in Seq(Names)
      BY <2>4
    <2>6. Entered(kid) \in Seq(Names)
      BY <2>5 DEF Entered
    <2> QED
      BY <1>1, <1>2, <2>6, ConcatProperties
  <1>4. \/ Update(CloseDir(Current))
        \/ ~(Current.next > Len(kids)) /\ Update([f EXCEPT !.todo = @ \o Entered(kid)])
        \/ Update(f)
    BY DEF NextEntry
  <1> QED
    BY <1>1, <1>2, <1>3, <1>4

\* The call of copyDir() for a directory of the current one.
LEMMA EnterOpen ==
  ASSUME TypeOK, OpenIsCurrent, InDir("directories"), Current.todo # <<>>,
         NEW path \in Seq(Names), EnterDirectory(path)
  PROVE  OpenIsCurrent'
  <1> DEFINE n == Len(stack)
             f == [Current EXCEPT !.todo = Tail(@)]
             s == [stack EXCEPT ![n] = f]
  <1>1. /\ n \in Nat \ {0} /\ stack \in Seq(Frames) /\ Current \in Frames
        /\ Current.phase = "directories" /\ Current.todo \in Seq(Names)
    BY FrameType DEF TypeOK, StackOK
  <1>2. ~Current.open
    BY <1>1 DEF OpenIsCurrent, Current
  <1>3. f \in Frames /\ ~f.open
    <2>1. Tail(Current.todo) \in Seq(Names)
      BY <1>1, HeadTailProperties
    <2> QED
      BY <1>1, <1>2, <2>1 DEF Frames
  <1>4. Frame(path) \in Frames /\ ~Frame(path).open
    BY DEF Frame, Frames
  <1>5. stack' = Append(s, Frame(path))
    BY DEF EnterDirectory, Current
  <1> HIDE DEF f
  <1>6. /\ s \in Seq(Frames)
        /\ Len(s) = n
        /\ \A i \in 1..n : s[i] = IF i = n THEN f ELSE stack[i]
    BY <1>1, <1>3
  <1> HIDE DEF s
  <1>7. /\ Len(stack') = n + 1
        /\ \A i \in 1..n : stack'[i] = s[i]
        /\ stack'[n + 1] = Frame(path)
    BY <1>4, <1>5, <1>6, AppendProperties
  <1>8. ASSUME NEW i \in 1..Len(stack')
        PROVE  ~stack'[i].open
    <2>1. CASE i = n + 1
      BY <1>4, <1>7, <2>1
    <2>2. CASE i = n
      BY <1>1, <1>3, <1>6, <1>7, <2>2
    <2>3. CASE i \in 1..n /\ i # n
      BY <1>6, <1>7, <2>3 DEF OpenIsCurrent
    <2> QED
      BY <1>1, <1>7, <2>1, <2>2, <2>3
  <1> QED
    BY <1>8 DEF OpenIsCurrent

\* Every step keeps closed what is not the current directory: copyDir() closes a
\* directory before it calls itself for the directories it has found.
LEMMA OpenKept == TypeOK /\ OpenIsCurrent /\ [Next]_vars => OpenIsCurrent'
  <1> SUFFICES ASSUME TypeOK, OpenIsCurrent, [Next]_vars PROVE OpenIsCurrent'
    OBVIOUS
  <1>1. ASSUME stack' = stack PROVE OpenIsCurrent'
    BY <1>1 DEF OpenIsCurrent
  <1>2. ASSUME NEW operation, NEW path, Fail(operation, path) PROVE OpenIsCurrent'
    BY <1>1, <1>2, NoneOpen DEF Fail, Succeed, Stop
  <1>3. CASE OpenSource
    BY <1>1, <1>2, <1>3 DEF OpenSource, Proceed
  <1>4. CASE OpenTarget
    BY <1>1, <1>2, <1>4 DEF OpenTarget, Proceed
  <1>5. CASE CreateTarget
    BY <1>1, <1>2, <1>5 DEF CreateTarget, Proceed
  <1>6. CASE CopyBlock
    BY <1>1, <1>2, <1>6 DEF CopyBlock, Proceed
  <1>7. CASE CopyAttribute
    BY <1>1, <1>2, <1>7 DEF CopyAttribute, Proceed, Succeed
  <1>8. CASE OpenDir
    <2>1. CASE Stop
      BY <2>1, NoneOpen DEF Stop
    <2>2. CASE Update([Current EXCEPT !.phase = "entries", !.open = TRUE])
      <3> DEFINE f == [Current EXCEPT !.phase = "entries", !.open = TRUE]
      <3>1. stack # <<>> /\ Current \in Frames /\ StackOK
        BY <1>8, FrameType DEF OpenDir, TypeOK
      <3>2. f \in Frames /\ f.phase = "entries"
        BY <3>1 DEF Frames
      <3> QED
        BY <2>2, <3>1, <3>2, UpdateOpen
    <2> QED
      BY <1>8, <2>1, <2>2 DEF OpenDir
  <1>9. CASE NextEntry
    <2>1. /\ stack # <<>> /\ Current \in Frames /\ StackOK
          /\ Current.phase = "entries"
      BY <1>9, FrameType DEF NextEntry, TypeOK
    <2>2. ASSUME NEW f, Update(f), f \in Frames, f.open => f.phase = "entries"
          PROVE  OpenIsCurrent'
      BY <2>1, <2>2, UpdateOpen
    <2>3. CASE Update(CloseDir(Current))
      <3>1. CloseDir(Current) \in Frames /\ ~CloseDir(Current).open
        BY <2>1 DEF CloseDir, Frames
      <3> QED
        BY <2>2, <2>3, <3>1
    <2>4. CASE \E todo \in Seq(Names) :
                 Update([[Current EXCEPT !.next = @ + 1] EXCEPT !.todo = todo])
      <3>1. PICK todo \in Seq(Names) :
              Update([[Current EXCEPT !.next = @ + 1] EXCEPT !.todo = todo])
        BY <2>4
      <3> DEFINE g == [Current EXCEPT !.next = @ + 1]
                 f == [g EXCEPT !.todo = todo]
      <3>2. g \in Frames /\ g.phase = "entries"
        BY SMTT(20), <2>1 DEF Frames
      <3>3. Update(f)
        BY <3>1
      <3> HIDE DEF g
      <3>4. f \in Frames /\ f.phase = "entries"
        BY <3>2 DEF Frames
      <3> HIDE DEF f
      <3> QED
        BY <2>2, <3>3, <3>4
    <2> QED
      BY <1>9, <2>1, <2>3, <2>4, EntryUpdates
  <1>10. CASE NextDirectory
    <2> DEFINE path == Append(Current.path, Head(Current.todo))
    <2>1. /\ stack # <<>> /\ stack \in Seq(Frames) /\ Current \in Frames
          /\ Current.path \in Seq(Names) /\ Current.todo \in Seq(Names)
          /\ InDir("directories") /\ StackOK
      BY <1>10, FrameType DEF NextDirectory, TypeOK, StackOK
    <2>2. CASE stack' = Front(stack)
      <3>1. /\ Len(stack') = Len(stack) - 1 /\ Len(stack) \in Nat
            /\ \A i \in 1..Len(stack') : stack'[i] = stack[i]
        BY <2>1, <2>2, FrontType
      <3>2. ASSUME NEW i \in 1..Len(stack') PROVE ~stack'[i].open
        BY <3>1 DEF OpenIsCurrent
      <3> QED
        BY <3>2 DEF OpenIsCurrent
    <2>3. CASE Current.todo # <<>> /\ EnterDirectory(path)
      <3>1. path \in Seq(Names)
        BY <2>1, <2>3, HeadTailProperties
      <3> HIDE DEF path
      <3> QED
        BY <2>1, <2>3, <3>1, EnterOpen
    <2>4. CASE Stop
      BY <2>4, NoneOpen DEF Stop
    <2> QED
      BY <1>10, <2>2, <2>3, <2>4 DEF NextDirectory
  <1>11. CASE \E call \in Calls : Begin(call)
    <2>1. PICK call \in Calls : Begin(call)
      BY <1>11
    <2>2. CASE stack' = <<>>
      BY <2>2, NoneOpen
    <2>3. CASE stack' = <<Frame(call.path)>>
      <3>1. Len(stack') = 1 /\ stack'[1] = Frame(call.path)
        BY <2>3
      <3> QED
        BY <3>1 DEF OpenIsCurrent, Frame
    <2> QED
      BY <2>1, <2>2, <2>3 DEF Begin
  <1>12. CASE UNCHANGED vars
    BY <1>1, <1>12 DEF vars
  <1> QED
    BY <1>3, <1>4, <1>5, <1>6, <1>7, <1>8, <1>9, <1>10, <1>11, <1>12 DEF Next, Step

\* However deep the tree is, the copier has only one directory open at a time, so that
\* it does not use up the descriptors of a file system.
THEOREM OneDirectory == Spec => []OneDirectoryAtATime
  <1>1. Init => TypeOK /\ OpenIsCurrent
    <2> SUFFICES ASSUME Init PROVE OpenIsCurrent
      BY InitType
    <2>1. Len(stack) = 0
      BY DEF Init
    <2> QED
      BY <2>1 DEF OpenIsCurrent
  <1>2. TypeOK /\ OpenIsCurrent => OneDirectoryAtATime
    <2> SUFFICES ASSUME TypeOK, OpenIsCurrent PROVE OneDirectoryAtATime
      OBVIOUS
    <2> DEFINE open == { i \in 1..Len(stack) : stack[i].open }
    <2>1. open \subseteq {Len(stack)}
      BY DEF OpenIsCurrent
    <2>2. IsFiniteSet({Len(stack)}) /\ Cardinality({Len(stack)}) = 1
      BY FS_Singleton
    <2>3. Cardinality(open) <= 1
      BY <2>1, <2>2, FS_Subset
    <2> QED
      BY <2>3 DEF OneDirectoryAtATime
  <1>3. TypeOK /\ OpenIsCurrent /\ [Next]_vars => TypeOK' /\ OpenIsCurrent'
    BY NextType, OpenKept
  <1> QED
    BY <1>1, <1>2, <1>3, PTL DEF Spec

-----------------------------------------------------------------------------
(***************************************************************************)
(* Paths.                                                                  *)
(***************************************************************************)
\* A path longer by a name leads to what the directory has by it.
LEMMA NodeOfAppend ==
  ASSUME NEW p \in Seq(Names), NEW name \in Names
  PROVE  Node(Append(p, name)) = Descend(Node(p), name)
  <1> DEFINE q == Append(p, name)
  <1>1. /\ q \in Seq(Names) /\ Len(q) = Len(p) + 1 /\ Len(p) \in Nat
        /\ \A i \in 1..Len(p) : q[i] = p[i]
        /\ q[Len(q)] = name
    BY AppendProperties
  <1> HIDE DEF q
  <1>2. Lookup(Top, q) = Descend(Lookup(Top, p), q[Len(q)])
    BY <1>1, LookupStep
  <1> QED
    BY <1>1, <1>2 DEF q, Node

-----------------------------------------------------------------------------
(***************************************************************************)
(* What is being copied is to be copied, and goes where it belongs.        *)
(***************************************************************************)
\* InScope() and Target() for a call a and a target that has no metadata, or has.
Scoped(a, path) ==
  IF a.function = "copyDir"
  THEN /\ IsPrefix(a.path, path)
       /\ Node(path) \in Nodes
       /\ \A k \in (Len(a.path) + 1)..Len(path) : Kind[Node(SubSeq(path, 1, k))] # "MountPoint"
  ELSE path = a.path

Aim(a, without, path) ==
  IF a.function = "copyDir" /\ path # a.path /\ without /\ Node(path) \in Compressed
  THEN Append(Front(path), Suffixed[Last(path)]) ELSE path

\* What is to be copied and where it goes, of the call and of the metadata of the target.
LEMMA ScopeIs ==
  \A path : /\ InScope(path) <=> Scoped(asked, path)
           /\ Target(path) = Aim(asked, dstAttr.NoMeta, path)
  <1> SUFFICES ASSUME NEW path
               PROVE  /\ InScope(path) <=> Scoped(asked, path)
                      /\ Target(path) = Aim(asked, dstAttr.NoMeta, path)
    OBVIOUS
  <1>1. Target(path) = Aim(asked, dstAttr.NoMeta, path)
    BY DEF Target, Aim
  <1>2. CASE asked.function = "copyDir"
    BY <1>1, <1>2 DEF InScope, IsWanted, Scoped
  <1>3. CASE asked.function # "copyDir"
    BY <1>1, <1>3 DEF InScope, Scoped
  <1> QED
    BY <1>2, <1>3

ScopedFrame(a, f) ==
  /\ a.function = "copyDir"
  /\ Node(f.path) \in Nodes => Scoped(a, f.path)
  /\ \A k \in 1..Len(f.todo) :
       Scoped(a, Append(f.path, f.todo[k])) /\ IsDir(Node(Append(f.path, f.todo[k])))

ScopedStack(a, s) == \A i \in 1..Len(s) : ScopedFrame(a, s[i])

ScopedJob(a, without, j) ==
  j # NoJob => /\ Node(j.path) \in Nodes => Scoped(a, j.path)
               /\ j.target = Aim(a, without, j.path)

\* All that is in hand is to be copied, and goes where it belongs.
ScopeInv == ScopedStack(asked, stack) /\ ScopedJob(asked, dstAttr.NoMeta, job)

\* What is in a directory that is to be copied is, too, other than mount points.
LEMMA ScopedBelow ==
  ASSUME NEW a, a.path \in Seq(Names), a.function = "copyDir",
         NEW p \in Seq(Names), Scoped(a, p), NEW name \in Names,
         Node(Append(p, name)) \in Nodes, Kind[Node(Append(p, name))] # "MountPoint"
  PROVE  Scoped(a, Append(p, name))
  <1> DEFINE q == Append(p, name)
  <1>1. /\ q \in Seq(Names) /\ Len(q) = Len(p) + 1 /\ Len(p) \in Nat /\ Len(a.path) \in Nat
        /\ \A i \in 1..Len(p) : q[i] = p[i]
    BY AppendProperties
  <1>2. Node(q) \in Nodes /\ Kind[Node(q)] # "MountPoint"
    OBVIOUS
  <1> HIDE DEF q
  <1>3. /\ Len(a.path) <= Len(p) /\ \A i \in 1..Len(a.path) : p[i] = a.path[i]
        /\ \A k \in (Len(a.path) + 1)..Len(p) : Kind[Node(SubSeq(p, 1, k))] # "MountPoint"
    BY PrefixIs DEF Scoped
  <1>4. Len(a.path) <= Len(q) /\ \A i \in 1..Len(a.path) : q[i] = a.path[i]
    <2>1. Len(a.path) <= Len(q)
      BY <1>1, <1>3
    <2>2. \A i \in 1..Len(a.path) : i \in 1..Len(p)
      BY <1>1, <1>3
    <2>3. \A i \in 1..Len(a.path) : q[i] = a.path[i]
      BY <1>1, <1>3, <2>2
    <2> QED
      BY <2>1, <2>3
  <1>5. IsPrefix(a.path, q)
    BY <1>1, <1>4, PrefixIs
  <1>6. ASSUME NEW k \in (Len(a.path) + 1)..Len(q)
        PROVE  Kind[Node(SubSeq(q, 1, k))] # "MountPoint"
    <2>1. CASE k = Len(q)
      <3>1. SubSeq(q, 1, Len(q)) = q
        BY <1>1
      <3> QED
        BY <1>2, <2>1, <3>1
    <2>2. CASE k # Len(q)
      <3>1. /\ k \in Nat /\ k <= Len(p) /\ k <= Len(q)
            /\ k \in (Len(a.path) + 1)..Len(p)
            /\ \A i \in 1..k : q[i] = p[i]
        BY <1>1, <2>2
      <3>2. SubSeq(q, 1, k) = SubSeq(p, 1, k)
        BY <1>1, <3>1, SameBeginning
      <3> QED
        BY <1>3, <3>1, <3>2
    <2> QED
      BY <2>1, <2>2
  <1>7. Scoped(a, q)
    BY <1>2, <1>5, <1>6 DEF Scoped
  <1> QED
    BY <1>7 DEF q

\* The entry of a directory that is the next.
LEMMA EntryNode ==
  ASSUME DistinctNames, NEW p \in Seq(Names), Node(p) \in Nodes,
         NEW k \in 1..Len(Kids[Node(p)])
  PROVE  /\ Kids[Node(p)][k] \in Kid
         /\ Kids[Node(p)][k].name \in Names
         /\ Kids[Node(p)][k].node \in Nodes
         /\ Node(Append(p, Kids[Node(p)][k].name)) = Kids[Node(p)][k].node
  <1> DEFINE n == Node(p)
             kid == Kids[n][k]
  <1>1. n \in Nodes /\ Kids[n] \in Seq(Kid) /\ k \in DOMAIN Kids[n]
    BY SourceAssumption
  <1>2. kid \in Kid
    BY <1>1, ElementOfSeq
  <1>3. kid.name \in Names /\ kid.node \in Nodes
    BY <1>2 DEF Kid
  <1>4. Descend(n, kid.name) = kid.node
    BY <1>1, DescendIs
  <1>5. Node(Append(p, kid.name)) = Descend(n, kid.name)
    BY <1>3, NodeOfAppend
  <1> QED
    BY <1>2, <1>3, <1>4, <1>5

JobStep == OpenSource \/ OpenTarget \/ CreateTarget \/ CopyBlock \/ CopyAttribute

\* What the steps of a job leave of it and of its callers.
LEMMA JobStepIs ==
  ASSUME TypeOK, JobStep
  PROVE  /\ job \in Jobs /\ job # NoJob /\ result = "running"
         /\ UNCHANGED <<dstAttr, asked>> /\ told \subseteq told' /\ silent \subseteq silent'
         /\ \/ stack' = <<>> /\ job' = NoJob /\ result' = "stopped"
            \/ /\ stack' = stack
               /\ \/ job' = NoJob
                  \/ /\ job'.path = job.path /\ job'.target = job.target
                     /\ job'.isFile = job.isFile
                     /\ result' = result
  <1> DEFINE Goal == /\ UNCHANGED <<dstAttr, asked>>
                     /\ told \subseteq told' /\ silent \subseteq silent'
                     /\ \/ stack' = <<>> /\ job' = NoJob /\ result' = "stopped"
                        \/ /\ stack' = stack
                           /\ \/ job' = NoJob
                              \/ /\ job'.path = job.path /\ job'.target = job.target
                                 /\ job'.isFile = job.isFile
                                 /\ result' = result
  <1>1. ASSUME NEW operation, NEW path, Fail(operation, path)
        PROVE  Goal
    <2>1. PICK goOn \in Answers :
             Tell(operation, path, goOn) /\ (IF goOn THEN Succeed ELSE Stop)
      BY <1>1 DEF Fail
    <2>2. UNCHANGED <<dstAttr, asked>> /\ told \subseteq told' /\ silent \subseteq silent'
      BY <1>1, <2>1 DEF Fail, Tell
    <2>3. CASE goOn
      BY <2>1, <2>2, <2>3 DEF Succeed
    <2>4. CASE ~goOn
      BY <2>1, <2>2, <2>4 DEF Stop
    <2> QED
      BY <2>3, <2>4
  <1>2. job \in Jobs /\ job # NoJob /\ result = "running"
    BY JobType DEF JobStep, OpenSource, OpenTarget, CreateTarget, CopyBlock, CopyAttribute
  <1>3. ASSUME NEW j, Proceed(j), j.path = job.path, j.target = job.target, j.isFile = job.isFile,
               UNCHANGED <<dstAttr, asked>>, told \subseteq told', silent \subseteq silent'
        PROVE  Goal
    BY <1>3 DEF Proceed
  <1>4. \A x : LET j == [job EXCEPT !.phase = x] IN
                 j.path = job.path /\ j.target = job.target /\ j.isFile = job.isFile
    BY <1>2 DEF Jobs
  <1>5. \A x : LET j == [job EXCEPT !.next = x] IN
                 j.path = job.path /\ j.target = job.target /\ j.isFile = job.isFile
    BY <1>2 DEF Jobs
  <1>6. \A x, y : LET j == [job EXCEPT !.phase = x, !.next = y] IN
                 j.path = job.path /\ j.target = job.target /\ j.isFile = job.isFile
    BY <1>2 DEF Jobs
  <1>7. Quiet => UNCHANGED <<dstAttr, asked>> /\ told \subseteq told' /\ silent \subseteq silent'
    BY DEF Quiet
  <1> SUFFICES Goal
    BY <1>2
  <1> HIDE DEF Goal
  <1>8. CASE OpenSource
    BY <1>1, <1>3, <1>4, <1>7, <1>8 DEF OpenSource
  <1>9. CASE OpenTarget
    BY <1>1, <1>3, <1>4, <1>7, <1>9 DEF OpenTarget
  <1>10. CASE CreateTarget
    BY <1>1, <1>3, <1>4, <1>7, <1>10 DEF CreateTarget
  <1>11. CASE CopyBlock
    BY <1>1, <1>3, <1>5, <1>6, <1>7, <1>11 DEF CopyBlock
  <1>12. CASE CopyAttribute
    <2>1. Succeed /\ Quiet => Goal
      BY <1>7 DEF Succeed, Goal
    <2>2. ASSUME NEW goOn \in Answers, Tell("setattr", job.target, goOn),
                 Proceed(AfterRefused(goOn)), UNCHANGED <<dst, dstAttr, asked, silent>>
          PROVE  Goal
      <3>1. told \subseteq told'
        BY <2>2 DEF Tell
      <3> QED
        BY <1>3, <1>5, <2>2, <3>1 DEF AfterRefused
    <2> QED
      BY <1>1, <1>3, <1>5, <1>7, <1>12, <2>1, <2>2 DEF CopyAttribute
  <1> QED
    BY <1>8, <1>9, <1>10, <1>11, <1>12 DEF JobStep

\* What a call of copyDir() for the next directory adds to the stack.
LEMMA EnterStack ==
  ASSUME TypeOK, InDir("directories"), Current.todo # <<>>,
         NEW path \in Seq(Names), EnterDirectory(path)
  PROVE  /\ Len(stack') = Len(stack) + 1
         /\ \A i \in 1..Len(stack) :
              /\ stack'[i].path = stack[i].path
              /\ stack'[i].phase = stack[i].phase
              /\ i # Len(stack) => stack'[i] = stack[i]
         /\ stack'[Len(stack)].todo = Tail(Current.todo)
         /\ stack'[Len(stack) + 1] = Frame(path)
         /\ job' = Job(path, path, FALSE)
         /\ result' = result
         /\ Head(Current.todo) = Current.todo[1]
         /\ Head(Current.todo) \in Names
         /\ Len(Tail(Current.todo)) = Len(Current.todo) - 1
         /\ \A k \in 1..Len(Tail(Current.todo)) : Tail(Current.todo)[k] = Current.todo[k + 1]
  <1> DEFINE n    == Len(stack)
             todo == Current.todo
             f    == [Current EXCEPT !.todo = Tail(@)]
             s    == [stack EXCEPT ![n] = f]
  <1>1. /\ n \in Nat \ {0} /\ stack \in Seq(Frames) /\ Current \in Frames
        /\ todo \in Seq(Names)
    BY FrameType DEF TypeOK, StackOK
  <1>2. /\ Tail(todo) \in Seq(Names) /\ Head(todo) = todo[1] /\ Head(todo) \in Names
        /\ Len(Tail(todo)) = Len(todo) - 1
        /\ \A k \in 1..Len(Tail(todo)) : Tail(todo)[k] = todo[k + 1]
    <2> HIDE DEF todo
    <2> QED
      BY <1>1, HeadTailProperties DEF todo
  <1>3. /\ f \in Frames /\ f.path = Current.path /\ f.phase = Current.phase
        /\ f.todo = Tail(todo)
    BY <1>1, <1>2 DEF Frames
  <1>4. Frame(path) \in Frames
    BY DEF Frame, Frames
  <1>5. stack' = Append(s, Frame(path)) /\ job' = Job(path, path, FALSE) /\ result' = result
    BY DEF EnterDirectory, Current
  <1> HIDE DEF f
  <1>6. /\ s \in Seq(Frames) /\ Len(s) = n
        /\ \A i \in 1..n : s[i] = IF i = n THEN f ELSE stack[i]
    BY <1>1, <1>3
  <1> HIDE DEF s
  <1>7. /\ Len(stack') = n + 1
        /\ \A i \in 1..n : stack'[i] = IF i = n THEN f ELSE stack[i]
        /\ stack'[n + 1] = Frame(path)
    BY <1>4, <1>5, <1>6, AppendProperties
  <1>8. n \in 1..n /\ stack[n] = Current
    BY <1>1 DEF Current
  <1> QED
    BY <1>2, <1>3, <1>5, <1>7, <1>8

\* What a step does to the current frame.
LEMMA UpdateIs ==
  ASSUME TypeOK, stack # <<>>, NEW f, Update(f)
  PROVE  /\ Len(stack) \in Nat \ {0}
         /\ Len(stack') = Len(stack)
         /\ \A i \in 1..Len(stack) : stack'[i] = IF i = Len(stack) THEN f ELSE stack[i]
         /\ stack[Len(stack)] = Current
  BY DEF TypeOK, StackOK, Update, Current

-----------------------------------------------------------------------------
\* A job, or none, that has the path and target of the job before.
LEMMA ScopeOfJobs ==
  ASSUME TypeOK, ScopeInv, JobStep
  PROVE  ScopeInv'
  <1>1. asked' = asked /\ dstAttr' = dstAttr
    BY JobStepIs
  <1>2. CASE stack' = <<>> /\ job' = NoJob
    <2>1. Len(stack') = 0
      BY <1>2
    <2> QED
      BY <1>2, <2>1 DEF ScopeInv, ScopedStack, ScopedJob
  <1>3. CASE stack' = stack /\ job' = NoJob
    BY <1>1, <1>3 DEF ScopeInv, ScopedJob
  <1>4. CASE stack' = stack /\ job # NoJob /\ job'.path = job.path /\ job'.target = job.target
    BY <1>1, <1>4 DEF ScopeInv, ScopedJob
  <1> QED
    BY <1>2, <1>3, <1>4, JobStepIs

\* Every caller returns.
LEMMA ScopeOfStop ==
  ASSUME Stop
  PROVE  ScopeInv'
  <1>1. Len(stack') = 0 /\ job' = NoJob
    BY DEF Stop
  <1> QED
    BY <1>1 DEF ScopeInv, ScopedStack, ScopedJob

\* The current frame is replaced.
LEMMA ScopeOfUpdate ==
  ASSUME TypeOK, ScopeInv, stack # <<>>, NEW f, Update(f), UNCHANGED asked,
         ScopedFrame(asked, f), ScopedJob(asked', dstAttr'.NoMeta, job')
  PROVE  ScopeInv'
  <1>1. /\ Len(stack') = Len(stack)
        /\ \A i \in 1..Len(stack) : stack'[i] = IF i = Len(stack) THEN f ELSE stack[i]
    BY UpdateIs
  <1>2. ScopedStack(asked, stack)
    BY DEF ScopeInv
  <1>3. \A i \in 1..Len(stack') : ScopedFrame(asked, stack'[i])
    BY <1>1, <1>2 DEF ScopedStack
  <1> QED
    BY <1>3 DEF ScopeInv, ScopedStack

\* The frame of the current directory.
LEMMA CurrentScoped ==
  ASSUME TypeOK, ScopeInv, NEW phase, InDir(phase)
  PROVE  /\ ScopedFrame(asked, Current)
         /\ asked.path \in Seq(Names)
         /\ asked.function = "copyDir"
  <1>1. Len(stack) \in 1..Len(stack)
    BY FrameType
  <1>2. ScopedFrame(asked, Current)
    BY <1>1 DEF ScopeInv, ScopedStack, Current
  <1> QED
    BY <1>2, CopierAssumption DEF TypeOK, HistoryOK, ScopedFrame

\* No job, and no other frame.
LEMMA NoJobScoped == \A a, m : ScopedJob(a, m, NoJob)
  BY DEF ScopedJob

\* Opening a directory keeps what is in scope.
LEMMA ScopeOfOpenDir == TypeOK /\ ScopeInv /\ OpenDir => ScopeInv'
  <1> SUFFICES ASSUME TypeOK, ScopeInv, OpenDir PROVE ScopeInv'
    OBVIOUS
  <1> DEFINE f == [Current EXCEPT !.phase = "entries", !.open = TRUE]
  <1>1. /\ stack # <<>> /\ job = NoJob /\ Current \in Frames /\ ScopedFrame(asked, Current)
        /\ asked' = asked
    BY FrameType, CurrentScoped DEF OpenDir, Quiet
  <1>2. ScopedFrame(asked, f)
    <2>1. f.path = Current.path /\ f.todo = Current.todo
      BY <1>1 DEF Frames
    <2> HIDE DEF f
    <2> QED
      BY <1>1, <2>1 DEF ScopedFrame
  <1>3. Stop \/ (Update(f) /\ job' = NoJob)
    BY <1>1 DEF OpenDir
  <1> HIDE DEF f
  <1> QED
    BY <1>1, <1>2, <1>3, ScopeOfStop, ScopeOfUpdate, NoJobScoped

\* Where a file goes that is an entry of a directory.
LEMMA AimOfEntry ==
  ASSUME NEW a, a.path \in Seq(Names), a.function = "copyDir", NEW without \in BOOLEAN,
         NEW p \in Seq(Names), Scoped(a, p), NEW name \in Names, Scoped(a, Append(p, name))
  PROVE  Aim(a, without, Append(p, name))
           = Append(p, IF without /\ Node(Append(p, name)) \in Compressed
                       THEN Suffixed[name] ELSE name)
  <1> DEFINE q == Append(p, name)
  <1>1. /\ q \in Seq(Names) /\ Len(q) = Len(p) + 1 /\ Len(p) \in Nat /\ Len(a.path) \in Nat
        /\ Last(q) = name
    BY AppendProperties DEF Last
  <1>2. Front(q) = p
    BY FrontOfAppend
  <1>3. q # a.path
    <2>1. Len(a.path) <= Len(p)
      BY PrefixIs DEF Scoped
    <2> HIDE DEF q
    <2> QED
      BY <1>1, <2>1
  <1> HIDE DEF q
  <1>4. Aim(a, without, q) = Append(p, IF without /\ Node(q) \in Compressed
                                       THEN Suffixed[name] ELSE name)
    <2>1. CASE without /\ Node(q) \in Compressed
      BY <1>1, <1>2, <1>3, <2>1 DEF Aim
    <2>2. CASE ~(without /\ Node(q) \in Compressed)
      <3>1. Aim(a, without, q) = q
        BY <2>2 DEF Aim
      <3> QED
        BY <2>2, <3>1 DEF q
    <2> QED
      BY <2>1, <2>2
  <1> QED
    BY <1>4 DEF q

\* A directory goes where it is, by its own name.
LEMMA AimOfDirectory ==
  ASSUME NEW a, NEW without, NEW path, IsDir(Node(path))
  PROVE  Aim(a, without, path) = path
  <1>1. Node(path) \notin Compressed
    BY CopierAssumption DEF IsDir
  <1> QED
    BY <1>1 DEF Aim

\* The next entry of the current directory.
LEMMA NextKid ==
  ASSUME TypeOK, ScopeInv, DistinctNames, InDir("entries"),
         ~(Current.next > Len(Kids[Node(Current.path)])),
         NEW kid, kid = Kids[Node(Current.path)][Current.next]
  PROVE  /\ Current.next \in 1..Len(Kids[Node(Current.path)])
         /\ kid \in Kid /\ kid.name \in Names /\ kid.node \in Nodes
         /\ Append(Current.path, kid.name) \in Seq(Names)
         /\ Node(Append(Current.path, kid.name)) = kid.node
         /\ Scoped(asked, Current.path)
         /\ Kind[kid.node] # "MountPoint" => Scoped(asked, Append(Current.path, kid.name))
  <1>1. /\ Current.path \in Seq(Names) /\ Node(Current.path) \in Nodes
        /\ Current.next \in Nat \ {0}
    BY FrameType
  <1>2. Len(Kids[Node(Current.path)]) \in Nat
    BY <1>1, SourceAssumption
  <1>3. Current.next \in 1..Len(Kids[Node(Current.path)])
    BY <1>1, <1>2
  <1>4. /\ kid \in Kid /\ kid.name \in Names /\ kid.node \in Nodes
        /\ Node(Append(Current.path, kid.name)) = kid.node
    BY <1>1, <1>3, EntryNode
  <1>5. /\ asked.path \in Seq(Names) /\ asked.function = "copyDir" /\ Scoped(asked, Current.path)
    BY <1>1, CurrentScoped DEF ScopedFrame
  <1>6. Kind[kid.node] # "MountPoint" => Scoped(asked, Append(Current.path, kid.name))
    BY <1>1, <1>4, <1>5, ScopedBelow
  <1>7. Append(Current.path, kid.name) \in Seq(Names)
    BY <1>1, <1>4, AppendProperties
  <1> QED
    BY <1>3, <1>4, <1>5, <1>6, <1>7

\* The next entry is a job of what is to be copied, or a name that is.
LEMMA ScopeOfNextEntry == DistinctNames /\ TypeOK /\ ScopeInv /\ NextEntry => ScopeInv'
  <1> SUFFICES ASSUME DistinctNames, TypeOK, ScopeInv, NextEntry PROVE ScopeInv'
    OBVIOUS
  <1> DEFINE kids == Kids[Node(Current.path)]
             kid  == kids[Current.next]
             f    == [Current EXCEPT !.next = @ + 1]
  <1>1. /\ stack # <<>> /\ job = NoJob /\ Current \in Frames /\ Current.path \in Seq(Names)
        /\ Current.todo \in Seq(Names) /\ Node(Current.path) \in Nodes
        /\ Current.next \in Nat \ {0} /\ InDir("entries") /\ ScopedFrame(asked, Current)
        /\ asked' = asked /\ dstAttr' = dstAttr
        /\ asked.path \in Seq(Names) /\ asked.function = "copyDir"
    <2>1. InDir("entries") /\ asked' = asked /\ dstAttr' = dstAttr
      BY DEF NextEntry
    <2> QED
      BY <2>1, FrameType, CurrentScoped
  <1>2. f \in Frames /\ f.path = Current.path /\ f.todo = Current.todo
    <2>1. Current \in Frames /\ Current.next \in Nat \ {0}
      BY <1>1
    <2> QED
      BY <2>1 DEF Frames
  <1>3. ASSUME ~(Current.next > Len(kids))
        PROVE  /\ kid.name \in Names /\ kid.node \in Nodes
               /\ Append(Current.path, kid.name) \in Seq(Names)
               /\ Node(Append(Current.path, kid.name)) = kid.node
               /\ Scoped(asked, Current.path)
               /\ Kind[kid.node] # "MountPoint" => Scoped(asked, Append(Current.path, kid.name))
    BY <1>1, <1>3, NextKid
  <1>4. CASE Update(CloseDir(Current)) /\ UNCHANGED job
    <2> DEFINE g == CloseDir(Current)
    <2>1. g.path = Current.path /\ g.todo = Current.todo
      BY <1>1 DEF CloseDir, Frames
    <2>2. Update(g)
      BY <1>4
    <2> HIDE DEF g
    <2>3. ScopedFrame(asked, g)
      BY <1>1, <2>1 DEF ScopedFrame
    <2> QED
      BY <1>1, <1>4, <2>2, <2>3, ScopeOfUpdate, NoJobScoped
  <1>5. CASE /\ ~(Current.next > Len(kids))
             /\ Update([f EXCEPT !.todo = @ \o Entered(kid)])
             /\ UNCHANGED job
    <2> DEFINE g == [f EXCEPT !.todo = @ \o Entered(kid)]
    <2>1. Update(g)
      BY <1>5
    <2>2. /\ kid.name \in Names
          /\ Node(Append(Current.path, kid.name)) = kid.node /\ kid.node \in Nodes
          /\ Kind[kid.node] # "MountPoint" => Scoped(asked, Append(Current.path, kid.name))
      BY <1>3, <1>5
    <2> HIDE DEF kid, f
    <2>3. g.path = Current.path /\ g.todo = Current.todo \o Entered(kid)
      BY <1>2 DEF Frames
    <2> HIDE DEF g
    <2>4. CASE Kind[kid.node] = "Directory"
      <3>1. Entered(kid) = <<kid.name>>
        BY <2>4 DEF Entered
      <3>2. /\ Len(g.todo) = Len(Current.todo) + 1
            /\ \A k \in 1..Len(Current.todo) : g.todo[k] = Current.todo[k]
            /\ g.todo[Len(Current.todo) + 1] = kid.name
        BY <1>1, <2>2, <2>3, <3>1
      <3>3. /\ Scoped(asked, Append(Current.path, kid.name))
            /\ IsDir(Node(Append(Current.path, kid.name)))
        BY <2>2, <2>4 DEF IsDir
      <3>4. ASSUME NEW k \in 1..Len(g.todo)
            PROVE  /\ Scoped(asked, Append(g.path, g.todo[k]))
                   /\ IsDir(Node(Append(g.path, g.todo[k])))
        <4>1. CASE k = Len(Current.todo) + 1
          BY <2>3, <3>2, <3>3, <4>1
        <4>2. CASE k # Len(Current.todo) + 1
          <5>1. k \in 1..Len(Current.todo)
            BY <1>1, <3>2, <4>2
          <5> QED
            BY <1>1, <2>3, <3>2, <5>1 DEF ScopedFrame
        <4> QED
          BY <4>1, <4>2
      <3>5. ScopedFrame(asked, g)
        BY <1>1, <2>3, <3>4 DEF ScopedFrame
      <3> QED
        BY <1>1, <1>5, <2>1, <3>5, ScopeOfUpdate, NoJobScoped
    <2>5. CASE Kind[kid.node] # "Directory"
      <3>1. g.todo = Current.todo
        BY <1>1, <2>3, <2>5 DEF Entered
      <3>2. ScopedFrame(asked, g)
        BY <1>1, <2>3, <3>1 DEF ScopedFrame
      <3> QED
        BY <1>1, <1>5, <2>1, <3>2, ScopeOfUpdate, NoJobScoped
    <2> QED
      BY <2>4, <2>5
  <1>6. CASE /\ ~(Current.next > Len(kids))
             /\ ~IsDir(kid.node)
             /\ Update(f)
             /\ job' = Job(Append(f.path, kid.name), Append(f.path, TargetName(kid)), TRUE)
    <2> DEFINE path == Append(Current.path, kid.name)
    <2>1. /\ kid.name \in Names /\ path \in Seq(Names)
          /\ Node(path) = kid.node /\ Scoped(asked, Current.path) /\ Scoped(asked, path)
      <3>1. Kind[kid.node] # "MountPoint"
        BY <1>3, <1>6 DEF IsDir
      <3> QED
        BY <1>3, <1>6, <3>1
    <2> HIDE DEF kid, f
    <2>2. job'.path = path /\ job'.target = Append(Current.path, TargetName(kid))
      BY <1>2, <1>6 DEF Job
    <2>3. Aim(asked, dstAttr.NoMeta, path) = Append(Current.path, TargetName(kid))
      <3>1. Aim(asked, dstAttr.NoMeta, path)
              = Append(Current.path, IF dstAttr.NoMeta /\ Node(path) \in Compressed
                                     THEN Suffixed[kid.name] ELSE kid.name)
        <4>1. dstAttr.NoMeta \in BOOLEAN
          BY CopierAssumption DEF TypeOK, HistoryOK
        <4> QED
          BY <1>1, <2>1, <4>1, AimOfEntry
      <3>2. TargetName(kid) = IF dstAttr.NoMeta /\ Node(path) \in Compressed
                              THEN Suffixed[kid.name] ELSE kid.name
        BY <2>1 DEF TargetName
      <3> QED
        BY <3>1, <3>2
    <2> HIDE DEF path
    <2>4. ScopedJob(asked', dstAttr'.NoMeta, job')
      BY <1>1, <2>1, <2>2, <2>3 DEF ScopedJob
    <2>5. ScopedFrame(asked, f)
      BY <1>1, <1>2 DEF ScopedFrame
    <2> QED
      BY <1>1, <1>6, <2>4, <2>5, ScopeOfUpdate
  <1> QED
    BY <1>4, <1>5, <1>6 DEF NextEntry

\* The next directory.
LEMMA ScopeOfEnter ==
  ASSUME TypeOK, ScopeInv, InDir("directories"), Current.todo # <<>>,
         EnterDirectory(Append(Current.path, Head(Current.todo))),
         UNCHANGED <<asked, dstAttr>>
  PROVE  ScopeInv'
  <1> DEFINE path == Append(Current.path, Head(Current.todo))
             n    == Len(stack)
  <1>1. /\ stack # <<>> /\ Current.path \in Seq(Names) /\ Current.todo \in Seq(Names)
        /\ n \in Nat \ {0}
        /\ ScopedFrame(asked, Current) /\ asked.function = "copyDir"
    BY FrameType, CurrentScoped
  <1>2. path \in Seq(Names)
    BY <1>1, HeadTailProperties
  <1>3. 1 \in 1..Len(Current.todo) /\ Head(Current.todo) = Current.todo[1]
    BY <1>1
  <1>4. Scoped(asked, path) /\ IsDir(Node(path))
    BY <1>1, <1>3 DEF ScopedFrame
  <1>5. EnterDirectory(path)
    OBVIOUS
  <1> HIDE DEF path
  <1>6. /\ Len(stack') = n + 1
        /\ \A i \in 1..n : stack'[i].path = stack[i].path /\ (i # n => stack'[i] = stack[i])
        /\ stack'[n].todo = Tail(Current.todo)
        /\ stack'[n + 1] = Frame(path)
        /\ job' = Job(path, path, FALSE)
        /\ Len(Tail(Current.todo)) = Len(Current.todo) - 1
        /\ \A k \in 1..Len(Tail(Current.todo)) : Tail(Current.todo)[k] = Current.todo[k + 1]
    BY <1>2, <1>5, EnterStack
  <1>7. ScopedFrame(asked, Frame(path))
    <2>1. Frame(path).path = path /\ Frame(path).todo = <<>> /\ Len(<<>>) = 0
      BY DEF Frame
    <2> QED
      BY <1>1, <1>4, <2>1 DEF ScopedFrame
  <1>8. ScopedFrame(asked, stack'[n])
    <2>1. stack'[n].path = Current.path
      BY <1>1, <1>6 DEF Current
    <2>2. \A k \in 1..Len(Tail(Current.todo)) : k + 1 \in 1..Len(Current.todo)
      BY <1>1, <1>6
    <2> QED
      BY <1>1, <1>6, <2>1, <2>2 DEF ScopedFrame
  <1>9. \A i \in 1..n : i # n => ScopedFrame(asked, stack'[i])
    BY <1>6 DEF ScopeInv, ScopedStack
  <1>10. ScopedStack(asked, stack')
    <2>1. \A i \in 1..Len(stack') : i = n + 1 \/ i = n \/ (i \in 1..n /\ i # n)
      BY <1>1, <1>6
    <2> QED
      BY <1>6, <1>7, <1>8, <1>9, <2>1 DEF ScopedStack
  <1>11. ScopedJob(asked, dstAttr.NoMeta, job')
    <2>1. job'.path = path /\ job'.target = path
      BY <1>6 DEF Job
    <2>2. Aim(asked, dstAttr.NoMeta, path) = path
      BY <1>4, AimOfDirectory
    <2> QED
      BY <1>4, <2>1, <2>2 DEF ScopedJob
  <1> QED
    BY <1>10, <1>11 DEF ScopeInv

\* The next subdirectory is one of what is to be copied.
LEMMA ScopeOfNextDirectory == TypeOK /\ ScopeInv /\ NextDirectory => ScopeInv'
  <1> SUFFICES ASSUME TypeOK, ScopeInv, NextDirectory PROVE ScopeInv'
    OBVIOUS
  <1>1. /\ stack # <<>> /\ job = NoJob /\ stack \in Seq(Frames) /\ InDir("directories")
        /\ asked' = asked /\ dstAttr' = dstAttr
    BY FrameType DEF NextDirectory, TypeOK, StackOK, Quiet
  <1>2. CASE stack' = Front(stack) /\ UNCHANGED job
    <2>1. /\ Len(stack') = Len(stack) - 1 /\ Len(stack) \in Nat
          /\ \A i \in 1..Len(stack') : stack'[i] = stack[i]
      BY <1>1, <1>2, FrontType
    <2>2. \A i \in 1..Len(stack') : i \in 1..Len(stack)
      BY <2>1
    <2>3. ScopedStack(asked, stack')
      BY <2>1, <2>2 DEF ScopeInv, ScopedStack
    <2> QED
      BY <1>1, <1>2, <2>3, NoJobScoped DEF ScopeInv
  <1>3. CASE Current.todo # <<>> /\ EnterDirectory(Append(Current.path, Head(Current.todo)))
    BY <1>1, <1>3, ScopeOfEnter
  <1>4. CASE Stop
    BY <1>4, ScopeOfStop
  <1> QED
    BY <1>2, <1>3, <1>4 DEF NextDirectory

\* A call is for what it is asked to copy.
LEMMA ScopeOfBegin ==
  ASSUME TypeOK, NEW call \in Calls, Begin(call)
  PROVE  ScopeInv'
  <1>1. call.path \in Seq(Names) /\ asked' = call /\ Len(call.path) \in Nat
    BY CopierAssumption DEF Begin
  <1>2. Node(call.path) \in Nodes => Scoped(call, call.path)
    <2>1. IsPrefix(call.path, call.path)
      BY <1>1, PrefixIs
    <2>2. \A k : k \notin (Len(call.path) + 1)..Len(call.path)
      BY <1>1
    <2> QED
      BY <2>1, <2>2 DEF Scoped
  <1>3. ScopedJob(call, dstAttr'.NoMeta, job')
    <2>1. job'.path = call.path /\ job'.target = call.path
      BY DEF Begin, Job
    <2>2. Aim(call, dstAttr'.NoMeta, call.path) = call.path
      BY DEF Aim
    <2> QED
      BY <1>2, <2>1, <2>2 DEF ScopedJob
  <1>4. ScopedStack(call, stack')
    <2>1. CASE call.function = "copyDir"
      <3>1. Len(stack') = 1 /\ stack'[1] = Frame(call.path)
        BY <2>1 DEF Begin
      <3>2. Frame(call.path).path = call.path /\ Frame(call.path).todo = <<>> /\ Len(<<>>) = 0
        BY DEF Frame
      <3>3. ScopedFrame(call, Frame(call.path))
        BY <1>2, <2>1, <3>2 DEF ScopedFrame
      <3> QED
        BY <3>1, <3>3 DEF ScopedStack
    <2>2. CASE call.function # "copyDir"
      <3>1. Len(stack') = 0
        BY <2>2 DEF Begin
      <3> QED
        BY <3>1 DEF ScopedStack
    <2> QED
      BY <2>1, <2>2
  <1> QED
    BY <1>1, <1>3, <1>4 DEF ScopeInv

\* Every step keeps to what is to be copied.
LEMMA ScopeKept == DistinctNames /\ TypeOK /\ ScopeInv /\ [Next]_vars => ScopeInv'
  <1> SUFFICES ASSUME DistinctNames, TypeOK, ScopeInv, [Next]_vars PROVE ScopeInv'
    OBVIOUS
  <1>1. CASE Step
    BY <1>1, ScopeOfJobs, ScopeOfOpenDir, ScopeOfNextEntry, ScopeOfNextDirectory
       DEF Step, JobStep
  <1>2. CASE \E call \in Calls : Begin(call)
    BY <1>2, ScopeOfBegin
  <1>3. CASE UNCHANGED vars
    BY <1>3 DEF vars, ScopeInv
  <1> QED
    BY <1>1, <1>2, <1>3 DEF Next

\* Before a call there is nothing in hand.
LEMMA ScopeInit == Init => ScopeInv
  <1> SUFFICES ASSUME Init PROVE ScopeInv
    OBVIOUS
  <1>1. Len(stack) = 0 /\ job = NoJob
    BY DEF Init
  <1> QED
    BY <1>1, NoJobScoped DEF ScopeInv, ScopedStack

\* A job writes to its target only.
LEMMA JobWrites ==
  ASSUME TypeOK, JobStep, dst' # dst
  PROVE  /\ Node(job.path) \in Nodes
         /\ DOMAIN dst' = DOMAIN dst \cup {job.target}
         /\ \A q \in DOMAIN dst : q # job.target => dst'[q] = dst[q]
  <1>1. ~\E operation, path : Fail(operation, path)
    BY DEF Fail
  <1>2. \A path : Exists(path) <=> path \in DOMAIN dst
    BY DEF Exists
  <1>3. dst \in [DOMAIN dst -> Item]
    BY DEF TypeOK, StoreOK
  <1>4. CASE OpenSource \/ OpenTarget
    BY <1>1, <1>4 DEF OpenSource, OpenTarget
  <1>5. CASE CreateTarget
    <2>1. dst' = Store(job.target, NewFile(job.target)) /\ Node(job.path) \in Nodes
      BY <1>1, <1>5 DEF CreateTarget, TypeOK, JobOK
    <2> QED
      BY <2>1 DEF Store
  <1>6. CASE CopyBlock
    <2>1. dst' = [dst EXCEPT ![job.target].size = @ + 1]
      BY <1>1, <1>6 DEF CopyBlock
    <2>2. Node(job.path) \in Nodes /\ job.target \in DOMAIN dst
      BY <1>2, <1>6 DEF CopyBlock, TypeOK, JobOK
    <2> QED
      BY <1>3, <2>1, <2>2
  <1>7. CASE CopyAttribute
    <2>1. dst' = [dst EXCEPT ![job.target].attrs = @ \cup {Attrs[Node(job.path)][job.next]}]
      BY <1>1, <1>7 DEF CopyAttribute
    <2>2. Node(job.path) \in Nodes /\ job.target \in DOMAIN dst
      BY <1>2, <1>7 DEF CopyAttribute, TypeOK, JobOK
    <2> QED
      BY <1>3, <2>1, <2>2
  <1> QED
    BY <1>4, <1>5, <1>6, <1>7 DEF JobStep

\* A path of what is to be copied, on the target.
IsAim(path) ==
  \E p \in Seq(Names) :
    Node(p) \in Nodes /\ Scoped(asked, p) /\ Aim(asked, dstAttr.NoMeta, p) = path

IsKept(path) == path \in DOMAIN dst /\ path \in DOMAIN dst' /\ dst'[path] = dst[path]

\* What a step changes on the target is where something of the source belongs.
LEMMA OnlyAimsChange ==
  ASSUME TypeOK, ScopeInv, [Next]_vars, NEW path \in DOMAIN dst \cup DOMAIN dst'
  PROVE  IsKept(path) \/ IsAim(path)
  <1>1. CASE dst' = dst
    BY <1>1 DEF IsKept
  <1>2. CASE JobStep /\ dst' # dst
    <2>1. /\ job \in Jobs /\ job # NoJob /\ Node(job.path) \in Nodes
          /\ DOMAIN dst' = DOMAIN dst \cup {job.target}
          /\ \A q \in DOMAIN dst : q # job.target => dst'[q] = dst[q]
      BY <1>2, JobWrites, JobStepIs
    <2>2. IsAim(job.target)
      BY <2>1 DEF ScopeInv, ScopedJob, IsAim, Jobs
    <2> QED
      BY <2>1, <2>2 DEF IsKept
  <1>3. CASE NextDirectory /\ dst' # dst
    <2> DEFINE new == Append(Current.path, Head(Current.todo))
    <2>1. /\ InDir("directories") /\ Current.todo # <<>>
          /\ dst' = Store(new, NewDir)
      BY <1>3 DEF NextDirectory
    <2>2. /\ Current.path \in Seq(Names) /\ Current.todo \in Seq(Names)
          /\ ScopedFrame(asked, Current)
      BY <2>1, FrameType, CurrentScoped
    <2>3. /\ new \in Seq(Names) /\ Head(Current.todo) = Current.todo[1]
          /\ 1 \in 1..Len(Current.todo)
      BY <2>1, <2>2, HeadTailProperties
    <2>4. Scoped(asked, new) /\ IsDir(Node(new))
      BY <2>2, <2>3 DEF ScopedFrame
    <2> HIDE DEF new
    <2>5. IsAim(new)
      BY <2>3, <2>4, AimOfDirectory DEF IsAim, IsDir
    <2>6. path = new \/ IsKept(path)
      BY <2>1 DEF Store, IsKept
    <2> QED
      BY <2>5, <2>6
  <1>4. ~(OpenDir \/ NextEntry) \/ dst' = dst
    BY DEF OpenDir, NextEntry
  <1>5. CASE ~Step
    BY <1>1, <1>5 DEF Next, Begin, vars
  <1> QED
    BY <1>1, <1>2, <1>3, <1>4, <1>5 DEF Step, JobStep

\* The paths that the properties are about are at least those that lead somewhere, and
\* no directory of the source has a name twice.
OthersKeptOfEvery ==
  /\ { p \in Seq(Names) : Node(p) \in Nodes } \subseteq Paths
  /\ DistinctNames

\* Nothing on the target changes other than what is to be copied, whatever else is there,
\* whatever fails and wherever the copy stops: createFile() truncates and mkdir() makes
\* only where a file or a directory of the source belongs.
THEOREM OthersAreKept == OthersKeptOfEvery => (Spec => OthersKept)
  <1> DEFINE Kept == \A path \in DOMAIN dst \cup DOMAIN dst' :
                       \/ path \in DOMAIN dst /\ path \in DOMAIN dst' /\ dst'[path] = dst[path]
                       \/ \E p \in Paths : InScope(p) /\ Target(p) = path
  <1> SUFFICES ASSUME OthersKeptOfEvery PROVE Spec => OthersKept
    OBVIOUS
  <1>1. Init => TypeOK /\ ScopeInv
    BY InitType, ScopeInit
  <1>2. TypeOK /\ ScopeInv /\ [Next]_vars => TypeOK' /\ ScopeInv'
    BY NextType, ScopeKept DEF OthersKeptOfEvery
  <1>3. TypeOK /\ ScopeInv /\ [Next]_vars => Kept
    <2> SUFFICES ASSUME TypeOK, ScopeInv, [Next]_vars, NEW path \in DOMAIN dst \cup DOMAIN dst'
                 PROVE  \/ path \in DOMAIN dst /\ path \in DOMAIN dst' /\ dst'[path] = dst[path]
                        \/ \E p \in Paths : InScope(p) /\ Target(p) = path
      OBVIOUS
    <2>1. IsKept(path) \/ IsAim(path)
      BY OnlyAimsChange
    <2>2. IsAim(path) => \E p \in Paths : InScope(p) /\ Target(p) = path
      BY ScopeIs DEF IsAim, OthersKeptOfEvery
    <2> QED
      BY <2>1, <2>2 DEF IsKept
  <1>4. OthersKept <=> [][Kept]_vars
    BY DEF OthersKept
  <1> HIDE DEF Kept
  <1>5. TypeOK /\ ScopeInv /\ [Next]_vars => [Kept]_vars
    BY <1>3
  <1> QED
    BY <1>1, <1>2, <1>4, <1>5, PTL DEF Spec

-----------------------------------------------------------------------------
(***************************************************************************)
(* Where what is to be copied comes from, and goes.                        *)
(***************************************************************************)
\* The name of a file or directory on a target without metadata.
NameWithout(kid) == IF kid.node \in Compressed THEN Suffixed[kid.name] ELSE kid.name

\* No two entries of a directory have the same name there.
DistinctTargets ==
  \A n \in Nodes : \A j, k \in DOMAIN Kids[n] :
    NameWithout(Kids[n][j]) = NameWithout(Kids[n][k]) => j = k

\* Paths lead to nodes, or to nothing.
LEMMA NodeType ==
  ASSUME NEW p \in Seq(Names)
  PROVE  Node(p) \in Nodes \cup {Absent}
  <1>1. Top \in Nodes \cup {Absent} /\ Len(p) \in Nat
    BY SourceAssumption
  <1> QED
    BY <1>1, LookupType DEF Node

\* What exists is an entry of what its directory leads to.
LEMMA NodeParent ==
  ASSUME NEW p \in Seq(Names), NEW name \in Names, Node(Append(p, name)) \in Nodes
  PROVE  /\ Node(p) \in Nodes
         /\ \E k \in 1..Len(Kids[Node(p)]) : /\ Kids[Node(p)][k].name = name
                                             /\ Kids[Node(p)][k].node = Node(Append(p, name))
  <1>1. Node(Append(p, name)) = Descend(Node(p), name)
    BY NodeOfAppend
  <1>2. Descend(Node(p), name) # Absent
    BY <1>1, SourceAssumption
  <1>3. Node(p) \in Nodes
    BY <1>2, NodeType DEF Descend
  <1> QED
    BY <1>1, <1>2, <1>3, DescendEntry

\* Where a file or directory goes that is in a directory that is copied.
LEMMA AimOfLast ==
  ASSUME NEW a, a.function = "copyDir", NEW without \in BOOLEAN,
         NEW p \in Seq(Names), NEW name \in Names, Append(p, name) # a.path
  PROVE  Aim(a, without, Append(p, name))
           = Append(p, IF without /\ Node(Append(p, name)) \in Compressed
                       THEN Suffixed[name] ELSE name)
  <1> DEFINE q == Append(p, name)
  <1>1. q # a.path /\ Last(q) = name
    BY AppendProperties DEF Last
  <1>2. Front(q) = p
    BY FrontOfAppend
  <1>3. Aim(a, without, q) = IF without /\ Node(q) \in Compressed
                             THEN Append(Front(q), Suffixed[Last(q)]) ELSE q
    BY <1>1 DEF Aim
  <1> HIDE DEF q
  <1>4. CASE without /\ Node(q) \in Compressed
    BY <1>1, <1>2, <1>3, <1>4 DEF q
  <1>5. CASE ~(without /\ Node(q) \in Compressed)
    BY <1>3, <1>5 DEF q
  <1> QED
    BY <1>4, <1>5

\* An entry of the directory f that is p, and goes to the same directory of the target.
IsPart(a, without, p, f, k) ==
  LET kid == Kids[Node(f)][k] IN
  /\ Node(f) \in Nodes /\ kid.name \in Names /\ kid.node = Node(p)
  /\ p = Append(f, kid.name) /\ Len(p) = Len(f) + 1 /\ Len(p) > Len(a.path)
  /\ Aim(a, without, p) = Append(f, IF without THEN NameWithout(kid) ELSE kid.name)

\* What is in scope, and is not what is asked for, is in a directory.
LEMMA ScopedParts ==
  ASSUME NEW a, a.path \in Seq(Names), a.function = "copyDir", NEW without \in BOOLEAN,
         NEW p \in Seq(Names), Scoped(a, p), p # a.path
  PROVE  \E f \in Seq(Names) : \E k \in 1..Len(Kids[Node(f)]) : IsPart(a, without, p, f, k)
  <1>1. Len(p) > Len(a.path) /\ Node(p) \in Nodes
    <2>1. Len(a.path) <= Len(p) /\ \A i \in 1..Len(a.path) : p[i] = a.path[i]
      BY PrefixIs DEF Scoped
    <2>2. Len(p) = Len(a.path) => p = a.path
      BY <2>1, SeqEqual
    <2>3. Len(p) \in Nat /\ Len(a.path) \in Nat
      OBVIOUS
    <2> QED
      BY <2>1, <2>2, <2>3 DEF Scoped
  <1>2. Len(p) > 0
    <2>1. Len(p) \in Nat /\ Len(a.path) \in Nat
      OBVIOUS
    <2> QED
      BY <1>1, <2>1
  <1>3. PICK f \in Seq(Names), name \in Names : p = Append(f, name) /\ Len(p) = Len(f) + 1
    BY <1>2, PathParts
  <1>4. Node(f) \in Nodes
    BY <1>1, <1>3, NodeParent
  <1>5. PICK k \in 1..Len(Kids[Node(f)]) : /\ Kids[Node(f)][k].name = name
                                          /\ Kids[Node(f)][k].node = Node(p)
    BY <1>1, <1>3, NodeParent
  <1>6. Aim(a, without, p) = Append(f, IF without /\ Node(p) \in Compressed
                                       THEN Suffixed[name] ELSE name)
    BY <1>3, AimOfLast
  <1>7. (IF without /\ Node(p) \in Compressed THEN Suffixed[name] ELSE name)
          = IF without THEN NameWithout(Kids[Node(f)][k]) ELSE Kids[Node(f)][k].name
    BY <1>5 DEF NameWithout
  <1> QED
    BY <1>1, <1>3, <1>4, <1>5, <1>6, <1>7 DEF IsPart

\* No two things go to the same path.
LEMMA AimsDistinct ==
  ASSUME DistinctTargets, NEW a, a.path \in Seq(Names), NEW without \in BOOLEAN,
         NEW p \in Seq(Names), Scoped(a, p), NEW q \in Seq(Names), Scoped(a, q),
         Aim(a, without, p) = Aim(a, without, q)
  PROVE  p = q
  <1>1. CASE a.function # "copyDir"
    BY <1>1 DEF Scoped
  <1>2. CASE a.function = "copyDir"
    <2>1. Aim(a, without, a.path) = a.path
      BY DEF Aim
    <2>2. ASSUME NEW r \in Seq(Names), Scoped(a, r), r # a.path
          PROVE  Aim(a, without, r) # a.path
      <3>1. PICK f \in Seq(Names) : \E k \in 1..Len(Kids[Node(f)]) : IsPart(a, without, r, f, k)
        BY <1>2, <2>2, ScopedParts
      <3>2. PICK x : /\ Aim(a, without, r) = Append(f, x)
                     /\ Len(r) = Len(f) + 1 /\ Len(r) > Len(a.path)
                     /\ x \in Names
        BY <3>1, CopierAssumption DEF IsPart, NameWithout
      <3>3. Len(Append(f, x)) = Len(f) + 1
        BY <3>2
      <3> QED
        BY <3>2, <3>3
    <2>3. CASE p # a.path /\ q # a.path
      <3>1. PICK f \in Seq(Names) : \E j \in 1..Len(Kids[Node(f)]) : IsPart(a, without, p, f, j)
        BY <1>2, <2>3, ScopedParts
      <3>2. PICK j \in 1..Len(Kids[Node(f)]) :
              /\ Node(f) \in Nodes /\ Kids[Node(f)][j].name \in Names
              /\ p = Append(f, Kids[Node(f)][j].name)
              /\ Aim(a, without, p) = Append(f, IF without THEN NameWithout(Kids[Node(f)][j])
                                                           ELSE Kids[Node(f)][j].name)
        BY <3>1 DEF IsPart
      <3>3. PICK g \in Seq(Names) : \E k \in 1..Len(Kids[Node(g)]) : IsPart(a, without, q, g, k)
        BY <1>2, <2>3, ScopedParts
      <3>4. PICK k \in 1..Len(Kids[Node(g)]) :
              /\ Node(g) \in Nodes /\ Kids[Node(g)][k].name \in Names
              /\ q = Append(g, Kids[Node(g)][k].name)
              /\ Aim(a, without, q) = Append(g, IF without THEN NameWithout(Kids[Node(g)][k])
                                                           ELSE Kids[Node(g)][k].name)
        BY <3>3 DEF IsPart
      <3> DEFINE x == IF without THEN NameWithout(Kids[Node(f)][j]) ELSE Kids[Node(f)][j].name
                 y == IF without THEN NameWithout(Kids[Node(g)][k]) ELSE Kids[Node(g)][k].name
      <3>5. x \in Names /\ y \in Names
        BY <3>2, <3>4, CopierAssumption DEF NameWithout
      <3>6. Append(f, x) = Append(g, y)
        BY <3>2, <3>4
      <3>7. f = g /\ x = y
        <4> HIDE DEF x, y
        <4> QED
          BY SMTT(20), <3>5, <3>6, AppendsEqual
      <3>8. CASE without
        <4>1. Kids[Node(f)] \in Seq(Kid) /\ j \in DOMAIN Kids[Node(f)] /\ k \in DOMAIN Kids[Node(f)]
          BY <3>2, <3>4, <3>7, SourceAssumption
        <4>2. NameWithout(Kids[Node(f)][j]) = NameWithout(Kids[Node(f)][k])
          BY <3>7, <3>8
        <4>3. j = k
          BY <3>2, <4>1, <4>2 DEF DistinctTargets
        <4> QED
          BY <3>2, <3>4, <3>7, <4>3
      <3>9. CASE ~without
        BY <3>2, <3>4, <3>7, <3>9
      <3> QED
        BY <3>8, <3>9
    <2> QED
      BY <2>1, <2>2, <2>3
  <1> QED
    BY <1>1, <1>2

(***************************************************************************)
(* What has been copied, and what the handler has been told of: Copied(),  *)
(* AttributesCopied() and IsToldOf() for a call a, a target d without      *)
(* metadata or with, and what has been told (t) and not been told (s).     *)
(***************************************************************************)
CopiedTo(a, without, d, path) ==
  a.function # "copyAttributes" =>
    /\ Aim(a, without, path) \in DOMAIN d
    /\ d[Aim(a, without, path)].kind = (IF IsDir(Node(path)) THEN "Directory" ELSE "File")
    /\ Kind[Node(path)] = "File" => d[Aim(a, without, path)].size = Size[Node(path)]

AttributesTo(a, without, d, path) ==
  /\ Aim(a, without, path) \in DOMAIN d
  /\ Range(Attrs[Node(path)]) \subseteq d[Aim(a, without, path)].attrs

TellsOf(a, without, t, s, path, operations) ==
  \/ \E x \in t : x.path \in {path, Aim(a, without, path)} /\ x.operation \in operations
  \/ \E x \in s : IsPrefix(x, path)

OfData == Operations \ OfAttributes

Accounted(a, without, d, t, s, path) ==
  /\ CopiedTo(a, without, d, path) \/ TellsOf(a, without, t, s, path, OfData)
  /\ AttributesTo(a, without, d, path) \/ TellsOf(a, without, t, s, path, Operations)

\* What the properties count as copied and as told, of the parameters.
LEMMA AccountIs ==
  ASSUME NEW path
  PROVE  /\ Copied(path) <=> CopiedTo(asked, dstAttr.NoMeta, dst, path)
         /\ AttributesCopied(path) <=> AttributesTo(asked, dstAttr.NoMeta, dst, path)
         /\ \A ops : IsToldOf(path, ops) <=> TellsOf(asked, dstAttr.NoMeta, told, silent, path, ops)
  <1>1. Target(path) = Aim(asked, dstAttr.NoMeta, path)
    BY ScopeIs
  <1>2. Copied(path) <=> CopiedTo(asked, dstAttr.NoMeta, dst, path)
    BY <1>1 DEF Copied, CopiedTo, Exists
  <1>3. AttributesCopied(path) <=> AttributesTo(asked, dstAttr.NoMeta, dst, path)
    BY <1>1 DEF AttributesCopied, AttributesTo, Exists
  <1>4. ASSUME NEW ops
        PROVE  IsToldOf(path, ops) <=> TellsOf(asked, dstAttr.NoMeta, told, silent, path, ops)
    BY <1>1 DEF IsToldOf, TellsOf
  <1> QED
    BY <1>2, <1>3, <1>4

\* What has been told stays told.
LEMMA TellsMore ==
  ASSUME NEW a, NEW without, NEW t, NEW s, NEW path, NEW ops, NEW t2, NEW s2, NEW ops2,
         TellsOf(a, without, t, s, path, ops), t \subseteq t2, s \subseteq s2, ops \subseteq ops2
  PROVE  TellsOf(a, without, t2, s2, path, ops2)
  BY DEF TellsOf

\* What is said of data is said of all.
LEMMA TellsOfAll ==
  ASSUME NEW a, NEW without, NEW d, NEW t, NEW s, NEW path,
         TellsOf(a, without, t, s, path, OfData)
  PROVE  /\ TellsOf(a, without, t, s, path, Operations)
         /\ Accounted(a, without, d, t, s, path)
  <1>1. OfData \subseteq Operations
    BY DEF OfData
  <1>2. TellsOf(a, without, t, s, path, Operations)
    BY <1>1, TellsMore
  <1> QED
    BY <1>2 DEF Accounted

\* What a target has of a path, the other has, and it may have more attributes.
Extends(d, d2, path) ==
  path \in DOMAIN d =>
    /\ path \in DOMAIN d2
    /\ d2[path].kind = d[path].kind
    /\ d2[path].size = d[path].size
    /\ d[path].attrs \subseteq d2[path].attrs

\* What is accounted for stays so while its item is only added to and more is told.
LEMMA AccountedMore ==
  ASSUME NEW a, NEW without, NEW d, NEW t, NEW s, NEW path, NEW d2, NEW t2, NEW s2,
         t \subseteq t2, s \subseteq s2, Extends(d, d2, Aim(a, without, path))
  PROVE  /\ CopiedTo(a, without, d, path) => CopiedTo(a, without, d2, path)
         /\ AttributesTo(a, without, d, path) => AttributesTo(a, without, d2, path)
         /\ Accounted(a, without, d, t, s, path) => Accounted(a, without, d2, t2, s2, path)
  <1>1. CopiedTo(a, without, d, path) => CopiedTo(a, without, d2, path)
    BY DEF CopiedTo, Extends
  <1>2. AttributesTo(a, without, d, path) => AttributesTo(a, without, d2, path)
    BY DEF AttributesTo, Extends
  <1>3. \A ops : TellsOf(a, without, t, s, path, ops) => TellsOf(a, without, t2, s2, path, ops)
    BY TellsMore
  <1> QED
    BY <1>1, <1>2, <1>3 DEF Accounted

-----------------------------------------------------------------------------
(***************************************************************************)
(* How far a job has got.                                                  *)
(***************************************************************************)
DataDone(j, d) ==
  /\ d[j.target].kind = "File"
  /\ d[j.target].size = j.next - 1
  /\ j.next - 1 <= Size[Node(j.path)]

AttributesDone(j, a, without, d, t, s) ==
  \A k \in 1..Len(Attrs[Node(j.path)]) :
    k < j.next => \/ Attrs[Node(j.path)][k] \in d[j.target].attrs
                  \/ TellsOf(a, without, t, s, j.path, Operations)

Progress(j, a, without, d, t, s) ==
  j # NoJob /\ Node(j.path) \in Nodes =>
    /\ j.phase \in {"source", "target", "create"} => j.next = 1
    /\ j.isFile => j.phase # "target" /\ Kind[Node(j.path)] = "File"
    /\ ~j.isFile => j.phase \notin {"create", "data"}
    /\ j.phase = "data" => DataDone(j, d) \/ TellsOf(a, without, t, s, j.path, OfData)
    /\ j.phase = "attributes" =>
         /\ CopiedTo(a, without, d, j.path) \/ TellsOf(a, without, t, s, j.path, OfData)
         /\ AttributesDone(j, a, without, d, t, s)
    /\ ~j.isFile =>
         \/ CopiedTo(a, without, d, j.path)
         \/ TellsOf(a, without, t, s, j.path, OfData)
         \/ j.phase \in {"source", "target"} /\ j.target \notin DOMAIN d

\* The job in hand has done what its phase says.
JobInv == Progress(job, asked, dstAttr.NoMeta, dst, told, silent)

\* No job has nothing to show.
LEMMA NoProgress == \A a, w, d, t, s : Progress(NoJob, a, w, d, t, s)
  BY DEF Progress

\* A fresh job.
LEMMA ProgressOfNew ==
  ASSUME NEW path, NEW target, NEW isFile \in BOOLEAN,
         NEW a, NEW without, NEW d, NEW t, NEW s,
         Node(path) \in Nodes /\ isFile => Kind[Node(path)] = "File",
         Node(path) \in Nodes /\ ~isFile =>
           \/ CopiedTo(a, without, d, path)
           \/ TellsOf(a, without, t, s, path, OfData)
           \/ target \notin DOMAIN d
  PROVE  Progress(Job(path, target, isFile), a, without, d, t, s)
  <1> DEFINE j == Job(path, target, isFile)
  <1>1. j.path = path /\ j.isFile = isFile /\ j.phase = "source" /\ j.next = 1
        /\ j.target = target
    BY DEF Job
  <1> HIDE DEF j
  <1>2. Progress(j, a, without, d, t, s)
    BY <1>1 DEF Progress
  <1> QED
    BY <1>2 DEF j

\* A step of a job keeps count of it; when it ends the job is accounted for, or the
\* handler has stopped the copy.
JobOutcome ==
  \/ /\ job' = NoJob
     /\ \/ result' = "stopped"
        \/ Accounted(asked, dstAttr.NoMeta, dst', told', silent', job.path)
  \/ /\ job' # NoJob
     /\ Progress(job', asked, dstAttr.NoMeta, dst', told', silent')

\* The handler is told of an error by the path of the source, or of the target.
LEMMA TellTells ==
  ASSUME NEW a, NEW without, NEW path, NEW operation, NEW goOn,
         NEW at \in {path, Aim(a, without, path)}, Tell(operation, at, goOn),
         NEW ops, operation \in ops
  PROVE  TellsOf(a, without, told', silent', path, ops)
  <1>1. [operation |-> operation, path |-> at] \in told'
    BY DEF Tell
  <1> QED
    BY <1>1 DEF TellsOf

\* A job that ends with an error other than of its attributes.
LEMMA FailOutcome ==
  ASSUME NEW operation \in OfData, NEW path \in {job.path, job.target},
         job.target = Aim(asked, dstAttr.NoMeta, job.path), Fail(operation, path)
  PROVE  JobOutcome
  <1>1. PICK goOn \in Answers :
           Tell(operation, path, goOn) /\ (IF goOn THEN Succeed ELSE Stop)
    BY DEF Fail
  <1>2. job' = NoJob
    BY <1>1 DEF Succeed, Stop
  <1>3. TellsOf(asked, dstAttr.NoMeta, told', silent', job.path, OfData)
    BY <1>1, TellTells
  <1>4. Accounted(asked, dstAttr.NoMeta, dst', told', silent', job.path)
    BY <1>3, TellsOfAll
  <1> QED
    BY <1>2, <1>4 DEF JobOutcome

\* The operations that lose data.
LEMMA OfDataIs ==
  /\ "open" \in OfData /\ "create" \in OfData /\ "mkdir" \in OfData
  /\ "read" \in OfData /\ "write" \in OfData
  BY DEF OfData, Operations, OfAttributes

\* What is known of a job that goes on.
LEMMA JobFacts ==
  ASSUME TypeOK, ScopeInv, JobInv, JobStep
  PROVE  /\ job \in Jobs /\ job # NoJob /\ job.isFile \in BOOLEAN /\ job.next \in Nat \ {0}
         /\ job.target = Aim(asked, dstAttr.NoMeta, job.path)
         /\ dst \in [DOMAIN dst -> Item]
         /\ told \subseteq told' /\ silent \subseteq silent'
         /\ Progress(job, asked, dstAttr.NoMeta, dst, told, silent)
         /\ Node(job.path) \in Nodes => /\ Size[Node(job.path)] \in Nat
                                        /\ Attrs[Node(job.path)] \in Seq(Tags)
  <1>1. job \in Jobs /\ job # NoJob /\ told \subseteq told' /\ silent \subseteq silent'
    BY JobStepIs
  <1>2. job.isFile \in BOOLEAN /\ job.next \in Nat \ {0}
    BY <1>1 DEF Jobs
  <1>3. job.target = Aim(asked, dstAttr.NoMeta, job.path)
    BY <1>1 DEF ScopeInv, ScopedJob
  <1>4. dst \in [DOMAIN dst -> Item]
    BY DEF TypeOK, StoreOK
  <1>5. Node(job.path) \in Nodes => /\ Size[Node(job.path)] \in Nat
                                    /\ Attrs[Node(job.path)] \in Seq(Tags)
    BY SourceAssumption, CopierAssumption
  <1> QED
    BY <1>1, <1>2, <1>3, <1>4, <1>5 DEF JobInv

\* A job has a phase, and no job is of a phase.
LEMMA PhaseIsJob ==
  ASSUME NEW j, NEW x \in {"source", "target", "create", "data", "attributes"}, j.phase = x
  PROVE  j # NoJob
  BY DEF NoJob

\* A job that opens its source goes on or is told of.
LEMMA OpenSourceOutcome ==
  ASSUME TypeOK, ScopeInv, JobInv, OpenSource
  PROVE  JobOutcome
  <1>1. JobStep
    BY DEF JobStep
  <1>2. CASE Fail("open", job.path)
    BY <1>1, <1>2, JobFacts, FailOutcome, OfDataIs
  <1>3. CASE /\ Node(job.path) \in Nodes
             /\ Proceed([job EXCEPT !.phase = IF job.isFile THEN "create" ELSE "target"])
             /\ UNCHANGED dst
             /\ Quiet
    <2> DEFINE j == [job EXCEPT !.phase = IF job.isFile THEN "create" ELSE "target"]
    <2>1. /\ job' = j /\ UNCHANGED <<dst, told, silent>> /\ job.phase = "source"
      BY <1>3 DEF Proceed, Quiet, OpenSource
    <2>2. /\ j.path = job.path /\ j.isFile = job.isFile /\ j.next = job.next
          /\ j.target = job.target
          /\ j.phase = IF job.isFile THEN "create" ELSE "target"
      BY <1>1, JobFacts DEF Jobs
    <2>3. Progress(job, asked, dstAttr.NoMeta, dst, told, silent) /\ job # NoJob
      BY <1>1, JobFacts
    <2> HIDE DEF j
    <2>4. Progress(j, asked, dstAttr.NoMeta, dst, told, silent)
      BY <1>3, <2>1, <2>2, <2>3 DEF Progress
    <2>5. j # NoJob
      BY <2>2, PhaseIsJob
    <2> QED
      BY <2>1, <2>4, <2>5 DEF JobOutcome
  <1> QED
    BY <1>2, <1>3 DEF OpenSource

\* copyAttributes() opens its target or is told of.
LEMMA OpenTargetOutcome ==
  ASSUME TypeOK, ScopeInv, JobInv, OpenTarget
  PROVE  JobOutcome
  <1>1. JobStep
    BY DEF JobStep
  <1>2. CASE Fail("open", job.target)
    BY <1>1, <1>2, JobFacts, FailOutcome, OfDataIs
  <1>3. CASE /\ job.target \in DOMAIN dst
             /\ Proceed([job EXCEPT !.phase = "attributes"]) /\ UNCHANGED dst /\ Quiet
    <2> DEFINE j == [job EXCEPT !.phase = "attributes"]
    <2>1. job' = j /\ UNCHANGED <<dst, told, silent>> /\ job.phase = "target"
      BY <1>3 DEF Proceed, Quiet, OpenTarget
    <2>2. /\ j.path = job.path /\ j.isFile = job.isFile /\ j.next = job.next
          /\ j.phase = "attributes" /\ j.target = job.target
      BY <1>1, JobFacts DEF Jobs
    <2>3. /\ Progress(job, asked, dstAttr.NoMeta, dst, told, silent) /\ job # NoJob
          /\ job.isFile \in BOOLEAN
      BY <1>1, JobFacts
    <2>4. Node(job.path) \in Nodes
      BY <2>1 DEF TypeOK, JobOK
    <2> HIDE DEF j
    <2>5. ~j.isFile /\ j.next = 1
      BY <2>1, <2>2, <2>3, <2>4 DEF Progress
    <2>6. AttributesDone(j, asked, dstAttr.NoMeta, dst, told, silent)
      BY <2>5 DEF AttributesDone
    <2>7. Progress(j, asked, dstAttr.NoMeta, dst, told, silent)
      BY <1>3, <2>1, <2>2, <2>3, <2>4, <2>5, <2>6 DEF Progress
    <2>8. j # NoJob
      BY <2>2, PhaseIsJob
    <2> QED
      BY <2>1, <2>7, <2>8 DEF JobOutcome
  <1> QED
    BY <1>2, <1>3 DEF OpenTarget

\* A job that creates its target goes on with an empty file, or is told of.
LEMMA CreateTargetOutcome ==
  ASSUME TypeOK, ScopeInv, JobInv, CreateTarget
  PROVE  JobOutcome
  <1>1. JobStep
    BY DEF JobStep
  <1>2. CASE Fail("create", job.target)
    BY <1>1, <1>2, JobFacts, FailOutcome, OfDataIs
  <1>3. CASE /\ dst' = Store(job.target, NewFile(job.target))
             /\ Proceed([job EXCEPT !.phase = "data"])
             /\ Quiet
    <2> DEFINE j == [job EXCEPT !.phase = "data"]
    <2>1. job' = j /\ UNCHANGED <<told, silent>> /\ job.phase = "create"
      BY <1>3 DEF Proceed, Quiet, CreateTarget
    <2>2. /\ j.path = job.path /\ j.isFile = job.isFile /\ j.next = job.next
          /\ j.phase = "data" /\ j.target = job.target
      BY <1>1, JobFacts DEF Jobs
    <2>3. /\ Progress(job, asked, dstAttr.NoMeta, dst, told, silent) /\ job # NoJob
          /\ job.isFile \in BOOLEAN
      BY <1>1, JobFacts
    <2>4. Node(job.path) \in Nodes /\ Size[Node(job.path)] \in Nat
      BY <1>1, <2>1, JobFacts DEF TypeOK, JobOK
    <2> HIDE DEF j
    <2>5. j.isFile /\ Kind[Node(j.path)] = "File" /\ j.next = 1
      BY <2>1, <2>2, <2>3, <2>4 DEF Progress
    <2>6. dst'[j.target].kind = "File" /\ dst'[j.target].size = 0
      BY <1>3, <2>2 DEF Store, NewFile
    <2>7. DataDone(j, dst')
      BY <2>2, <2>4, <2>5, <2>6 DEF DataDone
    <2>8. Progress(j, asked, dstAttr.NoMeta, dst', told', silent')
      BY <2>2, <2>5, <2>7 DEF Progress
    <2>9. j # NoJob
      BY <2>2, PhaseIsJob
    <2> QED
      BY <2>1, <2>8, <2>9 DEF JobOutcome
  <1> QED
    BY <1>2, <1>3 DEF CreateTarget

\* A block is copied, is the last one, or is told of or written short.
LEMMA CopyBlockOutcome ==
  ASSUME TypeOK, ScopeInv, JobInv, CopyBlock
  PROVE  JobOutcome
  <1>1. JobStep
    BY DEF JobStep
  <1> DEFINE more == [job EXCEPT !.next = @ + 1]
             last == [job EXCEPT !.phase = "attributes", !.next = 1]
             size == Size[Node(job.path)]
             w    == dstAttr.NoMeta
  <1>2. /\ job \in Jobs /\ job # NoJob /\ job.isFile \in BOOLEAN /\ job.next \in Nat \ {0}
        /\ job.target = Aim(asked, w, job.path)
        /\ dst \in [DOMAIN dst -> Item]
        /\ told \subseteq told' /\ silent \subseteq silent'
        /\ Progress(job, asked, w, dst, told, silent)
    BY <1>1, JobFacts
  <1>3. /\ job.phase = "data" /\ Node(job.path) \in Nodes /\ job.target \in DOMAIN dst
        /\ size \in Nat
    BY <1>1, JobFacts DEF CopyBlock, TypeOK, JobOK, Exists
  <1>4. /\ job.isFile /\ Kind[Node(job.path)] = "File"
        /\ DataDone(job, dst) \/ TellsOf(asked, w, told, silent, job.path, OfData)
    BY <1>2, <1>3 DEF Progress
  <1>5. /\ more.path = job.path /\ more.target = job.target /\ more.isFile = job.isFile
        /\ more.phase = "data" /\ more.next = job.next + 1
        /\ last.path = job.path /\ last.target = job.target /\ last.isFile = job.isFile
        /\ last.phase = "attributes" /\ last.next = 1
    BY <1>2, <1>3 DEF Jobs
  <1>6. TellsOf(asked, w, told, silent, job.path, OfData)
          => TellsOf(asked, w, told', silent', job.path, OfData)
    BY <1>2, TellsMore
  <1>7. CASE Fail("read", job.path)
    BY <1>2, <1>7, FailOutcome, OfDataIs
  <1>8. CASE Fail("write", job.target)
    BY <1>2, <1>8, FailOutcome, OfDataIs
  <1>9. ASSUME DataDone(more, dst') \/ TellsOf(asked, w, told', silent', job.path, OfData),
               Proceed(more)
        PROVE  JobOutcome
    <2>1. job' = more
      BY <1>9 DEF Proceed
    <2> HIDE DEF more
    <2>2. Progress(more, asked, w, dst', told', silent') /\ more # NoJob
      BY <1>4, <1>5, <1>9, PhaseIsJob DEF Progress
    <2> QED
      BY <2>1, <2>2 DEF JobOutcome
  <1>10. CASE job.next <= size /\ dst' = [dst EXCEPT ![job.target].size = @ + 1] /\ Proceed(more)
    <2>1. DataDone(job, dst) => DataDone(more, dst')
      <3>1. dst[job.target] \in Item
        BY <1>2, <1>3
      <3>2. /\ dst'[job.target].kind = dst[job.target].kind
            /\ dst'[job.target].size = dst[job.target].size + 1
        BY <1>2, <1>3, <1>10, <3>1 DEF Item
      <3> HIDE DEF more
      <3> QED
        BY <1>2, <1>3, <1>5, <1>10, <3>2 DEF DataDone
    <2> QED
      BY <1>4, <1>6, <1>9, <1>10, <2>1
  <1>11. CASE silent' = silent \cup {job.path} /\ Proceed(more)
    <2>1. IsPrefix(job.path, job.path)
      BY <1>2, PrefixIs DEF Jobs
    <2>2. TellsOf(asked, w, told', silent', job.path, OfData)
      BY <1>11, <2>1 DEF TellsOf
    <2> QED
      BY <1>9, <1>11, <2>2
  <1>12. CASE job.next > size /\ Proceed(last) /\ UNCHANGED dst /\ Quiet
    <2>1. DataDone(job, dst) => CopiedTo(asked, w, dst, job.path)
      <3>1. ASSUME DataDone(job, dst) PROVE CopiedTo(asked, w, dst, job.path)
        <4>1. job.next - 1 = size
          BY <1>2, <1>3, <1>12, <3>1 DEF DataDone
        <4>2. ~IsDir(Node(job.path))
          BY <1>4 DEF IsDir
        <4>3. dst[job.target].kind = "File" /\ dst[job.target].size = size
          BY <3>1, <4>1 DEF DataDone
        <4> QED
          BY <1>2, <1>3, <4>2, <4>3 DEF CopiedTo
      <3> QED
        BY <3>1
    <2>2. CopiedTo(asked, w, dst', job.path) \/ TellsOf(asked, w, told', silent', job.path, OfData)
      BY <1>4, <1>6, <1>12, <2>1
    <2>3. job' = last
      BY <1>12 DEF Proceed
    <2> HIDE DEF last
    <2>4. AttributesDone(last, asked, w, dst', told', silent')
      BY <1>5 DEF AttributesDone
    <2>5. Progress(last, asked, w, dst', told', silent') /\ last # NoJob
      BY <1>4, <1>5, <2>2, <2>4, PhaseIsJob DEF Progress
    <2> QED
      BY <2>3, <2>5 DEF JobOutcome
  <1> QED
    BY <1>7, <1>8, <1>10, <1>11, <1>12 DEF CopyBlock

\* An attribute is copied, is the last one, or is told of.
LEMMA CopyAttributeOutcome ==
  ASSUME TypeOK, ScopeInv, JobInv, CopyAttribute
  PROVE  JobOutcome
  <1>1. JobStep
    BY DEF JobStep
  <1> DEFINE attrs == Attrs[Node(job.path)]
             w     == dstAttr.NoMeta
  <1>2. /\ job \in Jobs /\ job # NoJob /\ job.next \in Nat \ {0}
        /\ job.target = Aim(asked, w, job.path)
        /\ dst \in [DOMAIN dst -> Item]
        /\ told \subseteq told' /\ silent \subseteq silent'
        /\ Progress(job, asked, w, dst, told, silent)
    BY <1>1, JobFacts
  <1>3. /\ job.phase = "attributes" /\ Node(job.path) \in Nodes /\ job.target \in DOMAIN dst
        /\ attrs \in Seq(Tags)
    BY <1>1, JobFacts DEF CopyAttribute, TypeOK, JobOK, Exists
  <1>4. /\ CopiedTo(asked, w, dst, job.path) \/ TellsOf(asked, w, told, silent, job.path, OfData)
        /\ AttributesDone(job, asked, w, dst, told, silent)
        /\ job.isFile => Kind[Node(job.path)] = "File"
    BY <1>2, <1>3 DEF Progress
  <1>5. \A ops : TellsOf(asked, w, told, silent, job.path, ops)
                   => TellsOf(asked, w, told', silent', job.path, ops)
    BY <1>2, TellsMore
  <1>6. ASSUME Extends(dst, dst', job.target)
        PROVE  \/ CopiedTo(asked, w, dst', job.path)
               \/ TellsOf(asked, w, told', silent', job.path, OfData)
    BY <1>2, <1>4, <1>5, <1>6, AccountedMore
  <1>7. ASSUME NEW n \in Nat, Extends(dst, dst', job.target),
               Proceed([job EXCEPT !.next = n]),
               \A k \in 1..Len(attrs) :
                 k < n => \/ attrs[k] \in dst'[job.target].attrs
                          \/ TellsOf(asked, w, told', silent', job.path, Operations)
        PROVE  JobOutcome
    <2> DEFINE j == [job EXCEPT !.next = n]
    <2>1. job' = j
      BY <1>7 DEF Proceed
    <2>2. /\ j.path = job.path /\ j.target = job.target /\ j.isFile = job.isFile
          /\ j.phase = "attributes" /\ j.next = n
      BY <1>2, <1>3 DEF Jobs
    <2> HIDE DEF j
    <2>3. AttributesDone(j, asked, w, dst', told', silent')
      BY <1>7, <2>2 DEF AttributesDone
    <2>4. Progress(j, asked, w, dst', told', silent') /\ j # NoJob
      BY <1>4, <1>6, <1>7, <2>2, <2>3, PhaseIsJob DEF Progress
    <2> QED
      BY <2>1, <2>4 DEF JobOutcome
  <1>8. dst' = dst => Extends(dst, dst', job.target)
    BY DEF Extends
  <1>9. ASSUME NEW operation \in OfAttributes, NEW goOn, NEW path \in {job.path, job.target},
               Tell(operation, path, goOn)
        PROVE  TellsOf(asked, w, told', silent', job.path, Operations)
    <2>1. operation \in Operations
      BY DEF OfAttributes, Operations
    <2> QED
      BY <1>2, <1>9, <2>1, TellTells
  <1>10. CASE Fail("enumattr", job.path)
    <2>1. PICK goOn \in Answers :
             Tell("enumattr", job.path, goOn) /\ (IF goOn THEN Succeed ELSE Stop)
      BY <1>10 DEF Fail
    <2>2. job' = NoJob /\ dst' = dst
      BY <1>10, <2>1 DEF Fail, Succeed, Stop
    <2>3. TellsOf(asked, w, told', silent', job.path, Operations)
      BY <1>9, <2>1 DEF OfAttributes
    <2>4. Accounted(asked, w, dst', told', silent', job.path)
      BY <1>6, <1>8, <2>2, <2>3 DEF Accounted
    <2> QED
      BY <2>2, <2>4 DEF JobOutcome
  <1>11. CASE /\ job.next <= Len(attrs)
              /\ dst' = [dst EXCEPT ![job.target].attrs = @ \cup {attrs[job.next]}]
              /\ Proceed([job EXCEPT !.next = @ + 1])
    <2> HIDE DEF attrs
    <2>1. dst[job.target] \in Item
      BY <1>2, <1>3
    <2>2. /\ DOMAIN dst' = DOMAIN dst
          /\ dst'[job.target].attrs = dst[job.target].attrs \cup {attrs[job.next]}
          /\ dst'[job.target].kind = dst[job.target].kind
          /\ dst'[job.target].size = dst[job.target].size
      BY <1>2, <1>3, <1>11, <2>1 DEF Item
    <2>3. Extends(dst, dst', job.target)
      BY <2>2 DEF Extends
    <2>4. ASSUME NEW k \in 1..Len(attrs), k < job.next + 1
          PROVE  \/ attrs[k] \in dst'[job.target].attrs
                 \/ TellsOf(asked, w, told', silent', job.path, Operations)
      <3>1. CASE k = job.next
        BY <2>2, <3>1
      <3>2. CASE k # job.next
        <4>1. k < job.next
          BY <1>2, <2>4, <3>2
        <4> QED
          BY <1>4, <1>5, <2>2, <4>1 DEF AttributesDone, attrs
      <3> QED
        BY <3>1, <3>2
    <2>5. job.next + 1 \in Nat
      BY <1>2
    <2> QED
      BY <1>7, <1>11, <2>3, <2>4, <2>5
  <1>12. CASE /\ \E goOn \in Answers :
                   Tell("setattr", job.target, goOn) /\ Proceed(AfterRefused(goOn))
              /\ UNCHANGED <<dst, dstAttr, asked, silent>>
    <2>1. PICK goOn \in Answers :
             Tell("setattr", job.target, goOn) /\ Proceed(AfterRefused(goOn))
      BY <1>12
    <2>2. TellsOf(asked, w, told', silent', job.path, Operations)
      BY <1>9, <2>1 DEF OfAttributes
    <2> DEFINE n == IF goOn THEN job.next + 1 ELSE Len(attrs) + 1
    <2>3. n \in Nat /\ Proceed([job EXCEPT !.next = n])
      BY <1>2, <1>3, <2>1 DEF AfterRefused
    <2> HIDE DEF n
    <2> QED
      BY <1>7, <1>8, <1>12, <2>2, <2>3
  <1>13. CASE job.next > Len(attrs) /\ Succeed /\ UNCHANGED dst /\ Quiet
    <2>1. job' = NoJob
      BY <1>13 DEF Succeed
    <2>2. \/ AttributesTo(asked, w, dst, job.path)
          \/ TellsOf(asked, w, told, silent, job.path, Operations)
      <3>1. ASSUME ~TellsOf(asked, w, told, silent, job.path, Operations)
            PROVE  AttributesTo(asked, w, dst, job.path)
        <4>1. \A k \in 1..Len(attrs) : k < job.next
          BY <1>2, <1>3, <1>13
        <4>2. \A k \in 1..Len(attrs) : attrs[k] \in dst[job.target].attrs
          BY <1>4, <3>1, <4>1 DEF AttributesDone
        <4>3. DOMAIN attrs = 1..Len(attrs)
          BY <1>3
        <4>4. Range(attrs) \subseteq dst[job.target].attrs
          BY <4>2, <4>3 DEF Range
        <4> QED
          BY <1>2, <1>3, <4>4 DEF AttributesTo
      <3> QED
        BY <3>1
    <2>3. UNCHANGED <<told, silent>>
      BY <1>13 DEF Quiet
    <2>4. Accounted(asked, w, dst', told', silent', job.path)
      BY <1>6, <1>8, <1>13, <2>2, <2>3 DEF Accounted
    <2> QED
      BY <2>1, <2>4 DEF JobOutcome
  <1> QED
    BY <1>10, <1>11, <1>12, <1>13 DEF CopyAttribute

\* Every step of a job has one of the outcomes.
LEMMA JobStepOutcome ==
  ASSUME TypeOK, ScopeInv, JobInv, JobStep
  PROVE  JobOutcome
  BY OpenSourceOutcome, OpenTargetOutcome, CreateTargetOutcome, CopyBlockOutcome,
     CopyAttributeOutcome DEF JobStep

(***************************************************************************)
(* What is assumed of the source, and of what is asked for.                *)
(***************************************************************************)
\* Only directories have entries.
FilesAreLeaves == \A n \in Nodes : Kind[n] = "File" => Kids[n] = <<>>

\* A call is for what its function copies, and where a directory is to be copied the
\* target has no file.
CallsFit ==
  \A c \in Calls :
    /\ c.function = "copyFile" => ~IsDir(Node(c.path))
    /\ c.function = "copyDir" =>
         /\ Node(c.path) \in Nodes => IsDir(Node(c.path))
         /\ \A d \in Before : c.path \in DOMAIN d => d[c.path].kind = "Directory"

-----------------------------------------------------------------------------
(***************************************************************************)
(* A directory that may be asked for is never a file on the target.        *)
(***************************************************************************)
RootInv ==
  \A c \in Calls : c.function = "copyDir" /\ Node(c.path) \in Nodes /\ c.path \in DOMAIN dst =>
    dst[c.path].kind = "Directory"

\* No file goes where a directory belongs.
LEMMA FileAimsApart ==
  ASSUME DistinctTargets, NEW a, a.path \in Seq(Names), NEW without \in BOOLEAN,
         NEW q \in Seq(Names), Scoped(a, q), Kind[Node(q)] = "File",
         NEW p \in Seq(Names), Node(p) \in Nodes, IsDir(Node(p))
  PROVE  Aim(a, without, q) # p
  <1> SUFFICES ASSUME Aim(a, without, q) = p PROVE FALSE
    OBVIOUS
  <1>1. q # p
    BY DEF IsDir
  <1>2. a.function = "copyDir" /\ q # a.path
    BY <1>1 DEF Aim
  <1>3. PICK f \in Seq(Names) : \E k \in 1..Len(Kids[Node(f)]) : IsPart(a, without, q, f, k)
    BY <1>2, ScopedParts
  <1>4. PICK k \in 1..Len(Kids[Node(f)]) :
          /\ Node(f) \in Nodes /\ Kids[Node(f)][k].name \in Names
          /\ Kids[Node(f)][k].node = Node(q)
          /\ q = Append(f, Kids[Node(f)][k].name)
          /\ p = Append(f, IF without THEN NameWithout(Kids[Node(f)][k])
                                      ELSE Kids[Node(f)][k].name)
    BY <1>3 DEF IsPart
  <1>5. without
    BY <1>1, <1>4
  <1> DEFINE name == NameWithout(Kids[Node(f)][k])
  <1>6. name \in Names /\ p = Append(f, name)
    BY <1>4, <1>5, CopierAssumption DEF NameWithout
  <1>7. PICK j \in 1..Len(Kids[Node(f)]) : /\ Kids[Node(f)][j].name = name
                                          /\ Kids[Node(f)][j].node = Node(p)
    <2> HIDE DEF name
    <2> QED
      BY <1>6, NodeParent
  <1>8. NameWithout(Kids[Node(f)][j]) = NameWithout(Kids[Node(f)][k])
    BY <1>7, CopierAssumption DEF NameWithout, IsDir
  <1>9. j = k
    <2>1. Kids[Node(f)] \in Seq(Kid) /\ j \in DOMAIN Kids[Node(f)] /\ k \in DOMAIN Kids[Node(f)]
      BY <1>4, SourceAssumption
    <2> QED
      BY <1>4, <1>8, <2>1 DEF DistinctTargets
  <1> QED
    BY <1>4, <1>7, <1>9 DEF IsDir

\* A directory on the target stays a directory.
LEMMA DirectoriesStay ==
  ASSUME TypeOK, [Next]_vars, NEW p \in DOMAIN dst, dst[p].kind = "Directory"
  PROVE  p \in DOMAIN dst' /\ dst'[p].kind = "Directory"
  <1>1. dst \in [DOMAIN dst -> Item]
    BY DEF TypeOK, StoreOK
  <1>2. ~\E operation, path : Fail(operation, path) /\ dst' # dst
    BY DEF Fail
  <1>3. CASE dst' = dst
    BY <1>3
  <1>4. CASE dst' # dst /\ CreateTarget
    <2>1. CanCreate(job.target) /\ dst' = Store(job.target, NewFile(job.target))
      BY <1>2, <1>4 DEF CreateTarget
    <2>2. p # job.target
      BY <2>1 DEF CanCreate, Exists
    <2> QED
      BY <2>1, <2>2 DEF Store
  <1>5. CASE dst' # dst /\ CopyBlock
    <2>1. dst' = [dst EXCEPT ![job.target].size = @ + 1]
      BY <1>2, <1>5 DEF CopyBlock
    <2>2. dst[p] \in Item
      BY <1>1
    <2> QED
      BY <1>1, <2>1, <2>2 DEF Item
  <1>6. CASE dst' # dst /\ CopyAttribute
    <2>1. dst' = [dst EXCEPT ![job.target].attrs = @ \cup {Attrs[Node(job.path)][job.next]}]
      BY <1>2, <1>6 DEF CopyAttribute
    <2>2. dst[p] \in Item
      BY <1>1
    <2> QED
      BY <1>1, <2>1, <2>2 DEF Item
  <1>7. CASE dst' # dst /\ NextDirectory
    <2>1. PICK path : CanMkdir(path) /\ dst' = Store(path, NewDir)
      BY <1>7 DEF NextDirectory
    <2>2. p # path
      BY <2>1 DEF CanMkdir, Exists
    <2> QED
      BY <2>1, <2>2 DEF Store
  <1>8. dst' # dst => CreateTarget \/ CopyBlock \/ CopyAttribute \/ NextDirectory
    BY <1>2 DEF Next, Step, Begin, vars, OpenSource, OpenTarget, OpenDir, NextEntry
  <1> QED
    BY <1>3, <1>4, <1>5, <1>6, <1>7, <1>8

\* No step puts a file where a directory that may be asked for belongs.
LEMMA RootKept ==
  /\ DistinctTargets /\ CallsFit
  /\ TypeOK /\ ScopeInv /\ JobInv /\ RootInv /\ [Next]_vars
  => RootInv'
  <1> SUFFICES ASSUME DistinctTargets, CallsFit, TypeOK, ScopeInv, JobInv, RootInv, [Next]_vars,
                      NEW c \in Calls, c.function = "copyDir", Node(c.path) \in Nodes,
                      c.path \in DOMAIN dst'
               PROVE  dst'[c.path].kind = "Directory"
    BY DEF RootInv, Node
  <1>1. CASE c.path \in DOMAIN dst
    BY <1>1, DirectoriesStay DEF RootInv
  <1>2. CASE c.path \notin DOMAIN dst /\ JobStep
    <2>1. /\ job \in Jobs /\ job # NoJob /\ Node(job.path) \in Nodes
          /\ DOMAIN dst' = DOMAIN dst \cup {job.target}
      BY <1>2, JobWrites, JobStepIs
    <2>2. job.target = c.path
      BY <1>2, <2>1
    <2>3. job.phase = "create"
      <3>1. ~(OpenSource \/ OpenTarget)
        BY <1>2 DEF OpenSource, OpenTarget, Fail
      <3>2. ~(CopyBlock \/ CopyAttribute)
        BY <1>2, <2>2 DEF CopyBlock, CopyAttribute, TypeOK, JobOK, Exists
      <3> QED
        BY <1>2, <3>1, <3>2 DEF JobStep, CreateTarget
    <2>4. Kind[Node(job.path)] = "File"
      BY <2>1, <2>3 DEF JobInv, Progress, Jobs
    <2>5. /\ Scoped(asked, job.path) /\ Aim(asked, dstAttr.NoMeta, job.path) = c.path
          /\ job.path \in Seq(Names)
      BY <2>1, <2>2 DEF ScopeInv, ScopedJob, Jobs
    <2>6. /\ asked.path \in Seq(Names) /\ dstAttr.NoMeta \in BOOLEAN /\ c.path \in Seq(Names)
      BY CopierAssumption DEF TypeOK, HistoryOK
    <2>7. IsDir(Node(c.path))
      BY DEF CallsFit
    <2> QED
      BY <2>4, <2>5, <2>6, <2>7, FileAimsApart
  <1>3. CASE c.path \notin DOMAIN dst /\ NextDirectory
    <2>1. PICK path : dst' = Store(path, NewDir)
      BY <1>3 DEF NextDirectory
    <2>2. c.path = path
      BY <1>3, <2>1 DEF Store
    <2> QED
      BY <2>1, <2>2 DEF Store, NewDir
  <1>4. c.path \notin DOMAIN dst => JobStep \/ NextDirectory
    BY DEF Next, Step, Begin, vars, JobStep, OpenDir, NextEntry
  <1> QED
    BY <1>1, <1>2, <1>3, <1>4

\* No file is there before the call.
LEMMA RootInit == CallsFit /\ Init => RootInv
  BY DEF CallsFit, Init, RootInv

-----------------------------------------------------------------------------
(***************************************************************************)
(* A directory that has not been opened has no entries read.               *)
(***************************************************************************)
IsFresh(f) == f.phase = "opendir" => f.next = 1 /\ f.todo = <<>>

FreshInv == \A i \in 1..Len(stack) : IsFresh(stack[i])

\* A directory that has been opened is not a fresh one.
LEMMA FreshOfUpdate ==
  ASSUME TypeOK, FreshInv, stack # <<>>, NEW f, Update(f), f.phase # "opendir"
  PROVE  FreshInv'
  <1>1. /\ Len(stack') = Len(stack)
        /\ \A i \in 1..Len(stack) : stack'[i] = IF i = Len(stack) THEN f ELSE stack[i]
    BY UpdateIs
  <1> QED
    BY <1>1 DEF FreshInv, IsFresh

\* Without open directories none is fresh.
LEMMA FreshOfNone ==
  ASSUME stack' = <<>>
  PROVE  FreshInv'
  <1>1. Len(stack') = 0
    OBVIOUS
  <1> QED
    BY <1>1 DEF FreshInv

\* A new directory has no entries read.
LEMMA FrameFresh == \A path : IsFresh(Frame(path))
  BY DEF IsFresh, Frame

\* A directory has entries read only once it is open.
LEMMA FreshKept == TypeOK /\ FreshInv /\ [Next]_vars => FreshInv'
  <1> SUFFICES ASSUME TypeOK, FreshInv, [Next]_vars PROVE FreshInv'
    OBVIOUS
  <1>1. CASE stack' = stack
    BY <1>1 DEF FreshInv
  <1>2. CASE JobStep
    BY <1>1, <1>2, JobStepIs, FreshOfNone
  <1>3. CASE OpenDir
    <2> DEFINE f == [Current EXCEPT !.phase = "entries", !.open = TRUE]
    <2>1. stack # <<>> /\ Current \in Frames
      BY <1>3, FrameType DEF OpenDir
    <2>2. f.phase # "opendir"
      BY <2>1 DEF Frames
    <2>3. Stop \/ Update(f)
      BY <1>3 DEF OpenDir
    <2> HIDE DEF f
    <2> QED
      BY <2>1, <2>2, <2>3, FreshOfUpdate, FreshOfNone DEF Stop
  <1>4. CASE NextEntry
    <2>1. stack # <<>> /\ Current \in Frames /\ Current.phase = "entries"
      BY <1>4, FrameType DEF NextEntry
    <2>2. CloseDir(Current).phase # "opendir"
      BY <2>1 DEF CloseDir, Frames
    <2>3. ASSUME NEW todo
          PROVE  [[Current EXCEPT !.next = @ + 1] EXCEPT !.todo = todo].phase # "opendir"
      BY <2>1 DEF Frames
    <2> QED
      BY <1>4, <2>1, <2>2, <2>3, EntryUpdates, FreshOfUpdate
  <1>5. CASE NextDirectory
    <2> DEFINE path == Append(Current.path, Head(Current.todo))
    <2>1. /\ InDir("directories") /\ stack # <<>> /\ stack \in Seq(Frames)
          /\ Len(stack) \in Nat \ {0}
          /\ Current.path \in Seq(Names) /\ Current.todo \in Seq(Names)
          /\ stack[Len(stack)].phase = "directories"
      BY <1>5, FrameType DEF NextDirectory, TypeOK, StackOK, Current
    <2>2. CASE stack' = Front(stack)
      <3>1. /\ Len(stack') = Len(stack) - 1 /\ Len(stack) \in Nat
            /\ \A i \in 1..Len(stack') : stack'[i] = stack[i] /\ i \in 1..Len(stack)
        BY <2>1, <2>2, FrontType
      <3> QED
        BY <3>1 DEF FreshInv
    <2>3. CASE Current.todo # <<>> /\ EnterDirectory(path)
      <3>1. path \in Seq(Names)
        BY <2>1, <2>3, HeadTailProperties
      <3> HIDE DEF path
      <3>2. /\ Len(stack') = Len(stack) + 1
            /\ \A i \in 1..Len(stack) : /\ stack'[i].phase = stack[i].phase
                                        /\ i # Len(stack) => stack'[i] = stack[i]
            /\ stack'[Len(stack) + 1] = Frame(path)
        BY <2>1, <2>3, <3>1, EnterStack
      <3>3. ASSUME NEW i \in 1..Len(stack') PROVE IsFresh(stack'[i])
        <4>1. CASE i = Len(stack) + 1
          BY <3>2, <4>1, FrameFresh
        <4>2. CASE i = Len(stack)
          <5>1. i \in 1..Len(stack)
            BY <2>1, <4>2
          <5>2. stack'[i].phase = "directories"
            BY <2>1, <3>2, <4>2, <5>1
          <5> QED
            BY <5>2 DEF IsFresh
        <4>3. CASE i \in 1..Len(stack) /\ i # Len(stack)
          BY <3>2, <4>3 DEF FreshInv
        <4> QED
          BY <2>1, <3>2, <4>1, <4>2, <4>3
      <3> QED
        BY <3>3 DEF FreshInv
    <2>4. CASE Stop
      BY <2>4, FreshOfNone DEF Stop
    <2> QED
      BY <1>5, <2>2, <2>3, <2>4 DEF NextDirectory
  <1>6. CASE \E call \in Calls : Begin(call)
    <2>1. PICK call \in Calls : Begin(call)
      BY <1>6
    <2>2. stack' = <<Frame(call.path)>> \/ stack' = <<>>
      BY <2>1 DEF Begin
    <2>3. CASE stack' = <<Frame(call.path)>>
      <3>1. Len(stack') = 1 /\ stack'[1] = Frame(call.path)
        BY <2>3
      <3> QED
        BY <3>1, FrameFresh DEF FreshInv
    <2> QED
      BY <2>2, <2>3, FreshOfNone
  <1> QED
    BY <1>1, <1>2, <1>3, <1>4, <1>5, <1>6 DEF Next, Step, JobStep, vars

\* Before a call no directory is open.
LEMMA FreshInit == Init => FreshInv
  <1> SUFFICES ASSUME Init PROVE FreshInv
    OBVIOUS
  <1>1. Len(stack) = 0
    BY DEF Init
  <1> QED
    BY <1>1 DEF FreshInv

-----------------------------------------------------------------------------
(***************************************************************************)
(* A job that begins.                                                      *)
(***************************************************************************)
LEMMA JobKeptByJobs == TypeOK /\ ScopeInv /\ JobInv /\ JobStep => JobInv'
  <1> SUFFICES ASSUME TypeOK, ScopeInv, JobInv, JobStep PROVE JobInv'
    OBVIOUS
  <1>1. asked' = asked /\ dstAttr' = dstAttr
    BY JobStepIs
  <1>2. CASE job' = NoJob
    BY <1>2, NoProgress DEF JobInv
  <1>3. CASE job' # NoJob
    <2>1. Progress(job', asked, dstAttr.NoMeta, dst', told', silent')
      BY <1>3, JobStepOutcome DEF JobOutcome
    <2> QED
      BY <1>1, <2>1 DEF JobInv
  <1> QED
    BY <1>2, <1>3

\* A job that an open directory begins is a fresh one.
LEMMA JobKeptByDirs ==
  DistinctNames /\ TypeOK /\ ScopeInv /\ (OpenDir \/ NextEntry \/ NextDirectory) => JobInv'
  <1> SUFFICES ASSUME DistinctNames, TypeOK, ScopeInv, OpenDir \/ NextEntry \/ NextDirectory
               PROVE  JobInv'
    OBVIOUS
  <1>1. CASE job' = NoJob
    BY <1>1, NoProgress DEF JobInv
  <1>2. CASE OpenDir
    <2>1. job = NoJob
      BY <1>2 DEF OpenDir, InDir
    <2> QED
      BY <1>1, <1>2, <2>1 DEF OpenDir, Stop
  <1>3. CASE NextEntry
    <2> DEFINE kids == Kids[Node(Current.path)]
               kid  == kids[Current.next]
               f    == [Current EXCEPT !.next = @ + 1]
               path == Append(f.path, kid.name)
    <2>1. job = NoJob /\ InDir("entries") /\ Current \in Frames
      BY <1>3, FrameType DEF NextEntry
    <2>2. CASE /\ ~(Current.next > Len(kids))
               /\ ~IsDir(kid.node)
               /\ job' = Job(path, Append(f.path, TargetName(kid)), TRUE)
      <3>1. f.path = Current.path
        BY <2>1 DEF Frames
      <3>2. Node(path) = kid.node
        BY <2>1, <2>2, <3>1, NextKid
      <3>3. Node(path) \in Nodes => Kind[Node(path)] = "File"
        BY <2>2, <3>2 DEF IsDir
      <3> DEFINE target == Append(f.path, TargetName(kid))
      <3>4. job' = Job(path, target, TRUE)
        BY <2>2
      <3> HIDE DEF path, target
      <3>5. Progress(Job(path, target, TRUE), asked', dstAttr'.NoMeta, dst', told', silent')
        BY <3>3, ProgressOfNew
      <3> QED
        BY <3>4, <3>5 DEF JobInv
    <2> QED
      BY <1>1, <1>3, <2>1, <2>2 DEF NextEntry
  <1>4. CASE NextDirectory
    <2> DEFINE path == Append(Current.path, Head(Current.todo))
    <2>1. /\ job = NoJob /\ InDir("directories") /\ asked' = asked /\ dstAttr' = dstAttr
          /\ Current.path \in Seq(Names) /\ Current.todo \in Seq(Names)
          /\ ScopedFrame(asked, Current)
      BY <1>4, FrameType, CurrentScoped DEF NextDirectory, Quiet
    <2>2. ASSUME Current.todo # <<>>
          PROVE  IsDir(Node(path)) /\ Aim(asked, dstAttr.NoMeta, path) = path
      <3>1. Head(Current.todo) = Current.todo[1] /\ 1 \in 1..Len(Current.todo)
        BY <2>1, <2>2
      <3>2. IsDir(Node(path))
        BY <2>1, <3>1 DEF ScopedFrame
      <3> HIDE DEF path
      <3> QED
        BY <3>2, AimOfDirectory
    <2>3. ASSUME Current.todo # <<>>, EnterDirectory(path),
                 CopiedTo(asked, dstAttr.NoMeta, dst', path)
                   \/ TellsOf(asked, dstAttr.NoMeta, told', silent', path, OfData)
          PROVE  JobInv'
      <3>1. job' = Job(path, path, FALSE)
        BY <2>3 DEF EnterDirectory
      <3> HIDE DEF path
      <3>2. Progress(Job(path, path, FALSE), asked, dstAttr.NoMeta, dst', told', silent')
        BY <2>3, ProgressOfNew
      <3> QED
        BY <2>1, <3>1, <3>2 DEF JobInv
    <2>4. CASE Current.todo # <<>> /\ dst' = Store(path, NewDir) /\ EnterDirectory(path)
      <3>1. path \in DOMAIN dst' /\ dst'[path].kind = "Directory"
        <4> HIDE DEF path
        <4> QED
          BY <2>4 DEF Store, NewDir
      <3>2. CopiedTo(asked, dstAttr.NoMeta, dst', path)
        <4>1. IsDir(Node(path)) /\ Aim(asked, dstAttr.NoMeta, path) = path
          BY <2>2, <2>4
        <4> HIDE DEF path
        <4> QED
          BY <3>1, <4>1 DEF CopiedTo, IsDir
      <3> QED
        BY <2>3, <2>4, <3>2
    <2>5. CASE /\ Current.todo # <<>>
               /\ \E goOn \in Answers : /\ Tell("mkdir", path, goOn)
                                        /\ IF goOn THEN EnterDirectory(path) ELSE Stop
      <3>1. PICK goOn \in Answers : /\ Tell("mkdir", path, goOn)
                                    /\ IF goOn THEN EnterDirectory(path) ELSE Stop
        BY <2>5
      <3>2. CASE Stop
        BY <1>1, <3>2 DEF Stop
      <3>3. CASE EnterDirectory(path)
        <4>1. TellsOf(asked, dstAttr.NoMeta, told', silent', path, OfData)
          <5> HIDE DEF path
          <5> QED
            BY <3>1, TellTells, OfDataIs
        <4> QED
          BY <2>3, <2>5, <3>3, <4>1
      <3> QED
        BY <3>1, <3>2, <3>3
    <2> QED
      BY <1>1, <1>4, <2>1, <2>4, <2>5 DEF NextDirectory
  <1> QED
    BY <1>2, <1>3, <1>4

\* The job of a call is a fresh one.
LEMMA JobKeptByBegin ==
  ASSUME CallsFit, TypeOK, RootInv, NEW call \in Calls, Begin(call)
  PROVE  JobInv'
  <1> DEFINE isFile == call.function = "copyFile"
             path   == call.path
  <1>1. /\ job' = Job(path, path, isFile) /\ asked' = call /\ dst' = dst /\ dstAttr' = dstAttr
        /\ isFile \in BOOLEAN
    BY DEF Begin
  <1>2. Node(path) \in Nodes /\ isFile => Kind[Node(path)] = "File"
    BY DEF CallsFit, IsDir
  <1>3. Aim(call, dstAttr.NoMeta, path) = path
    BY DEF Aim
  <1>4. ASSUME Node(path) \in Nodes, ~isFile, path \in DOMAIN dst
        PROVE  CopiedTo(call, dstAttr.NoMeta, dst, path)
    <2>1. CASE call.function = "copyAttributes"
      BY <2>1 DEF CopiedTo
    <2>2. CASE call.function = "copyDir"
      <3>1. dst[path].kind = "Directory" /\ IsDir(Node(path))
        BY <1>4, <2>2 DEF RootInv, CallsFit
      <3> QED
        BY <1>3, <1>4, <3>1 DEF CopiedTo, IsDir
    <2> QED
      BY <1>4, <2>1, <2>2, CopierAssumption DEF Functions
  <1> HIDE DEF isFile, path
  <1>5. Progress(Job(path, path, isFile), call, dstAttr.NoMeta, dst, told', silent')
    BY <1>1, <1>2, <1>4, ProgressOfNew
  <1> QED
    BY <1>1, <1>5 DEF JobInv

(***************************************************************************)
(* What is still to be copied.                                             *)
(***************************************************************************)
IsBelow(dir, path) == Len(dir) < Len(path) /\ IsPrefix(dir, path)

\* What a call of copyDir() has still to do for its entry of a name.
IsDue(f, name) ==
  \/ f.phase = "opendir"
  \/ \E k \in 1..Len(f.todo) : f.todo[k] = name
  \/ /\ f.phase = "entries"
     /\ \E k \in 1..Len(Kids[Node(f.path)]) :
          k >= f.next /\ Kids[Node(f.path)][k].name = name

DueIn(f, path) == IsBelow(f.path, path) /\ IsDue(f, path[Len(f.path) + 1])

Pending(j, s, path) ==
  \/ j # NoJob /\ j.path = path
  \/ \E i \in 1..Len(s) : DueIn(s[i], path)

\* All that is to be copied is accounted for, or is to come.
LossInv ==
  result \in {"running", "done"} =>
    \A path \in Paths : Scoped(asked, path) =>
      \/ Accounted(asked, dstAttr.NoMeta, dst, told, silent, path)
      \/ Pending(job, stack, path)

\* What is below a directory is one of its entries, or below that.
LEMMA NextName ==
  ASSUME NEW dir \in Seq(Names), NEW path \in Seq(Names), IsBelow(dir, path),
         Node(path) \in Nodes, NEW name, name = path[Len(dir) + 1]
  PROVE  /\ name \in Names
         /\ Append(dir, name) \in Seq(Names)
         /\ Append(dir, name) = SubSeq(path, 1, Len(dir) + 1)
         /\ path = Append(dir, name) \/ IsBelow(Append(dir, name), path)
         /\ Node(dir) \in Nodes
         /\ Node(Append(dir, name)) \in Nodes
         /\ \E k \in 1..Len(Kids[Node(dir)]) : Kids[Node(dir)][k].name = name
  <1> DEFINE q == Append(dir, name)
             n == Len(dir) + 1
  <1>1. /\ Len(dir) \in Nat /\ Len(path) \in Nat /\ n <= Len(path) /\ n \in Nat
        /\ \A i \in 1..Len(dir) : path[i] = dir[i]
    BY PrefixIs DEF IsBelow
  <1>2. name \in Names
    BY <1>1
  <1>3. /\ q \in Seq(Names) /\ Len(q) = n /\ q[n] = name
        /\ \A i \in 1..Len(dir) : q[i] = dir[i]
    BY <1>2, AppendProperties
  <1> HIDE DEF q
  <1>4. \A i \in 1..n : path[i] = q[i]
    BY <1>1, <1>3
  <1>5. q = SubSeq(path, 1, n)
    <2>1. n <= Len(q)
      BY <1>1, <1>3
    <2>2. SubSeq(path, 1, n) = SubSeq(q, 1, n)
      BY <1>1, <1>3, <1>4, <2>1, SameBeginning
    <2>3. SubSeq(q, 1, n) = q
      BY <1>3
    <2> QED
      BY <2>2, <2>3
  <1>6. path = q \/ IsBelow(q, path)
    <2>1. CASE n = Len(path)
      BY <1>3, <1>4, <2>1, SeqEqual
    <2>2. CASE n # Len(path)
      <3>1. Len(q) < Len(path)
        BY <1>1, <1>3, <2>2
      <3>2. IsPrefix(q, path)
        BY <1>3, <1>4, <3>1, PrefixIs
      <3> QED
        BY <3>1, <3>2 DEF IsBelow
    <2> QED
      BY <2>1, <2>2
  <1>7. Node(q) \in Nodes
    <2>1. Lookup(Top, path) # Absent
      BY SourceAssumption DEF Node
    <2>2. Len(q) <= Len(path) /\ \A i \in 1..Len(q) : path[i] = q[i]
      BY <1>1, <1>3, <1>4
    <2>3. Lookup(Top, q) # Absent
      BY <1>1, <1>3, <2>1, <2>2, LookupPrefix
    <2> QED
      BY <1>3, <2>3, NodeType DEF Node
  <1>8. /\ Node(dir) \in Nodes
        /\ \E k \in 1..Len(Kids[Node(dir)]) : Kids[Node(dir)][k].name = name
    BY <1>2, <1>7, NodeParent DEF q
  <1> QED
    BY <1>2, <1>3, <1>5, <1>6, <1>7, <1>8 DEF q

\* What is to be copied exists, but for the path of copyFile() or copyAttributes().
LEMMA ScopedNode ==
  ASSUME NEW a, a.function = "copyDir", NEW path, Scoped(a, path)
  PROVE  Node(path) \in Nodes
  BY DEF Scoped

\* Nothing is below a file.
LEMMA NoneBelowFile ==
  ASSUME FilesAreLeaves, NEW dir \in Seq(Names), NEW path \in Seq(Names), IsBelow(dir, path),
         Node(path) \in Nodes
  PROVE  Kind[Node(dir)] # "File"
  <1>1. /\ Node(dir) \in Nodes
        /\ \E k \in 1..Len(Kids[Node(dir)]) : Kids[Node(dir)][k].name = path[Len(dir) + 1]
    BY NextName
  <1>2. Len(<<>>) = 0
    OBVIOUS
  <1> QED
    BY <1>1, <1>2 DEF FilesAreLeaves

\* An entry on the way to what is to be copied is no mount point.
LEMMA NoMountOnTheWay ==
  ASSUME NEW a, a.path \in Seq(Names), a.function = "copyDir",
         NEW dir \in Seq(Names), Scoped(a, dir), NEW path \in Seq(Names), Scoped(a, path),
         IsBelow(dir, path), NEW name, name = path[Len(dir) + 1]
  PROVE  Kind[Node(Append(dir, name))] # "MountPoint"
  <1>1. Append(dir, name) = SubSeq(path, 1, Len(dir) + 1)
    BY ScopedNode, NextName
  <1>2. Len(dir) + 1 \in (Len(a.path) + 1)..Len(path)
    <2>1. Len(a.path) <= Len(dir)
      BY PrefixIs DEF Scoped
    <2>2. Len(a.path) \in Nat /\ Len(dir) \in Nat /\ Len(path) \in Nat
      OBVIOUS
    <2> QED
      BY <2>1, <2>2 DEF IsBelow
  <1> QED
    BY <1>1, <1>2 DEF Scoped

-----------------------------------------------------------------------------
\* A step of a job leaves everything accounted for or still to come.
LEMMA LossOfJobs ==
  DistinctTargets /\ TypeOK /\ ScopeInv /\ JobInv /\ LossInv /\ JobStep => LossInv'
  <1> SUFFICES ASSUME DistinctTargets, TypeOK, ScopeInv, JobInv, LossInv, JobStep,
                      result' \in {"running", "done"}, NEW path \in Paths, Scoped(asked', path)
               PROVE  \/ Accounted(asked', dstAttr'.NoMeta, dst', told', silent', path)
                      \/ Pending(job', stack', path)
    BY DEF LossInv
  <1> DEFINE w == dstAttr.NoMeta
  <1>1. /\ job \in Jobs /\ job # NoJob /\ result = "running"
        /\ asked' = asked /\ dstAttr' = dstAttr /\ told \subseteq told' /\ silent \subseteq silent'
        /\ stack' = stack
        /\ job' = NoJob \/ job'.path = job.path
    BY JobStepIs
  <1>2. w \in BOOLEAN /\ asked.path \in Seq(Names) /\ path \in Seq(Names)
        /\ job.path \in Seq(Names) /\ job.target = Aim(asked, w, job.path)
    BY <1>1, CopierAssumption DEF TypeOK, HistoryOK, ScopeInv, ScopedJob, Jobs
  <1>3. CASE path = job.path
    <2>1. CASE job' = NoJob
      BY <1>1, <1>3, <2>1, JobStepOutcome DEF JobOutcome
    <2>2. CASE job' # NoJob
      BY <1>1, <1>3, <2>2 DEF Pending
    <2> QED
      BY <2>1, <2>2
  <1>4. CASE path # job.path
    <2>1. Pending(job, stack, path) => Pending(job', stack', path)
      BY <1>1, <1>4 DEF Pending
    <2>2. Extends(dst, dst', Aim(asked, w, path))
      <3>1. CASE dst' = dst
        BY <3>1 DEF Extends
      <3>2. CASE dst' # dst
        <4>1. /\ Node(job.path) \in Nodes
              /\ DOMAIN dst' = DOMAIN dst \cup {job.target}
              /\ \A q \in DOMAIN dst : q # job.target => dst'[q] = dst[q]
          BY <3>2, JobWrites
        <4>2. Scoped(asked, job.path)
          BY <1>1, <4>1 DEF ScopeInv, ScopedJob
        <4>3. Aim(asked, w, path) # job.target
          BY <1>1, <1>2, <1>4, <4>2, AimsDistinct
        <4> QED
          BY <4>1, <4>3 DEF Extends
      <3> QED
        BY <3>1, <3>2
    <2>3. Accounted(asked, w, dst, told, silent, path)
            => Accounted(asked, w, dst', told', silent', path)
      BY <1>1, <2>2, AccountedMore
    <2>4. Accounted(asked, w, dst, told, silent, path) \/ Pending(job, stack, path)
      BY <1>1 DEF LossInv
    <2> QED
      BY <1>1, <2>1, <2>3, <2>4
  <1> QED
    BY <1>3, <1>4

\* The current frame is replaced, and what is due in it stays so, is the new job's, or is
\* in a directory that could not be enumerated.
LEMMA LossOfUpdate ==
  ASSUME TypeOK, LossInv, stack # <<>>, job = NoJob, result = "running", NEW f, Update(f),
         UNCHANGED <<dst, dstAttr, asked, told>>, silent \subseteq silent',
         \A path \in Paths :
           Scoped(asked, path) /\ DueIn(Current, path) =>
             \/ DueIn(f, path)
             \/ job' # NoJob /\ job'.path = path
             \/ Accounted(asked, dstAttr.NoMeta, dst, told, silent', path)
  PROVE  LossInv'
  <1> SUFFICES ASSUME NEW path \in Paths, Scoped(asked', path)
               PROVE  \/ Accounted(asked', dstAttr'.NoMeta, dst', told', silent', path)
                      \/ Pending(job', stack', path)
    BY DEF LossInv
  <1>1. /\ Len(stack) \in Nat \ {0}
        /\ Len(stack') = Len(stack)
        /\ \A i \in 1..Len(stack) : stack'[i] = IF i = Len(stack) THEN f ELSE stack[i]
        /\ stack[Len(stack)] = Current
    BY UpdateIs
  <1>2. CASE Accounted(asked, dstAttr.NoMeta, dst, told, silent, path)
    <2>1. Extends(dst, dst, Aim(asked, dstAttr.NoMeta, path))
      BY DEF Extends
    <2> QED
      BY <1>2, <2>1, AccountedMore
  <1>3. CASE Pending(job, stack, path)
    <2>1. PICK i \in 1..Len(stack) : DueIn(stack[i], path)
      BY <1>3 DEF Pending
    <2>2. CASE i # Len(stack)
      BY <1>1, <2>1, <2>2 DEF Pending
    <2>3. CASE i = Len(stack)
      <3>1. DueIn(Current, path)
        BY <1>1, <2>1, <2>3
      <3>2. Len(stack) \in 1..Len(stack') /\ stack'[Len(stack)] = f
        BY <1>1
      <3> QED
        BY <3>1, <3>2 DEF Pending
    <2> QED
      BY <2>2, <2>3
  <1> QED
    BY <1>2, <1>3 DEF LossInv

\* A directory that cannot be opened is told of, and one that is has all to come.
LEMMA LossOfOpenDir ==
  TypeOK /\ ScopeInv /\ FreshInv /\ LossInv /\ OpenDir => LossInv'
  <1> SUFFICES ASSUME TypeOK, ScopeInv, FreshInv, LossInv, OpenDir PROVE LossInv'
    OBVIOUS
  <1> DEFINE f == [Current EXCEPT !.phase = "entries", !.open = TRUE]
  <1>1. /\ stack # <<>> /\ job = NoJob /\ result = "running" /\ Current \in Frames
        /\ Current.path \in Seq(Names) /\ Len(stack) \in Nat \ {0}
        /\ asked.function = "copyDir" /\ Current.phase = "opendir"
        /\ UNCHANGED <<dst, dstAttr, asked, told>> /\ silent \subseteq silent'
    BY FrameType, CurrentScoped DEF OpenDir, Quiet
  <1>2. CASE Stop
    BY <1>2 DEF Stop, LossInv
  <1>3. CASE Update(f) /\ UNCHANGED job
    <2>1. Current.next = 1
      BY <1>1 DEF FreshInv, IsFresh, Current
    <2>2. f.path = Current.path /\ f.phase = "entries" /\ f.next = 1
      BY <1>1, <2>1 DEF Frames
    <2>3. Update(f)
      BY <1>3
    <2> HIDE DEF f
    <2>4. ASSUME NEW path \in Paths, Scoped(asked, path), DueIn(Current, path)
          PROVE  DueIn(f, path)
      <3>1. IsBelow(Current.path, path) /\ path \in Seq(Names) /\ Node(path) \in Nodes
        BY <1>1, <2>4, CopierAssumption, ScopedNode DEF DueIn
      <3>2. \E k \in 1..Len(Kids[Node(Current.path)]) :
              Kids[Node(Current.path)][k].name = path[Len(Current.path) + 1]
        <4> DEFINE dir  == Current.path
                   name == path[Len(dir) + 1]
        <4>1. dir \in Seq(Names) /\ IsBelow(dir, path)
          BY <1>1, <3>1
        <4> HIDE DEF dir
        <4>2. name = path[Len(dir) + 1]
          OBVIOUS
        <4> HIDE DEF name
        <4>3. \E k \in 1..Len(Kids[Node(dir)]) : Kids[Node(dir)][k].name = name
          BY <3>1, <4>1, <4>2, NextName
        <4> QED
          BY <4>3 DEF name, dir
      <3>3. \A k \in 1..Len(Kids[Node(Current.path)]) : k >= 1
        OBVIOUS
      <3> QED
        BY <2>2, <3>1, <3>2, <3>3 DEF DueIn, IsDue
    <2> QED
      BY <1>1, <1>3, <2>3, <2>4, LossOfUpdate
  <1> QED
    BY <1>2, <1>3 DEF OpenDir

\* What is below the current directory, and to be copied.
LEMMA BelowCurrent ==
  ASSUME TypeOK, ScopeInv, FilesAreLeaves, NEW phase, InDir(phase), phase # "opendir",
         NEW path \in Seq(Names), Scoped(asked, path), IsBelow(Current.path, path),
         NEW dir, dir = Current.path, NEW name, name = path[Len(dir) + 1]
  PROVE  /\ dir \in Seq(Names) /\ name \in Names
         /\ Append(dir, name) \in Seq(Names)
         /\ path = Append(dir, name) \/ IsBelow(Append(dir, name), path)
         /\ Kind[Node(Append(dir, name))] # "MountPoint"
         /\ IsBelow(Append(dir, name), path) => Kind[Node(Append(dir, name))] # "File"
  <1>1. /\ dir \in Seq(Names) /\ IsBelow(dir, path) /\ Node(dir) \in Nodes
        /\ asked.path \in Seq(Names) /\ asked.function = "copyDir"
    BY FrameType, CurrentScoped
  <1>2. Scoped(asked, dir)
    BY <1>1, CurrentScoped DEF ScopedFrame
  <1>3. Node(path) \in Nodes
    BY <1>1, ScopedNode
  <1>4. /\ name \in Names /\ Append(dir, name) \in Seq(Names)
        /\ path = Append(dir, name) \/ IsBelow(Append(dir, name), path)
    BY <1>1, <1>3, NextName
  <1>5. Kind[Node(Append(dir, name))] # "MountPoint"
    BY <1>1, <1>2, NoMountOnTheWay
  <1>6. IsBelow(Append(dir, name), path) => Kind[Node(Append(dir, name))] # "File"
    BY <1>3, <1>4, NoneBelowFile
  <1> QED
    BY <1>1, <1>4, <1>5, <1>6

\* An entry is the next job, a name to go to, or is told of or not a directory.
LEMMA LossOfNextEntry ==
  /\ DistinctNames /\ FilesAreLeaves
  /\ TypeOK /\ ScopeInv /\ LossInv /\ NextEntry
  => LossInv'
  <1> SUFFICES ASSUME DistinctNames, FilesAreLeaves, TypeOK, ScopeInv, LossInv, NextEntry
               PROVE  LossInv'
    OBVIOUS
  <1> DEFINE dir  == Current.path
             kids == Kids[Node(dir)]
             kid  == kids[Current.next]
             f    == [Current EXCEPT !.next = @ + 1]
             w    == dstAttr.NoMeta
  <1>1. /\ stack # <<>> /\ job = NoJob /\ result = "running" /\ Current \in Frames
        /\ dir \in Seq(Names) /\ Current.todo \in Seq(Names) /\ Current.phase = "entries"
        /\ Current.next \in Nat \ {0} /\ Node(dir) \in Nodes
        /\ InDir("entries")
        /\ UNCHANGED <<dst, dstAttr, asked, told>>
        /\ kids \in Seq(Kid)
    BY FrameType, SourceAssumption DEF NextEntry
  <1>2. f \in Frames /\ f.path = dir /\ f.todo = Current.todo /\ f.next = Current.next + 1
        /\ f.phase = "entries"
    <2>1. Current \in Frames /\ Current.next \in Nat \ {0} /\ Current.phase = "entries"
      BY <1>1
    <2> QED
      BY <2>1 DEF Frames
  <1>3. ASSUME NEW path \in Paths, Scoped(asked, path), DueIn(Current, path),
               NEW name, name = path[Len(dir) + 1]
        PROVE  /\ path \in Seq(Names) /\ IsBelow(dir, path)
               /\ path = Append(dir, name) \/ IsBelow(Append(dir, name), path)
               /\ Kind[Node(Append(dir, name))] # "MountPoint"
               /\ IsBelow(Append(dir, name), path) => Kind[Node(Append(dir, name))] # "File"
               /\ \/ \E k \in 1..Len(Current.todo) : Current.todo[k] = name
                  \/ \E k \in 1..Len(kids) : k >= Current.next /\ kids[k].name = name
    <2>1. path \in Seq(Names) /\ IsBelow(dir, path) /\ IsDue(Current, name)
      BY <1>3, CopierAssumption DEF DueIn
    <2>2. /\ path = Append(dir, name) \/ IsBelow(Append(dir, name), path)
          /\ Kind[Node(Append(dir, name))] # "MountPoint"
          /\ IsBelow(Append(dir, name), path) => Kind[Node(Append(dir, name))] # "File"
      BY <1>1, <1>3, <2>1, BelowCurrent
    <2> QED
      BY <1>1, <2>1, <2>2 DEF IsDue
  <1>4. ASSUME NEW g, g.path = dir, NEW path, IsBelow(dir, path), NEW name,
               name = path[Len(dir) + 1],
               \/ \E k \in 1..Len(g.todo) : g.todo[k] = name
               \/ g.phase = "entries" /\ \E k \in 1..Len(kids) : k >= g.next /\ kids[k].name = name
        PROVE  DueIn(g, path)
    BY <1>4 DEF DueIn, IsDue
  <1>5. ASSUME ~(Current.next > Len(kids))
        PROVE  /\ kid.name \in Names /\ kid.node \in Nodes
               /\ Node(Append(dir, kid.name)) = kid.node
    BY <1>1, <1>5, NextKid
  <1>6. CASE /\ Current.next > Len(kids) \/ silent' = silent \cup {dir}
             /\ silent \subseteq silent'
             /\ Update(CloseDir(Current)) /\ UNCHANGED job
    <2> DEFINE g == CloseDir(Current)
    <2>1. Update(g) /\ g.path = dir /\ g.todo = Current.todo
      BY <1>1, <1>6 DEF CloseDir, Frames
    <2> HIDE DEF g
    <2>2. ASSUME NEW path \in Paths, Scoped(asked, path), DueIn(Current, path)
          PROVE  DueIn(g, path) \/ Accounted(asked, w, dst, told, silent', path)
      <3> DEFINE name == path[Len(dir) + 1]
      <3>1. /\ IsBelow(dir, path)
            /\ \/ \E k \in 1..Len(Current.todo) : Current.todo[k] = name
               \/ \E k \in 1..Len(kids) : k >= Current.next /\ kids[k].name = name
        BY <1>3, <2>2
      <3>2. CASE silent' = silent \cup {dir}
        <4>1. TellsOf(asked, w, told, silent', path, OfData)
          BY <3>1, <3>2 DEF TellsOf, IsBelow
        <4> QED
          BY <4>1, TellsOfAll
      <3>3. CASE Current.next > Len(kids)
        <4>1. \E k \in 1..Len(Current.todo) : Current.todo[k] = name
          <5>1. Len(kids) \in Nat
            BY <1>1
          <5>2. \A k \in 1..Len(kids) : ~(k >= Current.next)
            BY <1>1, <3>3, <5>1
          <5> QED
            BY <3>1, <5>2
        <4>2. \E k \in 1..Len(g.todo) : g.todo[k] = name
          BY <2>1, <4>1
        <4> HIDE DEF name
        <4>3. name = path[Len(dir) + 1]
          BY DEF name
        <4> QED
          BY <1>4, <2>1, <3>1, <4>2, <4>3
      <3> QED
        BY <1>6, <3>2, <3>3
    <2> QED
      BY <1>1, <1>6, <2>1, <2>2, LossOfUpdate
  <1>7. CASE /\ ~(Current.next > Len(kids)) /\ IsDir(kid.node)
             /\ Update([f EXCEPT !.todo = @ \o Entered(kid)])
             /\ UNCHANGED <<job, silent>>
    <2> DEFINE g == [f EXCEPT !.todo = @ \o Entered(kid)]
    <2>1. /\ kid.name \in Names
          /\ Node(Append(dir, kid.name)) = kid.node /\ IsDir(kid.node)
          /\ Update(g)
      BY <1>5, <1>7
    <2>2. ASSUME NEW k \in 1..Len(kids), k >= Current.next, k # Current.next
          PROVE  k >= Current.next + 1
      BY <1>1, <2>2
    <2>3. \A k \in 1..Len(kids) : k = Current.next => kids[k] = kid
      OBVIOUS
    <2> HIDE DEF kid, f
    <2>4. /\ g.path = dir /\ g.todo = Current.todo \o Entered(kid)
          /\ g.next = Current.next + 1 /\ g.phase = "entries"
      BY <1>2 DEF Frames
    <2> HIDE DEF g
    <2>5. Entered(kid) \in Seq(Names)
      BY <2>1 DEF Entered
    <2>6. /\ \A k \in 1..Len(Current.todo) : k \in 1..Len(g.todo) /\ g.todo[k] = Current.todo[k]
          /\ Kind[kid.node] = "Directory" => \E k \in 1..Len(g.todo) : g.todo[k] = kid.name
      <3>1. /\ Len(g.todo) = Len(Current.todo) + Len(Entered(kid))
            /\ \A k \in 1..Len(Current.todo) : g.todo[k] = Current.todo[k]
            /\ \A k \in 1..Len(Entered(kid)) : g.todo[Len(Current.todo) + k] = Entered(kid)[k]
        BY <1>1, <2>4, <2>5, ConcatProperties
      <3>2. Len(Current.todo) \in Nat /\ Len(Entered(kid)) \in Nat
        BY <1>1, <2>5
      <3>3. ASSUME Kind[kid.node] = "Directory"
            PROVE  \E k \in 1..Len(g.todo) : g.todo[k] = kid.name
        <4>1. Len(Entered(kid)) = 1 /\ Entered(kid)[1] = kid.name
          BY <3>3 DEF Entered
        <4>2. 1 \in 1..Len(Entered(kid)) /\ Len(Current.todo) + 1 \in 1..Len(g.todo)
          BY <3>1, <3>2, <4>1
        <4> QED
          BY <3>1, <4>1, <4>2
      <3> QED
        BY <3>1, <3>2, <3>3
    <2>7. ASSUME NEW path \in Paths, Scoped(asked, path), DueIn(Current, path)
          PROVE  DueIn(g, path)
      <3> DEFINE name == path[Len(dir) + 1]
      <3>0. name = path[Len(dir) + 1]
        OBVIOUS
      <3> HIDE DEF name
      <3>1. /\ IsBelow(dir, path)
            /\ Kind[Node(Append(dir, name))] # "MountPoint"
            /\ \/ \E k \in 1..Len(Current.todo) : Current.todo[k] = name
               \/ \E k \in 1..Len(kids) : k >= Current.next /\ kids[k].name = name
        BY <1>3, <2>7, <3>0
      <3>2. CASE \E k \in 1..Len(Current.todo) : Current.todo[k] = name
        BY <1>4, <2>4, <2>6, <3>0, <3>1, <3>2
      <3>3. CASE \E k \in 1..Len(kids) :
                   k >= Current.next /\ k # Current.next /\ kids[k].name = name
        <4>1. \E k \in 1..Len(kids) : k >= g.next /\ kids[k].name = name
          BY <2>2, <2>4, <3>3
        <4> QED
          BY <1>4, <2>4, <3>0, <3>1, <4>1
      <3>4. CASE kid.name = name
        <4>1. Kind[kid.node] = "Directory"
          BY <2>1, <3>1, <3>4, SourceAssumption DEF IsDir
        <4>2. \E k \in 1..Len(g.todo) : g.todo[k] = name
          BY <2>6, <3>4, <4>1
        <4> QED
          BY <1>4, <2>4, <3>0, <3>1, <4>2
      <3> QED
        BY <2>3, <3>1, <3>2, <3>3, <3>4
    <2> QED
      BY <1>1, <1>7, <2>1, <2>7, LossOfUpdate
  <1>8. CASE /\ ~(Current.next > Len(kids)) /\ ~IsDir(kid.node)
             /\ Update(f) /\ UNCHANGED silent
             /\ job' = Job(Append(f.path, kid.name), Append(f.path, TargetName(kid)), TRUE)
    <2>1. /\ kid.name \in Names
          /\ Node(Append(dir, kid.name)) = kid.node /\ ~IsDir(kid.node) /\ kid.node \in Nodes
      BY <1>5, <1>8
    <2>2. ASSUME NEW k \in 1..Len(kids), k >= Current.next, k # Current.next
          PROVE  k >= Current.next + 1
      BY <1>1, <2>2
    <2>3. \A k \in 1..Len(kids) : k = Current.next => kids[k] = kid
      OBVIOUS
    <2> HIDE DEF kid, f
    <2>4. job' # NoJob /\ job'.path = Append(dir, kid.name)
      BY <1>2, <1>8 DEF Job, NoJob
    <2>5. ASSUME NEW path \in Paths, Scoped(asked, path), DueIn(Current, path)
          PROVE  DueIn(f, path) \/ job'.path = path
      <3> DEFINE name == path[Len(dir) + 1]
      <3>0. name = path[Len(dir) + 1]
        OBVIOUS
      <3> HIDE DEF name
      <3>1. /\ IsBelow(dir, path)
            /\ path = Append(dir, name) \/ IsBelow(Append(dir, name), path)
            /\ IsBelow(Append(dir, name), path) => Kind[Node(Append(dir, name))] # "File"
            /\ \/ \E k \in 1..Len(Current.todo) : Current.todo[k] = name
               \/ \E k \in 1..Len(kids) : k >= Current.next /\ kids[k].name = name
        BY <1>3, <2>5, <3>0
      <3>2. CASE \E k \in 1..Len(Current.todo) : Current.todo[k] = name
        BY <1>2, <1>4, <3>0, <3>1, <3>2
      <3>3. CASE \E k \in 1..Len(kids) :
                   k >= Current.next /\ k # Current.next /\ kids[k].name = name
        <4>1. \E k \in 1..Len(kids) : k >= f.next /\ kids[k].name = name
          BY <1>2, <2>2, <3>3
        <4> QED
          BY <1>2, <1>4, <3>0, <3>1, <4>1
      <3>4. CASE kid.name = name
        <4>1. Kind[kid.node] = "File"
          BY <2>1 DEF IsDir
        <4>2. path = Append(dir, name)
          BY <2>1, <3>1, <3>4, <4>1
        <4> QED
          BY <2>4, <3>4, <4>2
      <3> QED
        BY <2>3, <3>1, <3>2, <3>3, <3>4
    <2> QED
      BY <1>1, <1>8, <2>4, <2>5, LossOfUpdate
  <1>9. \/ /\ Current.next > Len(kids) \/ silent' = silent \cup {dir}
           /\ silent \subseteq silent'
           /\ Update(CloseDir(Current)) /\ UNCHANGED job
        \/ /\ ~(Current.next > Len(kids)) /\ IsDir(kid.node)
           /\ Update([f EXCEPT !.todo = @ \o Entered(kid)])
           /\ UNCHANGED <<job, silent>>
        \/ /\ ~(Current.next > Len(kids)) /\ ~IsDir(kid.node)
           /\ Update(f) /\ UNCHANGED silent
           /\ job' = Job(Append(f.path, kid.name), Append(f.path, TargetName(kid)), TRUE)
    BY DEF NextEntry
  <1> QED
    BY <1>6, <1>7, <1>8, <1>9

\* The call of copyDir() for the next directory: what is due by its name is the new
\* job's, or due in the new frame.
LEMMA LossOfEnter ==
  ASSUME FilesAreLeaves, TypeOK, ScopeInv, LossInv,
         InDir("directories"), Current.todo # <<>>,
         NEW new, new = Append(Current.path, Head(Current.todo)), EnterDirectory(new),
         UNCHANGED <<dstAttr, asked, silent>>, told \subseteq told',
         dst' = dst \/ ((dst' = Store(new, NewDir)) /\ ~Exists(new))
  PROVE  LossInv'
  <1> SUFFICES ASSUME NEW path \in Paths, Scoped(asked', path)
               PROVE  \/ Accounted(asked', dstAttr'.NoMeta, dst', told', silent', path)
                      \/ Pending(job', stack', path)
    BY DEF LossInv
  <1> DEFINE w == dstAttr.NoMeta
             n == Len(stack)
             dir == Current.path
  <1>1. /\ result = "running" /\ job = NoJob /\ dir \in Seq(Names)
        /\ Current.todo \in Seq(Names) /\ Current.phase = "directories"
        /\ n \in Nat \ {0} /\ stack[n] = Current
        /\ path \in Seq(Names) /\ Scoped(asked, path)
    BY FrameType, CopierAssumption DEF Current
  <1>2. new \in Seq(Names)
    BY <1>1, HeadTailProperties
  <1>3. /\ Len(stack') = n + 1
        /\ \A i \in 1..n : /\ stack'[i].path = stack[i].path
                           /\ stack'[i].phase = stack[i].phase
                           /\ i # n => stack'[i] = stack[i]
        /\ stack'[n].todo = Tail(Current.todo)
        /\ stack'[n + 1] = Frame(new)
        /\ job' = Job(new, new, FALSE)
        /\ Head(Current.todo) = Current.todo[1]
        /\ Len(Tail(Current.todo)) = Len(Current.todo) - 1
        /\ \A k \in 1..Len(Tail(Current.todo)) : Tail(Current.todo)[k] = Current.todo[k + 1]
    BY <1>2, EnterStack
  <1>4. CASE Accounted(asked, w, dst, told, silent, path)
    <2>1. Extends(dst, dst', Aim(asked, w, path))
      BY DEF Extends, Store, Exists
    <2> QED
      BY <1>4, <2>1, AccountedMore
  <1>5. CASE Pending(job, stack, path)
    <2>1. PICK i \in 1..n : DueIn(stack[i], path)
      BY <1>1, <1>5 DEF Pending
    <2>2. CASE i # n
      <3>1. i \in 1..Len(stack') /\ stack'[i] = stack[i]
        BY <1>1, <1>3, <2>2
      <3> QED
        BY <2>1, <3>1 DEF Pending
    <2>3. CASE i = n
      <3> DEFINE name == path[Len(dir) + 1]
      <3>0. name = path[Len(dir) + 1]
        OBVIOUS
      <3>1. DueIn(Current, path)
        BY <1>1, <2>1, <2>3
      <3>2. IsBelow(dir, path) /\ IsDue(Current, name)
        BY <3>1 DEF DueIn
      <3> HIDE DEF name
      <3>3. PICK k \in 1..Len(Current.todo) : Current.todo[k] = name
        BY <1>1, <3>2 DEF IsDue
      <3>4. CASE k = 1
        <4>1. new = Append(dir, name)
          BY <1>3, <3>3, <3>4
        <4>2. path = new \/ IsBelow(new, path)
          BY <1>1, <3>0, <3>2, <4>1, BelowCurrent
        <4>3. CASE path = new
          <5>1. job'.path = new /\ job' # NoJob
            BY <1>3 DEF Job, NoJob
          <5> QED
            BY <4>3, <5>1 DEF Pending
        <4>4. CASE IsBelow(new, path)
          <5>1. DueIn(Frame(new), path)
            BY <4>4 DEF DueIn, IsDue, Frame
          <5>2. n + 1 \in 1..Len(stack')
            BY <1>1, <1>3
          <5> QED
            BY <1>3, <5>1, <5>2 DEF Pending
        <4> QED
          BY <4>2, <4>3, <4>4
      <3>5. CASE k # 1
        <4>1. k - 1 \in 1..Len(Tail(Current.todo)) /\ k - 1 + 1 = k
          BY <1>1, <1>3, <3>5
        <4>2. stack'[n].todo[k - 1] = name
          BY <1>3, <3>3, <4>1
        <4>3. n \in 1..Len(stack') /\ stack'[n].path = dir
          BY <1>1, <1>3
        <4>4. IsDue(stack'[n], name)
          BY <1>3, <4>1, <4>2 DEF IsDue
        <4>5. DueIn(stack'[n], path)
          BY <3>0, <3>2, <4>3, <4>4 DEF DueIn
        <4> QED
          BY <4>3, <4>5 DEF Pending
      <3> QED
        BY <3>4, <3>5
    <2> QED
      BY <2>2, <2>3
  <1> QED
    BY <1>1, <1>4, <1>5 DEF LossInv

\* A subdirectory is made and entered, or told of, and a directory left has none to come.
LEMMA LossOfNextDirectory ==
  FilesAreLeaves /\ TypeOK /\ ScopeInv /\ LossInv /\ NextDirectory => LossInv'
  <1> SUFFICES ASSUME FilesAreLeaves, TypeOK, ScopeInv, LossInv, NextDirectory PROVE LossInv'
    OBVIOUS
  <1> DEFINE new == Append(Current.path, Head(Current.todo))
  <1>1. /\ stack \in Seq(Frames) /\ stack # <<>> /\ job = NoJob /\ InDir("directories")
        /\ result = "running" /\ Current.phase = "directories"
        /\ Len(stack) \in Nat \ {0} /\ stack[Len(stack)] = Current
    BY FrameType DEF NextDirectory, TypeOK, StackOK, Current
  <1>2. CASE /\ Current.todo = <<>> /\ stack' = Front(stack)
             /\ UNCHANGED <<job, dst>> /\ Quiet
    <2> SUFFICES ASSUME NEW path \in Paths, Scoped(asked', path)
                 PROVE  \/ Accounted(asked', dstAttr'.NoMeta, dst', told', silent', path)
                        \/ Pending(job', stack', path)
      BY DEF LossInv
    <2>1. /\ Len(stack') = Len(stack) - 1
          /\ \A i \in 1..Len(stack') : stack'[i] = stack[i]
      BY <1>1, <1>2, FrontType
    <2>2. UNCHANGED <<asked, dstAttr, dst, told, silent, job>>
      BY <1>2 DEF Quiet
    <2>3. ~DueIn(Current, path)
      <3>1. Len(Current.todo) = 0
        BY <1>2
      <3> QED
        BY <1>1, <3>1 DEF DueIn, IsDue
    <2>4. Pending(job, stack, path) => Pending(job, stack', path)
      <3>1. ASSUME NEW i \in 1..Len(stack), DueIn(stack[i], path)
            PROVE  i \in 1..Len(stack')
        BY <1>1, <2>1, <2>3, <3>1
      <3> QED
        BY <1>1, <2>1, <3>1 DEF Pending
    <2> QED
      BY <1>1, <2>2, <2>4 DEF LossInv
  <1>3. CASE /\ Current.todo # <<>> /\ CanMkdir(new)
             /\ dst' = Store(new, NewDir) /\ EnterDirectory(new) /\ Quiet
    <2>1. UNCHANGED <<asked, dstAttr, silent>> /\ told \subseteq told' /\ ~Exists(new)
      BY <1>3 DEF Quiet, CanMkdir
    <2> DEFINE path == new
    <2>2. path = Append(Current.path, Head(Current.todo))
      OBVIOUS
    <2>3. EnterDirectory(path) /\ dst' = Store(path, NewDir) /\ ~Exists(path)
      BY <1>3, <2>1
    <2> HIDE DEF path, new
    <2> QED
      BY <1>1, <1>3, <2>1, <2>2, <2>3, LossOfEnter
  <1>4. CASE /\ Current.todo # <<>>
             /\ \E goOn \in Answers : /\ Tell("mkdir", new, goOn)
                                      /\ IF goOn THEN EnterDirectory(new) ELSE Stop
             /\ UNCHANGED <<dst, dstAttr, asked, silent>>
    <2>1. PICK goOn \in Answers : /\ Tell("mkdir", new, goOn)
                                  /\ IF goOn THEN EnterDirectory(new) ELSE Stop
      BY <1>4
    <2>2. told \subseteq told'
      BY <2>1 DEF Tell
    <2>3. CASE Stop
      BY <2>3 DEF Stop, LossInv
    <2>4. CASE EnterDirectory(new)
      <3> DEFINE path == new
      <3>1. path = Append(Current.path, Head(Current.todo))
        OBVIOUS
      <3>2. EnterDirectory(path)
        BY <2>4
      <3> HIDE DEF path, new
      <3> QED
        BY <1>1, <1>4, <2>2, <3>1, <3>2, LossOfEnter
    <2> QED
      BY <2>1, <2>3, <2>4
  <1>5. \/ /\ Current.todo = <<>> /\ stack' = Front(stack)
           /\ UNCHANGED <<job, dst>> /\ Quiet
        \/ /\ Current.todo # <<>> /\ CanMkdir(new)
           /\ dst' = Store(new, NewDir) /\ EnterDirectory(new) /\ Quiet
        \/ /\ Current.todo # <<>>
           /\ \E goOn \in Answers : /\ Tell("mkdir", new, goOn)
                                    /\ IF goOn THEN EnterDirectory(new) ELSE Stop
           /\ UNCHANGED <<dst, dstAttr, asked, silent>>
    BY DEF NextDirectory
  <1> QED
    BY <1>2, <1>3, <1>4, <1>5

\* At first all is to come.
LEMMA LossOfBegin ==
  ASSUME NEW call \in Calls, Begin(call)
  PROVE  LossInv'
  <1> SUFFICES ASSUME NEW path \in Paths, Scoped(asked', path)
               PROVE  Pending(job', stack', path)
    BY DEF LossInv
  <1>1. /\ call.path \in Seq(Names) /\ path \in Seq(Names) /\ Scoped(call, path)
        /\ job' # NoJob /\ job'.path = call.path
    BY CopierAssumption DEF Begin, Job, NoJob
  <1>2. CASE path = call.path
    BY <1>1, <1>2 DEF Pending
  <1>3. CASE path # call.path
    <2>1. call.function = "copyDir"
      BY <1>1, <1>3 DEF Scoped
    <2>2. Len(stack') = 1 /\ stack'[1] = Frame(call.path)
      BY <2>1 DEF Begin
    <2>3. IsPrefix(call.path, path)
      BY <1>1, <2>1 DEF Scoped
    <2>4. Len(call.path) <= Len(path) /\ \A i \in 1..Len(call.path) : path[i] = call.path[i]
      BY <1>1, <2>3, PrefixIs
    <2>5. Len(call.path) < Len(path)
      <3>1. Len(call.path) = Len(path) => path = call.path
        BY <1>1, <2>4, SeqEqual
      <3>2. Len(call.path) \in Nat /\ Len(path) \in Nat
        BY <1>1
      <3> QED
        BY <1>3, <2>4, <3>1, <3>2
    <2>6. DueIn(Frame(call.path), path)
      BY <2>3, <2>5 DEF DueIn, IsBelow, IsDue, Frame
    <2> QED
      BY <2>2, <2>6 DEF Pending
  <1> QED
    BY <1>2, <1>3

-----------------------------------------------------------------------------
\* What is assumed of the source and of the calls: directories have each name once, also
\* when the names are those of a target without metadata, files have no entries, and a
\* call is for what its function copies, to where the target has no file for a directory.
SourceIsPlain == DistinctNames /\ DistinctTargets /\ FilesAreLeaves /\ CallsFit

\* All that is needed at each step, so that at the end every loss has been told.
CopyInv == TypeOK /\ ScopeInv /\ RootInv /\ FreshInv /\ JobInv /\ LossInv

\* The invariant holds before the first call.
LEMMA CopyInit == SourceIsPlain /\ Init => CopyInv
  <1> SUFFICES ASSUME SourceIsPlain, Init PROVE CopyInv
    OBVIOUS
  <1>1. JobInv
    BY NoProgress DEF Init, JobInv
  <1>2. LossInv
    BY DEF Init, LossInv
  <1> QED
    BY <1>1, <1>2, InitType, ScopeInit, RootInit, FreshInit DEF CopyInv, SourceIsPlain

\* Every step keeps the invariant.
LEMMA CopyStep == SourceIsPlain /\ CopyInv /\ [Next]_vars => CopyInv'
  <1> SUFFICES ASSUME SourceIsPlain, CopyInv, [Next]_vars PROVE CopyInv'
    OBVIOUS
  <1>1. /\ TypeOK /\ ScopeInv /\ RootInv /\ FreshInv /\ JobInv /\ LossInv
        /\ DistinctNames /\ DistinctTargets /\ FilesAreLeaves /\ CallsFit
    BY DEF CopyInv, SourceIsPlain
  <1>2. TypeOK' /\ ScopeInv' /\ RootInv' /\ FreshInv'
    BY <1>1, NextType, ScopeKept, RootKept, FreshKept
  <1>3. CASE JobStep
    BY <1>1, <1>2, <1>3, JobKeptByJobs, LossOfJobs DEF CopyInv
  <1>4. CASE OpenDir \/ NextEntry \/ NextDirectory
    BY <1>1, <1>2, <1>4, JobKeptByDirs, LossOfOpenDir, LossOfNextEntry, LossOfNextDirectory
       DEF CopyInv
  <1>5. CASE \E call \in Calls : Begin(call)
    BY <1>1, <1>2, <1>5, JobKeptByBegin, LossOfBegin DEF CopyInv
  <1>6. CASE UNCHANGED vars
    <2>1. JobInv' /\ LossInv'
      BY <1>1, <1>6 DEF vars, JobInv, LossInv
    <2> QED
      BY <1>2, <2>1 DEF CopyInv
  <1> QED
    BY <1>3, <1>4, <1>5, <1>6 DEF Next, Step, JobStep

\* With nothing to come, everything is accounted for.
LEMMA LossesAreTold == CopyInv => EveryLossIsTold
  <1> SUFFICES ASSUME CopyInv, result = "done", NEW path \in Paths, InScope(path)
               PROVE  /\ ~Copied(path) => IsToldOf(path, Operations \ OfAttributes)
                      /\ ~AttributesCopied(path) => IsToldOf(path, Operations)
    BY DEF EveryLossIsTold
  <1>1. Scoped(asked, path)
    BY ScopeIs
  <1>2. ~Pending(job, stack, path)
    <2>1. job = NoJob /\ stack = <<>>
      BY DEF CopyInv, TypeOK, ResultOK
    <2>2. Len(stack) = 0
      BY <2>1
    <2> QED
      BY <2>1, <2>2 DEF Pending
  <1>3. Accounted(asked, dstAttr.NoMeta, dst, told, silent, path)
    BY <1>1, <1>2 DEF CopyInv, LossInv
  <1> QED
    BY <1>3, AccountIs DEF Accounted, OfData

\* When a copy succeeds, whatever failed on the way, every file and directory is on the
\* target as it should be, or the error handler was told of just that one; other than of
\* what is in a directory whose enumeration failed, and of short writes.
THEOREM LossesTold == SourceIsPlain => (Spec => []EveryLossIsTold)
  <1> SUFFICES ASSUME SourceIsPlain PROVE Spec => []EveryLossIsTold
    OBVIOUS
  <1>1. Init => CopyInv
    BY CopyInit
  <1>2. CopyInv /\ [Next]_vars => CopyInv'
    BY CopyStep
  <1> QED
    BY <1>1, <1>2, LossesAreTold, PTL DEF Spec
=============================================================================
