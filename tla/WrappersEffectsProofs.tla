----------------------- MODULE WrappersEffectsProofs -----------------------
(***************************************************************************)
(* That the calls of Wrappers which change something change it as they are *)
(* asked, whichever call of the host fails.  A call that no other program  *)
(* interferes with is at a stage: what it has done so far, and with which  *)
(* descriptor.  Each step of a call leads from stage to stage, and the     *)
(* last one is the effect that is promised.                                *)
(***************************************************************************)
EXTENDS WrappersProofs

-----------------------------------------------------------------------------
(* What a call was asked for, and its fields.                               *)

\* A call that has come further with what it was asked for.
Asked(c, d) ==
  /\ IsCall(d) /\ d.fn = c.fn /\ d.path = c.path /\ d.h = c.h
  /\ d.before = c.before /\ d.data = c.data /\ d.foreign = c.foreign

\* With its number, what it has got and its descriptor, or with what it returns.
SameParts(c, d) == d.n = c.n /\ d.got = c.got /\ d.fd = c.fd
SameEnd(c, d)   == d.ret = c.ret /\ d.fault = c.fault

\* One field is set.
LEMMA OneSet ==
  ASSUME NEW c, IsCall(c), NEW d, NEW x
  PROVE  /\ d = [c EXCEPT !.ret = x] => Asked(c, d) /\ SameParts(c, d) /\ d.ret = x /\ d.fault = c.fault
         /\ d = [c EXCEPT !.fd = x] => Asked(c, d) /\ SameEnd(c, d) /\ d.fd = x /\ d.n = c.n /\ d.got = c.got
         /\ d = [c EXCEPT !.n = x] => Asked(c, d) /\ SameEnd(c, d) /\ d.n = x /\ d.fd = c.fd /\ d.got = c.got
         /\ d = [c EXCEPT !.got = x] => Asked(c, d) /\ SameEnd(c, d) /\ d.got = x /\ d.n = c.n /\ d.fd = c.fd
  <1>1. d = [c EXCEPT !.ret = x] => Asked(c, d) /\ SameParts(c, d) /\ d.ret = x /\ d.fault = c.fault
    BY ZenonT(60) DEF IsCall, Asked, SameParts, SameEnd, NoCall
  <1>2. d = [c EXCEPT !.fd = x] => Asked(c, d) /\ SameEnd(c, d) /\ d.fd = x /\ d.n = c.n /\ d.got = c.got
    BY ZenonT(60) DEF IsCall, Asked, SameParts, SameEnd, NoCall
  <1>3. d = [c EXCEPT !.n = x] => Asked(c, d) /\ SameEnd(c, d) /\ d.n = x /\ d.fd = c.fd /\ d.got = c.got
    BY ZenonT(60) DEF IsCall, Asked, SameParts, SameEnd, NoCall
  <1>4. d = [c EXCEPT !.got = x] => Asked(c, d) /\ SameEnd(c, d) /\ d.got = x /\ d.n = c.n /\ d.fd = c.fd
    BY ZenonT(60) DEF IsCall, Asked, SameParts, SameEnd, NoCall
  <1> QED
    BY <1>1, <1>2, <1>3, <1>4

\* Two are.
SetsGot(c, d, x, y) == d = [c EXCEPT !.got = x, !.ret = y]
SetsAt(c, d, x, y)  == d = [c EXCEPT !.at = x, !.fault = y]

\* The rest of the call is as it was then.
LEMMA GotAndRet ==
  ASSUME NEW c, IsCall(c), NEW d, NEW x, NEW y, SetsGot(c, d, x, y)
  PROVE  Asked(c, d) /\ d.got = x /\ d.ret = y /\ d.n = c.n /\ d.fd = c.fd /\ d.fault = c.fault
  BY ZenonT(60) DEF IsCall, Asked, NoCall, SetsGot

\* So are the point that was reached and the fault.
LEMMA AtAndFault ==
  ASSUME NEW c, IsCall(c), NEW d, NEW x, NEW y, SetsAt(c, d, x, y)
  PROVE  Asked(c, d) /\ SameParts(c, d) /\ d.ret = c.ret /\ d.at = x /\ d.fault = y
  BY ZenonT(60) DEF IsCall, Asked, SameParts, NoCall, SetsAt

\* An outcome is taken.
Took(o, at) == os' = o.os /\ Asked(call, call') /\ call'.at = at /\ call'.fault = (call.fault \/ o.fault)

\* By a call that has come further.
LEMMA TakenAsked ==
  ASSUME NEW c, Asked(call, c), c.fault = call.fault, NEW at, NEW o, Take(o, at, c)
  PROVE  Took(o, at) /\ SameParts(c, call') /\ call'.ret = c.ret
  <1> DEFINE f == c.fault \/ o.fault
             d == [c EXCEPT !.at = at, !.fault = f]
  <1>1. os' = o.os /\ call' = d
    BY DEF Take
  <1>2. IsCall(c) /\ SetsAt(c, d, at, f)
    BY DEF Asked, SetsAt
  <1> HIDE DEF f, d
  <1>3. Asked(c, d) /\ SameParts(c, d) /\ d.ret = c.ret /\ d.at = at /\ d.fault = f
    BY <1>2, AtAndFault
  <1>4. Asked(call, d) /\ d.fault = (call.fault \/ o.fault)
    BY <1>3, Zenon DEF Asked, f
  <1> QED
    BY <1>1, <1>3, <1>4, Zenon DEF Took

\* By one that sets a field.
LEMMA TakenSet ==
  ASSUME IsCall(call), NEW o, NEW at, NEW x
  PROVE  /\ Take(o, at, [call EXCEPT !.ret = x]) => Took(o, at) /\ SameParts(call, call') /\ call'.ret = x
         /\ Return(o, x) => Took(o, "return") /\ SameParts(call, call') /\ call'.ret = x
         /\ Take(o, at, [call EXCEPT !.fd = x]) =>
              Took(o, at) /\ call'.ret = call.ret /\ call'.fd = x /\ call'.n = call.n /\ call'.got = call.got
         /\ Take(o, at, [call EXCEPT !.n = x]) =>
              Took(o, at) /\ call'.ret = call.ret /\ call'.n = x /\ call'.fd = call.fd /\ call'.got = call.got
         /\ Take(o, at, [call EXCEPT !.got = x]) =>
              Took(o, at) /\ call'.ret = call.ret /\ call'.got = x /\ call'.n = call.n /\ call'.fd = call.fd
  <1>1. ASSUME NEW a, Take(o, a, [call EXCEPT !.ret = x])
        PROVE  Took(o, a) /\ SameParts(call, call') /\ call'.ret = x
    <2> DEFINE c == [call EXCEPT !.ret = x]
    <2>0. c = [call EXCEPT !.ret = x]
      OBVIOUS
    <2> HIDE DEF c
    <2>1. Asked(call, c) /\ SameParts(call, c) /\ c.ret = x /\ c.fault = call.fault
      BY <2>0, OneSet
    <2>2. Take(o, a, c)
      BY <1>1, <2>0
    <2> QED
      BY <2>1, <2>2, TakenAsked, Zenon DEF SameParts
  <1>2. ASSUME Return(o, x)
        PROVE  Took(o, "return") /\ SameParts(call, call') /\ call'.ret = x
    BY <1>1, <1>2 DEF Return
  <1>3. ASSUME Take(o, at, [call EXCEPT !.fd = x])
        PROVE  Took(o, at) /\ call'.ret = call.ret /\ call'.fd = x /\ call'.n = call.n /\ call'.got = call.got
    <2> DEFINE c == [call EXCEPT !.fd = x]
    <2>0. c = [call EXCEPT !.fd = x]
      OBVIOUS
    <2> HIDE DEF c
    <2>1. Asked(call, c) /\ SameEnd(call, c) /\ c.fd = x /\ c.n = call.n /\ c.got = call.got
      BY <2>0, OneSet
    <2>2. Take(o, at, c)
      BY <1>3, <2>0
    <2> QED
      BY <2>1, <2>2, TakenAsked, Zenon DEF SameParts, SameEnd
  <1>4. ASSUME Take(o, at, [call EXCEPT !.n = x])
        PROVE  Took(o, at) /\ call'.ret = call.ret /\ call'.n = x /\ call'.fd = call.fd /\ call'.got = call.got
    <2> DEFINE c == [call EXCEPT !.n = x]
    <2>0. c = [call EXCEPT !.n = x]
      OBVIOUS
    <2> HIDE DEF c
    <2>1. Asked(call, c) /\ SameEnd(call, c) /\ c.n = x /\ c.fd = call.fd /\ c.got = call.got
      BY <2>0, OneSet
    <2>2. Take(o, at, c)
      BY <1>4, <2>0
    <2> QED
      BY <2>1, <2>2, TakenAsked, Zenon DEF SameParts, SameEnd
  <1>5. ASSUME Take(o, at, [call EXCEPT !.got = x])
        PROVE  Took(o, at) /\ call'.ret = call.ret /\ call'.got = x /\ call'.n = call.n /\ call'.fd = call.fd
    <2> DEFINE c == [call EXCEPT !.got = x]
    <2>0. c = [call EXCEPT !.got = x]
      OBVIOUS
    <2> HIDE DEF c
    <2>1. Asked(call, c) /\ SameEnd(call, c) /\ c.got = x /\ c.n = call.n /\ c.fd = call.fd
      BY <2>0, OneSet
    <2>2. Take(o, at, c)
      BY <1>5, <2>0
    <2> QED
      BY <2>1, <2>2, TakenAsked, Zenon DEF SameParts, SameEnd
  <1> QED
    BY <1>1, <1>2, <1>3, <1>4, <1>5, Zenon

\* By one that sets what it has got and what it returns.
TakesGot(o, at, x, y) == Take(o, at, [call EXCEPT !.got = x, !.ret = y])

\* The call takes both, and keeps the rest.
LEMMA TakenGot ==
  ASSUME IsCall(call), NEW o, NEW at, NEW x, NEW y, TakesGot(o, at, x, y)
  PROVE  Took(o, at) /\ call'.got = x /\ call'.ret = y /\ call'.n = call.n /\ call'.fd = call.fd
  <1> DEFINE c == [call EXCEPT !.got = x, !.ret = y]
  <1>1. c = [call EXCEPT !.got = x, !.ret = y] /\ SetsGot(call, c, x, y)
    BY DEF SetsGot
  <1> HIDE DEF c
  <1>2. Asked(call, c) /\ c.got = x /\ c.ret = y /\ c.n = call.n /\ c.fd = call.fd /\ c.fault = call.fault
    BY <1>1, GotAndRet
  <1>3. Take(o, at, c)
    BY <1>1 DEF TakesGot
  <1> QED
    BY <1>2, <1>3, TakenAsked, Zenon DEF SameParts

-----------------------------------------------------------------------------
(* What is written over.                                                    *)

\* Each block of content that is written over.
LEMMA OverwriteHas ==
  ASSUME NEW content \in Seq(Blocks), NEW at \in Nat, NEW data \in Seq(Blocks),
         NEW now, now = Overwrite(content, at, data), NEW i \in 1..Len(now)
  PROVE  now[i] = IF i > at /\ i <= at + Len(data) THEN data[i - at]
                  ELSE IF i <= Len(content) THEN content[i] ELSE Zero
  <1> DEFINE m == IF Len(content) >= at + Len(data) THEN Len(content) ELSE at + Len(data)
             Block(j) == IF j > at /\ j <= at + Len(data) THEN data[j - at]
                         ELSE IF j <= Len(content) THEN content[j] ELSE Zero
  <1>1. Len(content) \in Nat /\ Len(data) \in Nat
    OBVIOUS
  <1>2. m \in Nat /\ Max({Len(content), at + Len(data)}) = m
    <2>1. m \in Nat /\ Len(content) \in Int /\ at + Len(data) \in Int
      BY <1>1
    <2>2. Max({Len(content), at + Len(data)}) = m
      BY <2>1, GreatestOfTwo, Zenon
    <2> QED
      BY <2>1, <2>2
  <1>3. now = [j \in 1..m |-> Block(j)]
    BY <1>2 DEF Overwrite
  <1>4. Len(now) = m
    BY OverwriteIs
  <1> HIDE DEF m, Block
  <1>5. now[i] = Block(i)
    BY <1>3, <1>4
  <1> QED
    BY <1>5 DEF Block

\* All of what a file without content holds.
LEMMA WrittenWhole ==
  ASSUME NEW data \in Seq(Blocks), NEW content \in Seq(Blocks), Len(content) = 0, NEW at \in Nat, at = 0,
         NEW now, now = Overwrite(content, at, data)
  PROVE  now = data
  <1>1. Len(data) \in Nat
    OBVIOUS
  <1>2. now \in Seq(Blocks) /\ Len(now) = IF 0 >= at + Len(data) THEN 0 ELSE at + Len(data)
    BY OverwriteIs
  <1>3. Len(now) = Len(data)
    BY <1>1, <1>2
  <1>4. ASSUME NEW i \in 1..Len(now) PROVE now[i] = data[i]
    <2>1. i > at /\ i <= at + Len(data) /\ i - at = i
      BY <1>1, <1>3
    <2>2. now[i] = data[i - at]
      BY <2>1, OverwriteHas
    <2> QED
      BY <2>1, <2>2
  <1> QED
    BY <1>2, <1>3, <1>4

\* Is there, where it was written.
LEMMA WrittenThere ==
  ASSUME NEW content \in Seq(Blocks), NEW at \in Nat, NEW data \in Seq(Blocks),
         NEW now, now = Overwrite(content, at, data)
  PROVE  Part(now, at + 1, at + Len(data)) = data
  <1> DEFINE last == at + Len(data)
             there == Part(now, at + 1, last)
  <1>1. Len(content) \in Nat /\ Len(data) \in Nat /\ last \in Nat /\ at + 1 \in Nat \ {0} /\ last = at + Len(data)
    OBVIOUS
  <1>2. now \in Seq(Blocks) /\ last <= Len(now) /\ Len(now) \in Nat
    BY <1>1, OverwriteIs
  <1> HIDE DEF last
  <1>3. /\ Part(now, at + 1, last) \in Seq(Blocks)
        /\ Part(now, at + 1, last) = SubSeq(now, at + 1, last)
        /\ Len(Part(now, at + 1, last)) = Len(data)
    <2>1. PICK from : from = at + 1
      OBVIOUS
    <2>2. from \in Nat \ {0} /\ last \in Int
      BY <1>1, <2>1
    <2>3. /\ Part(now, from, last) \in Seq(Blocks)
          /\ Part(now, from, last) = SubSeq(now, from, IF last <= Len(now) THEN last ELSE Len(now))
          /\ Len(Part(now, from, last)) = LET m == IF last <= Len(now) THEN last ELSE Len(now)
                                          IN  IF from <= m THEN m - from + 1 ELSE 0
      BY <1>2, <2>2, PartIs
    <2> QED
      BY <1>1, <1>2, <2>1, <2>3
  <1> DEFINE sub == SubSeq(now, at + 1, last)
  <1>4. ASSUME NEW i \in 1..Len(data) PROVE sub[i] = data[i]
    <2>1. at + i \in 1..Len(now) /\ SubSeq(now, at + 1, last)[i] = now[at + i]
      <3>1. PICK from, len : from = at + 1 /\ len = Len(data)
        OBVIOUS
      <3>2. from \in Nat \ {0} /\ len \in Nat /\ last = from + len - 1 /\ last \in Nat /\ i \in 1..len
        BY <1>1, <3>1
      <3>3. SubSeq(now, from, last)[i] = now[from + i - 1]
        BY <1>2, <3>2
      <3>4. at + i = from + i - 1 /\ at + i \in 1..Len(now)
        BY <1>2, <3>1, <3>2
      <3> QED
        BY <3>1, <3>3, <3>4
    <2>2. PICK j : j = at + i
      OBVIOUS
    <2>3. now[j] = IF j > at /\ j <= at + Len(data) THEN data[j - at]
                   ELSE IF j <= Len(content) THEN content[j] ELSE Zero
      BY <2>1, <2>2, OverwriteHas
    <2>4. j > at /\ j <= at + Len(data) /\ j - at = i
      BY <1>1, <2>2
    <2>5. now[j] = data[i]
      BY <2>3, <2>4
    <2> QED
      BY <2>1, <2>2, <2>5
  <1>5. sub \in Seq(Blocks) /\ Len(sub) = Len(data) /\ there = sub
    BY <1>3
  <1> HIDE DEF sub, there
  <1>6. there = data
    BY <1>4, <1>5
  <1> QED
    BY <1>6 DEF there, last

\* What a file held is still there outside of a range, when more is written in that.
Outside(before, now, n, last) == Within(before, now, n, last) /\ Len(before) <= Len(now)

\* Data that lies in the range keeps what is outside of it, and leaves no less than there was.
LEMMA OutsideKept ==
  ASSUME NEW before \in Seq(Blocks), NEW now \in Seq(Blocks), NEW n \in Nat, NEW last \in Nat,
         NEW at \in Nat, NEW data \in Seq(Blocks), NEW then, then = Overwrite(now, at, data),
         Outside(before, now, n, last), n <= at, at + Len(data) <= last
  PROVE  then \in Seq(Blocks) /\ Outside(before, then, n, last)
  <1>1. Len(before) \in Nat /\ Len(now) \in Nat /\ Len(data) \in Nat
    OBVIOUS
  <1> DEFINE top == IF Len(before) >= last THEN Len(before) ELSE last
  <1>2. Max({Len(before), last}) = top
    <2>1. Len(before) \in Int /\ last \in Int
      BY <1>1
    <2> QED
      BY <2>1, GreatestOfTwo, Zenon
  <1>3. /\ then \in Seq(Blocks)
        /\ Len(then) = IF Len(now) >= at + Len(data) THEN Len(now) ELSE at + Len(data)
    BY OverwriteIs
  <1>4. Len(now) <= top /\ Len(before) <= Len(now)
        /\ \A i \in 1..Len(before) : i <= n \/ i > last => now[i] = before[i]
    BY <1>2 DEF Outside, Within
  <1>5. Len(then) <= top /\ Len(before) <= Len(then) /\ Len(then) \in Nat
    BY <1>1, <1>3, <1>4
  <1>6. ASSUME NEW i \in 1..Len(before), i <= n \/ i > last
        PROVE  then[i] = before[i]
    <2>1. i \in 1..Len(then) /\ i <= Len(now) /\ now[i] = before[i]
      BY <1>1, <1>4, <1>5, <1>6
    <2>2. then[i] = IF i > at /\ i <= at + Len(data) THEN data[i - at]
                    ELSE IF i <= Len(now) THEN now[i] ELSE Zero
      BY <2>1, OverwriteHas
    <2> QED
      BY <1>1, <1>6, <2>1, <2>2
  <1> QED
    BY <1>2, <1>3, <1>5, <1>6 DEF Outside, Within

\* So it is when nothing is.
LEMMA OutsideSame ==
  ASSUME NEW before \in Seq(Blocks), NEW n \in Nat, NEW last \in Nat
  PROVE  Outside(before, before, n, last)
  <1>1. Len(before) \in Nat
    OBVIOUS
  <1>2. Max({Len(before), last}) = IF Len(before) >= last THEN Len(before) ELSE last
    BY <1>1, GreatestOfTwo
  <1> QED
    BY <1>1, <1>2 DEF Outside, Within

-----------------------------------------------------------------------------
(* What the host does for such a call.                                      *)

\* A descriptor that is used on as it was.
SameUse(s, t, h) ==
  /\ Opened(s, h) /\ Opened(t, h)
  /\ t.fds[h].node = s.fds[h].node /\ t.fds[h].append = s.fds[h].append
  /\ t.fds[h].read = s.fds[h].read /\ t.fds[h].write = s.fds[h].write
  /\ t.nodes[t.fds[h].node].kind = s.nodes[s.fds[h].node].kind

\* So it is over two steps.
LEMMA SameUseOn ==
  ASSUME NEW s, NEW t, NEW u, NEW h, SameUse(s, t, h), SameUse(t, u, h)
  PROVE  SameUse(s, u, h)
  BY DEF SameUse

\* A descriptor of which the cursor is elsewhere.
CursorAt(s, t, h, pos) ==
  /\ Opened(s, h) /\ t.fds = [s.fds EXCEPT ![h] = [s.fds[h] EXCEPT !.pos = pos]]
  /\ t.nodes[s.fds[h].node].kind = s.nodes[s.fds[h].node].kind

\* It is used on as it was, from there.
LEMMA CursorElsewhere ==
  ASSUME NEW s, Sound(s), NEW h, NEW t, NEW pos, CursorAt(s, t, h, pos)
  PROVE  SameUse(s, t, h) /\ t.fds[h].pos = pos
  <1> DEFINE f == s.fds[h]
             g == [f EXCEPT !.pos = pos]
  <1>1. h \in Fds /\ Desc(f) /\ f.node # 0 /\ s.fds = [x \in Fds |-> s.fds[x]]
    <2>1. h \in Fds /\ f.node \in Nodes /\ 0 \notin Nodes
      BY SoundFacts DEF There, CursorAt
    <2>2. Desc(f) /\ s.fds = [x \in Fds |-> s.fds[x]]
      BY <2>1 DEF Sound, Host
    <2> QED
      BY <2>1, <2>2
  <1>2. /\ g.node = f.node /\ g.append = f.append /\ g.read = f.read /\ g.write = f.write /\ g.pos = pos
    BY <1>1 DEF Desc
  <1>3. t.fds = [s.fds EXCEPT ![h] = g]
    BY DEF CursorAt
  <1>4. ClosedFd.node = 0
    BY DEF ClosedFd
  <1> HIDE DEF g
  <1>5. t.fds[h] = g
    BY <1>1, <1>3
  <1>6. g # ClosedFd
    BY <1>1, <1>2, <1>4
  <1>7. Opened(s, h) /\ t.nodes[f.node].kind = s.nodes[f.node].kind
    BY DEF CursorAt
  <1> HIDE DEF f
  <1>8. t.fds[h].node = f.node
    BY <1>2, <1>5
  <1> QED
    BY <1>1, <1>2, <1>5, <1>6, <1>7, <1>8 DEF SameUse, Opened, f

\* A cursor that moves.
LEMMA TurnedUse ==
  ASSUME NEW s, Sound(s), NEW h, NEW t, NEW pos, Turned(s, t, h, pos)
  PROVE  /\ SameUse(s, t, h) /\ t.fds[h].pos = pos
         /\ t.names = s.names /\ t.nodes = s.nodes /\ ContentOf(t, h) = ContentOf(s, h)
  <1>1. /\ Opened(s, h) /\ t.names = s.names /\ t.nodes = s.nodes
        /\ t.fds = [s.fds EXCEPT ![h] = [s.fds[h] EXCEPT !.pos = pos]]
    BY DEF Turned
  <1>2. CursorAt(s, t, h, pos)
    BY <1>1 DEF CursorAt
  <1>3. SameUse(s, t, h) /\ t.fds[h].pos = pos
    BY <1>2, CursorElsewhere
  <1> QED
    BY <1>1, <1>3 DEF SameUse, ContentOf

\* And one that writes.
LEMMA WroteUse ==
  ASSUME NEW s, Sound(s), NEW h, NEW t, NEW at, NEW data, Wrote(s, t, h, at, data)
  PROVE  /\ SameUse(s, t, h) /\ t.fds[h].pos = at + Len(data)
         /\ t.names = s.names /\ ContentOf(t, h) = Overwrite(ContentOf(s, h), at, data)
  <1> DEFINE n == s.fds[h].node
  <1>1. PICK pos, now : pos = at + Len(data) /\ now = Overwrite(ContentOf(s, h), at, data)
    OBVIOUS
  <1>2. Opened(s, h) /\ t.names = s.names /\ t.nodes[n].data = now
    BY <1>1 DEF Wrote
  <1>3. CursorAt(s, t, h, pos)
    <2>1. n \in Nodes
      BY <1>2, SoundFacts DEF There
    <2>2. t.nodes[n].kind = s.nodes[n].kind
      BY <2>1 DEF Wrote
    <2> QED
      BY <1>1, <2>2 DEF Wrote, CursorAt
  <1>4. SameUse(s, t, h) /\ t.fds[h].pos = pos
    BY <1>3, CursorElsewhere
  <1>5. ContentOf(t, h) = now
    BY <1>2, <1>4 DEF SameUse, ContentOf
  <1> QED
    BY <1>1, <1>2, <1>4, <1>5

\* write() writes some of the data.
Writes(s, h, data, o) ==
  /\ o.ret \in Int /\ Sound(o.os)
  /\ \/ o.os = s /\ (o.ret < 0 \/ (data = <<>> /\ o.ret = 0))
     \/ /\ o.ret \in 1..Len(data)
        /\ Wrote(s, o.os, h, WritesAt(s, h), SubSeq(data, 1, o.ret))
  /\ o.ret # Len(data) => \/ o.fault \/ ~Opened(s, h) \/ ~s.fds[h].write
                          \/ WritesAt(s, h) + Len(data) > MaxBlocks
  /\ o.ret >= 0 /\ o.ret < Len(data) => o.fault \/ WritesAt(s, h) + o.ret = MaxBlocks

\* So does write() on any descriptor, whichever error the host returns.
LEMMA HostWrites ==
  ASSUME NEW s, Sound(s), NEW h, NEW data \in Seq(Blocks), NEW o \in HostWrite(s, h, data), mounted
  PROVE  Writes(s, h, data, o)
  <1>1. o \in Checked(s, OsWrite(s, h, data)) /\ Len(data) \in Nat
    BY DEF HostWrite
  <1>2. ASSUME NEW x \in OsWrite(s, h, data)
        PROVE  Result(x) /\ x.ret \in Int /\ Writes(s, h, data, x)
    BY WriteDoes DEF Writes
  <1>3. PICK x \in OsWrite(s, h, data) :
          /\ o.os = x.os /\ o.fault = x.fault
          /\ x.ret < 0 => o.ret < 0
          /\ x.ret >= 0 => o.ret = x.ret
    BY <1>1, <1>2, CheckedDoes
  <1>4. o.ret \in Int
    BY <1>1, <1>2, CheckedDoes
  <1>5. Writes(s, h, data, x) /\ x.ret \in Int
    BY <1>2
  <1>6. CASE x.ret >= 0
    <2>1. o.ret = x.ret
      BY <1>3, <1>6
    <2> QED
      BY <1>3, <1>5, <2>1 DEF Writes
  <1>7. CASE x.ret < 0
    <2>1. o.ret < 0 /\ x.os = s /\ x.ret # Len(data) /\ o.ret # Len(data)
      <3>1. o.ret < 0 /\ ~(x.ret \in 1..Len(data))
        BY <1>1, <1>3, <1>7
      <3> QED
        BY <1>1, <1>4, <1>5, <1>7, <3>1 DEF Writes
    <2> QED
      BY <1>3, <1>4, <1>5, <2>1 DEF Writes
  <1> QED
    BY <1>5, <1>6, <1>7

\* read() fails only for a descriptor that is not there or not for reading, a directory, or
\* the media.
LEMMA ReadTells ==
  ASSUME NEW s, Sound(s), NEW h, Opened(s, h), NEW size \in Int, NEW o \in OsRead(s, h, size)
  PROVE  /\ o.ret >= 0 => ~o.fault /\ s.fds[h].read /\ s.nodes[s.fds[h].node].kind # "Directory"
         /\ o.ret < 0 => o.fault \/ ~s.fds[h].read \/ s.nodes[s.fds[h].node].kind = "Directory"
  <1> DEFINE errors == If(~s.fds[h].read, EBADF) \cup If(s.nodes[s.fds[h].node].kind = "Directory", EISDIR)
             success == Faulty(s, "read", EIO)
             pos   == s.fds[h].pos
             got   == Part(ContentOf(s, h), pos + 1, pos + size)
             after == [s EXCEPT !.fds[h].pos = @ + Len(got)]
  <1>1. \/ \E x \in Outcomes(s, errors, success) : o = WithData(x, <<>>)
        \/ errors = {} /\ o = WithData(Out(after, Len(got)), got)
    BY DEF OsRead
  <1>2. errors = {} <=> s.fds[h].read /\ s.nodes[s.fds[h].node].kind # "Directory"
    BY DEF If
  <1>3. errors \subseteq Nat \ {0} /\ EIO \in Nat \ {0}
    BY DEF If, EBADF, EISDIR, EIO
  <1>4. Len(got) \in Nat
    <2>1. ContentOf(s, h) \in Seq(Blocks) /\ pos \in Nat
      BY SoundFacts DEF IsContent
    <2> QED
      BY <2>1, PartIs
  <1> HIDE DEF errors, success, got, after
  <1>5. ASSUME NEW x \in Outcomes(s, errors, success), o = WithData(x, <<>>)
        PROVE  o.ret < 0 /\ ~(o.ret >= 0) /\ (o.fault \/ errors # {})
    <2>1. o.ret = x.ret /\ o.fault = x.fault
      BY <1>5 DEF WithData
    <2>2. CASE errors # {}
      <3>1. PICK e \in errors : x = Out(s, -e)
        BY <1>5, <2>2 DEF Outcomes
      <3> QED
        BY <1>3, <2>1, <2>2, <3>1 DEF Out
    <2>3. CASE errors = {}
      <3>1. x \in success
        BY <1>5, <2>3 DEF Outcomes
      <3>2. x = [os |-> s, ret |-> -EIO, fault |-> TRUE]
        BY <3>1 DEF success, Faulty
      <3> QED
        BY <1>3, <2>1, <3>2
    <2> QED
      BY <2>2, <2>3
  <1>6. ASSUME errors = {}, o = WithData(Out(after, Len(got)), got)
        PROVE  o.ret >= 0 /\ ~(o.ret < 0) /\ ~o.fault
    <2>1. PICK n : n = Len(got)
      OBVIOUS
    <2>2. o = WithData(Out(after, n), got)
      BY <1>6, <2>1
    <2>3. o.ret = n /\ ~o.fault
      BY <2>2 DEF WithData, Out
    <2> QED
      BY <1>4, <2>1, <2>3
  <1> QED
    BY <1>1, <1>2, <1>5, <1>6, Zenon

\* So does that of the file system, when it is mounted.
LEMMA HostReadTells ==
  ASSUME NEW s, Sound(s), NEW h, Opened(s, h), NEW size \in Int, NEW o \in HostRead(s, h, size), mounted
  PROVE  /\ o.ret \in Int
         /\ o.ret >= 0 => ~o.fault /\ s.fds[h].read /\ s.nodes[s.fds[h].node].kind # "Directory"
         /\ o.ret < 0 => o.fault \/ ~s.fds[h].read \/ s.nodes[s.fds[h].node].kind = "Directory"
  <1>1. PICK x \in OsRead(s, h, size) : o = [x EXCEPT !.ret = SysErr(@)]
    BY DEF HostRead
  <1>2. x = [os |-> x.os, ret |-> x.ret, fault |-> x.fault, data |-> x.data] /\ x.ret \in Int
    BY ReadDoes
  <1>3. o.ret = SysErr(x.ret) /\ o.fault = x.fault
    BY <1>1, <1>2
  <1>4. o.ret \in Int /\ (x.ret < 0 => o.ret < 0) /\ (x.ret >= 0 => o.ret = x.ret)
    BY <1>2, <1>3, SysErrSign
  <1> QED
    BY <1>2, <1>3, <1>4, ReadTells

\* lseek() tells where it is only within the range of an offset.
LEMMA SeekInRange ==
  ASSUME NEW s, Sound(s), NEW h, NEW n \in Nat, NEW o \in HostSeek(s, h, n, "Start"), o.ret = n
  PROVE  n < OffsetRange
  <1>1. PICK c \in Checked(s, OsSeek(s, h, n, "Start")) :
          o = [c EXCEPT !.ret = IF @ < 0 THEN @ ELSE ToOffset(@)]
    BY DEF HostSeek
  <1>2. \A x \in OsSeek(s, h, n, "Start") : Result(x) /\ x.ret \in Int
    <2>1. n \in Int /\ "Start" \in {"Start", "Current", "End"}
      OBVIOUS
    <2> QED
      BY <2>1, SeekDoes
  <1>3. Result(c) /\ c.ret \in Int
    BY <1>2, CheckedDoes
  <1>4. o.ret = IF c.ret < 0 THEN c.ret ELSE ToOffset(c.ret)
    BY <1>1, <1>3 DEF Result
  <1>5. OffsetRange \in Nat \ {0}
    BY OffsetAssumption
  <1> QED
    BY <1>3, <1>4, <1>5 DEF ToOffset, TooBig

-----------------------------------------------------------------------------
(* How far a call has come with what it was asked for.                      *)

\* What a path leads to holds, and whether a descriptor is open for that.
PathHolds(s, p)  == IF Node(s, p) = 0 THEN <<>> ELSE s.nodes[Node(s, p)].data
OpenAt(s, h, p)  == Opened(s, h) /\ Node(s, p) # 0 /\ s.fds[h].node = Node(s, p)

\* setContent(): the file is opened, which empties it, and written.
SetDone(s, c, p) ==
  IF c.ret < 0 THEN PathHolds(s, p) \in {c.before, <<>>}
  ELSE /\ PathHolds(s, p) = Part(c.data, 1, c.ret)
       /\ c.ret < Len(c.data) => c.fault \/ c.ret = MaxBlocks

SetStage(s, c, p) ==
  \/ c.at = "begin" /\ c.before = PathHolds(s, p)
  \/ /\ c.at = "write" /\ OpenAt(s, c.fd, p)
     /\ Len(ContentOf(s, c.fd)) = 0 /\ s.fds[c.fd].pos = 0 /\ ~s.fds[c.fd].append
  \/ c.at \in {"close", "return"} /\ SetDone(s, c, p)

\* truncate(): the file is opened, and cut.
CutDone(s, c, p) ==
  PathHolds(s, p) = IF c.ret < 0 THEN c.before ELSE Overwrite(Part(c.before, 1, c.n), c.n, <<>>)

CutStage(s, c, p) ==
  \/ c.at = "begin" /\ c.before = PathHolds(s, p)
  \/ c.at = "cut" /\ OpenAt(s, c.fd, p) /\ c.before = ContentOf(s, c.fd)
  \/ c.at \in {"close", "return"} /\ CutDone(s, c, p)

\* Closing a descriptor leaves what the path leads to.
LEMMA ClosingHolds ==
  ASSUME Typed, Closing
  PROVE  /\ Sound(os') /\ \A p : PathHolds(os', p) = PathHolds(os, p)
         /\ Asked(call, call') /\ call.at = "close" /\ call'.at = "return" /\ call'.ret = call.ret /\ call'.n = call.n
         /\ call.fault => call'.fault
  <1>1. PICK o \in HostClose(os, call.fd) : Take(o, "return", [call EXCEPT !.fd = -1])
    BY DEF Closing
  <1>2. call.at = "close" /\ Sound(os) /\ IsCall(call)
    BY DEF Closing, Typed
  <1>3. o.os.names = os.names /\ Sound(o.os) /\ Leaves(os, o.os, {call.fd})
    BY <1>2, HostCloseDoes
  <1> DEFINE x == -1
  <1>4. Take(o, "return", [call EXCEPT !.fd = x])
    BY <1>1
  <1> HIDE DEF x
  <1>5. Took(o, "return") /\ call'.ret = call.ret /\ call'.n = call.n
    BY <1>2, <1>4, TakenSet
  <1>6. \A p : PathHolds(o.os, p) = PathHolds(os, p)
    BY <1>3 DEF PathHolds, Node, Leaves
  <1> QED
    BY <1>2, <1>3, <1>5, <1>6 DEF Took

\* setContent() and truncate() begin with open().
LEMMA OpeningHolds ==
  ASSUME Typed, NEW fn, NEW flags, NEW next, Opening(fn, flags, next, TRUE), "Append" \notin flags
  PROVE  /\ call.at = "begin" /\ Asked(call, call') /\ call'.n = call.n
         /\ \/ os' = os /\ call'.at = "return" /\ call'.ret < 0
            \/ /\ call'.at = next /\ Sound(os') /\ call'.fd \in Fds
               /\ OpenAt(os', call'.fd, ResolvePath(call.path))
               /\ os'.fds[call'.fd].pos = 0 /\ ~os'.fds[call'.fd].append
               /\ "Truncate" \in flags => Len(ContentOf(os', call'.fd)) = 0
               /\ "Create" \notin flags /\ "Truncate" \notin flags => os'.names = os.names /\ os'.nodes = os.nodes
  <1>1. PICK o \in HostOpen(os, call.path, flags) :
          IF o.ret < 0 THEN Return(o, o.ret) ELSE Take(o, next, [call EXCEPT !.fd = o.ret])
    BY DEF Opening
  <1>2. Sound(os) /\ IsCall(call) /\ call.at = "begin"
    BY DEF Typed, Opening, At
  <1>3. /\ o.ret \in Int
        /\ Fails(os, o) \/ (mounted /\ o.ret \in Nat /\ OpensFile(os, o, ResolvePath(call.path), MapFlags(flags)))
    BY <1>2, HostOpenDoes
  <1>4. CASE o.ret < 0
    <2>1. Return(o, o.ret) /\ o.os = os
      BY <1>1, <1>3, <1>4 DEF Fails
    <2>2. Took(o, "return") /\ SameParts(call, call') /\ call'.ret = o.ret
      BY <1>2, <2>1, TakenSet
    <2> QED
      BY <1>2, <1>4, <2>1, <2>2 DEF Took, SameParts
  <1>5. CASE ~(o.ret < 0)
    <2> DEFINE p == ResolvePath(call.path)
               f == MapFlags(flags)
               h == o.ret
    <2>1. OpensFile(os, o, p, f)
      BY <1>3, <1>5 DEF Fails
    <2>2. Took(o, next) /\ call'.fd = h /\ call'.n = call.n
      BY <1>1, <1>2, <1>5, TakenSet
    <2>3. /\ "Append" \notin f
          /\ "Truncate" \in flags => "Truncate" \in f
          /\ "Create" \notin flags /\ "Truncate" \notin flags =>
               "Create" \notin f /\ f \cap {"Create", "Truncate"} = {}
      BY DEF MapFlags
    <2> HIDE DEF p, f
    <2>4. /\ h \in Fds /\ Sound(o.os) /\ Node(o.os, p) # 0
          /\ "Truncate" \in f => ContentOf(o.os, h) = <<>>
          /\ "Create" \notin f => o.os.names = os.names
          /\ f \cap {"Create", "Truncate"} = {} => o.os.nodes = os.nodes
      BY <2>1 DEF OpensFile
    <2>5. o.os.fds[h].node = Node(o.os, p) /\ o.os.fds[h].pos = 0 /\ ~o.os.fds[h].append
      <3> DEFINE desc == [node |-> Node(o.os, p), pos |-> 0, append |-> "Append" \in f,
                          read |-> "Read" \in f, write |-> "Write" \in f]
      <3>1. o.os.fds = [os.fds EXCEPT ![h] = desc]
        BY <2>1 DEF OpensFile
      <3>2. os.fds = [x \in Fds |-> os.fds[x]]
        BY <1>2 DEF Sound, Host
      <3>3. desc.node = Node(o.os, p) /\ desc.pos = 0 /\ ~desc.append
        BY <2>3
      <3> HIDE DEF desc
      <3>4. o.os.fds[h] = desc
        BY <2>4, <3>1, <3>2
      <3> QED
        BY <3>3, <3>4
    <2>6. Opened(o.os, h)
      BY <2>4, <2>5 DEF Opened, ClosedFd
    <2>7. os' = o.os /\ Asked(call, call') /\ call'.at = next
      BY <2>2 DEF Took
    <2>8. OpenAt(os', call'.fd, p)
      BY <2>2, <2>4, <2>5, <2>6, <2>7 DEF OpenAt
    <2>9. "Truncate" \in flags => Len(ContentOf(o.os, h)) = 0
      BY <2>3, <2>4
    <2> QED
      BY <1>2, <2>2, <2>3, <2>4, <2>5, <2>7, <2>8, <2>9 DEF p
  <1> QED
    BY <1>4, <1>5

\* setContent(), step by step.
LEMMA SetGoes ==
  ASSUME Typed, mounted \/ OpenFds(os) = {}, NEW p, p = ResolvePath(call.path), call.fn = "setContent",
         SetStage(os, call, p), SetContent \/ Closing
  PROVE  SetStage(os', call', p)
  <1>1. Sound(os) /\ IsCall(call) /\ call.data \in Seq(Blocks)
    BY DEF Typed, CallData
  <1>2. CASE Closing
    <2>1. /\ PathHolds(os', p) = PathHolds(os, p)
          /\ Asked(call, call') /\ call.at = "close" /\ call'.at = "return" /\ call'.ret = call.ret
          /\ call.fault => call'.fault
      BY <1>2, ClosingHolds
    <2>2. SetDone(os, call, p)
      BY <2>1 DEF SetStage
    <2>3. SetDone(os', call', p)
      BY <2>1, <2>2 DEF SetDone, Asked
    <2> QED
      BY <2>1, <2>3 DEF SetStage
  <1>3. CASE Opening("setContent", {"Create", "Truncate", "Write"}, "write", TRUE)
    <2> DEFINE flags == {"Create", "Truncate", "Write"}
    <2>1. Opening("setContent", flags, "write", TRUE) /\ "Append" \notin flags /\ "Truncate" \in flags
      BY <1>3
    <2> HIDE DEF flags
    <2>2. /\ call.at = "begin" /\ Asked(call, call')
          /\ \/ os' = os /\ call'.at = "return" /\ call'.ret < 0
             \/ /\ call'.at = "write" /\ OpenAt(os', call'.fd, p)
                /\ os'.fds[call'.fd].pos = 0 /\ ~os'.fds[call'.fd].append
                /\ Len(ContentOf(os', call'.fd)) = 0
      BY <2>1, OpeningHolds
    <2>3. call.before = PathHolds(os, p)
      BY <2>2 DEF SetStage
    <2>4. CASE os' = os /\ call'.at = "return" /\ call'.ret < 0
      BY <2>2, <2>3, <2>4 DEF SetStage, SetDone, Asked
    <2> QED
      BY <2>2, <2>4 DEF SetStage
  <1>4. ASSUME call.at = "write", NEW o \in HostWrite(os, call.fd, call.data),
               Take(o, "close", [call EXCEPT !.ret = o.ret])
        PROVE  SetStage(os', call', p)
    <2> DEFINE h == call.fd
               done == SubSeq(call.data, 1, o.ret)
    <2>1. /\ OpenAt(os, h, p) /\ Len(ContentOf(os, h)) = 0 /\ os.fds[h].pos = 0 /\ ~os.fds[h].append
      BY <1>4 DEF SetStage
    <2>2. mounted /\ ContentOf(os, h) \in Seq(Blocks)
      BY <1>1, <2>1, SoundFacts DEF OpenAt, IsContent
    <2>3. Writes(os, h, call.data, o)
      BY <1>1, <1>4, <2>2, HostWrites
    <2>4. Took(o, "close") /\ call'.ret = o.ret
      BY <1>1, <1>4, TakenSet
    <2>5. WritesAt(os, h) = 0 /\ Len(call.data) \in Nat /\ MaxBlocks \in Nat /\ o.ret \in Int
      BY <1>1, <2>1, <2>3, HostAssumption DEF WritesAt, Writes
    <2>6. PathHolds(os, p) = ContentOf(os, h) /\ ContentOf(os, h) = <<>>
      BY <2>1, <2>2 DEF OpenAt, PathHolds, ContentOf
    <2>7. o.ret >= 0 /\ o.ret < Len(call.data) => o.fault \/ o.ret = MaxBlocks
      BY <2>3, <2>5 DEF Writes
    <2>8. SetDone(o.os, call', p)
      <3>1. CASE o.os = os /\ o.ret < 0
        BY <2>4, <2>6, <3>1 DEF SetDone
      <3>2. CASE o.os = os /\ call.data = <<>> /\ o.ret = 0
        <4>1. Part(call.data, 1, o.ret) = <<>>
          <5>1. Len(Part(call.data, 1, 0)) = 0 /\ Part(call.data, 1, 0) \in Seq(Blocks)
            BY <1>1, <2>5, PartIs
          <5> QED
            BY <3>2, <5>1
        <4>2. call'.data = call.data /\ call'.ret = 0 /\ Len(call.data) = 0
          BY <2>4, <3>2 DEF Took, Asked
        <4> QED
          BY <2>6, <3>2, <4>1, <4>2 DEF SetDone
      <3>3. CASE o.ret \in 1..Len(call.data) /\ Wrote(os, o.os, h, 0, done)
        <4>1. done \in Seq(Blocks) /\ Part(call.data, 1, o.ret) = done
          BY <1>1, <2>5, <3>3, PartIs
        <4> HIDE DEF done
        <4>2. /\ o.os.names = os.names /\ SameUse(os, o.os, h)
              /\ ContentOf(o.os, h) = Overwrite(ContentOf(os, h), 0, done)
          BY <1>1, <3>3, WroteUse
        <4>3. ContentOf(o.os, h) = done
          BY <2>1, <2>2, <4>1, <4>2, WrittenWhole
        <4>4. PathHolds(o.os, p) = done
          BY <2>1, <4>2, <4>3 DEF OpenAt, SameUse, PathHolds, ContentOf, Node
        <4>5. call'.data = call.data /\ call'.ret = o.ret
          BY <2>4 DEF Took, Asked
        <4>6. o.fault => call'.fault
          BY <2>4, Zenon DEF Took
        <4>7. ~(o.ret < 0) /\ o.ret >= 0
          BY <2>5, <3>3
        <4>8. o.ret < Len(call.data) => call'.fault \/ o.ret = MaxBlocks
          BY <2>7, <4>6, <4>7, Zenon
        <4> QED
          BY <4>1, <4>4, <4>5, <4>7, <4>8, Zenon DEF SetDone
      <3> QED
        BY <2>3, <2>5, <3>1, <3>2, <3>3 DEF Writes
    <2> QED
      BY <2>4, <2>8 DEF SetStage, Took
  <1> QED
    BY <1>2, <1>3, <1>4 DEF SetContent, At

\* ftruncate() cuts within the bounds of a file.
LEMMA CutsTo ==
  ASSUME NEW s, Sound(s), NEW h, NEW size \in Int, NEW o \in OsTruncate(s, h, size)
  PROVE  \/ Fails(s, o)
         \/ /\ o.ret = 0 /\ Opened(s, h) /\ size \in Nat /\ size <= MaxBlocks
            /\ o.os = Store(s, s.fds[h].node, Overwrite(Part(ContentOf(s, h), 1, size), size, <<>>))
  <1>1. MaxBlocks \in Nat /\ EFBIG \in Nat \ {0} /\ EBADF \in Nat \ {0} /\ EINVAL \in Nat \ {0}
    BY HostAssumption DEF EFBIG, EBADF, EINVAL
  <1>2. CASE size > MaxBlocks
    <2>1. o = Out(s, -EBADF) \/ o = Out(s, -EINVAL) \/ o = Out(s, -EFBIG)
      BY <1>2 DEF OsTruncate
    <2> QED
      BY <1>1, <2>1, OutFails
  <1>3. CASE size <= MaxBlocks
    BY <1>3, TruncateDoes
  <1> QED
    BY <1>1, <1>2, <1>3

\* And that of the file system.
LEMMA HostCutsTo ==
  ASSUME NEW s, Sound(s), NEW h, NEW size \in Int, NEW o \in HostTruncate(s, h, size)
  PROVE  \/ o.os = s /\ o.ret < 0
         \/ /\ o.ret = 0 /\ Opened(s, h) /\ size \in Nat /\ size <= MaxBlocks
            /\ o.os = Store(s, s.fds[h].node, Overwrite(Part(ContentOf(s, h), 1, size), size, <<>>))
  <1>1. o \in Checked(s, OsTruncate(s, h, size))
    BY DEF HostTruncate
  <1>2. \A x \in OsTruncate(s, h, size) : Result(x) /\ x.ret \in Int
    BY TruncateDoes
  <1>3. \/ Fails(s, o)
        \/ \E x \in OsTruncate(s, h, size) : /\ o.os = x.os
                                             /\ x.ret < 0 => o.ret < 0
                                             /\ x.ret >= 0 => o.ret = x.ret
    BY <1>1, <1>2, CheckedDoes
  <1>4. CASE Fails(s, o)
    BY <1>4 DEF Fails
  <1>5. ASSUME NEW x \in OsTruncate(s, h, size), o.os = x.os, x.ret < 0 => o.ret < 0, x.ret >= 0 => o.ret = x.ret
        PROVE  \/ o.os = s /\ o.ret < 0
               \/ /\ o.ret = 0 /\ Opened(s, h) /\ size \in Nat /\ size <= MaxBlocks
                  /\ o.os = Store(s, s.fds[h].node, Overwrite(Part(ContentOf(s, h), 1, size), size, <<>>))
    <2>1. CASE Fails(s, x)
      BY <1>5, <2>1 DEF Fails
    <2>2. CASE ~Fails(s, x)
      <3>1. /\ x.ret = 0 /\ Opened(s, h) /\ size \in Nat /\ size <= MaxBlocks
            /\ x.os = Store(s, s.fds[h].node, Overwrite(Part(ContentOf(s, h), 1, size), size, <<>>))
        BY <2>2, CutsTo
      <3>2. o.ret = 0
        BY <1>5, <3>1
      <3> QED
        BY <1>5, <3>1, <3>2
    <2> QED
      BY <2>1, <2>2
  <1> QED
    BY <1>3, <1>4, <1>5

\* truncate(), step by step.
LEMMA CutGoes ==
  ASSUME Typed, NEW p, p = ResolvePath(call.path), call.fn = "truncate",
         CutStage(os, call, p), TruncateByName \/ Closing
  PROVE  CutStage(os', call', p)
  <1>1. Sound(os) /\ IsCall(call) /\ call.n \in Int
    BY DEF Typed, CallData
  <1>2. CASE Closing
    <2>1. /\ PathHolds(os', p) = PathHolds(os, p)
          /\ Asked(call, call') /\ call.at = "close" /\ call'.at = "return" /\ call'.ret = call.ret
          /\ call'.n = call.n
      BY <1>2, ClosingHolds
    <2>2. CutDone(os, call, p)
      BY <2>1 DEF CutStage
    <2>3. CutDone(os', call', p)
      BY <2>1, <2>2 DEF CutDone, Asked
    <2> QED
      BY <2>1, <2>3 DEF CutStage
  <1>3. CASE Opening("truncate", {"Write"}, "cut", TRUE)
    <2> DEFINE flags == {"Write"}
    <2>1. /\ Opening("truncate", flags, "cut", TRUE) /\ "Append" \notin flags
          /\ "Truncate" \notin flags /\ "Create" \notin flags
      BY <1>3
    <2> HIDE DEF flags
    <2>2. /\ call.at = "begin" /\ Asked(call, call')
          /\ \/ os' = os /\ call'.at = "return" /\ call'.ret < 0
             \/ /\ call'.at = "cut" /\ OpenAt(os', call'.fd, p)
                /\ os'.names = os.names /\ os'.nodes = os.nodes
      BY <2>1, OpeningHolds
    <2>3. call.before = PathHolds(os, p)
      BY <2>2 DEF CutStage
    <2>4. CASE os' = os /\ call'.at = "return" /\ call'.ret < 0
      BY <2>2, <2>3, <2>4 DEF CutStage, CutDone, Asked
    <2>5. CASE /\ call'.at = "cut" /\ OpenAt(os', call'.fd, p)
               /\ os'.names = os.names /\ os'.nodes = os.nodes
      <3>1. PathHolds(os, p) = ContentOf(os', call'.fd)
        BY <2>5 DEF PathHolds, OpenAt, ContentOf, Node
      <3> QED
        BY <2>2, <2>3, <2>5, <3>1 DEF CutStage, Asked
    <2> QED
      BY <2>2, <2>4, <2>5
  <1>4. ASSUME call.at = "cut", NEW o \in HostTruncate(os, call.fd, call.n),
               Take(o, "close", [call EXCEPT !.ret = o.ret])
        PROVE  CutStage(os', call', p)
    <2> DEFINE h == call.fd
               n == os.fds[h].node
               cut == Overwrite(Part(ContentOf(os, h), 1, call.n), call.n, <<>>)
    <2>1. OpenAt(os, h, p) /\ call.before = ContentOf(os, h)
      BY <1>4 DEF CutStage
    <2>2. Took(o, "close") /\ SameParts(call, call') /\ call'.ret = o.ret
      <3>1. PICK ret : ret = o.ret
        OBVIOUS
      <3>2. Take(o, "close", [call EXCEPT !.ret = ret])
        BY <1>4, <3>1
      <3> QED
        BY <1>1, <3>1, <3>2, TakenSet
    <2>3. PathHolds(os, p) = call.before
      BY <2>1 DEF OpenAt, PathHolds, ContentOf
    <2>4. \/ o.os = os /\ o.ret < 0
          \/ o.ret = 0 /\ Opened(os, h) /\ call.n \in Nat /\ call.n <= MaxBlocks /\ o.os = Store(os, n, cut)
      BY <1>1, <1>4, HostCutsTo
    <2>5. os' = o.os /\ call'.at = "close" /\ call'.n = call.n /\ call'.before = call.before
      BY <2>2 DEF Took, Asked, SameParts
    <2>6. CASE o.os = os /\ o.ret < 0
      BY <2>2, <2>3, <2>5, <2>6 DEF CutStage, CutDone
    <2>7. CASE o.ret = 0 /\ Opened(os, h) /\ call.n \in Nat /\ call.n <= MaxBlocks /\ o.os = Store(os, n, cut)
      <3> DEFINE part == Part(ContentOf(os, h), 1, call.n)
      <3>1. ContentOf(os, h) \in Seq(Blocks) /\ n \in Nodes
        BY <1>1, <2>7, SoundFacts DEF IsContent, There
      <3>2. part \in Seq(Blocks) /\ Len(part) <= call.n /\ Len(part) \in Nat
        BY <2>7, <3>1, PartIs
      <3> HIDE DEF part
      <3>3. cut \in Seq(Blocks) /\ Len(cut) = call.n
        <4>1. cut = Overwrite(part, call.n, <<>>) /\ <<>> \in Seq(Blocks) /\ Len(<<>>) = 0
          BY EmptySeq DEF part
        <4>2. PICK empty : empty = <<>>
          OBVIOUS
        <4>3. empty \in Seq(Blocks) /\ Len(empty) = 0 /\ cut = Overwrite(part, call.n, empty)
          BY <4>1, <4>2
        <4>4. PICK size : size = call.n
          OBVIOUS
        <4>5. size \in Nat /\ Len(part) <= size /\ Len(empty) <= size /\ part \in Seq(Blocks)
          BY <2>7, <3>2, <4>3, <4>4
        <4>6. /\ Overwrite(part, size, empty) \in Seq(Blocks)
              /\ Len(Overwrite(part, size, empty)) =
                   IF Len(part) >= size + Len(empty) THEN Len(part) ELSE size + Len(empty)
          BY <4>3, <4>5, OverwriteIs
        <4> HIDE DEF cut
        <4> QED
          BY <3>2, <4>3, <4>4, <4>5, <4>6
      <3> HIDE DEF cut
      <3>4. IsContent(cut)
        BY <2>7, <3>3 DEF IsContent
      <3>5. o.os.names = os.names /\ o.os.nodes[n].data = cut
        BY <1>1, <2>7, <3>1, <3>4, StoreChanges
      <3>6. PathHolds(o.os, p) = cut
        BY <2>1, <3>5 DEF OpenAt, PathHolds, Node
      <3>7. cut = Overwrite(Part(call.before, 1, call.n), call.n, <<>>) /\ ~(o.ret < 0)
        BY <2>1, <2>7 DEF cut
      <3> QED
        BY <2>2, <2>5, <3>6, <3>7 DEF CutStage, CutDone
    <2> QED
      BY <2>4, <2>6, <2>7
  <1> QED
    BY <1>2, <1>3, <1>4 DEF TruncateByName, At

\* makedirs(): the directories that were made, by the number of parts of their paths.
DirectoriesOnWay == [i \in Nat |-> ResolvePath(SubSeq(call.path, 1, i))]
Relative(c) == c.path[1] # ""
AreOnWay(f) == f = DirectoriesOnWay

MadeDone(s, c, f) ==
  c.ret = FS_OK /\ Relative(c) => \A i \in 1..Len(c.path) - 1 : Kind(s, f[i]) = "Directory"

MadeStage(s, c, f) ==
  \/ /\ c.at = "begin" /\ c.n \in Nat
     /\ Relative(c) => \A i \in 1..c.n : Kind(s, f[i]) = "Directory"
  \/ c.at = "return" /\ MadeDone(s, c, f)

\* A directory that is made leaves the others.
LEMMA MakeLeavesKinds ==
  ASSUME NEW s, Sound(s), NEW p \in Paths, Spare(s) # {}, NEW q, NEW t, t = Make(s, p, "Directory")
  PROVE  q = p \/ Kind(s, q) = "Directory" => Kind(t, q) = "Directory"
  <1> DEFINE n == Min(Spare(s))
  <1>1. n \in Nodes /\ s.nodes[n].kind = "Free" /\ 0 \notin Nodes
    <2>1. Spare(s) \subseteq Nat
      BY HostAssumption DEF Spare
    <2>2. n \in Spare(s)
      BY <2>1, LeastIsMember
    <2> QED
      BY <2>2, HostAssumption DEF Spare
  <1> HIDE DEF n
  <1>2. t = [s EXCEPT !.names[p] = n, !.nodes[n] = New("Directory")]
    BY DEF Make, n
  <1>3. /\ s = [names |-> s.names, nodes |-> s.nodes, fds |-> s.fds, streams |-> s.streams]
        /\ s.names \in [Paths -> Nodes \cup {0}] /\ s.nodes = [m \in Nodes |-> s.nodes[m]]
    BY DEF Sound, Host
  <1>4. t.names = [s.names EXCEPT ![p] = n] /\ t.nodes = [s.nodes EXCEPT ![n] = New("Directory")]
    BY <1>2, <1>3
  <1>5. New("Directory").kind = "Directory"
    BY DEF New, Free
  <1>6. Node(t, p) = n /\ (q # p => Node(t, q) = Node(s, q))
    BY <1>3, <1>4 DEF Node
  <1>7. t.nodes[n].kind = "Directory" /\ \A m \in Nodes \ {n} : t.nodes[m] = s.nodes[m]
    BY <1>1, <1>3, <1>4, <1>5
  <1>8. Kind(t, p) = "Directory"
    BY <1>1, <1>6, <1>7 DEF Kind
  <1>9. ASSUME q # p, Kind(s, q) = "Directory"
        PROVE  Kind(t, q) = "Directory"
    <2>1. Node(s, q) # 0 /\ s.nodes[Node(s, q)].kind = "Directory"
      BY <1>9 DEF Kind
    <2>2. Node(s, q) \in Nodes \ {n}
      BY <1>1, <2>1, SoundFacts
    <2> QED
      BY <1>6, <1>7, <1>9, <2>1, <2>2 DEF Kind
  <1> QED
    BY <1>8, <1>9

\* makedirs(), step by step.
LEMMA MadeGoes ==
  ASSUME Typed, NEW f, AreOnWay(f), MadeStage(os, call, f), Makedirs
  PROVE  MadeStage(os', call', f)
  <1>1. Sound(os) /\ IsCall(call) /\ call.at = "begin"
    BY DEF Typed, Makedirs, At
  <1>2. call.n \in Nat /\ (Relative(call) => \A i \in 1..call.n : Kind(os, f[i]) = "Directory")
    BY <1>1 DEF MadeStage
  <1>3. CASE (call.n + 1 = Len(call.path) \/ call.path[1] = "") /\ Return(Out(os, 0), FS_OK)
    <2> DEFINE o == Out(os, 0)
    <2>1. Return(o, FS_OK) /\ o.os = os
      BY <1>3 DEF Out
    <2> HIDE DEF o
    <2>2. os' = os /\ call'.path = call.path /\ call'.at = "return"
      BY <1>1, <2>1, TakenSet DEF Took, Asked
    <2>3. Relative(call) => \A i \in 1..Len(call.path) - 1 : Kind(os, f[i]) = "Directory"
      <3> SUFFICES ASSUME Relative(call)
                   PROVE  \A i \in 1..Len(call.path) - 1 : Kind(os, f[i]) = "Directory"
        OBVIOUS
      <3>1. PICK k : k = call.n
        OBVIOUS
      <3>2. PICK l : l = Len(call.path)
        OBVIOUS
      <3>3. k + 1 = l /\ k \in Nat
        BY <1>2, <1>3, <3>1, <3>2 DEF Relative
      <3>4. l - 1 = k
        BY <3>3
      <3>5. \A i \in 1..k : Kind(os, f[i]) = "Directory"
        BY <1>2, <3>1
      <3> QED
        BY <3>2, <3>4, <3>5
    <2>4. Relative(call') = Relative(call)
      BY <2>2 DEF Relative
    <2>5. MadeDone(os', call', f)
      BY <2>2, <2>3, <2>4 DEF MadeDone
    <2> QED
      BY <2>2, <2>5 DEF MadeStage
  <1>4. ASSUME NEW o \in HostMkdir(os, SubSeq(call.path, 1, call.n + 1)),
               IF o.ret < 0 THEN Return(o, o.ret) ELSE Take(o, "begin", [call EXCEPT !.n = @ + 1])
        PROVE  MadeStage(os', call', f)
    <2>0. PICK k : k = call.n + 1
      OBVIOUS
    <2> DEFINE p == f[k]
    <2>1. p = ResolvePath(SubSeq(call.path, 1, k)) /\ k \in Nat
      <3>1. k \in Nat /\ f = [i \in Nat |-> ResolvePath(SubSeq(call.path, 1, i))]
        BY <1>2, <2>0 DEF AreOnWay, DirectoriesOnWay
      <3> QED
        BY <3>1
    <2>2. o \in Checked(os, OsMkdir(os, p))
      BY <1>4, <2>0, <2>1 DEF HostMkdir
    <2> HIDE DEF p
    <2>3. \A x \in OsMkdir(os, p) : /\ Result(x) /\ x.ret \in Int
                                    /\ Fails(os, x) \/ (/\ x.ret = 0 /\ p \in Paths /\ Spare(os) # {}
                                                        /\ x.os = Make(os, p, "Directory"))
      BY <1>1, MkdirDoes
    <2>4. /\ o.ret \in Int
          /\ \/ o.ret < 0
             \/ \E x \in OsMkdir(os, p) : o.os = x.os /\ ~(x.ret < 0)
      BY <2>2, <2>3, CheckedDoes DEF Fails
    <2>5. CASE o.ret < 0
      <3>1. Return(o, o.ret)
        BY <1>4, <2>5
      <3>2. call'.at = "return" /\ call'.ret = o.ret
        BY <1>1, <3>1, TakenSet DEF Took
      <3>3. call'.ret # FS_OK
        BY <2>4, <2>5, <3>2 DEF FS_OK
      <3> QED
        BY <3>2, <3>3 DEF MadeStage, MadeDone
    <2>6. CASE ~(o.ret < 0)
      <3>1. Take(o, "begin", [call EXCEPT !.n = k])
        BY <1>4, <2>0, <2>6
      <3>2. p \in Paths /\ Spare(os) # {} /\ o.os = Make(os, p, "Directory")
        BY <2>3, <2>4, <2>6 DEF Fails
      <3>3. os' = o.os /\ call'.at = "begin" /\ call'.n = k /\ call'.path = call.path
        <4>1. Took(o, "begin") /\ call'.n = k
          BY <1>1, <3>1, TakenSet
        <4> QED
          BY <4>1 DEF Took, Asked
      <3>4. ASSUME Relative(call), NEW i \in 1..k
            PROVE  Kind(os', f[i]) = "Directory"
        <4>1. i \in 1..call.n \/ i = call.n + 1
          BY <1>2, <2>0
        <4>2. f[i] = p \/ Kind(os, f[i]) = "Directory"
          <5>1. CASE i = call.n + 1
            BY <2>0, <5>1 DEF p
          <5>2. CASE i \in 1..call.n
            BY <1>2, <3>4, <5>2
          <5> QED
            BY <4>1, <5>1, <5>2
        <4> QED
          BY <1>1, <3>2, <3>3, <4>2, MakeLeavesKinds
      <3>5. Relative(call') = Relative(call)
        BY <3>3 DEF Relative
      <3>6. Relative(call') => \A i \in 1..call'.n : Kind(os', f[i]) = "Directory"
        BY <3>3, <3>4, <3>5
      <3> QED
        BY <2>1, <3>3, <3>6 DEF MadeStage
    <2> QED
      BY <2>5, <2>6
  <1> QED
    BY <1>3, <1>4 DEF Makedirs, At

-----------------------------------------------------------------------------
(* A device.                                                                *)

\* What a device says of the file when it is done, in its parts.
Rightly(c, now, desc, kind, last, there) ==
  /\ Within(c.before, now, c.n, last)
  /\ c.fn = "deviceRead" =>
       (c.ret = 1 <=> last <= Len(now) /\ ~(c.fault \/ c.n >= OffsetRange) /\ desc.read /\ kind # "Directory")
  /\ c.fn = "deviceRead" /\ c.ret = 1 => c.got = there
  /\ c.fn = "deviceWrite" /\ c.ret = 1 => there = c.data
  /\ c.fn = "deviceErase" /\ c.ret = 1 => there = [i \in 1..Len(c.data) |-> Erased]
  /\ c.ret = 0 /\ c.fn # "deviceRead" => (c.fault \/ c.n >= OffsetRange) \/ ~desc.write \/ last > MaxBlocks

DeviceDone(s, c) ==
  Rightly(c, ContentOf(s, c.h), s.fds[c.h], s.nodes[s.fds[c.h].node].kind, c.n + Len(c.data),
          Part(ContentOf(s, c.h), c.n + 1, c.n + Len(c.data)))

\* It is asked for some blocks of a file that is open.
OnDevice(s, c) ==
  /\ c.fn \in DeviceCalls /\ c.at \in {"begin", "erase", "return"}
  /\ Opened(s, c.h) /\ c.n \in Nat /\ c.data # <<>> /\ c.before \in Seq(Blocks)

\* Before the cursor, which is where it should be, the range is erased.
ErasedTo(now, n, pos) == pos >= n /\ (pos = n \/ pos <= Len(now)) /\ \A i \in n + 1..pos : now[i] = Erased

Erasing(s, c) ==
  /\ Len(c.got) <= Len(c.data)
  /\ s.fds[c.h].pos = c.n + (Len(c.data) - Len(c.got))
  /\ Outside(c.before, ContentOf(s, c.h), c.n, c.n + Len(c.data))
  /\ ErasedTo(ContentOf(s, c.h), c.n, s.fds[c.h].pos)

DeviceStage(s, c) ==
  /\ OnDevice(s, c)
  /\ ~s.fds[c.h].append =>
       /\ c.at = "begin" => ~c.fault /\ c.before = ContentOf(s, c.h)
       /\ c.at = "erase" => Erasing(s, c)
       /\ c.at = "return" => DeviceDone(s, c)

\* It goes on with that file.
LEMMA StaysOnDevice ==
  ASSUME OnDevice(os, call), NEW o, NEW at \in {"begin", "erase", "return"}, Took(o, at),
         call'.n = call.n, SameUse(os, o.os, call.h)
  PROVE  /\ OnDevice(os', call') /\ os' = o.os /\ os'.fds[call'.h].append = os.fds[call.h].append
         /\ call'.h = call.h /\ call'.at = at
  BY DEF OnDevice, Took, Asked, SameUse

\* Reading says whether all of the range was there.
LEMMA ReadRightly ==
  ASSUME NEW c, c.fn = "deviceRead", NEW now \in Seq(Blocks), NEW desc, NEW kind, NEW n \in Nat, c.n = n,
         NEW len \in Nat \ {0}, NEW last, last = n + len, NEW there, there = Part(now, n + 1, last),
         Outside(c.before, now, n, last),
         \/ c.ret = 0 /\ (n >= OffsetRange \/ c.fault \/ ~desc.read \/ kind = "Directory")
         \/ /\ ~c.fault /\ ~(n >= OffsetRange) /\ desc.read /\ kind # "Directory" /\ c.got = there
            /\ c.ret = IF Len(there) = len THEN 1 ELSE 0
  PROVE  Rightly(c, now, desc, kind, last, there)
  <1>1. Len(now) \in Nat /\ last \in Nat /\ n + 1 \in Nat \ {0}
    OBVIOUS
  <1>2. Len(there) = LET m == IF last <= Len(now) THEN last ELSE Len(now)
                     IN  IF n + 1 <= m THEN m - (n + 1) + 1 ELSE 0
    BY <1>1, PartIs
  <1>3. Len(there) = len <=> last <= Len(now)
    BY <1>1, <1>2
  <1>4. Within(c.before, now, c.n, last)
    BY DEF Outside
  <1>5. CASE c.ret = 0 /\ (n >= OffsetRange \/ c.fault \/ ~desc.read \/ kind = "Directory")
    BY <1>4, <1>5 DEF Rightly
  <1>6. CASE /\ ~c.fault /\ ~(n >= OffsetRange) /\ desc.read /\ kind # "Directory" /\ c.got = there
             /\ c.ret = IF Len(there) = len THEN 1 ELSE 0
    <2>1. c.ret = 1 <=> last <= Len(now)
      BY <1>3, <1>6
    <2> QED
      BY <1>4, <1>6, <2>1 DEF Rightly
  <1> QED
    BY <1>5, <1>6

\* Writing and erasing, whether it was changed.
DidChange(c, there) ==
  /\ c.fn = "deviceWrite" => there = c.data
  /\ c.fn = "deviceErase" => there = [i \in 1..Len(c.data) |-> Erased]

\* A device that fails for a reason it has, or has changed the range, did as it was asked.
LEMMA ChangedRightly ==
  ASSUME NEW c, c.fn \in {"deviceWrite", "deviceErase"}, NEW now, NEW desc, NEW kind, NEW n, c.n = n,
         NEW last, NEW there, Outside(c.before, now, n, last),
         \/ c.ret = 0 /\ (n >= OffsetRange \/ c.fault \/ ~desc.write \/ last > MaxBlocks)
         \/ c.ret = 1 /\ DidChange(c, there)
  PROVE  Rightly(c, now, desc, kind, last, there)
  <1>1. Within(c.before, now, c.n, last)
    BY DEF Outside
  <1>2. CASE c.ret = 0 /\ (n >= OffsetRange \/ c.fault \/ ~desc.write \/ last > MaxBlocks)
    BY <1>1, <1>2 DEF Rightly
  <1>3. CASE c.ret = 1 /\ DidChange(c, there)
    BY <1>1, <1>3 DEF Rightly, DidChange
  <1> QED
    BY <1>2, <1>3

\* A device first goes to where it is asked.
LEMMA DeviceSeeks ==
  ASSUME Sound(os), OnDevice(os, call), mounted, NEW at \in HostSeek(os, call.h, call.n, "Start")
  PROVE  /\ Sound(at.os) /\ SameUse(os, at.os, call.h) /\ at.os.fds[call.h].pos = call.n
         /\ ContentOf(at.os, call.h) = ContentOf(os, call.h)
         /\ IF at.ret = call.n THEN ~(call.n >= OffsetRange) ELSE call.n >= OffsetRange
  <1>1. call.n \in Nat /\ Opened(os, call.h)
    BY DEF OnDevice
  <1>2. PICK n : n = call.n
    OBVIOUS
  <1>3. PICK h : h = call.h
    OBVIOUS
  <1>4. n \in Nat /\ n \in Int /\ Opened(os, h) /\ at \in HostSeek(os, h, n, "Start")
    BY <1>1, <1>2, <1>3
  <1>5. /\ at.ret \in Int /\ Sound(at.os)
        /\ at.ret >= 0 => at.ret = n
        /\ at.ret < 0 => n >= OffsetRange
        /\ Turned(os, at.os, h, n)
    <2>1. \A m \in Int : \A o \in HostSeek(os, h, m, "Start") :
            /\ o.ret \in Int /\ Sound(o.os) /\ Leaves(os, o.os, {h})
            /\ o.ret >= 0 => mounted /\ Opened(os, h) /\ o.ret = m
            /\ o.ret < 0 => ~mounted \/ ~Opened(os, h) \/ m < 0 \/ m >= OffsetRange
            /\ mounted /\ Opened(os, h) /\ m >= 0 => Turned(os, o.os, h, m)
      BY HostSeekForms
    <2>2. n >= 0 /\ ~(n < 0)
      BY <1>4
    <2>3. /\ at.ret \in Int /\ Sound(at.os)
          /\ at.ret >= 0 => at.ret = n
          /\ at.ret < 0 => n < 0 \/ n >= OffsetRange
          /\ n >= 0 => Turned(os, at.os, h, n)
      BY <1>4, <2>1, Zenon
    <2> QED
      BY <2>2, <2>3
  <1>6. SameUse(os, at.os, h) /\ at.os.fds[h].pos = n /\ ContentOf(at.os, h) = ContentOf(os, h)
    BY <1>5, TurnedUse
  <1>7. at.ret = n => n < OffsetRange
    BY <1>4, SeekInRange
  <1>8. OffsetRange \in Nat
    BY OffsetAssumption
  <1> QED
    BY <1>2, <1>3, <1>4, <1>5, <1>6, <1>7, <1>8

\* A device that could not go there has changed nothing.
LEMMA NotThere ==
  ASSUME Typed, DeviceStage(os, call), mounted, call.at = "begin",
         NEW at \in HostSeek(os, call.h, call.n, "Start"), at.ret # call.n, Return(at, 0)
  PROVE  DeviceStage(os', call')
  <1>1. Sound(os) /\ IsCall(call) /\ OnDevice(os, call) /\ call.data \in Seq(Blocks)
    BY DEF Typed, CallData, DeviceStage, OnDevice, DeviceCalls
  <1>2. /\ SameUse(os, at.os, call.h) /\ ContentOf(at.os, call.h) = ContentOf(os, call.h)
        /\ call.n >= OffsetRange
    BY <1>1, DeviceSeeks
  <1>3. Took(at, "return") /\ call'.n = call.n /\ call'.ret = 0
    BY <1>1, TakenSet DEF SameParts
  <1>4. /\ OnDevice(os', call') /\ os' = at.os /\ os'.fds[call'.h].append = os.fds[call.h].append
        /\ call'.h = call.h /\ call'.at = "return"
    BY <1>1, <1>2, <1>3, StaysOnDevice
  <1>5. ASSUME ~os.fds[call.h].append PROVE DeviceDone(os', call')
    <2> DEFINE h == call'.h
               now == ContentOf(os', h)
               desc == os'.fds[h]
               kind == os'.nodes[os'.fds[h].node].kind
               n == call'.n
               last == n + Len(call'.data)
               there == Part(now, n + 1, last)
    <2>1. DeviceDone(os', call') <=> Rightly(call', now, desc, kind, last, there)
      BY DEF DeviceDone
    <2>2. call'.before = call.before /\ call.before = ContentOf(os, call.h) /\ call'.data = call.data
          /\ call'.fn = call.fn
      BY <1>3, <1>4, <1>5 DEF DeviceStage, Took, Asked
    <2>3. now = call'.before
      BY <1>2, <1>4, <2>2
    <2>4. n \in Nat /\ Len(call'.data) \in Nat /\ call'.before \in Seq(Blocks) /\ call'.fn \in DeviceCalls
          /\ n >= OffsetRange
      BY <1>1, <1>2, <1>3, <1>4, <2>2 DEF OnDevice
    <2>5. call'.data # <<>> /\ call'.data \in Seq(Blocks)
      BY <1>1, <2>2 DEF OnDevice
    <2>6. last \in Nat /\ Len(call'.data) \in Nat \ {0} /\ last = n + Len(call'.data) /\ n = call'.n
      BY <2>4, <2>5
    <2>7. there = Part(now, n + 1, last)
      OBVIOUS
    <2> HIDE DEF desc, kind, n, last, there, now
    <2>8. Outside(call'.before, now, n, last) /\ now \in Seq(Blocks)
      BY <2>3, <2>4, <2>6, OutsideSame
    <2>9. CASE call'.fn = "deviceRead"
      <3>1. PICK len : len = Len(call'.data)
        OBVIOUS
      <3>2. Rightly(call', now, desc, kind, last, there)
        BY <1>3, <2>4, <2>6, <2>7, <2>8, <2>9, <3>1, ReadRightly
      <3> QED
        BY <2>1, <3>2
    <2>10. CASE call'.fn \in {"deviceWrite", "deviceErase"}
      <3>1. Rightly(call', now, desc, kind, last, there)
        BY <1>3, <2>4, <2>6, <2>8, <2>10, ChangedRightly
      <3> QED
        BY <2>1, <3>1
    <2> QED
      BY <2>4, <2>9, <2>10 DEF DeviceCalls
  <1> QED
    BY <1>4, <1>5 DEF DeviceStage

\* Reading, in two calls of the host.
LEMMA DeviceReadGoes ==
  ASSUME Typed, DeviceStage(os, call), mounted, DeviceRead
  PROVE  DeviceStage(os', call')
  <1>1. Sound(os) /\ IsCall(call) /\ OnDevice(os, call) /\ call.fn = "deviceRead" /\ call.at = "begin"
        /\ call.data \in Seq(Blocks)
    BY DEF Typed, CallData, DeviceStage, DeviceRead, At
  <1>2. PICK at \in HostSeek(os, call.h, call.n, "Start") :
          IF at.ret # call.n THEN Return(at, 0)
          ELSE \E o \in HostRead(at.os, call.h, Len(call.data)) :
                 Take(o, "return", [call EXCEPT !.got = o.data, !.ret = IF o.ret = Len(call.data) THEN 1 ELSE 0])
    BY DEF DeviceRead
  <1>3. CASE at.ret # call.n
    <2>1. Return(at, 0)
      BY <1>2, <1>3
    <2> QED
      BY <1>1, <1>3, <2>1, NotThere
  <1>4. CASE at.ret = call.n
    <2>1. PICK o \in HostRead(at.os, call.h, Len(call.data)) :
            Take(o, "return", [call EXCEPT !.got = o.data, !.ret = IF o.ret = Len(call.data) THEN 1 ELSE 0])
      BY <1>2, <1>4
    <2>2. /\ Sound(at.os) /\ SameUse(os, at.os, call.h) /\ at.os.fds[call.h].pos = call.n
          /\ ContentOf(at.os, call.h) = ContentOf(os, call.h) /\ ~(call.n >= OffsetRange)
      BY <1>1, <1>4, DeviceSeeks
    <2>3. PICK size : size = Len(call.data)
      OBVIOUS
    <2>4. PICK s : s = at.os
      OBVIOUS
    <2>5. PICK ret : ret = IF o.ret = size THEN 1 ELSE 0
      OBVIOUS
    <2>6. size \in Nat \ {0} /\ size \in Int
      BY <1>1, <2>3 DEF OnDevice
    <2>7. Took(o, "return") /\ call'.got = o.data /\ call'.ret = ret /\ call'.n = call.n
      <3>1. Take(o, "return", [call EXCEPT !.got = o.data, !.ret = ret])
        BY <2>1, <2>3, <2>5
      <3>2. TakesGot(o, "return", o.data, ret)
        BY <3>1 DEF TakesGot
      <3>3. PICK data : data = o.data
        OBVIOUS
      <3>4. TakesGot(o, "return", data, ret)
        BY <3>2, <3>3
      <3>5. Took(o, "return") /\ call'.got = data /\ call'.ret = ret /\ call'.n = call.n
        BY <1>1, <3>4, TakenGot, Zenon
      <3> QED
        BY <3>3, <3>5
    <2>8. Sound(s) /\ SameUse(os, s, call.h) /\ Opened(s, call.h) /\ o \in HostRead(s, call.h, size)
      BY <2>1, <2>2, <2>3, <2>4 DEF SameUse
    <2>9. \/ o.os = s /\ o.ret < 0 /\ (o.fault \/ ~s.fds[call.h].read \/ s.nodes[s.fds[call.h].node].kind = "Directory")
          \/ /\ o.ret >= 0 /\ ReadsOn(s, o, call.h, size) /\ ~o.fault /\ s.fds[call.h].read
             /\ s.nodes[s.fds[call.h].node].kind # "Directory"
      <3>1. PICK h : h = call.h
        OBVIOUS
      <3>2. Opened(s, h) /\ o \in HostRead(s, h, size)
        BY <2>8, <3>1
      <3>3. (Fails(s, o) /\ o.data = <<>>) \/ (o.ret >= 0 /\ mounted /\ ReadsOn(s, o, h, size))
        BY <2>6, <2>8, <3>2, HostReadDoes
      <3>4. /\ o.ret >= 0 => ~o.fault /\ s.fds[h].read /\ s.nodes[s.fds[h].node].kind # "Directory"
            /\ o.ret < 0 => o.fault \/ ~s.fds[h].read \/ s.nodes[s.fds[h].node].kind = "Directory"
        BY <2>6, <2>8, <3>2, HostReadTells
      <3> QED
        BY <3>1, <3>3, <3>4 DEF Fails
    <2>10. SameUse(s, o.os, call.h) /\ ContentOf(o.os, call.h) = ContentOf(s, call.h)
      <3>1. CASE o.os = s
        BY <2>8, <3>1 DEF SameUse
      <3>2. CASE ReadsOn(s, o, call.h, size)
        <4>1. PICK pos : Turned(s, o.os, call.h, pos)
          BY <3>2 DEF ReadsOn
        <4> QED
          BY <2>8, <4>1, TurnedUse
      <3> QED
        BY <2>9, <3>1, <3>2
    <2>11. SameUse(os, o.os, call.h)
      BY <2>8, <2>10, SameUseOn
    <2>12. /\ OnDevice(os', call') /\ os' = o.os /\ os'.fds[call'.h].append = os.fds[call.h].append
           /\ call'.h = call.h /\ call'.at = "return"
      BY <1>1, <2>7, <2>11, StaysOnDevice
    <2>13. ASSUME ~os.fds[call.h].append PROVE DeviceDone(os', call')
      <3> DEFINE h == call'.h
                 now == ContentOf(os', h)
                 desc == os'.fds[h]
                 kind == os'.nodes[os'.fds[h].node].kind
                 n == call'.n
                 last == n + Len(call'.data)
                 there == Part(now, n + 1, last)
      <3>1. DeviceDone(os', call') <=> Rightly(call', now, desc, kind, last, there)
        BY DEF DeviceDone
      <3>2. /\ call'.before = call.before /\ call.before = ContentOf(os, call.h) /\ call'.data = call.data
            /\ call'.fn = "deviceRead" /\ ~call.fault
        BY <1>1, <2>7, <2>13 DEF DeviceStage, Took, Asked
      <3>3. call'.fault <=> o.fault
        BY <2>7, <3>2 DEF Took
      <3>4. now = call'.before
        BY <2>2, <2>4, <2>10, <2>12, <3>2
      <3>5. /\ n \in Nat /\ call'.before \in Seq(Blocks) /\ last = n + size /\ n = call'.n
            /\ there = Part(now, n + 1, last) /\ ~(n >= OffsetRange)
        BY <1>1, <2>2, <2>3, <2>7, <3>2 DEF OnDevice
      <3>6. desc.read = s.fds[call.h].read /\ kind = s.nodes[s.fds[call.h].node].kind
        BY <2>10, <2>12 DEF SameUse
      <3>7. ReadsOn(s, o, call.h, size) => o.data = there /\ o.ret = Len(there)
        <4>1. s.fds[call.h].pos = n /\ ContentOf(s, call.h) = now
          BY <2>2, <2>4, <2>7, <2>10, <2>12
        <4>2. n + 1 = s.fds[call.h].pos + 1 /\ last = s.fds[call.h].pos + size
          BY <3>5, <4>1
        <4> HIDE DEF n, last, now
        <4> QED
          BY <3>5, <4>1, <4>2 DEF ReadsOn
      <3>8. last \in Nat
        BY <2>6, <3>5
      <3> HIDE DEF desc, kind, n, last, there, now
      <3>9. Outside(call'.before, now, n, last) /\ now \in Seq(Blocks)
        BY <3>4, <3>5, <3>8, OutsideSame
      <3>10. \/ call'.ret = 0 /\ (n >= OffsetRange \/ call'.fault \/ ~desc.read \/ kind = "Directory")
             \/ /\ ~call'.fault /\ ~(n >= OffsetRange) /\ desc.read /\ kind # "Directory" /\ call'.got = there
                /\ call'.ret = IF Len(there) = size THEN 1 ELSE 0
        <4>1. CASE o.os = s /\ o.ret < 0 /\ (o.fault \/ ~s.fds[call.h].read \/ s.nodes[s.fds[call.h].node].kind = "Directory")
          <5>1. ret = 0
            BY <2>5, <2>6, <4>1
          <5> QED
            BY <2>7, <3>3, <3>6, <4>1, <5>1
        <4>2. CASE /\ o.ret >= 0 /\ ReadsOn(s, o, call.h, size) /\ ~o.fault /\ s.fds[call.h].read
                   /\ s.nodes[s.fds[call.h].node].kind # "Directory"
          BY <2>5, <2>7, <3>3, <3>5, <3>6, <3>7, <4>2
        <4> QED
          BY <2>9, <4>1, <4>2
      <3>11. Rightly(call', now, desc, kind, last, there)
        BY <2>6, <3>2, <3>5, <3>9, <3>10, ReadRightly
      <3> QED
        BY <3>1, <3>11
    <2> QED
      BY <2>12, <2>13 DEF DeviceStage
  <1> QED
    BY <1>3, <1>4

\* What a device writes is some of what it was given, from where the cursor is.
WroteSome(s, t, h, data, ret, pos, now) ==
  \E some : /\ some = SubSeq(data, 1, ret) /\ some \in Seq(Blocks) /\ Len(some) = ret
            /\ t.fds[h].pos = pos + ret /\ ContentOf(t, h) = Overwrite(now, pos, some)

\* One write() does that, or it fails and does nothing.
WritesHere(s, h, data, len, pos, now, o) ==
  /\ SameUse(s, o.os, h) /\ o.ret \in Int
  /\ o.ret = len \/ o.fault \/ ~s.fds[h].write \/ s.fds[h].append \/ pos + len > MaxBlocks
  /\ \/ o.os = s /\ o.ret # len
     \/ o.ret \in 1..len /\ (~s.fds[h].append => WroteSome(s, o.os, h, data, o.ret, pos, now))

\* So does write() on the descriptor of a device, wherever the host stops.
LEMMA DeviceWrites ==
  ASSUME NEW s, Sound(s), NEW h, Opened(s, h), NEW data \in Seq(Blocks), NEW len, len = Len(data), len > 0,
         NEW pos, pos = s.fds[h].pos, NEW now, now = ContentOf(s, h), NEW o \in HostWrite(s, h, data), mounted
  PROVE  WritesHere(s, h, data, len, pos, now, o)
  <1>1. Writes(s, h, data, o)
    BY HostWrites
  <1>2. len \in Nat \ {0}
    OBVIOUS
  <1>3. o.ret \in Int /\ (o.ret # len => \/ o.fault \/ ~s.fds[h].write
                                         \/ WritesAt(s, h) + len > MaxBlocks)
    BY <1>1 DEF Writes
  <1>4. o.ret = len \/ o.fault \/ ~s.fds[h].write \/ s.fds[h].append \/ pos + len > MaxBlocks
    BY <1>3 DEF WritesAt
  <1>5. \/ o.os = s /\ o.ret # len
        \/ o.ret \in 1..len /\ Wrote(s, o.os, h, WritesAt(s, h), SubSeq(data, 1, o.ret))
    BY <1>1, <1>2 DEF Writes
  <1>6. CASE o.os = s /\ o.ret # len
    BY <1>3, <1>4, <1>6 DEF SameUse, WritesHere
  <1>7. CASE o.ret \in 1..len /\ Wrote(s, o.os, h, WritesAt(s, h), SubSeq(data, 1, o.ret))
    <2>1. PICK at : at = WritesAt(s, h)
      OBVIOUS
    <2>2. PICK some : some = SubSeq(data, 1, o.ret)
      OBVIOUS
    <2>3. Wrote(s, o.os, h, at, some)
      BY <1>7, <2>1, <2>2
    <2>4. /\ SameUse(s, o.os, h) /\ o.os.fds[h].pos = at + Len(some)
          /\ ContentOf(o.os, h) = Overwrite(ContentOf(s, h), at, some)
      BY <2>3, WroteUse
    <2>5. some \in Seq(Blocks) /\ Len(some) = o.ret
      <3>1. PICK ret : ret = o.ret
        OBVIOUS
      <3>2. ret \in 1..Len(data)
        BY <1>7, <3>1
      <3>3. \A i \in 1..ret : data[i] \in Blocks
        BY <3>2
      <3> QED
        BY <2>2, <3>1, <3>2, <3>3
    <2>6. ~s.fds[h].append => at = pos
      BY <2>1 DEF WritesAt
    <2>7. ~s.fds[h].append => WroteSome(s, o.os, h, data, o.ret, pos, now)
      BY <2>2, <2>4, <2>5, <2>6 DEF WroteSome
    <2> QED
      BY <1>3, <1>4, <1>7, <2>4, <2>7 DEF WritesHere
  <1> QED
    BY <1>5, <1>6, <1>7

\* Writing, in two calls of the host.
LEMMA DeviceWriteGoes ==
  ASSUME Typed, DeviceStage(os, call), mounted, DeviceWrite
  PROVE  DeviceStage(os', call')
  <1>1. Sound(os) /\ IsCall(call) /\ OnDevice(os, call) /\ call.fn = "deviceWrite" /\ call.at = "begin"
        /\ call.data \in Seq(Blocks)
    BY DEF Typed, CallData, DeviceStage, DeviceWrite, At
  <1>2. PICK at \in HostSeek(os, call.h, call.n, "Start") :
          IF at.ret # call.n THEN Return(at, 0)
          ELSE \E o \in HostWrite(at.os, call.h, call.data) : Return(o, IF o.ret = Len(call.data) THEN 1 ELSE 0)
    BY DEF DeviceWrite
  <1>3. CASE at.ret # call.n
    <2>1. Return(at, 0)
      BY <1>2, <1>3
    <2> QED
      BY <1>1, <1>3, <2>1, NotThere
  <1>4. CASE at.ret = call.n
    <2>1. PICK o \in HostWrite(at.os, call.h, call.data) : Return(o, IF o.ret = Len(call.data) THEN 1 ELSE 0)
      BY <1>2, <1>4
    <2>2. /\ Sound(at.os) /\ SameUse(os, at.os, call.h) /\ at.os.fds[call.h].pos = call.n
          /\ ContentOf(at.os, call.h) = ContentOf(os, call.h)
      BY <1>1, <1>4, DeviceSeeks
    <2>3. PICK len : len = Len(call.data)
      OBVIOUS
    <2>4. PICK s : s = at.os
      OBVIOUS
    <2>5. PICK ret : ret = IF o.ret = len THEN 1 ELSE 0
      OBVIOUS
    <2>6. len \in Nat \ {0} /\ call.n \in Nat
      BY <1>1, <2>3 DEF OnDevice
    <2>7. Took(o, "return") /\ call'.ret = ret /\ call'.n = call.n
      <3>1. Return(o, ret)
        BY <2>1, <2>3, <2>5
      <3> QED
        BY <1>1, <3>1, TakenSet DEF SameParts
    <2>8. Sound(s) /\ SameUse(os, s, call.h) /\ Opened(s, call.h) /\ o \in HostWrite(s, call.h, call.data)
      BY <2>1, <2>2, <2>4 DEF SameUse
    <2>9. PICK pos, before : pos = call.n /\ before = ContentOf(s, call.h)
      OBVIOUS
    <2>10. WritesHere(s, call.h, call.data, len, pos, before, o)
      <3>1. PICK h, data : h = call.h /\ data = call.data
        OBVIOUS
      <3>2. Opened(s, h) /\ data \in Seq(Blocks) /\ len = Len(data) /\ len > 0 /\ o \in HostWrite(s, h, data)
            /\ pos = s.fds[h].pos /\ before = ContentOf(s, h)
        BY <1>1, <2>2, <2>3, <2>4, <2>6, <2>8, <2>9, <3>1
      <3> QED
        BY <2>8, <3>1, <3>2, DeviceWrites
    <2>11. SameUse(os, o.os, call.h)
      <3>1. SameUse(s, o.os, call.h)
        BY <2>10 DEF WritesHere
      <3> QED
        BY <2>8, <3>1, SameUseOn
    <2>12. /\ OnDevice(os', call') /\ os' = o.os /\ os'.fds[call'.h].append = os.fds[call.h].append
           /\ call'.h = call.h /\ call'.at = "return"
      BY <1>1, <2>7, <2>11, StaysOnDevice
    <2>13. ASSUME ~os.fds[call.h].append PROVE DeviceDone(os', call')
      <3> DEFINE h == call'.h
                 now == ContentOf(os', h)
                 desc == os'.fds[h]
                 kind == os'.nodes[os'.fds[h].node].kind
                 n == call'.n
                 last == n + Len(call'.data)
                 there == Part(now, n + 1, last)
      <3>1. DeviceDone(os', call') <=> Rightly(call', now, desc, kind, last, there)
        BY DEF DeviceDone
      <3>2. /\ call'.before = call.before /\ call.before = ContentOf(os, call.h) /\ call'.data = call.data
            /\ call'.fn = "deviceWrite" /\ ~call.fault
        BY <1>1, <2>7, <2>13 DEF DeviceStage, Took, Asked
      <3>3. call'.fault <=> o.fault
        BY <2>7, <3>2 DEF Took
      <3>4. before = call'.before /\ before \in Seq(Blocks)
        BY <1>1, <2>2, <2>4, <2>9, <3>2 DEF OnDevice
      <3>5. n = pos /\ last = pos + len /\ n = call'.n /\ there = Part(now, n + 1, last) /\ now = ContentOf(o.os, call.h)
        BY <2>3, <2>7, <2>9, <2>12, <3>2
      <3>6. (desc.write <=> s.fds[call.h].write) /\ ~s.fds[call.h].append
        BY <2>8, <2>10, <2>12, <2>13 DEF SameUse, WritesHere
      <3>7. pos \in Nat /\ last \in Nat
        BY <2>6, <2>9, <3>5
      <3> HIDE DEF desc, kind, n, last, there, now
      <3>8. Outside(before, before, n, last)
        BY <3>4, <3>5, <3>7, OutsideSame
      <3>9. CASE o.os = s /\ o.ret # len
        <4>1. now = before
          BY <2>9, <3>5, <3>9
        <4>2. call'.ret = 0 /\ (call'.fault \/ ~desc.write \/ last > MaxBlocks)
          BY <2>5, <2>7, <2>10, <3>3, <3>5, <3>6, <3>9 DEF WritesHere
        <4>3. Outside(call'.before, now, n, last)
          BY <3>4, <3>8, <4>1
        <4>4. Rightly(call', now, desc, kind, last, there)
          BY <3>2, <3>5, <4>2, <4>3, ChangedRightly
        <4> QED
          BY <3>1, <4>4
      <3>10. ASSUME o.ret \in 1..len,
                    NEW some, some = SubSeq(call.data, 1, o.ret), some \in Seq(Blocks), Len(some) = o.ret,
                    ContentOf(o.os, call.h) = Overwrite(before, pos, some)
             PROVE  DeviceDone(os', call')
        <4>1. now = Overwrite(before, pos, some)
          BY <3>5, <3>10
        <4>2. n <= pos /\ pos + Len(some) <= last /\ n \in Nat
          BY <2>6, <3>5, <3>7, <3>10
        <4>3. Outside(before, now, n, last)
          BY <3>4, <3>7, <3>8, <4>1, <4>2, <3>10, OutsideKept
        <4>4. CASE o.ret = len
          <5>1. some = call.data
            BY <1>1, <2>3, <3>10, <4>4
          <5>2. Part(now, pos + 1, pos + Len(some)) = some
            <6>1. some \in Seq(Blocks) /\ before \in Seq(Blocks) /\ pos \in Nat /\ now = Overwrite(before, pos, some)
              BY <3>4, <3>7, <3>10, <4>1
            <6> QED
              BY <6>1, WrittenThere
          <5>3. there = call'.data
            BY <3>2, <3>5, <3>10, <4>4, <5>1, <5>2
          <5>4. call'.ret = 1
            BY <2>5, <2>7, <4>4
          <5>5. Rightly(call', now, desc, kind, last, there)
            <6>1. Outside(call'.before, now, n, last)
              BY <3>4, <4>3
            <6>2. DidChange(call', there)
              BY <3>2, <5>3 DEF DidChange
            <6> QED
              BY <3>2, <3>5, <5>4, <6>1, <6>2, ChangedRightly
          <5> QED
            BY <3>1, <5>5
        <4>5. CASE o.ret # len
          <5>1. call'.ret = 0 /\ (call'.fault \/ ~desc.write \/ last > MaxBlocks)
            BY <2>5, <2>7, <2>10, <3>3, <3>5, <3>6, <4>5 DEF WritesHere
          <5>2. Rightly(call', now, desc, kind, last, there)
            BY <3>2, <3>4, <3>5, <4>3, <5>1, ChangedRightly
          <5> QED
            BY <3>1, <5>2
        <4> QED
          BY <4>4, <4>5
      <3> QED
        BY <2>10, <3>6, <3>9, <3>10 DEF WritesHere, WroteSome
    <2> QED
      BY <2>12, <2>13 DEF DeviceStage
  <1> QED
    BY <1>3, <1>4

\* What was erased stays so when the next blocks are.
LEMMA ErasesOn ==
  ASSUME NEW now \in Seq(Blocks), NEW n \in Nat, NEW pos \in Nat, ErasedTo(now, n, pos),
         NEW some \in Seq(Blocks), NEW m \in Nat \ {0}, Len(some) = m, \A i \in 1..m : some[i] = Erased,
         NEW then, then = Overwrite(now, pos, some), NEW to, to = pos + m
  PROVE  ErasedTo(then, n, to)
  <1>1. /\ then \in Seq(Blocks)
        /\ Len(then) = IF Len(now) >= pos + m THEN Len(now) ELSE pos + m
    BY OverwriteIs
  <1>2. to \in Nat /\ to <= Len(then) /\ Len(then) \in Nat /\ Len(now) \in Nat
    BY <1>1
  <1>3. pos >= n /\ (pos = n \/ pos <= Len(now))
    BY DEF ErasedTo
  <1>4. ASSUME NEW i \in n + 1..to PROVE then[i] = Erased
    <2>1. i \in 1..Len(then)
      BY <1>2
    <2>2. then[i] = IF i > pos /\ i <= pos + m THEN some[i - pos]
                    ELSE IF i <= Len(now) THEN now[i] ELSE Zero
      BY <2>1, OverwriteHas
    <2>3. CASE i > pos
      <3>1. i - pos \in 1..m /\ i <= pos + m
        BY <1>2, <2>3
      <3> QED
        BY <2>2, <2>3, <3>1
    <2>4. CASE i <= pos
      <3>1. i \in n + 1..pos /\ i <= Len(now) /\ ~(i > pos)
        BY <1>2, <1>3, <2>4
      <3>2. now[i] = Erased
        BY <3>1 DEF ErasedTo
      <3> QED
        BY <2>2, <3>1, <3>2
    <2> QED
      BY <1>2, <2>3, <2>4
  <1>5. to >= n
    BY <1>2, <1>3
  <1> QED
    BY <1>2, <1>4, <1>5 DEF ErasedTo

\* All of the range was erased.
LEMMA ErasedAll ==
  ASSUME NEW now \in Seq(Blocks), NEW n \in Nat, NEW len \in Nat \ {0}, NEW last, last = n + len,
         ErasedTo(now, n, last), NEW there, there = Part(now, n + 1, last)
  PROVE  there = [i \in 1..len |-> Erased]
  <1>1. last \in Nat /\ last <= Len(now) /\ Len(now) \in Nat /\ n + 1 \in Nat \ {0}
    BY DEF ErasedTo
  <1>2. /\ there = SubSeq(now, n + 1, last)
        /\ there \in Seq(Blocks) /\ Len(there) = last - (n + 1) + 1
    BY <1>1, PartIs
  <1>3. Len(there) = len
    BY <1>1, <1>2
  <1>4. ASSUME NEW i \in 1..len PROVE there[i] = Erased
    <2>1. there[i] = now[n + i]
      BY <1>1, <1>2
    <2>2. n + i \in n + 1..last
      BY <1>1
    <2> QED
      BY <2>1, <2>2 DEF ErasedTo
  <1>5. there = [i \in 1..len |-> there[i]]
    <2>1. there \in Seq(Blocks)
      BY <1>2
    <2>2. there \in [1..Len(there) -> Blocks]
      BY <2>1
    <2> QED
      BY <1>3, <2>2
  <1> QED
    BY <1>4, <1>5

\* A buffer of erased blocks is no longer than what is left.
LEMMA BufferIs ==
  ASSUME NEW left \in Nat \ {0}, NEW some, some = [i \in 1..EraseLength(left) |-> Erased]
  PROVE  \E m \in 1..left : m = EraseLength(left) /\ some \in Seq(Blocks) /\ Len(some) = m
                            /\ \A i \in 1..m : some[i] = Erased
  <1>1. BufSize \in Nat \ {0} /\ Erased \in Blocks
    BY WrappersAssumption
  <1>2. Min({left, BufSize}) = IF left <= BufSize THEN left ELSE BufSize
    BY <1>1, LeastOfTwo
  <1>3. EraseLength(left) \in 1..left
    BY <1>1, <1>2 DEF EraseLength
  <1>4. PICK m : m = EraseLength(left)
    OBVIOUS
  <1>5. some = [i \in 1..m |-> Erased] /\ m \in Nat
    BY <1>3, <1>4
  <1>6. some \in Seq(Blocks) /\ Len(some) = m /\ \A i \in 1..m : some[i] = Erased
    <2>1. [i \in 1..m |-> Erased] \in Seq(Blocks) /\ Len([i \in 1..m |-> Erased]) = m
      BY <1>1, <1>5
    <2>2. \A i \in 1..m : some[i] = Erased
      BY <1>5
    <2> QED
      BY <1>5, <2>1, <2>2
  <1> QED
    BY <1>3, <1>4, <1>6

\* Erasing goes to the start of the range.
LEMMA EraseStarts ==
  ASSUME Typed, DeviceStage(os, call), mounted, At("deviceErase", "begin"),
         NEW at \in HostSeek(os, call.h, call.n, "Start"), at.ret = call.n,
         Take(at, "erase", [call EXCEPT !.got = call.data])
  PROVE  DeviceStage(os', call')
  <1>1. Sound(os) /\ IsCall(call) /\ OnDevice(os, call) /\ call.fn = "deviceErase" /\ call.at = "begin"
        /\ call.data \in Seq(Blocks)
    BY DEF Typed, CallData, DeviceStage, At
  <1>2. /\ SameUse(os, at.os, call.h) /\ at.os.fds[call.h].pos = call.n
        /\ ContentOf(at.os, call.h) = ContentOf(os, call.h)
    BY <1>1, DeviceSeeks
  <1>3. Took(at, "erase") /\ call'.got = call.data /\ call'.n = call.n
    <2>1. PICK data : data = call.data
      OBVIOUS
    <2>2. Take(at, "erase", [call EXCEPT !.got = data])
      BY <2>1
    <2>3. Took(at, "erase") /\ call'.got = data /\ call'.n = call.n
      BY <1>1, <2>2, TakenSet
    <2> QED
      BY <2>1, <2>3
  <1>4. /\ OnDevice(os', call') /\ os' = at.os /\ os'.fds[call'.h].append = os.fds[call.h].append
        /\ call'.h = call.h /\ call'.at = "erase"
    BY <1>1, <1>2, <1>3, StaysOnDevice
  <1>5. ASSUME ~os.fds[call.h].append PROVE Erasing(os', call')
    <2> DEFINE now == ContentOf(os', call'.h)
               n == call'.n
               last == n + Len(call'.data)
               pos == os'.fds[call'.h].pos
    <2>1. call'.before = call.before /\ call.before = ContentOf(os, call.h) /\ call'.data = call.data
      BY <1>1, <1>3, <1>4, <1>5 DEF DeviceStage, Took, Asked
    <2>2. now = call'.before /\ now \in Seq(Blocks) /\ n \in Nat /\ pos = n
      BY <1>1, <1>2, <1>3, <1>4, <2>1 DEF OnDevice
    <2>3. Len(call'.data) \in Nat /\ call'.got = call'.data
      BY <1>1, <1>3, <2>1
    <2>4. last \in Nat /\ Len(call'.got) <= Len(call'.data) /\ pos = n + (Len(call'.data) - Len(call'.got))
      BY <2>2, <2>3
    <2>5. Erasing(os', call') <=> /\ Len(call'.got) <= Len(call'.data)
                                  /\ pos = n + (Len(call'.data) - Len(call'.got))
                                  /\ Outside(call'.before, now, n, last)
                                  /\ ErasedTo(now, n, pos)
      BY DEF Erasing
    <2> HIDE DEF now, n, last, pos
    <2>6. Outside(call'.before, now, n, last)
      BY <2>2, <2>4, OutsideSame
    <2>7. ErasedTo(now, n, pos)
      BY <2>2 DEF ErasedTo
    <2> QED
      BY <2>4, <2>5, <2>6, <2>7
  <1> QED
    BY <1>4, <1>5 DEF DeviceStage

\* It ends when nothing is left.
LEMMA EraseEnds ==
  ASSUME Typed, DeviceStage(os, call), At("deviceErase", "erase"), call.got = <<>>, Return(Out(os, 0), 1)
  PROVE  DeviceStage(os', call')
  <1>1. Sound(os) /\ IsCall(call) /\ OnDevice(os, call) /\ call.fn = "deviceErase" /\ call.at = "erase"
        /\ call.data \in Seq(Blocks)
    BY DEF Typed, CallData, DeviceStage, At
  <1>2. PICK o : o = Out(os, 0)
    OBVIOUS
  <1>3. o.os = os /\ Return(o, 1)
    BY <1>2 DEF Out
  <1>4. Took(o, "return") /\ call'.ret = 1 /\ call'.n = call.n
    BY <1>1, <1>3, TakenSet DEF SameParts
  <1>5. SameUse(os, o.os, call.h)
    BY <1>1, <1>3 DEF OnDevice, SameUse
  <1>6. /\ OnDevice(os', call') /\ os' = os /\ os'.fds[call'.h].append = os.fds[call.h].append
        /\ call'.h = call.h /\ call'.at = "return"
    BY <1>1, <1>3, <1>4, <1>5, StaysOnDevice
  <1>7. ASSUME ~os.fds[call.h].append PROVE DeviceDone(os', call')
    <2> DEFINE h == call'.h
               now == ContentOf(os', h)
               desc == os'.fds[h]
               kind == os'.nodes[os'.fds[h].node].kind
               n == call'.n
               last == n + Len(call'.data)
               there == Part(now, n + 1, last)
    <2>1. DeviceDone(os', call') <=> Rightly(call', now, desc, kind, last, there)
      BY DEF DeviceDone
    <2>2. Erasing(os, call) /\ call'.before = call.before /\ call'.data = call.data /\ call'.fn = "deviceErase"
      BY <1>1, <1>4, <1>6, <1>7 DEF DeviceStage, Took, Asked
    <2>3. Outside(call'.before, now, n, last)
      BY <1>4, <1>6, <2>2 DEF Erasing
    <2>4. PICK len : len = Len(call.data)
      OBVIOUS
    <2>5. n \in Nat /\ len \in Nat \ {0} /\ n = call'.n /\ last = n + len /\ there = Part(now, n + 1, last)
          /\ now \in Seq(Blocks)
      <3>1. ContentOf(os, call.h) \in Seq(Blocks)
        BY <1>1, SoundFacts DEF OnDevice, IsContent
      <3> QED
        BY <1>1, <1>4, <1>6, <2>2, <2>4, <3>1 DEF OnDevice
    <2>6. ErasedTo(now, n, last)
      <3>1. Len(call.got) = 0
        OBVIOUS
      <3>2. os.fds[call.h].pos = call.n + (len - 0)
        BY <2>2, <2>4, <3>1 DEF Erasing
      <3>3. os.fds[call.h].pos = last
        BY <1>4, <2>5, <3>2
      <3> QED
        BY <1>4, <1>6, <2>2, <3>3 DEF Erasing
    <2> HIDE DEF h, now, desc, kind, n, last, there
    <2>7. there = [i \in 1..len |-> Erased]
      BY <2>5, <2>6, ErasedAll
    <2>8. DidChange(call', there)
      BY <2>2, <2>4, <2>7 DEF DidChange
    <2>9. Rightly(call', now, desc, kind, last, there)
      BY <1>4, <2>2, <2>3, <2>5, <2>8, ChangedRightly
    <2> QED
      BY <2>1, <2>9
  <1> QED
    BY <1>6, <1>7 DEF DeviceStage

\* A buffer is written, and less is left; or it was not written in full, which ends it.
ErasesSome(o, some) ==
  IF o.ret # Len(some) THEN Return(o, 0)
  ELSE Take(o, "erase", [call EXCEPT !.got = SubSeq(@, Len(some) + 1, Len(@))])

\* A buffer of erased blocks, no longer than what is left.
IsBuffer(some) == some = [i \in 1..EraseLength(Len(call.got)) |-> Erased]

\* The device is still erasing, or has ended, when a buffer is written.
LEMMA EraseGoesOn ==
  ASSUME Typed, DeviceStage(os, call), mounted, At("deviceErase", "erase"), call.got # <<>>,
         NEW some, IsBuffer(some), NEW o \in HostWrite(os, call.h, some), ErasesSome(o, some)
  PROVE  DeviceStage(os', call')
  <1>1. Sound(os) /\ IsCall(call) /\ OnDevice(os, call) /\ call.fn = "deviceErase" /\ call.at = "erase"
        /\ call.data \in Seq(Blocks) /\ call.got \in Seq(Blocks)
    BY DEF Typed, CallData, DeviceStage, At
  <1>2. PICK left : left = Len(call.got)
    OBVIOUS
  <1>3. left \in Nat \ {0}
    BY <1>1, <1>2
  <1>4. PICK m \in 1..left : m = EraseLength(left) /\ some \in Seq(Blocks) /\ Len(some) = m
                             /\ \A i \in 1..m : some[i] = Erased
    <2>1. some = [i \in 1..EraseLength(left) |-> Erased]
      BY <1>2 DEF IsBuffer
    <2> QED
      BY <1>3, <2>1, BufferIs
  <1>5. PICK pos, was, h : pos = os.fds[call.h].pos /\ was = ContentOf(os, call.h) /\ h = call.h
    OBVIOUS
  <1>6. m \in Nat \ {0} /\ Opened(os, h) /\ pos \in Nat /\ was \in Seq(Blocks)
    <2>1. Opened(os, h)
      BY <1>1, <1>5 DEF OnDevice
    <2> QED
      BY <1>1, <1>3, <1>5, <2>1, SoundFacts DEF IsContent
  <1>7. WritesHere(os, h, some, m, pos, was, o)
    <2>1. m > 0 /\ o \in HostWrite(os, h, some) /\ pos = os.fds[h].pos /\ was = ContentOf(os, h) /\ m = Len(some)
      BY <1>4, <1>5, <1>6
    <2> QED
      BY <1>1, <1>4, <1>6, <2>1, DeviceWrites
  <1>8. SameUse(os, o.os, h) /\ o.ret \in Int
    BY <1>7 DEF WritesHere
  <1>9. CASE o.ret = m
    <2>1. Took(o, "erase") /\ call'.got = SubSeq(call.got, m + 1, left) /\ call'.n = call.n
      <3>1. Take(o, "erase", [call EXCEPT !.got = SubSeq(@, m + 1, left)])
        BY <1>2, <1>4, <1>9 DEF ErasesSome
      <3>2. PICK got : got = SubSeq(call.got, m + 1, left)
        OBVIOUS
      <3>3. Take(o, "erase", [call EXCEPT !.got = got])
        BY <3>1, <3>2
      <3>4. Took(o, "erase") /\ call'.got = got /\ call'.n = call.n
        BY <1>1, <3>3, TakenSet
      <3> QED
        BY <3>2, <3>4
    <2>2. /\ OnDevice(os', call') /\ os' = o.os /\ os'.fds[call'.h].append = os.fds[call.h].append
          /\ call'.h = call.h /\ call'.at = "erase"
      BY <1>1, <1>5, <1>8, <2>1, StaysOnDevice
    <2>3. ASSUME ~os.fds[call.h].append PROVE Erasing(os', call')
      <3>1. Erasing(os, call) /\ call'.before = call.before /\ call'.data = call.data
        BY <1>1, <2>1, <2>3 DEF DeviceStage, Took, Asked
      <3>2. WroteSome(os, o.os, h, some, m, pos, was)
        BY <1>5, <1>6, <1>7, <1>9, <2>3 DEF WritesHere
      <3>3. o.os.fds[h].pos = pos + m /\ ContentOf(o.os, h) = Overwrite(was, pos, some)
        <4>1. SubSeq(some, 1, m) = some
          BY <1>4, <1>6
        <4> QED
          BY <3>2, <4>1 DEF WroteSome
      <3>4. PICK now, to, n, last, len : /\ now = ContentOf(os', call'.h) /\ to = os'.fds[call'.h].pos /\ n = call'.n
                                         /\ last = call'.n + Len(call'.data) /\ len = Len(call'.data)
        OBVIOUS
      <3>5. now = Overwrite(was, pos, some) /\ to = pos + m
        BY <1>5, <2>2, <3>3, <3>4
      <3>6. n = call.n /\ n \in Nat /\ len \in Nat /\ last = n + len /\ len = Len(call.data)
        BY <1>1, <2>1, <3>1, <3>4 DEF OnDevice
      <3>7. left <= len /\ pos = n + (len - left) /\ Outside(call'.before, was, n, last) /\ ErasedTo(was, n, pos)
            /\ call'.before \in Seq(Blocks)
        <4>1. /\ Len(call.got) <= Len(call.data)
              /\ os.fds[call.h].pos = call.n + (Len(call.data) - Len(call.got))
              /\ Outside(call.before, ContentOf(os, call.h), call.n, call.n + Len(call.data))
              /\ ErasedTo(ContentOf(os, call.h), call.n, os.fds[call.h].pos)
          BY <3>1 DEF Erasing
        <4> QED
          BY <1>1, <1>2, <1>5, <3>1, <3>6, <4>1 DEF OnDevice
      <3>8. ErasedTo(now, n, to)
        BY <1>4, <1>6, <3>5, <3>6, <3>7, ErasesOn
      <3>9. Outside(call'.before, now, n, last)
        <4>1. last \in Nat /\ n <= pos /\ pos + Len(some) <= last
          <5>1. n \in Nat /\ len \in Nat /\ last = n + len
            BY <3>6
          <5>2. left <= len /\ pos = n + (len - left)
            BY <3>7
          <5>3. m \in Nat /\ m <= left /\ Len(some) = m
            BY <1>3, <1>4
          <5> QED
            BY <1>3, <5>1, <5>2, <5>3
        <4>2. PICK before : before = call'.before
          OBVIOUS
        <4>3. /\ before \in Seq(Blocks) /\ was \in Seq(Blocks) /\ n \in Nat /\ last \in Nat /\ pos \in Nat
              /\ some \in Seq(Blocks) /\ Outside(before, was, n, last) /\ now = Overwrite(was, pos, some)
          BY <1>4, <1>6, <3>5, <3>6, <3>7, <4>1, <4>2
        <4>4. Outside(before, now, n, last)
          BY <4>1, <4>3, OutsideKept
        <4> QED
          BY <4>2, <4>4
      <3>10. Len(call'.got) = left - m
        BY <1>1, <1>2, <1>4, <1>6, <2>1
      <3>11. Len(call'.got) <= len /\ to = n + (len - Len(call'.got))
        <4>1. PICK less : less = Len(call'.got)
          OBVIOUS
        <4>2. /\ less = left - m /\ m \in 1..left /\ left \in Nat /\ m \in Nat /\ left <= len /\ len \in Nat
              /\ n \in Nat /\ pos = n + (len - left) /\ to = pos + m
          BY <1>3, <1>6, <3>5, <3>6, <3>7, <3>10, <4>1
        <4>3. less <= len /\ to = n + (len - less)
          BY <4>2
        <4> QED
          BY <4>1, <4>3
      <3> QED
        BY <3>4, <3>8, <3>9, <3>11 DEF Erasing
    <2> QED
      BY <2>2, <2>3 DEF DeviceStage
  <1>10. CASE o.ret # m
    <2>1. Took(o, "return") /\ call'.ret = 0 /\ call'.n = call.n
      <3>1. Return(o, 0)
        BY <1>4, <1>10 DEF ErasesSome
      <3> QED
        BY <1>1, <3>1, TakenSet DEF SameParts
    <2>2. /\ OnDevice(os', call') /\ os' = o.os /\ os'.fds[call'.h].append = os.fds[call.h].append
          /\ call'.h = call.h /\ call'.at = "return"
      BY <1>1, <1>5, <1>8, <2>1, StaysOnDevice
    <2>3. ASSUME ~os.fds[call.h].append PROVE DeviceDone(os', call')
      <3> DEFINE now == ContentOf(os', call'.h)
                 desc == os'.fds[call'.h]
                 kind == os'.nodes[os'.fds[call'.h].node].kind
                 n == call'.n
                 last == n + Len(call'.data)
                 there == Part(now, n + 1, last)
      <3>1. DeviceDone(os', call') <=> Rightly(call', now, desc, kind, last, there)
        BY DEF DeviceDone
      <3>2. Erasing(os, call) /\ call'.before = call.before /\ call'.data = call.data /\ call'.fn = "deviceErase"
        BY <1>1, <2>1, <2>3 DEF DeviceStage, Took, Asked
      <3>3. o.fault => call'.fault
        BY <2>1 DEF Took
      <3>4. PICK len : len = Len(call'.data)
        OBVIOUS
      <3>5. n = call.n /\ n \in Nat /\ len \in Nat /\ last = n + len /\ len = Len(call.data) /\ n = call'.n
            /\ now = ContentOf(o.os, h) /\ last \in Nat
        BY <1>1, <1>5, <2>1, <2>2, <3>2, <3>4 DEF OnDevice
      <3>6. left <= len /\ pos = n + (len - left) /\ Outside(call'.before, was, n, last)
            /\ call'.before \in Seq(Blocks)
        <4>1. /\ Len(call.got) <= Len(call.data)
              /\ os.fds[call.h].pos = call.n + (Len(call.data) - Len(call.got))
              /\ Outside(call.before, ContentOf(os, call.h), call.n, call.n + Len(call.data))
          BY <3>2 DEF Erasing
        <4> QED
          BY <1>1, <1>2, <1>5, <3>2, <3>5, <4>1 DEF OnDevice
      <3>7. (desc.write <=> os.fds[h].write) /\ ~os.fds[h].append
        BY <1>5, <1>8, <2>2, <2>3 DEF SameUse
      <3> HIDE DEF now, desc, kind, n, last, there
      <3>8. pos + m <= last /\ n <= pos
        <4>1. n \in Nat /\ len \in Nat /\ last = n + len
          BY <3>5
        <4>2. left <= len /\ pos = n + (len - left)
          BY <3>6
        <4>3. m \in Nat /\ m <= left
          BY <1>3
        <4> QED
          BY <1>3, <4>1, <4>2, <4>3
      <3>9. Outside(call'.before, now, n, last)
        <4>1. CASE o.os = os
          BY <1>5, <3>5, <3>6, <4>1
        <4>2. CASE o.ret \in 1..m /\ WroteSome(os, o.os, h, some, o.ret, pos, was)
          <5>1. PICK part : part \in Seq(Blocks) /\ Len(part) = o.ret /\ now = Overwrite(was, pos, part)
            BY <3>5, <4>2 DEF WroteSome
          <5>2. pos + Len(part) <= last
            BY <1>6, <3>5, <3>8, <4>2, <5>1
          <5> QED
            BY <1>6, <3>5, <3>6, <3>8, <5>1, <5>2, OutsideKept
        <4> QED
          BY <1>7, <3>7, <4>1, <4>2 DEF WritesHere
      <3>10. call'.fault \/ ~desc.write \/ last > MaxBlocks
        <4>1. o.fault \/ ~os.fds[h].write \/ pos + m > MaxBlocks
          BY <1>7, <1>10, <3>7 DEF WritesHere
        <4>2. MaxBlocks \in Int
          BY HostAssumption
        <4>3. pos + m > MaxBlocks => last > MaxBlocks
          BY <1>6, <3>5, <3>8, <4>2
        <4> QED
          BY <3>3, <3>7, <4>1, <4>3
      <3>11. Rightly(call', now, desc, kind, last, there)
        BY <2>1, <3>2, <3>5, <3>9, <3>10, ChangedRightly
      <3> QED
        BY <3>1, <3>11
    <2> QED
      BY <2>2, <2>3 DEF DeviceStage
  <1> QED
    BY <1>9, <1>10

\* Erasing, a buffer at a time.
LEMMA DeviceEraseGoes ==
  ASSUME Typed, DeviceStage(os, call), mounted, DeviceErase
  PROVE  DeviceStage(os', call')
  <1>1. CASE /\ At("deviceErase", "begin")
             /\ \E at \in HostSeek(os, call.h, call.n, "Start") :
                  IF at.ret # call.n THEN Return(at, 0) ELSE Take(at, "erase", [call EXCEPT !.got = call.data])
    <2>1. PICK at \in HostSeek(os, call.h, call.n, "Start") :
            IF at.ret # call.n THEN Return(at, 0) ELSE Take(at, "erase", [call EXCEPT !.got = call.data])
      BY <1>1
    <2>2. CASE at.ret # call.n
      <3>1. call.at = "begin" /\ Return(at, 0)
        BY <1>1, <2>1, <2>2 DEF At
      <3> QED
        BY <2>2, <3>1, NotThere
    <2>3. CASE at.ret = call.n
      <3>1. At("deviceErase", "begin") /\ Take(at, "erase", [call EXCEPT !.got = call.data])
        BY <1>1, <2>1, <2>3
      <3> QED
        BY <2>3, <3>1, EraseStarts
    <2> QED
      BY <2>2, <2>3
  <1>2. ASSUME NEW some, some = [i \in 1..EraseLength(Len(call.got)) |-> Erased], At("deviceErase", "erase"),
               IF call.got = <<>> THEN Return(Out(os, 0), 1)
               ELSE \E o \in HostWrite(os, call.h, some) : ErasesSome(o, some)
        PROVE  DeviceStage(os', call')
    <2>1. CASE call.got = <<>>
      BY <1>2, <2>1, EraseEnds
    <2>2. CASE call.got # <<>>
      <3>1. PICK o \in HostWrite(os, call.h, some) : ErasesSome(o, some)
        BY <1>2, <2>2
      <3> QED
        BY <1>2, <2>2, <3>1, EraseGoesOn DEF IsBuffer
    <2> QED
      BY <2>1, <2>2
  <1>3. CASE /\ At("deviceErase", "erase")
             /\ LET some == [i \in 1..EraseLength(Len(call.got)) |-> Erased]
                IN  IF call.got = <<>> THEN Return(Out(os, 0), 1)
                    ELSE \E o \in HostWrite(os, call.h, some) : ErasesSome(o, some)
    BY <1>2, <1>3
  <1> QED
    BY <1>1, <1>3 DEF DeviceErase, ErasesSome

-----------------------------------------------------------------------------
(* Each call that changes something, from step to step.                     *)

\* The device has a descriptor.
DeviceHeld == device = NoDevice \/ device.h \in Fds

\* How far a call has come, when no other program interfered.
Stage(s, c, p, f) ==
  /\ c.fn = "setContent" => SetStage(s, c, p)
  /\ c.fn = "truncate" => CutStage(s, c, p)
  /\ c.fn = "makedirs" => MadeStage(s, c, f)
  /\ c.fn \in DeviceCalls => DeviceStage(s, c)

CallStage == ~call.foreign => Stage(os, call, ResolvePath(call.path), DirectoriesOnWay)

\* What a path leads to, for a system with that root.
Resolved(root, path) ==
  IF root \/ path = <<"">> \/ path[1] # "" THEN SelectSeq(path, LAMBDA part : part # "") ELSE path

PathsByRoot == \A q : ResolvePath(q) = Resolved(rooted, q)

\* A path is resolved by the root and the path alone, in every state.
LEMMA ResolvedByRoot == PathsByRoot
  BY DEF ResolvePath, Resolved, PathsByRoot

\* So it is after a step.
LEMMA ResolvedNext == PathsByRoot'
  BY ResolvedByRoot, PTL

\* What the path leads to is the same.
LEMMA SamePath ==
  ASSUME rooted' = rooted, call'.path = call.path
  PROVE  ResolvePath(call.path)' = ResolvePath(call.path) /\ DirectoriesOnWay' = DirectoriesOnWay
  <1>1. ResolvePath(call.path)' = ResolvePath(call.path)
    BY ResolvedByRoot, ResolvedNext, Zenon DEF PathsByRoot
  <1>2. ASSUME NEW i \in Nat
        PROVE  ResolvePath(SubSeq(call.path, 1, i))' = ResolvePath(SubSeq(call.path, 1, i))
    BY ResolvedByRoot, ResolvedNext, Zenon DEF PathsByRoot
  <1>3. DirectoriesOnWay' = DirectoriesOnWay
    BY <1>2, Zenon DEF DirectoriesOnWay
  <1> QED
    BY <1>1, <1>3

\* Of the steps of a call, these are those of one that changes something.
LEMMA StepsOfChanges ==
  ASSUME Step
  PROVE  /\ call.fn = "setContent" => SetContent \/ Closing
         /\ call.fn = "truncate" => TruncateByName \/ Closing
         /\ call.fn = "makedirs" => Makedirs \/ Closing
         /\ call.fn = "deviceRead" => DeviceRead \/ Closing
         /\ call.fn = "deviceWrite" => DeviceWrite \/ Closing
         /\ call.fn = "deviceErase" => DeviceErase \/ Closing
  <1>1. /\ SetContent => call.fn = "setContent"
        /\ TruncateByName => call.fn = "truncate"
        /\ Makedirs => call.fn = "makedirs"
        /\ DeviceRead => call.fn = "deviceRead"
        /\ DeviceWrite => call.fn = "deviceWrite"
        /\ DeviceErase => call.fn = "deviceErase"
    BY DEF SetContent, TruncateByName, Makedirs, DeviceRead, DeviceWrite, DeviceErase, Opening, At
  <1> DEFINE others == {"getSize", "getContent", "getContentBuffer", "readContent", "readContentSize",
                        "readContentByName", "fileGetContent", "eof", "fsetxattr", "setacl", "fstat", "stat",
                        "setxattr", "getxattr", "fenumxattr", "next"}
  <1>2. GetSizeByName \/ GetContent \/ GetContentBuffer => call.fn \in others
    BY DEF GetSizeByName, GetContent, GetContentBuffer, Opening, At
  <1>3. ReadContent \/ ReadContentSize \/ ReadContentByName => call.fn \in others
    BY DEF ReadContent, ReadContentSize, ReadContentByName, Reading, At
  <1>4. FileGetContent \/ FileEof \/ Fsetxattr \/ Setacl \/ Fstat => call.fn \in others
    BY DEF FileGetContent, FileEof, Fsetxattr, Setacl, Fstat, At
  <1>5. Stat \/ Readdir("next") => call.fn \in others
    BY DEF Stat, Statting, Readdir, At
  <1>6. Setxattr \/ Getxattr \/ Fenumxattr => call.fn \in others
    BY DEF Setxattr, Getxattr, Fenumxattr, Opening, At
  <1>7. call.fn \in others => call.fn \notin {"setContent", "truncate", "makedirs", "deviceRead", "deviceWrite",
                                              "deviceErase"}
    OBVIOUS
  <1> HIDE DEF others
  <1>8. \/ GetSizeByName \/ GetContent \/ GetContentBuffer
        \/ ReadContent \/ ReadContentSize \/ ReadContentByName
        \/ FileGetContent \/ FileEof \/ Fsetxattr \/ Setacl \/ Fstat
        \/ Stat \/ Readdir("next")
        \/ Setxattr \/ Getxattr \/ Fenumxattr
        \/ Closing \/ SetContent \/ TruncateByName \/ Makedirs \/ DeviceRead \/ DeviceWrite \/ DeviceErase
    BY Zenon DEF Step
  <1>9. \/ call.fn \in others
        \/ Closing \/ SetContent \/ TruncateByName \/ Makedirs \/ DeviceRead \/ DeviceWrite \/ DeviceErase
    BY <1>2, <1>3, <1>4, <1>5, <1>6, <1>8, Zenon
  <1> QED
    BY <1>1, <1>7, <1>9

\* open() at the beginning of a call.
LEMMA OpeningAsks ==
  ASSUME IsCall(call), NEW fn, NEW flags, NEW next, Opening(fn, flags, next, TRUE)
  PROVE  Asked(call, call')
  <1>1. PICK o : Return(o, o.ret) \/ Take(o, next, [call EXCEPT !.fd = o.ret])
    BY DEF Opening
  <1>2. PICK ret : ret = o.ret
    OBVIOUS
  <1>3. Return(o, ret) \/ Take(o, next, [call EXCEPT !.fd = ret])
    BY <1>1, <1>2
  <1> QED
    BY <1>3, TakenSet DEF Took

\* A step leaves what was asked for.
LEMMA ChangesAsk ==
  ASSUME Typed, SetContent \/ TruncateByName \/ Makedirs \/ DeviceRead \/ DeviceWrite \/ DeviceErase \/ Closing
  PROVE  Asked(call, call')
  <1>1. IsCall(call)
    BY DEF Typed
  <1>2. ASSUME NEW o, NEW at, NEW x, \/ Take(o, at, [call EXCEPT !.ret = x]) \/ Return(o, x)
                                     \/ Take(o, at, [call EXCEPT !.n = x]) \/ Take(o, at, [call EXCEPT !.got = x])
        PROVE  Asked(call, call')
    BY <1>1, <1>2, TakenSet DEF Took
  <1>3. CASE SetContent
    <2>1. CASE Opening("setContent", {"Create", "Truncate", "Write"}, "write", TRUE)
      BY <1>1, <2>1, OpeningAsks
    <2>2. CASE \E o : Take(o, "close", [call EXCEPT !.ret = o.ret])
      BY <1>2, <2>2
    <2> QED
      BY <1>3, <2>1, <2>2 DEF SetContent
  <1>4. CASE TruncateByName
    <2>1. CASE Opening("truncate", {"Write"}, "cut", TRUE)
      BY <1>1, <2>1, OpeningAsks
    <2>2. CASE \E o : Take(o, "close", [call EXCEPT !.ret = o.ret])
      BY <1>2, <2>2
    <2> QED
      BY <1>4, <2>1, <2>2 DEF TruncateByName
  <1>5. CASE Makedirs
    <2>1. CASE \E o : \E x : Return(o, x)
      BY <1>2, <2>1
    <2>2. CASE \E o : Take(o, "begin", [call EXCEPT !.n = @ + 1])
      BY <1>2, <2>2
    <2> QED
      BY <1>5, <2>1, <2>2 DEF Makedirs
  <1>6. CASE DeviceRead
    <2>1. CASE \E o : \E x : Return(o, x)
      BY <1>2, <2>1
    <2>2. CASE \E o : \E x : Take(o, "return", [call EXCEPT !.got = o.data, !.ret = x])
      <3>1. PICK o, x, got : TakesGot(o, "return", got, x)
        BY <2>2 DEF TakesGot
      <3> QED
        BY <1>1, <3>1, TakenGot DEF Took
    <2> QED
      BY <1>6, <2>1, <2>2 DEF DeviceRead
  <1>7. CASE DeviceWrite
    BY <1>2, <1>7 DEF DeviceWrite
  <1>8. CASE DeviceErase
    <2>1. CASE \E o : \E x : Return(o, x)
      BY <1>2, <2>1
    <2>2. CASE \E o : \E x : Take(o, "erase", [call EXCEPT !.got = x])
      BY <1>2, <2>2
    <2> QED
      BY <1>8, <2>1, <2>2 DEF DeviceErase
  <1>9. CASE Closing
    BY <1>9, ClosingHolds
  <1> QED
    BY <1>3, <1>4, <1>5, <1>6, <1>7, <1>8, <1>9

\* A step of a call.
LEMMA StepKeepsStage ==
  ASSUME IInv, Values, CallStage, Step
  PROVE  CallStage'
  <1>1. Typed /\ Works
    BY StepWorks DEF Values
  <1>2. call'.fn = call.fn /\ rooted' = rooted
    BY <1>1 DEF Works, Step
  <1>3. CASE call.fn \notin {"setContent", "truncate", "makedirs", "deviceRead", "deviceWrite", "deviceErase"}
    BY <1>2, <1>3 DEF CallStage, Stage, DeviceCalls
  <1>4. ASSUME call.fn \in {"setContent", "truncate", "makedirs", "deviceRead", "deviceWrite", "deviceErase"},
               ~call'.foreign
        PROVE  Stage(os', call', ResolvePath(call.path), DirectoriesOnWay)
    <2>1. Asked(call, call')
      BY <1>1, <1>4, StepsOfChanges, ChangesAsk
    <2>2. ~call.foreign
      BY <1>4, <2>1 DEF Asked
    <2>3. PICK p, f : p = ResolvePath(call.path) /\ f = DirectoriesOnWay /\ AreOnWay(f)
      BY DEF AreOnWay
    <2>4. Stage(os, call, p, f)
      BY <2>2, <2>3 DEF CallStage
    <2>5. CASE call.fn = "setContent"
      <3>1. mounted \/ OpenFds(os) = {}
        BY DEF IInv, NothingOpen
      <3>2. SetStage(os, call, p) /\ (SetContent \/ Closing)
        BY <2>4, <2>5, StepsOfChanges DEF Stage
      <3>3. SetStage(os', call', p)
        BY <1>1, <2>3, <2>5, <3>1, <3>2, SetGoes
      <3> QED
        BY <1>2, <2>3, <2>5, <3>3 DEF Stage, DeviceCalls
    <2>6. CASE call.fn = "truncate"
      <3>1. CutStage(os, call, p) /\ (TruncateByName \/ Closing)
        BY <2>4, <2>6, StepsOfChanges DEF Stage
      <3>2. CutStage(os', call', p)
        BY <1>1, <2>3, <2>6, <3>1, CutGoes
      <3> QED
        BY <1>2, <2>3, <2>6, <3>2 DEF Stage, DeviceCalls
    <2>7. CASE call.fn = "makedirs"
      <3>1. MadeStage(os, call, f) /\ (Makedirs \/ Closing)
        BY <2>4, <2>7, StepsOfChanges DEF Stage
      <3>2. ~Closing
        BY <3>1 DEF MadeStage, Closing
      <3>3. MadeStage(os', call', f)
        BY <1>1, <2>3, <3>1, <3>2, MadeGoes
      <3> QED
        BY <1>2, <2>3, <2>7, <3>3 DEF Stage, DeviceCalls
    <2>8. CASE call.fn \in DeviceCalls
      <3>1. DeviceStage(os, call) /\ (DeviceRead \/ DeviceWrite \/ DeviceErase \/ Closing)
        BY <2>4, <2>8, StepsOfChanges DEF Stage, DeviceCalls
      <3>2. ~Closing /\ Opened(os, call.h)
        BY <3>1 DEF DeviceStage, OnDevice, Closing
      <3>3. mounted
        <4>1. call.h \in OpenFds(os)
          BY <1>1, <3>2, SoundFacts DEF Typed
        <4> QED
          BY <4>1 DEF IInv, NothingOpen
      <3>4. DeviceStage(os', call')
        BY <1>1, <3>1, <3>2, <3>3, DeviceReadGoes, DeviceWriteGoes, DeviceEraseGoes
      <3> QED
        BY <1>2, <2>8, <3>4 DEF Stage, DeviceCalls
    <2> QED
      BY <1>4, <2>5, <2>6, <2>7, <2>8 DEF DeviceCalls
  <1>5. ASSUME call.fn \in {"setContent", "truncate", "makedirs", "deviceRead", "deviceWrite", "deviceErase"}
        PROVE  call'.path = call.path
    BY <1>1, <1>5, StepsOfChanges, ChangesAsk DEF Asked
  <1> QED
    BY <1>2, <1>3, <1>4, <1>5, SamePath DEF CallStage

\* A call that begins is at its first step.
LEMMA BeginKeepsStage ==
  ASSUME IInv, Values, DeviceHeld, Begin
  PROVE  CallStage'
  <1>1. PICK r \in Requests :
          /\ r.fn \in DeviceCalls => device # NoDevice
          /\ IF r.fn \in HandleCalls THEN \E h \in Held : call' = [r EXCEPT !.h = h]
             ELSE IF r.fn \in DeviceCalls
             THEN call' = [r EXCEPT !.h = device.h, !.before = ContentOf(os, device.h)]
             ELSE call' = [r EXCEPT !.before = ContentAt(r.path)]
    BY DEF Begin
  <1>2. /\ IsCall(r) /\ r.at = Start(r.fn) /\ ~r.fault
        /\ r.fn \in DeviceCalls => r.n \in Nat /\ r.data # <<>>
        /\ r.fn = "makedirs" => r.n = 0
    BY CallBounds, WrappersAssumption
  <1>3. os' = os /\ rooted' = rooted /\ Sound(os)
    BY DEF Begin, Values, Typed
  <1>4. CASE r.fn \in HandleCalls
    <2>1. PICK h : call' = [r EXCEPT !.h = h]
      BY <1>1, <1>4
    <2>2. call'.fn = r.fn
      BY <1>2, <2>1, ZenonT(60) DEF IsCall, NoCall
    <2>3. r.fn \notin {"setContent", "truncate", "makedirs"} \cup DeviceCalls
      BY <1>4 DEF HandleCalls, DeviceCalls
    <2> QED
      BY <2>2, <2>3 DEF CallStage, Stage
  <1>5. CASE r.fn \notin HandleCalls /\ r.fn \in DeviceCalls
    <2>1. PICK h, b : h = device.h /\ b = ContentOf(os, device.h)
      OBVIOUS
    <2>2. call' = [r EXCEPT !.h = h, !.before = b]
      BY <1>1, <1>5, <2>1
    <2>3. /\ call'.fn = r.fn /\ call'.h = h /\ call'.before = b /\ call'.n = r.n /\ call'.data = r.data
          /\ call'.at = r.at /\ call'.fault = r.fault
      BY <1>2, <2>2, ZenonT(60) DEF IsCall, NoCall
    <2>4. h \in Fds
      BY <1>1, <1>5, <2>1 DEF DeviceHeld
    <2>5. Opened(os, h)
      <3>1. h \in OpenFds(os)
        BY <2>1, <2>4 DEF IInv, OwnedOnce
      <3> QED
        BY <1>3, <3>1, SoundFacts
    <2>6. b = ContentOf(os, h) /\ b \in Seq(Blocks)
      BY <1>3, <2>1, <2>5, SoundFacts DEF IsContent
    <2>7. r.at = "begin" /\ ~call'.fault
      <3>1. ~call'.fault
        BY <1>2, <2>3, Zenon
      <3> QED
        BY <1>2, <1>5, <3>1 DEF Start, DeviceCalls
    <2>8. DeviceStage(os', call')
      BY <1>2, <1>3, <1>5, <2>3, <2>5, <2>6, <2>7 DEF DeviceStage, OnDevice
    <2>9. r.fn \notin {"setContent", "truncate", "makedirs"}
      BY <1>5 DEF DeviceCalls
    <2> QED
      BY <2>3, <2>8, <2>9 DEF CallStage, Stage
  <1>6. CASE r.fn \notin HandleCalls /\ r.fn \notin DeviceCalls
    <2>1. PICK b : b = ContentAt(r.path)
      OBVIOUS
    <2>2. call' = [r EXCEPT !.before = b]
      BY <1>1, <1>6, <2>1
    <2>3. /\ call'.fn = r.fn /\ call'.before = b /\ call'.n = r.n /\ call'.at = r.at /\ call'.path = r.path
      BY <1>2, <2>2, ZenonT(60) DEF IsCall, NoCall
    <2>4. r.fn \in {"setContent", "truncate", "makedirs"} => r.at = "begin"
      BY <1>2 DEF Start
    <2>5. PICK p, f : p = ResolvePath(call.path)' /\ f = DirectoriesOnWay'
      OBVIOUS
    <2>6. ResolvePath(call.path)' = ResolvePath(r.path)
      BY <1>3, <2>3, ResolvedByRoot, ResolvedNext, Zenon DEF PathsByRoot
    <2>7. b = PathHolds(os, p)
      BY <2>1, <2>5, <2>6 DEF ContentAt, PathHolds
    <2>8. r.fn \in {"setContent", "truncate"} => SetStage(os', call', p) /\ CutStage(os', call', p)
      BY <1>3, <2>3, <2>4, <2>7 DEF SetStage, CutStage
    <2>9. r.fn = "makedirs" => MadeStage(os', call', f)
      <3>1. ASSUME r.fn = "makedirs" PROVE call'.at = "begin" /\ call'.n = 0
        BY <1>2, <2>3, <2>4, <3>1
      <3>2. \A i \in 1..0 : Kind(os', f[i]) = "Directory"
        OBVIOUS
      <3> QED
        BY <3>1, <3>2 DEF MadeStage
    <2> QED
      BY <1>6, <2>3, <2>5, <2>8, <2>9 DEF CallStage, Stage
  <1> QED
    BY <1>4, <1>5, <1>6

\* When another program has interfered nothing is said, nor of other calls, nor when there is none.
LEMMA OthersKeepStage ==
  ASSUME IInv, CallStage, Finish \/ Foreign \/ UNCHANGED vars
                          \/ Mount \/ MakeDirectory \/ RemovePath \/ RenamePath \/ DeviceClose
                          \/ (\E f \in Files : FileOpen(f) \/ FileClose(f) \/ FileRelease(f) \/ DeviceOpen(f))
                          \/ (\E h \in Held : Transfer(h) \/ CloseMine(h))
                          \/ (\E d \in Dirs : DirOpen(d) \/ DirClose(d) \/ DirNext(d) \/ DirRewind(d))
  PROVE  CallStage'
  <1>1. NoCall.fn = "none"
    BY DEF NoCall
  <1>2. ASSUME call'.fn \in {"none", "next"} PROVE CallStage'
    BY <1>2 DEF CallStage, Stage, DeviceCalls
  <1>3. CASE Finish
    BY <1>1, <1>2, <1>3 DEF Finish
  <1>4. CASE Foreign
    <2>1. call' = [call EXCEPT !.foreign = TRUE, !.before = <<>>] /\ IsCall(call)
      BY <1>4 DEF Foreign, IInv, Phase
    <2>2. call'.foreign = TRUE
      BY <2>1, ZenonT(60) DEF IsCall, NoCall
    <2> QED
      BY <2>2, Zenon DEF CallStage
  <1>5. CASE UNCHANGED vars
    <2>1. os' = os /\ call' = call /\ rooted' = rooted
      BY <1>5 DEF vars, hostVars
    <2>2. ResolvePath(call.path)' = ResolvePath(call.path) /\ DirectoriesOnWay' = DirectoriesOnWay
      BY <2>1, SamePath
    <2> QED
      BY <2>1, <2>2 DEF CallStage
  <1>6. CASE Mount \/ MakeDirectory \/ RemovePath \/ RenamePath \/ DeviceClose
    BY <1>1, <1>2, <1>6 DEF Mount, MakeDirectory, RemovePath, RenamePath, DeviceClose, May, Ready, Done
  <1>7. ASSUME NEW f, FileOpen(f) \/ FileClose(f) \/ FileRelease(f) \/ DeviceOpen(f)
        PROVE  CallStage'
    BY <1>1, <1>2, <1>7 DEF FileOpen, FileClose, FileRelease, DeviceOpen, May, Ready, Done, hostVars
  <1>8. ASSUME NEW h, Transfer(h) \/ CloseMine(h)
        PROVE  CallStage'
    BY <1>1, <1>2, <1>8, Zenon DEF Transfer, CloseMine, May, Ready, Done
  <1>9. ASSUME NEW d, DirOpen(d) \/ DirClose(d) \/ DirRewind(d)
        PROVE  CallStage'
    BY <1>1, <1>2, <1>9 DEF DirOpen, DirClose, DirRewind, May, Ready, Done
  <1>10. ASSUME NEW d, DirNext(d)
         PROVE  CallStage'
    <2>1. call'.fn = "next"
      BY <1>10 DEF DirNext, NoCall
    <2> QED
      BY <1>2, <2>1
  <1> QED
    BY <1>3, <1>4, <1>5, <1>6, <1>7, <1>8, <1>9, <1>10

\* The device has a descriptor, which it gets from a File.
LEMMA NextKeepsDevice ==
  ASSUME Values, DeviceHeld, [Next]_vars
  PROVE  DeviceHeld'
  <1>1. CASE device' = device
    BY <1>1 DEF DeviceHeld
  <1>2. CASE DeviceClose
    BY <1>2 DEF DeviceClose, DeviceHeld
  <1>3. ASSUME NEW f \in Files, DeviceOpen(f)
        PROVE  DeviceHeld'
    <2>1. files[f] \in Fds
      BY <1>3 DEF DeviceOpen, Values, HandlesAre
    <2>2. device'.h = files[f]
      BY <1>3 DEF DeviceOpen
    <2> QED
      BY <2>1, <2>2 DEF DeviceHeld
  <1>4. Mount \/ Begin \/ Step \/ Finish \/ Foreign \/ MakeDirectory \/ RemovePath \/ RenamePath \/ UNCHANGED vars
          => device' = device
    BY DEF Mount, Begin, Step, Finish, Foreign, MakeDirectory, RemovePath, RenamePath, objects, vars
  <1>5. ASSUME NEW f, FileOpen(f) \/ FileClose(f) \/ FileRelease(f) PROVE device' = device
    BY <1>5 DEF FileOpen, FileClose, FileRelease
  <1>6. ASSUME NEW h, Transfer(h) \/ CloseMine(h) PROVE device' = device
    BY <1>6, Zenon DEF Transfer, CloseMine, objects
  <1>7. ASSUME NEW d, DirOpen(d) \/ DirClose(d) \/ DirNext(d) \/ DirRewind(d) PROVE device' = device
    BY <1>7 DEF DirOpen, DirClose, DirNext, DirRewind, objects
  <1> QED
    BY <1>1, <1>2, <1>3, <1>4, <1>5, <1>6, <1>7 DEF Next

\* Every step leaves a call where it says.
LEMMA NextKeepsStage ==
  ASSUME IInv, Values, DeviceHeld, CallStage, [Next]_vars
  PROVE  CallStage'
  BY StepKeepsStage, BeginKeepsStage, OthersKeepStage DEF Next

\* What a call that is over has done.
LEMMA StageIsEffect ==
  ASSUME CallStage
  PROVE  EffectsAsAsked
  <1> SUFFICES ASSUME call.at = "return", ~call.foreign
               PROVE  /\ call.fn = "setContent" => SetAsAsked
                      /\ call.fn = "truncate" => CutAsAsked
                      /\ call.fn \in DeviceCalls /\ ~os.fds[call.h].append => DeviceAsAsked
                      /\ call.fn = "makedirs" /\ call.ret = FS_OK /\ call.path[1] # "" =>
                           \A i \in 1..Len(call.path) - 1 :
                             Kind(os, ResolvePath(SubSeq(call.path, 1, i))) = "Directory"
    BY DEF EffectsAsAsked
  <1>1. Stage(os, call, ResolvePath(call.path), DirectoriesOnWay)
    BY DEF CallStage
  <1>2. PICK p : p = ResolvePath(call.path)
    OBVIOUS
  <1>3. ContentAt(call.path) = PathHolds(os, p)
    BY <1>2 DEF ContentAt, PathHolds
  <1>4. ASSUME call.fn = "setContent" PROVE SetAsAsked
    <2>1. SetDone(os, call, p)
      BY <1>1, <1>2, <1>4 DEF Stage, SetStage
    <2> QED
      BY <1>3, <2>1 DEF SetDone, SetAsAsked
  <1>5. ASSUME call.fn = "truncate" PROVE CutAsAsked
    <2>1. CutDone(os, call, p)
      BY <1>1, <1>2, <1>5 DEF Stage, CutStage
    <2> QED
      BY <1>3, <2>1 DEF CutDone, CutAsAsked
  <1>6. ASSUME call.fn \in DeviceCalls, ~os.fds[call.h].append PROVE DeviceAsAsked
    <2>1. DeviceDone(os, call)
      BY <1>1, <1>6 DEF Stage, DeviceStage
    <2> QED
      BY <2>1 DEF DeviceDone, Rightly, DeviceAsAsked
  <1>7. ASSUME call.fn = "makedirs", call.ret = FS_OK, call.path[1] # "", NEW i \in 1..Len(call.path) - 1
        PROVE  Kind(os, ResolvePath(SubSeq(call.path, 1, i))) = "Directory"
    <2>1. MadeDone(os, call, DirectoriesOnWay)
      BY <1>1, <1>7 DEF Stage, MadeStage
    <2>2. Relative(call)
      BY <1>7, Zenon DEF Relative
    <2>3. Kind(os, DirectoriesOnWay[i]) = "Directory"
      BY <1>7, <2>1, <2>2, Zenon DEF MadeDone
    <2>4. DirectoriesOnWay[i] = ResolvePath(SubSeq(call.path, 1, i))
      <3>1. i \in Nat
        OBVIOUS
      <3> QED
        BY <3>1, Zenon DEF DirectoriesOnWay
    <2> QED
      BY <2>3, <2>4
  <1> QED
    BY <1>4, <1>5, <1>6, <1>7

\* When no other program interferes, a change that is said to be made is made, and no more
\* than that, whichever call of the host fails: by setContent() and truncate(), by a device
\* that reads, writes and erases a file not open for appending, and by makedirs().
THEOREM ChangesAreAsAsked == Spec => []EffectsAsAsked
  <1>1. Init => IInv /\ Values /\ DeviceHeld /\ CallStage
    <2>1. ASSUME Init PROVE DeviceHeld /\ CallStage
      <3>1. device = NoDevice /\ call = NoCall
        BY <2>1 DEF Init
      <3>2. NoCall.fn = "none"
        BY DEF NoCall
      <3> QED
        BY <3>1, <3>2 DEF DeviceHeld, CallStage, Stage, DeviceCalls
    <2> QED
      BY <2>1, InitOwners, InitValues
  <1>2. IInv /\ Values /\ DeviceHeld /\ CallStage /\ [Next]_vars => IInv' /\ Values' /\ DeviceHeld' /\ CallStage'
    BY NextKeepsOwners, NextKeepsValues, NextKeepsDevice, NextKeepsStage
  <1>3. CallStage => EffectsAsAsked
    BY StageIsEffect
  <1> QED
    BY <1>1, <1>2, <1>3, PTL DEF Spec
=============================================================================
