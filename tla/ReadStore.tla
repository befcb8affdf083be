----------------------------- MODULE ReadStore -----------------------------
(***************************************************************************)
(* What a read-only file store promises to the holder of a file handle:    *)
(* a handle stands for an object and a position; reading returns the next  *)
(* bytes of the object's content, as many as were asked for unless the     *)
(* content ends first, and moves the position past exactly those bytes; a  *)
(* seek lands anywhere from the start to the end of the content; a call    *)
(* that fails changes nothing.  How content is laid out on the media and   *)
(* how handles are numbered are not visible here.                          *)
(***************************************************************************)
EXTENDS Naturals, Sequences

CONSTANTS
  Handles,      \* what open may return
  Objects,      \* what can be opened
  ContentOf,    \* [Objects -> Seq(byte)]
  Closed,       \* what a handle that is not open stands for
  MaxSize       \* bounds the size passed to one read

VARIABLES
  tab,          \* [Handles -> Closed or an object and a position]
  data          \* what the most recent call returned, if it was a read

vars == <<tab, data>>

IsOpen(h) == tab[h] # Closed

TypeOK ==
  \A h \in Handles :
    IsOpen(h) => tab[h].pos \in 0..Len(ContentOf[tab[h].obj])

Init ==
  /\ tab = [h \in Handles |-> Closed]
  /\ data = <<>>

\* A fresh handle starts at the beginning; which one is free to the store.
Open ==
  \E h \in Handles, o \in Objects :
    /\ ~IsOpen(h)
    /\ tab' = [tab EXCEPT ![h] = [obj |-> o, pos |-> 0]]
    /\ data' = <<>>

Close(h) ==
  /\ IsOpen(h)
  /\ tab' = [tab EXCEPT ![h] = Closed]
  /\ data' = <<>>

\* The next n bytes, or what is left of them.
Read(h, n) ==
  /\ IsOpen(h)
  /\ LET c == ContentOf[tab[h].obj]
         p == tab[h].pos
         q == IF p + n < Len(c) THEN p + n ELSE Len(c)
     IN  /\ data' = SubSeq(c, p + 1, q)
         /\ tab' = [tab EXCEPT ![h].pos = q]

Seek(h) ==
  /\ IsOpen(h)
  /\ \E p \in 0..Len(ContentOf[tab[h].obj]) :
       tab' = [tab EXCEPT ![h].pos = p]
  /\ data' = <<>>

\* Queries, rejected calls and calls that fail on the media.
NoEffect ==
  /\ data' = <<>>
  /\ UNCHANGED tab

Next ==
  \/ Open
  \/ NoEffect
  \/ \E h \in Handles :
       \/ Close(h)
       \/ Seek(h)
       \/ \E n \in 0..MaxSize : Read(h, n)

Spec == Init /\ [][Next]_vars
=============================================================================
