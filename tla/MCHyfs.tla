------------------------------- MODULE MCHyfs -------------------------------
(***************************************************************************)
(* Small parameters with which TLC checks Hyfs: a firmware with a file "a" *)
(* of two blocks and a file "r" marked read-only, and names that it does   *)
(* not have.                                                               *)
(***************************************************************************)
EXTENDS Hyfs, TLC

CONSTANTS a1, a2, r1

MCFwOrder  == <<"a", "r">>
MCFwData   == [p \in {"a", "r"} |-> IF p = "a" THEN <<a1, a2>> ELSE <<r1>>]
OneBlock   == [p \in {"a", "r"} |-> IF p = "a" THEN <<a1>> ELSE <<r1>>]

\* Three files, for which enumeration skips a hidden one between two others.
ThreeOrder == <<"r", "a", "b">>
ThreeData  == [p \in {"a", "b", "r"} |-> IF p = "r" THEN <<r1>> ELSE <<a1>>]

Update     == {"Read", "Write"}
Extend     == {"Write", "Create", "Append"}
Replace    == {"Write", "Create", "Truncate"}

Interchangeable == Permutations(DirIds)

\* The result of the last call has no influence on what happens next.
Observed   == <<mounted, ffs, fh, slots, hidden, dirs, call, held, listed, steady>>

AllFlags   == {{"Read"}, Update, Extend, Replace}
ListFlags  == {{"Read"}, Update, Replace}
NoFollow   == {{"Read"}, {"Read", "NoFollow"}}
=============================================================================
