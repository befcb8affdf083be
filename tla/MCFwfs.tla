------------------------------- MODULE MCFwfs -------------------------------
(***************************************************************************)
(* Small images and parameters with which TLC checks Fwfs.                 *)
(***************************************************************************)
EXTENDS Fwfs

CONSTANTS root, file, empty, mnt, bad, none

MCObjects == {root, file, empty, mnt, bad, none}

Named(n, o)  == [kind |-> "named", name |-> n, obj |-> o]
Data(a, n)   == [kind |-> "data", off |-> a, len |-> n]
Volume(i)    == [kind |-> "volume", index |-> i]
Attr         == [kind |-> "attr"]

\* A root directory with two files and three mount points, one of which has a
\* volume index that is out of range and one none at all.
ImageWith(data, badIndex) ==
  [o \in MCObjects |->
     CASE o = root  -> [type  |-> "Directory",
                        table |-> <<Attr, Named("f", file), Named("m", mnt), Attr,
                                    Named("e", empty), Named("b", bad), Named("n", none)>>]
       [] o = file  -> [type |-> "File", table |-> data]
       [] o = empty -> [type |-> "File", table |-> <<Attr, Attr>>]
       [] o = mnt   -> [type |-> "MountPoint", table |-> <<Attr, Volume(0)>>]
       [] o = bad   -> [type |-> "MountPoint", table |-> <<Volume(badIndex)>>]
       [] o = none  -> [type |-> "MountPoint", table |-> <<Attr>>]]

\* The result of the last call has no influence on what happens next.
Observed == <<mounted, fds, volumes, dirs, call, live, inner, held, listed>>

MCSymmetry == Permutations(Mounted) \cup Permutations(Tokens)

MCNames == {"f", "m", "e", "b", "n", "x"}

\* One data object between attributes.
SingleImage == ImageWith(<<Attr, Data(2, 3), Attr>>, 7)
\* A second mount point that leads to a second volume, and three data objects,
\* the second of which is not after the first.
TwoVolumes  == ImageWith(<<Data(3, 1), Attr, Data(1, 1), Data(5, 1)>>, 1)
\* Two data objects that are not adjacent on the media.
SplitImage  == ImageWith(<<Data(5, 2), Attr, Data(1, 2)>>, 7)

FilePaths  == {<<"f">>, <<"e">>}
LinkPaths  == {<<>>, <<"f">>, <<"m">>, <<"m", "x">>, <<"b", "x">>, <<"n">>, <<"x">>}
OnePath    == {<<"f">>}
=============================================================================
