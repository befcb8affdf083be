----------------------------- MODULE SourceTree -----------------------------
(***************************************************************************)
(* A file system that something is copied or archived from, as its users   *)
(* see it through IFileSystem: directories enumerate their entries in      *)
(* order, and a path leads from the top to a node.  It does not change.    *)
(***************************************************************************)
EXTENDS Naturals, Sequences, SequencesExt

CONSTANTS
  Nodes,        \* the directories, mount points and files
  Top,          \* the root directory
  Kind,         \* [Nodes -> {"Directory", "MountPoint", "File"}]
  Kids,         \* [Nodes -> Seq of a name and a node]
  Size,         \* [Nodes -> size of the data of a file]
  Names,        \* the names of directory entries
  Absent        \* no node, or no name

Kid == [name : Names, node : Nodes]

ASSUME SourceAssumption ==
  /\ Top \in Nodes
  /\ Absent \notin Nodes \cup Names
  /\ Kind \in [Nodes -> {"Directory", "MountPoint", "File"}]
  /\ DOMAIN Kids = Nodes
  /\ \A n \in Nodes : Kids[n] \in Seq(Kid)
  /\ Size \in [Nodes -> Nat]

IsDir(n) == n \in Nodes /\ Kind[n] # "File"

KidsNamed(n, name) == { k \in DOMAIN Kids[n] : Kids[n][k].name = name }

\* The node that a directory has by a name: the first, if there are several.
Descend(n, name) ==
  IF n = Absent \/ KidsNamed(n, name) = {} THEN Absent
  ELSE Kids[n][CHOOSE k \in KidsNamed(n, name) : \A j \in KidsNamed(n, name) : k <= j].node

\* What a path from a node leads to.
Lookup(from, path) ==
  LET at[k \in 0..Len(path)] == IF k = 0 THEN from ELSE Descend(at[k - 1], path[k])
  IN  at[Len(path)]
=============================================================================
