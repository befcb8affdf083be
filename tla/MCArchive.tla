------------------------------ MODULE MCArchive ------------------------------
(***************************************************************************)
(* A small tree with which TLC checks ArchiveStream: a directory that is   *)
(* rooted below the top, with an empty directory, a nested one, a mount    *)
(* point, a file to be skipped, and files of all sizes.                    *)
(***************************************************************************)
EXTENDS ArchiveStream, TLC

CONSTANTS topDir, base, sub, deep, bare, mnt, inner, far, small, large, nil, tmp,
          nb, ns, nd, ne, nm, nx, ny, nz, nt, ni

MCNodes == {topDir, base, sub, deep, bare, mnt, inner, far, small, large, nil, tmp}
MCNames == {nb, ns, nd, ne, nm, nx, ny, nz, nt, ni}

Has(name, node) == [name |-> name, node |-> node]

MCKids ==
  [n \in MCNodes |->
     CASE n = topDir  -> <<Has(nb, base)>>
       [] n = base -> <<Has(nt, tmp), Has(ns, sub), Has(nx, small)>>
       [] n = sub  -> <<Has(nd, deep), Has(ny, large), Has(nm, mnt), Has(ne, bare)>>
       [] n = deep -> <<Has(nz, nil)>>
       [] n = mnt  -> <<Has(ni, inner), Has(nd, far)>>
       [] OTHER    -> <<>>]

MCKind ==
  [n \in MCNodes |-> CASE n \in {topDir, base, sub, deep, bare, far} -> "Directory"
                       [] n = mnt -> "MountPoint"
                       [] OTHER -> "File"]

MCSize == [n \in MCNodes |-> CASE n = small -> 1
                               [] n = large -> 3
                               [] OTHER -> 0]

MCEncodings == [n \in MCNodes |-> CASE n = small -> {<<1>>}
                                    [] n = large -> {<<1, 2>>}
                                    [] n = nil -> {<<>>}
                                    [] OTHER -> {}]

MCNameLen == [n \in MCNames |-> IF n = ns THEN 3 ELSE 1]

MCRoot  == <<nb>>
MCPaths == UNION { [1..k -> MCNames \ {nb}] : k \in 0..3 }
=============================================================================
