------------------------------ MODULE MCCopier ------------------------------
(***************************************************************************)
(* A small tree with which TLC checks FileCopier: a file at the top, two   *)
(* nested directories with a compressed file, and a mount point; and a     *)
(* target that has other files and one of the same name.                   *)
(***************************************************************************)
EXTENDS FileCopier, TLC

CONSTANTS rootDir, outer, nested, plain, packed, mounted, inside,
          no, nn, nf, nz, nzgz, nm, aclTag, timeTag

MCNodes == {rootDir, outer, nested, plain, packed, mounted, inside}
MCNames == {no, nn, nf, nz, nzgz, nm}

Has(name, node) == [name |-> name, node |-> node]

MCKids ==
  [x \in MCNodes |->
     CASE x = rootDir -> <<Has(no, outer), Has(nm, mounted), Has(nf, plain)>>
       [] x = outer   -> <<Has(nn, nested)>>
       [] x = nested  -> <<Has(nz, packed)>>
       [] x = mounted -> <<Has(nf, inside)>>
       [] OTHER       -> <<>>]

MCKind ==
  [x \in MCNodes |-> CASE x \in {rootDir, outer, nested} -> "Directory"
                       [] x = mounted -> "MountPoint"
                       [] OTHER -> "File"]

MCSize == [x \in MCNodes |-> CASE x = plain -> 2 [] x = packed -> 1 [] OTHER -> 0]

MCAttrs ==
  [x \in MCNodes |-> CASE x = plain -> <<aclTag, timeTag>>
                       [] x = packed -> <<aclTag>>
                       [] OTHER -> <<>>]

MCSuffixed == [x \in MCNames |-> IF x = nz THEN nzgz ELSE x]

Directory == [kind |-> "Directory", size |-> 0, attrs |-> {}]
Larger    == [kind |-> "File", size |-> 3, attrs |-> {}]

MCBefore == { (<<>> :> Directory) @@ (<<nf>> :> Larger) @@ (<<nn>> :> Larger) }

Call(function, path) == [function |-> function, path |-> path]

MCCalls == {Call("copyDir", <<>>), Call("copyFile", <<nf>>), Call("copyAttributes", <<nf>>)}
MCPaths == {<<>>, <<no>>, <<no, nn>>, <<no, nn, nz>>, <<nf>>, <<nm>>, <<nm, nf>>}
=============================================================================
