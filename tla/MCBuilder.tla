------------------------------ MODULE MCBuilder ------------------------------
(***************************************************************************)
(* Small source trees, sets of entries and rules with which TLC checks     *)
(* ImageBuilder.  Sizes are on each side of the limits of one and two      *)
(* bytes, and so large that offsets take three and four.                   *)
(***************************************************************************)
EXTENDS ImageBuilder, TLC

CONSTANTS dir, sub, empty, small, middle, large, huge, tooLarge,
          na, nb, nc, accented, overlong, volName

MCNodes == {dir, sub, empty, small, middle, large, huge, tooLarge}
MCNames == {na, nb, nc, accented, overlong, volName}

Has(name, node) == [name |-> name, node |-> node]

MCKind == [n \in MCNodes |-> IF n \in {dir, sub} THEN "Directory" ELSE "File"]

MCKids == [n \in MCNodes |-> CASE n = dir -> <<Has(na, sub), Has(nb, middle), Has(nc, empty)>>
                               [] n = sub -> <<Has(nb, small), Has(na, large)>>
                               [] OTHER -> <<>>]

MCSize == [n \in MCNodes |-> CASE n = small -> 100 [] n = middle -> 256 [] n = large -> 65536
                               [] n = huge -> 16777215 [] n = tooLarge -> 16777216
                               [] OTHER -> 0]

MCPacked == [n \in MCNodes |-> CASE n = small -> 110 [] n = middle -> 200 [] n = large -> 65535
                                 [] n = huge -> 16777216 [] n = tooLarge -> 16777216
                                 [] OTHER -> 20]

MCNameLen   == [n \in MCNames |-> CASE n = overlong -> 256 [] n = accented -> 5 [] OTHER -> 1]
MCNameBytes == [n \in MCNames |-> CASE n = overlong -> 256 [] n = accented -> 7 [] OTHER -> 1]

MCPaths == {<<>>} \cup {<<x>> : x \in {na, nb, nc, accented, overlong}}
             \cup {<<x, y>> : x, y \in {na, nb, nc}}
             \cup {<<na, x, y>> : x, y \in {na, nb}} \cup {<<nc, nb, na>>}

From(target, node) == [target |-> target, node |-> node]

MCSources ==
  { <<From(<<>>, dir)>>,
    <<From(<<na>>, sub), From(<<nb, na>>, huge), From(<<nb, nb>>, small), From(<<nc>>, middle)>>,
    <<From(<<nb>>, small), From(<<na, nb, na>>, empty), From(<<nb, nc>>, large)>> }

MCConflicts ==
  { <<From(<<>>, dir), From(<<na>>, sub)>>, <<From(<<na, nb>>, small), From(<<na>>, sub)>>,
    <<From(<<nb>>, tooLarge)>>, <<From(<<overlong>>, small)>>, <<From(<<accented>>, small)>> }

MCMounts ==
  { <<>>, <<[target |-> <<nc, nb>>, index |-> 1], [target |-> <<nc, nb, na>>, index |-> 0]>> }

Unset == [paths |-> {}, readonly |-> Absent, compress |-> Absent, read |-> Absent,
          write |-> Absent]
ForAll   == [Unset EXCEPT !.paths = MCPaths, !.readonly = TRUE, !.compress = "gzip",
                          !.read = "admin"]
ForSome  == [Unset EXCEPT !.paths = { p \in MCPaths : p # <<>> /\ Last(p) = nb },
                          !.readonly = FALSE, !.read = "guest", !.write = "user"]
ForNone  == [Unset EXCEPT !.paths = {<<na>>, <<na, na>>}, !.compress = "none", !.read = "any"]
ForTree  == [Unset EXCEPT !.paths = { p \in MCPaths : p # <<>> /\ Head(p) = na },
                          !.read = "manager"]
ForFiles == [ForAll EXCEPT !.paths = { p \in MCPaths : Len(p) > 1 }]

MCRules == { <<>>, <<ForAll, ForSome, ForNone>>, <<ForSome, ForFiles, ForSome>>,
             <<ForNone, ForAll>>, <<ForTree, ForNone, ForTree>> }

Config(sources, mounts, rules) == [sources |-> sources, mounts |-> mounts, rules |-> rules]

MCConfigs ==
  { Config(s, m, r) : s \in MCSources, m \in MCMounts, r \in MCRules }
    \cup { Config(s, <<>>, <<>>) : s \in MCConflicts }
=============================================================================
