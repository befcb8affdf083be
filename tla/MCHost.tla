------------------------------- MODULE MCHost -------------------------------
(***************************************************************************)
(* Small instances with which TLC checks Wrappers.  An application that    *)
(* uses every call at once has far too many states; each scope has the     *)
(* calls, the other programs and the tree in which some of them interact.  *)
(***************************************************************************)
EXTENDS Wrappers, TLC

CONSTANT Selected   \* the scopes to check

MCNames    == <<"a", "b", "d">>
MCTagOrder == <<"ReadAce", "WriteAce", "Other", "FileAttributes", "Compression">>
MCContents == {<<4>>}

MCPaths == {<<>>} \cup {<<x>> : x \in {"a", "d"}} \cup {<<x, y>> : x \in {"a", "d"}, y \in {"a", "d"}} \cup {<<"d", "b">>}

\* A file a, and a directory d with a file of one block.
Tree(a, d, inner) ==
  (<<>> :> [node |-> 1, kind |-> "Directory", data |-> <<>>]) @@
  (<<"a">> :> [node |-> 2, kind |-> "File", data |-> a]) @@
  (IF d THEN <<"d">> :> [node |-> 3, kind |-> "Directory", data |-> <<>>] ELSE <<>>) @@
  (IF inner THEN <<"d", "a">> :> [node |-> 4, kind |-> "File", data |-> <<1>>] ELSE <<>>)

\* The directory d has an empty directory and another file as well.
Full ==
  Tree(<<1, 2>>, TRUE, TRUE) @@
  (<<"d", "b">> :> [node |-> 5, kind |-> "Directory", data |-> <<>>]) @@
  (<<"d", "d">> :> [node |-> 6, kind |-> "File", data |-> <<2>>])

Without(tree, paths) == [p \in DOMAIN tree \ paths |-> tree[p]]

MCScopes ==
  { scope \in
    { [id |-> "content", rooted |-> FALSE, tree |-> Tree(<<1, 2>>, FALSE, FALSE),
       uses |-> {"getSize", "truncate", "setContent", "getContent", "getContentBuffer", "readContentByName",
                 "others create", "others remove", "others write", "others protect"}],
      [id |-> "handles", rooted |-> FALSE, tree |-> Tree(<<1, 2>>, FALSE, FALSE),
       uses |-> {"open", "transfer", "readContent", "readContentSize", "fileGetContent", "eof", "others write"}],
      [id |-> "owners", rooted |-> FALSE, tree |-> Tree(<<1>>, FALSE, FALSE),
       uses |-> {"open", "release", "eof", "getSize", "deviceRead"}],
      [id |-> "devices", rooted |-> FALSE, tree |-> Tree(<<1, 2, 3>>, FALSE, FALSE),
       uses |-> {"open", "deviceRead", "deviceWrite", "deviceErase", "others write"}],
      [id |-> "names", rooted |-> TRUE, tree |-> Tree(<<1, 2>>, TRUE, FALSE),
       uses |-> {"mount", "mkdir", "remove", "rename", "makedirs"}],
      [id |-> "listing", rooted |-> FALSE, tree |-> Full, uses |-> {"next", "remove"}],
      [id |-> "vanishing", rooted |-> FALSE, tree |-> Without(Full, {<<"a">>, <<"d", "b">>}),
       uses |-> {"next", "others remove"}],
      [id |-> "appearing", rooted |-> FALSE, tree |-> Without(Full, {<<"d", "b">>}), uses |-> {"next", "others create"}],
      [id |-> "unmountable", rooted |-> TRUE, uses |-> {"mount", "setContent", "next", "setxattr", "fenumxattr"},
       tree |-> <<>> :> [node |-> 1, kind |-> "File", data |-> <<>>]],
      [id |-> "attributes", rooted |-> FALSE, tree |-> Tree(<<1>>, TRUE, FALSE),
       uses |-> {"setxattr", "getxattr", "stat", "others tag", "others protect", "others remove"}],
      [id |-> "attributes by handle", rooted |-> FALSE, tree |-> Tree(<<1>>, FALSE, FALSE),
       uses |-> {"open", "fsetxattr", "setacl", "fstat", "fenumxattr", "others tag"}] }
    : scope.id \in Selected }

MCAttrSize == ("ModifiedTime" :> 4) @@ ("ReadAce" :> 1) @@ ("WriteAce" :> 1) @@
              ("FileAttributes" :> 1) @@ ("Compression" :> 5)

Call(fn, path) == [NoCall EXCEPT !.fn = fn, !.path = path]
Value(v, size) == [value |-> v, size |-> size]
Set(fn, path, tag, attr) == [Call(fn, path) EXCEPT !.tag = tag, !.attr = attr]

Slash == <<"", "a">>

MCRequests ==
  {Call(fn, <<"a">>) : fn \in {"getSize", "getContent", "readContentByName", "open"}} \cup
  {[Call("truncate", <<"a">>) EXCEPT !.n = n] : n \in {1, 4, 5}} \cup
  {[Call("getContentBuffer", <<"a">>) EXCEPT !.n = 2]} \cup
  {[Call("setContent", p) EXCEPT !.data = data] : p \in {<<"a">>, Slash}, data \in {<<3, 3>>}} \cup
  {[Call("readContent", <<>>) EXCEPT !.at = "read"],
   [Call("readContentSize", <<>>) EXCEPT !.at = "read", !.n = 3],
   Call("fileGetContent", <<>>), Call("eof", <<>>)} \cup
  {[Call("deviceRead", <<>>) EXCEPT !.n = n, !.data = <<0, 0>>] : n \in 1..2} \cup
  {[Call("deviceWrite", <<>>) EXCEPT !.n = 1, !.data = <<3, 3>>]} \cup
  {[Call("deviceErase", <<>>) EXCEPT !.n = 0, !.data = <<0, 0, 0>>]} \cup
  {Call("next", <<"d">>)} \cup
  {Call(fn, p) : fn \in {"mkdir", "remove"}, p \in {<<"d">>, <<"d", "a">>}} \cup
  {[Call("rename", p) EXCEPT !.to = q] : p \in {<<"a">>, <<"d">>}, q \in {<<"d", "a">>, <<"a">>}} \cup
  {Call("makedirs", p) : p \in {<<"d", "d", "">>, <<"a", "d", "">>, <<"", "d", "">>}} \cup
  {[Call("stat", p) EXCEPT !.at = "stat"] : p \in {<<"a">>, <<"d">>}} \cup
  {Set("setxattr", <<"a">>, tag, Value(v, 1)) : tag \in {"ReadAce"}, v \in {1}} \cup
  {Set("setxattr", p, "FileAttributes", Value({"Archive"}, 1)) : p \in {<<"a">>, <<"d">>}} \cup
  {Set("setxattr", <<"a">>, "ModifiedTime", Value("Past", size)) : size \in {3, 4}} \cup
  {[Call("getxattr", <<"a">>) EXCEPT !.tag = tag, !.n = 1] : tag \in {"ReadAce", "ModifiedTime"}} \cup
  {Set("fsetxattr", <<>>, "Compression", Value("gzip", size)) : size \in {4, 5}} \cup
  {Set("fsetxattr", <<>>, "Compression", Value("none", 5))} \cup
  {Set("fsetxattr", <<>>, "ModifiedTime", Value("Past", 4))} \cup
  {Set("setacl", <<>>, "", Value(v, 1)) : v \in {1}} \cup
  {Call("fstat", <<>>), [Call("fenumxattr", <<>>) EXCEPT !.n = 1]}

MCFlagSets == {{"Read"}, {"Read", "Write", "Create"}, {"Write", "Append", "Truncate"}}
=============================================================================
