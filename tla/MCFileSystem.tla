---------------------------- MODULE MCFileSystem ----------------------------
(* Instance for TLC: a directory d with room for two entries, and a target o
   for links outside it. The program starts in any tree of these, up to the
   numbering of its files.                                                   *)
EXTENDS FileSystem

MCPaths == {<<"d">>, <<"d", "e">>, <<"d", "f">>, <<"o">>}
MCForeign == [mode |-> {"read", "execute"}, time |-> -1]
MCTargets == {<<"o">>}
MCContents == {<<"a", "b">>, <<"bad">>}

(* Files take the lowest inode not in use, in this order of the paths.       *)
MCOrder == <<<<"d">>, <<"d", "e">>, <<"d", "f">>, <<"o">>>>
MCNodes == {None, Dir, Link(<<"o">>)} \cup {File(i) : i \in 1..3}
Numbered(tree) ==
  \A n \in DOMAIN MCOrder : tree[MCOrder[n]].ino <=
    1 + Cardinality({tree[MCOrder[m]].ino : m \in 1..(n - 1)} \ {0})
MCStart == {tree \in [MCPaths -> MCNodes] : IsTree(tree) /\ Numbered(tree)}
=============================================================================
