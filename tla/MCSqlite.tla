------------------------------ MODULE MCSqlite ------------------------------
(* Instance for TLC: two threads share two handles on two databases; bind
   gives one of two parameters, the same one twice, none, an unknown or an
   impossible name.                                                          *)
EXTENDS Sqlite, TLC

MCBindLists == {<<>>, <<<<"a", "v">>, <<"a", Null>>>>, <<<<"a", "v">>>>, <<<<"b", "v">>, <<"?", "v">>>>, <<<<"nul", "v">>>>}
Symmetry == Permutations(Threads) \cup Permutations(Handles)
=============================================================================
