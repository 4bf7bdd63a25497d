-------------------------------- MODULE MCCmd --------------------------------
(* Instance for TLC: two variables, one of them set in the host, and children
   that print more than a pipe of size 1 holds.                              *)
EXTENDS Cmd

MCParentEnv == [k \in {"PATH"} |-> "old"]
MCEnvLists == {<<>>, <<<<"PATH", "x">>, <<"FOO", "y">>>>}
MCScripts == {<<>>, <<"stderr", "stderr", "stdout", "stderr">>, <<"stdout", "stdout">>}
=============================================================================
