-------------------------------- MODULE MCTcp --------------------------------
(* Instance for TLC: heaps with room for one box, two for TCP streams. *)
EXTENDS Tcp

MCEnvLimit == [k \in {"tcp"} |-> 2]
MCLengths == {3}
=============================================================================
