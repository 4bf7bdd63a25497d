-------------------------------- MODULE MCHttp --------------------------------
(* Instance for TLC: two requests, so that the task of a first one that timed
   out can run while the second one waits.                                   *)
EXTENDS Http
=============================================================================
