-------------------------- MODULE MCBufferedReader --------------------------
(* Instance for TLC: lines longer and shorter than the buffer.              *)
EXTENDS BufferedReader
=============================================================================
