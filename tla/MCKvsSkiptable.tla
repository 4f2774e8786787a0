--------------------------- MODULE MCKvsSkiptable ---------------------------
(***************************************************************************)
(* KvsSkiptable with three keys, two scores and three levels: six possible *)
(* nodes, so that a key has two entries, keys and scores are ordered       *)
(* differently, and a walk on an upper level jumps over the key it is      *)
(* looking for.  A value is v1 or missing.                                 *)
(***************************************************************************)
EXTENDS KvsSkiptable
=============================================================================
