------------------------------ MODULE MCKvsRdb ------------------------------
(***************************************************************************)
(* KvsRdb for TLC.  The bounds are the keys per engine, the values and     *)
(* MaxTime; each configuration gives keys to the engines its question is   *)
(* about.                                                                  *)
(***************************************************************************)
EXTENDS KvsRdb
=============================================================================
