---------------------------- MODULE MCKvsRbtree ----------------------------
(***************************************************************************)
(* KvsRbtree with enough keys for every case of both fixup loops, up to a  *)
(* defect that moves to the root.                                          *)
(***************************************************************************)
EXTENDS KvsRbtree
=============================================================================
