----------------------------- MODULE MCKvsArray -----------------------------
(***************************************************************************)
(* KvsArray on a table of three or four slots, with up to three keys: a    *)
(* hole before, between and after stored items, a refill that leaves total *)
(* past the last item, and a table that refuses a SET with a slot free.    *)
(***************************************************************************)
EXTENDS KvsArray, TLC

\* Keys and values are only compared for equality.
KeyValueSymmetry == Permutations(Keys) \cup Permutations(Values)
=============================================================================
