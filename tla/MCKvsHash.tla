----------------------------- MODULE MCKvsHash -----------------------------
(***************************************************************************)
(* KvsHash with two slots, two keys of one slot and one of the other, and  *)
(* chunks of two units: a node fills a chunk, a key takes half of one, one *)
(* value fits and the other does not.                                      *)
(***************************************************************************)
EXTENDS KvsHash

CONSTANTS k1, k2, k3, small, big

MCKeys == {k1, k2, k3}
MCValues == {small, big}
MCKeySum == [k \in MCKeys |-> IF k = k3 THEN 3 ELSE IF k = k2 THEN 2 ELSE 4]
MCKeySize == [k \in MCKeys |-> 1]
MCValueSize == [v \in MCValues |-> IF v = big THEN 3 ELSE 1]
=============================================================================
