----------------------------- MODULE MCReactor -----------------------------
(***************************************************************************)
(* Reactor with one polite and two rude clients, two descriptors, a buffer *)
(* of three units, packets of two units and packets that do not fit.  One  *)
(* rude client may have two packets under way; the other only comes and    *)
(* goes, and so takes and frees descriptors.                               *)
(***************************************************************************)
EXTENDS Reactor

CONSTANTS polite, sender, caller

MCMaxPackets == [x \in Clients |-> IF x = caller THEN 0 ELSE 2]
=============================================================================
