---------------------------- MODULE MCNtycoReader ----------------------------
(***************************************************************************)
(* NtycoReader with a header of two bytes, at most two bytes of data and a *)
(* buffer of six: one and a half of the largest packets.  Packets of five  *)
(* data bytes stand for those parse_tcp_header refuses.                    *)
(***************************************************************************)
EXTENDS NtycoReader
=============================================================================
