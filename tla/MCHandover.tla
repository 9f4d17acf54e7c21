------------------------------ MODULE MCHandover ------------------------------
(* Handover for TLC: streams of distinct packets. *)
EXTENDS Handover

Distinct2 == <<"a", "b">>
Distinct3 == <<"a", "b", "c">>
=============================================================================
