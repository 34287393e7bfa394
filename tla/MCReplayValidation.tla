------------------------- MODULE MCReplayValidation -------------------------
(* Instances of ReplayValidation for TLC: a text is named for what its     *)
(* passages hold, and every page is on one host.                           *)
EXTENDS ReplayValidation

OneHost == [u \in Urls |-> CHOOSE w \in Urls : TRUE]
Lengths == [t \in Texts |-> IF t \in Thin THEN 1 ELSE 2]
=============================================================================
