------------------------------ MODULE MCEvasion -------------------------------
(***************************************************************************)
(* Instances of Evasion for TLC.                                           *)
(***************************************************************************)
EXTENDS Evasion

Corner   == <<0, 0>>
Middle   == <<1, 1>>
Opposite == <<Size - 1, Size - 1>>
=============================================================================
