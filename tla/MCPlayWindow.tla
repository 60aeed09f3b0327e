----------------------------- MODULE MCPlayWindow -----------------------------
(***************************************************************************)
(* The starts of PlayWindow for TLC.                                       *)
(***************************************************************************)
EXTENDS PlayWindow

Corner == <<0, 0>>
Center == <<1, 1>>
===============================================================================
