------------------------------- MODULE MCSeries -------------------------------
(***************************************************************************)
(* Values for the runs of Series.                                          *)
(***************************************************************************)
EXTENDS Series, TLC

Both     == BOOLEAN
===============================================================================
