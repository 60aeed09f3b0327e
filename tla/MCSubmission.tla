----------------------------- MODULE MCSubmission -----------------------------
(***************************************************************************)
(* Values for the runs of SubmissionBundle and ReplayViewer.               *)
(***************************************************************************)
EXTENDS ReplayViewer, TLC

Sound  == <<"sound", "sound", "sound">>
ForgedAt2 == <<"sound", "forged", "sound">>

Ended(outcome, signed, records) ==
    [outcome |-> outcome, signed |-> signed, peer |-> "p", complete |-> TRUE,
     records |-> records]

Capture  == Ended("capture", TRUE, Sound)
Survival == Ended("survival", TRUE, Sound)
Failed   == Ended("technical_loss", FALSE, ForgedAt2)

\* A peer that leaves a field out of its identity, and one that says it is
\* another group.
Incomplete == [Capture EXCEPT !.complete = FALSE]
OtherPeer  == [Capture EXCEPT !.peer = "q"]

\* Captures alone are a tied series.
FourPlays == <<{Capture, Failed}, {Capture, Survival}, {Capture, Failed, OtherPeer},
               {Capture, Survival, Incomplete}>>
TwoPlays  == <<{Capture, Failed}, {Capture, Survival}>>
===============================================================================
