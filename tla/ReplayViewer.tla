----------------------------- MODULE ReplayViewer -----------------------------
(***************************************************************************)
(* The replay viewer (main.py: replay; gui/replay_gui.py) on a directory   *)
(* of SubmissionBundle: it loads a log and steps through it, by hand or    *)
(* with a timer.  The timer of a playback is never cancelled: it finds out *)
(* that the playback has stopped when it fires, and does not find out when *)
(* it has been started again meanwhile.                                    *)
(***************************************************************************)
EXTENDS SubmissionBundle

CONSTANTS
    Viewed,   \* bound: the sub-games whose logs are opened
    MaxTicks  \* bound: timers under way

ASSUME ViewerAssumption == Viewed \subseteq Numbers /\ MaxTicks \in Nat \ {0}

VARIABLE viewer   \* the window: its entries, step and timers, or None

allVars == <<vars, viewer>>

\* load_log: a list of records; every other document is a ReplayLogError.
Loads(n) == Readable(Log(n)) /\ files[Log(n)].form = "internal"

\* ReplaySession: the step shown at first.  A window on no entries cannot be
\* built.  The directory is looked at when no process writes in it.
Open(n) ==
    /\ viewer = None /\ phase = "idle" /\ Loads(n) /\ files[Log(n)].records # <<>>
    /\ viewer' = [entries |-> files[Log(n)].records, step |-> 1, playing |-> FALSE, ticks |-> 0]

Stopped(view) == [view EXCEPT !.playing = FALSE]

\* (Mutant) A playback that reaches the last step is not stopped.
AdvancedOnly(view) == [view EXCEPT !.step = IF @ < Len(view.entries) THEN @ + 1 ELSE @]

\* _on_next
Advanced(view) ==
    LET next == [view EXCEPT !.step = IF @ < Len(view.entries) THEN @ + 1 ELSE @]
    IN IF next.step = Len(view.entries) THEN Stopped(next) ELSE next

\* _tick: go on, and set the timer again unless that was the last step.
Ticked(view) ==
    IF ~view.playing THEN view
    ELSE LET next == Advanced(view)
         IN IF next.playing THEN [next EXCEPT !.ticks = @ + 1] ELSE next

Tick ==
    /\ viewer # None /\ viewer.ticks > 0
    /\ viewer' = Ticked([viewer EXCEPT !.ticks = @ - 1])

\* _on_toggle_play: a playback that starts makes its first step at once.
TogglePlay ==
    /\ viewer # None /\ viewer.ticks < MaxTicks
    /\ viewer' = IF viewer.playing THEN Stopped(viewer) ELSE Ticked([viewer EXCEPT !.playing = TRUE])

\* _on_next, _on_previous and _on_jump, which takes any number into the log.
StepForward == viewer # None /\ viewer' = Advanced(viewer)

StepBack ==
    /\ viewer # None
    /\ viewer' = [Stopped(viewer) EXCEPT !.step = IF @ > 1 THEN @ - 1 ELSE @]

Jump ==
    /\ viewer # None
    /\ \E target \in DOMAIN viewer.entries : viewer' = [Stopped(viewer) EXCEPT !.step = target]

Close == viewer # None /\ viewer' = None

ViewerStep ==
    \/ \E n \in Viewed : Open(n)
    \/ Tick \/ TogglePlay \/ StepForward \/ StepBack \/ Jump \/ Close

ViewerNext ==
    \/ viewer = None /\ Next /\ UNCHANGED viewer
    \/ ViewerStep /\ UNCHANGED vars

ViewerInit == Init /\ viewer = None

\* A timer fires; a running process of the series goes on.
ViewerSpec ==
    /\ ViewerInit /\ [][ViewerNext]_allVars
    /\ WF_allVars(viewer = None /\ ProcessStep /\ UNCHANGED viewer)
    /\ WF_allVars(Tick /\ UNCHANGED vars)

-----------------------------------------------------------------------------
\* A playback comes to its end, or is closed, whatever is pressed meanwhile
\* (replay_gui.py:131-152).
PlaybackEnds == (viewer # None /\ viewer.playing) ~> (viewer = None \/ ~viewer.playing)

\* The logs of a series that has been submitted can be opened.
SubmittedLogsReplay == mail # <<>> => \A n \in Numbers : Loads(n)
===============================================================================
