------------------------------ MODULE PlayWindow ------------------------------
(***************************************************************************)
(* The program a player starts: the simulated match of `simulate`, or the  *)
(* window of `play`.  cli/play.py asks for a mode and opens one window     *)
(* after the other on the same Tk root: PlayApp, which drives one          *)
(* interactive match, or NetworkMatchApp, which runs a peer server and a   *)
(* network match in two threads.                                           *)
(*                                                                         *)
(* Tk runs one callback at a time: a press, a click, a timer.  A dialog    *)
(* takes the input of the window under it but lets timers fire.  A timer   *)
(* of a closed window does nothing, so only those of the open one are kept.*)
(* The end of the process is left out.                                     *)
(***************************************************************************)
EXTENDS LocalMatch, Sequences

CONSTANTS
    MaxGames,  \* bound: windows opened
    MaxLogs    \* bound: lines a network match reports before its end

ASSUME PlayWindowAssumption ==
    /\ MaxGames \in Nat /\ MaxLogs \in Nat
    /\ None \notin {"play", "network", "select", "refused", "setup", "closing", "result",
                    "capture", "survival", "technical_loss"}

VARIABLES
    command, policy,  \* what main was asked for; the policies of a simulated match
    keySet,           \* GEMINI_API_KEY is set
    dialog,           \* the dialog that is open, or None
    chosen,           \* the mode whose window waits for the last one to close
    games,            \* windows opened so far
    app,              \* the open window: None, "play" or "network"
    mode,             \* match.mode
    barrierMode, paused,
    controls,         \* buttons enabled and click handler set
    timers,           \* pending after(500) callbacks
    afterId,          \* _agent_after_id is set
    shown,            \* what the board shows
    net               \* the network windows, in the order they were opened

playVars == <<mode, barrierMode, paused, controls, timers, afterId, shown>>
rootVars == <<command, policy, keySet, chosen, games, app>>
vars == <<matchVars, playVars, rootVars, dialog, net>>

Human == ControllerFor(mode, currentRole) = "human"
LocalModes == GameMode \ {"network_agent_vs_agent"}
HasAgent(m) == \E role \in Roles : ControllerFor(m, role) = "agent"

\* What the canvas is given to draw: the mover's cell, the other's when both
\* players share the screen, and the cells to glow.
View ==
    [role |-> currentRole, own |-> Own,
     opponent |-> IF mode = "human_vs_human" THEN Opponent ELSE None,
     legal |-> IF Human /\ ~barrierMode
               THEN {Destination(Own, move) : move \in LegalMoves} ELSE {}]

Render == shown' = View'

\* _enable_human_controls and _disable_human_controls.
SetControls(enabled, barrier) == controls' = enabled /\ barrierMode' = (barrier /\ enabled)

Dispatched ==
    \/ command = "play" /\ policy = None
    \/ command = "simulate" /\ policy \in Policies

Init ==
    /\ Dispatched
    /\ keySet \in BOOLEAN
    /\ FirstMatch
    /\ dialog = IF command = "play" THEN "select" ELSE None
    /\ chosen = None /\ games = 0 /\ app = None
    /\ mode = None /\ barrierMode = FALSE /\ paused = FALSE /\ controls = FALSE
    /\ timers = 0 /\ afterId = FALSE /\ shown = None /\ net = <<>>

-------------------------------------------------------------------------------
(* PlayApp.                                                                *)

\* _advance, on the state the caller leaves: pending timers, whether the id of
\* one is held, and the barrier mode.  A finished match is not drawn again.
Advance(pending, held, barrier) ==
    LET schedules == ~Finished' /\ ~Human' IN
    /\ dialog' = IF Finished' THEN "result" ELSE None
    /\ SetControls(~Finished' /\ Human', barrier)
    /\ timers' = IF schedules THEN pending + 1 ELSE pending
    /\ afterId' = (held \/ schedules)
    /\ IF Finished' THEN UNCHANGED shown ELSE Render

Playing == app = "play" /\ dialog = None
HumanMayAct == Playing /\ ~Finished /\ Human

\* A timer may fire under any dialog.  The agent's thinking blocks Tk.
AgentTurn ==
    /\ app = "play" /\ timers > 0
    /\ IF paused \/ Finished
       THEN /\ timers' = timers - 1 /\ afterId' = FALSE
            /\ UNCHANGED <<matchVars, mode, barrierMode, paused, controls, shown, dialog>>
       ELSE /\ \E move \in AgentMoves : ApplyMove(move)
            /\ UNCHANGED <<mode, paused>>
            /\ Advance(timers - 1, FALSE, barrierMode)
    /\ UNCHANGED <<rootVars, net>>

\* A button or a key; the keys stay bound when the buttons are disabled.
OnHumanMove(move) ==
    /\ HumanMayAct /\ move \in LegalMoves
    /\ ApplyMove(move)
    /\ UNCHANGED <<mode, paused>>
    /\ Advance(timers, afterId, FALSE)
    /\ UNCHANGED <<rootVars, net>>

ToggleBarrierMode ==
    /\ HumanMayAct /\ currentRole = "cop"
    /\ barrierMode' = ~barrierMode
    /\ UNCHANGED <<matchVars, rootVars, mode, paused, controls, timers, afterId, dialog, net>>
    /\ Render

\* A cell where no barrier can go, or that is no move away, is ignored.
OnCellClick(cell) ==
    /\ HumanMayAct /\ controls
    /\ IF barrierMode THEN PlaceBarrier(cell)
       ELSE \E move \in LegalMoves : Destination(Own, move) = cell /\ ApplyMove(move)
    /\ UNCHANGED <<mode, paused>>
    /\ Advance(timers, afterId, FALSE)
    /\ UNCHANGED <<rootVars, net>>

\* (Mutant) The timer of the agent is left running behind the dialog.
RequestNewGameOnly ==
    /\ Playing
    /\ paused' = TRUE
    /\ dialog' = "select"
    /\ UNCHANGED <<matchVars, rootVars, mode, barrierMode, controls, timers, afterId, shown, net>>

RequestNewGame ==
    /\ Playing
    /\ paused' = TRUE
    /\ timers' = IF afterId THEN timers - 1 ELSE timers
    /\ afterId' = FALSE
    /\ dialog' = "select"
    /\ UNCHANGED <<matchVars, rootVars, mode, barrierMode, controls, shown, net>>

DismissResult ==
    /\ dialog = "result" /\ dialog' = None
    /\ UNCHANGED <<matchVars, playVars, rootVars, net>>

-------------------------------------------------------------------------------
(* NetworkMatchApp.  Window w runs a server thread and a match thread;     *)
(* they report through a queue that a timer of the window empties.         *)

Windows == 1 .. Len(net)

NewWindow ==
    [closed |-> FALSE,        \* also the stop event of its threads
     left |-> FALSE,          \* close() went on without its server thread
     server |-> "starting", match |-> "running", lines |-> 0,
     events |-> <<>>, log |-> {}, status |-> "initializing", alert |-> FALSE]

PortTaken == \E w \in Windows : net[w].server = "listening"

\* What is reported to a closed window is not kept.
Report(w, kind) ==
    [net EXCEPT ![w].events = IF net[w].closed THEN @ ELSE Append(@, kind)]

\* run_peer_server.  The line is queued before the port is bound; uvicorn
\* leaves the thread without an exception the thread would report.
ServerStarts(w) ==
    /\ net[w].server = "starting"
    /\ net' = [Report(w, "listening") EXCEPT
                  ![w].server = IF PortTaken THEN "no_port" ELSE "listening"]
    /\ UNCHANGED <<matchVars, playVars, rootVars, dialog>>

ServerStops(w) ==
    /\ net[w].server = "listening" /\ net[w].closed
    /\ net' = [net EXCEPT ![w].server = "over"]
    /\ UNCHANGED <<matchVars, playVars, rootVars, dialog>>

\* The server cannot be built, or raises before it is told to stop.
ServerFails(w) ==
    /\ net[w].server \in {"starting", "listening"}
    /\ net' = [Report(w, "server_error") EXCEPT ![w].server = "over"]
    /\ UNCHANGED <<matchVars, playVars, rootVars, dialog>>

MatchReports(w) ==
    /\ net[w].match = "running" /\ net[w].lines < MaxLogs
    /\ net' = [Report(w, "log") EXCEPT ![w].lines = @ + 1]
    /\ UNCHANGED <<matchVars, playVars, rootVars, dialog>>

\* The result, or the exception that ended the match.
MatchEnds(w) ==
    /\ net[w].match = "running"
    /\ \E kind \in {"done", "error"} : net' = [Report(w, kind) EXCEPT ![w].match = "over"]
    /\ UNCHANGED <<matchVars, playVars, rootVars, dialog>>

Failures == {"error", "server_error"}

StatusOf(kind) ==
    CASE kind = "done" -> "complete" [] kind \in Failures -> "failed" [] OTHER -> "online"

\* (Mutant) One event is read and the rest of the queue dropped.
DrainFirst(w) ==
    /\ app = "network" /\ w = Len(net)
    /\ ~net[w].closed /\ ~net[w].alert /\ net[w].events # <<>>
    /\ LET kind == Head(net[w].events) IN
       net' = [net EXCEPT ![w].events = <<>>, ![w].log = @ \cup {kind},
                          ![w].status = StatusOf(kind), ![w].alert = (kind \in Failures)]
    /\ UNCHANGED <<matchVars, playVars, rootVars, dialog>>

\* The drain stops at an error until its message box is closed.
DrainEvents(w) ==
    /\ app = "network" /\ w = Len(net)
    /\ ~net[w].closed /\ ~net[w].alert /\ net[w].events # <<>>
    /\ LET kind == Head(net[w].events) IN
       net' = [net EXCEPT ![w].events = Tail(@), ![w].log = @ \cup {kind},
                          ![w].status = StatusOf(kind), ![w].alert = (kind \in Failures)]
    /\ UNCHANGED <<matchVars, playVars, rootVars, dialog>>

DismissAlert(w) ==
    /\ net[w].alert
    /\ net' = [net EXCEPT ![w].alert = FALSE]
    /\ UNCHANGED <<matchVars, playVars, rootVars, dialog>>

NewGame ==
    /\ app = "network" /\ dialog = None /\ ~net[Len(net)].alert
    /\ dialog' = "select"
    /\ UNCHANGED <<matchVars, playVars, rootVars, net>>

-------------------------------------------------------------------------------
(* select_and_start, which both windows call for a new game.               *)

\* The windows are those of before, the last of them closed.
OpenWindow(m, windows) ==
    /\ games' = games + 1 /\ chosen' = None
    /\ UNCHANGED <<command, policy, keySet>>
    /\ IF m \in LocalModes
       THEN /\ app' = "play" /\ mode' = m /\ paused' = FALSE
            /\ NewMatch
            /\ Advance(0, FALSE, FALSE)
            /\ net' = windows
       ELSE /\ app' = "network" /\ dialog' = None
            /\ net' = Append(windows, NewWindow)
            /\ mode' = None /\ paused' = FALSE /\ timers' = 0 /\ afterId' = FALSE
            /\ UNCHANGED <<matchVars, barrierMode, controls, shown>>

\* What the window shows goes with it, and nobody reads its queue any more.
Close(window) ==
    [window EXCEPT !.closed = TRUE, !.events = <<>>, !.log = {}, !.status = "gone"]

\* close().  A network window sets its stop event and waits for its server.
CloseAndOpen(m) ==
    IF app = "network"
    THEN /\ net' = [net EXCEPT ![Len(net)] = Close(@)]
         /\ dialog' = "closing" /\ chosen' = m
         /\ UNCHANGED <<matchVars, playVars, command, policy, keySet, games, app>>
    ELSE OpenWindow(m, net)

\* The thread of the window's server has ended.
ServerEnded(w) == net[w].server \in {"over", "no_port"}

\* (Mutant) The next window does not wait for the server of the last one.
JoinedAtOnce == dialog = "closing" /\ OpenWindow(chosen, net)

Joined ==
    /\ dialog = "closing" /\ ServerEnded(Len(net))
    /\ OpenWindow(chosen, net)

\* After three seconds close() goes on, and leaves the server to itself: it may
\* be binding its port still, or letting it go.
JoinTimesOut ==
    /\ dialog = "closing" /\ ~ServerEnded(Len(net))
    /\ OpenWindow(chosen, [net EXCEPT ![Len(net)].left = TRUE])

NoAlert == app = "network" => ~net[Len(net)].alert

SelectMode(m) ==
    /\ dialog = "select" /\ NoAlert /\ games < MaxGames
    /\ IF HasAgent(m) /\ ~keySet THEN dialog' = "refused" /\ UNCHANGED <<matchVars, playVars, rootVars, net>>
       ELSE IF m \notin LocalModes THEN dialog' = "setup" /\ UNCHANGED <<matchVars, playVars, rootVars, net>>
       ELSE CloseAndOpen(m)

ConfirmSetup ==
    /\ dialog = "setup" /\ NoAlert
    /\ CloseAndOpen("network_agent_vs_agent")

\* (Mutant) The match is released, but its next move is not scheduled.
CancelQuietly ==
    /\ dialog \in {"select", "refused", "setup"} /\ NoAlert
    /\ dialog' = None /\ paused' = FALSE
    /\ UNCHANGED <<matchVars, rootVars, mode, barrierMode, controls, timers, afterId, shown, net>>

\* No new game: the play window goes on where it was, and a program that has
\* no window ends.
CancelDialog ==
    /\ dialog \in {"select", "refused", "setup"} /\ NoAlert
    /\ IF app = "play"
       THEN /\ paused' = FALSE
            /\ UNCHANGED <<matchVars, mode>>
            /\ Advance(timers, afterId, barrierMode)
       ELSE dialog' = None /\ UNCHANGED <<matchVars, playVars>>
    /\ UNCHANGED <<rootVars, net>>

-------------------------------------------------------------------------------
Simulate ==
    /\ command = "simulate"
    /\ SimulatedCop(policy) \/ SimulatedThief(policy)
    /\ UNCHANGED <<playVars, rootVars, dialog, net>>

PlayNext ==
    \/ AgentTurn \/ ToggleBarrierMode \/ RequestNewGame \/ DismissResult
    \/ \E move \in Moves : OnHumanMove(move)
    \/ \E cell \in Cell : OnCellClick(cell)

NetworkNext(w) ==
    \/ ServerStarts(w) \/ ServerStops(w) \/ ServerFails(w) \/ MatchReports(w) \/ MatchEnds(w)
    \/ DrainEvents(w) \/ DismissAlert(w)

RootNext ==
    \/ \E m \in GameMode : SelectMode(m)
    \/ ConfirmSetup \/ CancelDialog \/ Joined \/ JoinTimesOut \/ NewGame

Next == PlayNext \/ (\E w \in Windows : NetworkNext(w)) \/ RootNext \/ Simulate

Spec == Init /\ [][Next]_vars

\* Tk fires a timer that is due; the threads run.  Nobody has to press a key,
\* close a dialog, or end a network match.
FairSpec ==
    /\ Spec
    /\ WF_vars(AgentTurn)
    /\ \A w \in 1 .. MaxGames : WF_vars(DrainEvents(w))

-------------------------------------------------------------------------------
\* One move is due exactly when an agent is to move in a match that goes on.
OneMoveIsDue == timers = IF paused \/ Finished \/ Human THEN 0 ELSE 1

\* A click places a barrier only for a human cop whose turn it is.
BarrierModeIsCops == barrierMode => Human /\ currentRole = "cop" /\ ~Finished

\* The board shows the turn that is played.
BoardShowsTheTurn == dialog = None /\ ~Finished => shown = View

\* The window offers just what the turn allows, whatever keys, clicks, timers
\* and dialogs came before: no timer is lost when a new game is called off, none
\* is left to play a turn of a human or a second one of the agent, no barrier
\* mode lasts into another turn, and the cells that glow are those the player
\* may go to (play_app.py:42-80, play_app_input.py:14-50).
OffersTheTurn == app = "play" => OneMoveIsDue /\ BarrierModeIsCops /\ BoardShowsTheTurn

\* A server misses its port only when close() gave up, after three seconds, on
\* the server of a window up to it: of one before, which may hold the port, or
\* on its own, which may come to bind it when the next window has it
\* (network_match_app.py:117-128, mcp_server.py:102-131).
PortIsReleased ==
    \A w \in Windows : net[w].server = "no_port" => \E v \in 1 .. w : net[v].left

\* Whoever chooses the moves, the match is the chase of the rules: turn about,
\* on free cells, caught at once or at the last action free
\* (interactive_match.py:153-208, simulation.py:69-133).
Umpire == INSTANCE LocalChase WITH
    cop <- positions["cop"], thief <- positions["thief"], walls <- blocked,
    actions <- IF command = "play" THEN turnsPlayed
               ELSE 2 * turnsPlayed + (IF Finished THEN (IF currentRole = "cop" THEN -1 ELSE 0)
                                       ELSE (IF currentRole = "cop" THEN 0 ELSE 1)),
    length <- IF command = "play" THEN MaxMoves ELSE 2 * Min({MaxMoves, SurvivalThreshold}),
    lawful <- command = "play" \/ policy = "placeholder",
    verdict <- IF Finished THEN outcome ELSE "open",
    Lengths <- 1 .. 2 * MaxMoves

PlaysTheChase == Umpire!Spec

\* Two agents play on until the match has ended, unless the player asks for
\* another: a dialog that is called off starts them again (play_app.py:68-80).
AgentsFinish ==
    (app = "play" /\ mode = "agent_vs_agent") ~> (Finished \/ paused)

\* A window that stays open tells how its match ended, whatever else is in the
\* queue, unless the message box of a failure waits for the player
\* (network_match_app.py:65-107).
Ended(w) == \E v \in Windows : v = w /\ net[v].match = "over"
Told(w)  == \E v \in Windows : v = w /\ net[v].log \cap {"done", "error"} # {}
Shut(w)  == \E v \in Windows : v = w /\ net[v].closed

Boxed(w) == \E v \in Windows : v = w /\ net[v].alert

EndIsShown == \A w \in 1 .. MaxGames : Ended(w) ~> Told(w) \/ Shut(w) \/ Boxed(w)
===============================================================================
