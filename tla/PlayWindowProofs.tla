--------------------------- MODULE PlayWindowProofs ---------------------------
(***************************************************************************)
(* For every board, barrier budget, length of the match and number of      *)
(* windows: the play window offers just what the turn allows, the server   *)
(* of a network window misses its port only when close() gave up waiting   *)
(* for one, and every match, in a window or simulated, is the chase of the *)
(* rules: it implements LocalChase.                                        *)
(***************************************************************************)
EXTENDS PlayWindow, SequenceTheorems, TLAPS

Asking == {"select", "refused", "setup"}

\* A play window between two callbacks.  The match is paused exactly while a
\* new game is being asked for, and the id of a timer is held while one runs.
Offer ==
    /\ OneMoveIsDue /\ BarrierModeIsCops /\ BoardShowsTheTurn
    /\ afterId <=> timers # 0
    /\ paused <=> dialog \in Asking
    /\ dialog = "result" => Finished

\* A simulated match opens no window and asks for nothing.
RootInv ==
    /\ app \in {None, "play", "network"}
    /\ dialog \in {None, "result", "closing"} \cup Asking
    /\ afterId \in BOOLEAN /\ barrierMode \in BOOLEAN
    /\ dialog = "result" => app = "play"
    /\ dialog = "closing" => app = "network"
    /\ command = "simulate" => app = None /\ dialog = None

OfferInv == RootInv /\ (app = "play" => Offer)

-------------------------------------------------------------------------------
(* The play window.                                                        *)

\* Whoever calls _advance with no timer pending and the match not paused leaves
\* the window in order.
LEMMA AdvanceOffers ==
    ASSUME NEW barrier \in BOOLEAN, Advance(0, FALSE, barrier), ~paused', barrier => currentRole' = "cop"
    PROVE  /\ Offer'
           /\ dialog' \in {None, "result"}
           /\ afterId' \in BOOLEAN /\ barrierMode' \in BOOLEAN
<1>1. dialog' = IF Finished' THEN "result" ELSE None
  BY DEF Advance
<1>2. timers' = IF ~Finished' /\ ~Human' THEN 1 ELSE 0
  BY DEF Advance
<1>3. afterId' = (~Finished' /\ ~Human')
  BY DEF Advance
<1>4. barrierMode' = (barrier /\ ~Finished' /\ Human')
  BY DEF Advance, SetControls
<1>5. ~Finished' => shown' = View'
  BY DEF Advance, Render
<1>6. OneMoveIsDue'
  BY <1>2 DEF OneMoveIsDue
<1>7. BarrierModeIsCops'
  BY <1>4 DEF BarrierModeIsCops
<1>8. BoardShowsTheTurn'
  BY <1>5 DEF BoardShowsTheTurn
<1>9. dialog' \notin Asking
  BY <1>1, PlayWindowAssumption DEF Asking
<1>10. dialog' = "result" => Finished'
  BY <1>1, PlayWindowAssumption
<1>11. afterId' <=> timers' # 0
  <2>1. CASE ~Finished' /\ ~Human'
    <3>1. timers' = 1 /\ 1 # 0
      BY <1>2, <2>1
    <3> QED BY <1>3, <2>1, <3>1, Zenon
  <2>2. CASE ~(~Finished' /\ ~Human')
    <3>1. timers' = 0
      BY <1>2, <2>2
    <3> QED BY <1>3, <2>2, <3>1, Zenon
  <2> QED BY <2>1, <2>2
<1> QED BY <1>1, <1>3, <1>4, <1>6, <1>7, <1>8, <1>9, <1>10, <1>11 DEF Offer

LEMMA InitOffer == Init => OfferInv
BY PlayWindowAssumption DEF Init, Dispatched, OfferInv, RootInv, Asking

\* _advance, called for a match in which an action has been taken or that goes
\* on: no timer is pending, for a human is to move or the only one has fired.
LEMMA WindowAdvances ==
    ASSUME barrierMode \in BOOLEAN, ~paused', app' = "play",
           \/ Advance(0, FALSE, FALSE)
           \/ Advance(0, FALSE, barrierMode) /\ (barrierMode => currentRole' = "cop")
    PROVE  Offer' /\ dialog' \in {None, "result"} /\ afterId' \in BOOLEAN /\ barrierMode' \in BOOLEAN
<1>1. CASE Advance(0, FALSE, FALSE)
  BY <1>1, AdvanceOffers
<1>2. CASE Advance(0, FALSE, barrierMode) /\ (barrierMode => currentRole' = "cop")
  <2>1. PICK b \in BOOLEAN : b = barrierMode
    OBVIOUS
  <2>2. Advance(0, FALSE, b)
    BY <1>2, <2>1 DEF Advance, SetControls
  <2>3. b => currentRole' = "cop"
    BY <1>2, <2>1
  <2> QED BY <2>1, <2>2, <2>3, AdvanceOffers
<1> QED BY <1>1, <1>2

\* A window is opened by closing the last one or without one.
LEMMA OpenOffers ==
    ASSUME OfferInv, NEW m, NEW windows, OpenWindow(m, windows), command # "simulate"
    PROVE  OfferInv'
<1>1. command' # "simulate"
  BY DEF OpenWindow
<1>2. CASE m \in LocalModes
  <2>1. app' = "play" /\ ~paused' /\ Advance(0, FALSE, FALSE)
    BY <1>2 DEF OpenWindow
  <2>2. Offer' /\ dialog' \in {None, "result"} /\ afterId' \in BOOLEAN /\ barrierMode' \in BOOLEAN
    BY <2>1, AdvanceOffers
  <2> QED BY <1>1, <2>1, <2>2, PlayWindowAssumption DEF OfferInv, RootInv
<1>3. CASE m \notin LocalModes
  BY <1>1, <1>3, PlayWindowAssumption DEF OpenWindow, OfferInv, RootInv
<1> QED BY <1>2, <1>3

\* Closing a window and opening the next one.
LEMMA CloseOffers ==
    ASSUME OfferInv, NEW m, CloseAndOpen(m), command # "simulate"
    PROVE  OfferInv'
<1>1. CASE app = "network"
  BY <1>1 DEF CloseAndOpen, OfferInv, RootInv, playVars
<1>2. CASE app # "network"
  <2>1. OpenWindow(m, net)
    BY <1>2 DEF CloseAndOpen
  <2> QED BY <2>1, OpenOffers
<1> QED BY <1>1, <1>2

\* What a step that leaves the window alone leaves to it.
LEMMA WindowUntouched ==
    ASSUME UNCHANGED <<matchVars, playVars, dialog>>
    PROVE  Offer' <=> Offer
BY DEF matchVars, playVars, Offer, OneMoveIsDue, BarrierModeIsCops, BoardShowsTheTurn,
       Finished, Human, View, Own, Opponent, LegalMoves, Legal

LEMMA PlayNextOffers == OfferInv /\ PlayNext => OfferInv'
<1> SUFFICES ASSUME OfferInv, PlayNext PROVE OfferInv'
  OBVIOUS
<1> USE DEF OfferInv, RootInv
<1>1. app = "play" /\ app' = "play" /\ command' = command /\ command # "simulate" /\ Offer
  BY PlayWindowAssumption DEF PlayNext, AgentTurn, ToggleBarrierMode, RequestNewGame, DismissResult,
     OnHumanMove, OnCellClick, HumanMayAct, Playing, rootVars
<1>2. CASE AgentTurn
  <2>1. timers = 1 /\ ~paused /\ ~Finished /\ ~Human
    BY <1>1, <1>2 DEF AgentTurn, Offer, OneMoveIsDue
  <2>2. ~barrierMode
    BY <1>1, <2>1 DEF Offer, BarrierModeIsCops
  <2>3. ~paused' /\ Advance(0, FALSE, barrierMode)
    BY <1>2, <2>1 DEF AgentTurn, Advance
  <2> QED BY <1>1, <2>2, <2>3, WindowAdvances, PlayWindowAssumption
<1>3. ASSUME HumanMayAct, UNCHANGED paused, Advance(timers, afterId, FALSE) PROVE OfferInv'
  <2>1. timers = 0 /\ ~afterId /\ ~paused
    BY <1>1, <1>3, PlayWindowAssumption DEF HumanMayAct, Playing, Offer, OneMoveIsDue, Asking
  <2>2. Advance(0, FALSE, FALSE)
    BY <1>3, <2>1 DEF Advance
  <2> QED BY <1>1, <1>3, <2>1, <2>2, AdvanceOffers, PlayWindowAssumption
<1>4. CASE \E move \in Moves : OnHumanMove(move)
  BY <1>3, <1>4 DEF OnHumanMove
<1>5. CASE \E cell \in Cell : OnCellClick(cell)
  BY <1>3, <1>5 DEF OnCellClick
<1>6. CASE ToggleBarrierMode
  <2>1. Human' = Human /\ Finished' = Finished /\ currentRole' = currentRole
    BY <1>6 DEF ToggleBarrierMode, matchVars, Human, Finished
  <2>2. Human /\ ~Finished /\ currentRole = "cop"
    BY <1>6 DEF ToggleBarrierMode, HumanMayAct
  <2>3. barrierMode' \in BOOLEAN /\ UNCHANGED <<timers, afterId, paused, dialog>> /\ shown' = View'
    BY <1>6 DEF ToggleBarrierMode, Render
  <2>4. Offer'
    BY <1>1, <2>1, <2>2, <2>3 DEF Offer, OneMoveIsDue, BarrierModeIsCops, BoardShowsTheTurn
  <2> QED BY <1>1, <2>3, <2>4
<1>7. CASE RequestNewGame
  <2>1. UNCHANGED <<matchVars, mode, barrierMode, shown>>
    BY <1>7 DEF RequestNewGame
  <2>2. Human' = Human /\ Finished' = Finished /\ currentRole' = currentRole
    BY <2>1 DEF matchVars, Human, Finished
  <2>3. paused' /\ dialog' = "select" /\ afterId' = FALSE
    BY <1>7 DEF RequestNewGame
  <2>4. timers' = 0
    BY <1>1, <1>7 DEF RequestNewGame, Offer, OneMoveIsDue
  <2>5. Offer'
    BY <1>1, <2>1, <2>2, <2>3, <2>4, PlayWindowAssumption
       DEF Offer, OneMoveIsDue, BarrierModeIsCops, BoardShowsTheTurn, Asking
  <2> QED BY <1>1, <2>1, <2>3, <2>5 DEF Asking
<1>8. CASE DismissResult
  <2>1. UNCHANGED <<matchVars, playVars>> /\ Finished /\ dialog' = None /\ dialog = "result"
    BY <1>1, <1>8 DEF DismissResult, Offer
  <2>2. Human' = Human /\ Finished' /\ currentRole' = currentRole
    BY <2>1 DEF matchVars, playVars, Human, Finished
  <2>3. Offer'
    BY <1>1, <2>1, <2>2, PlayWindowAssumption
       DEF Offer, OneMoveIsDue, BarrierModeIsCops, BoardShowsTheTurn, Asking, playVars
  <2> QED BY <1>1, <2>1, <2>3, PlayWindowAssumption DEF playVars
<1> QED BY <1>2, <1>4, <1>5, <1>6, <1>7, <1>8 DEF PlayNext

LEMMA RootNextOffers == OfferInv /\ RootNext => OfferInv'
<1> SUFFICES ASSUME OfferInv, RootNext PROVE OfferInv'
  OBVIOUS
<1> USE DEF OfferInv, RootInv
<1>1. command # "simulate" /\ command' = command
  BY PlayWindowAssumption DEF RootNext, SelectMode, ConfirmSetup, CancelDialog, Joined, JoinTimesOut, NewGame,
     CloseAndOpen, OpenWindow, rootVars
<1>2. ASSUME dialog \in Asking, dialog' \in Asking, UNCHANGED <<matchVars, playVars, rootVars>>
      PROVE  OfferInv'
  <2>1. Human' = Human /\ Finished' = Finished /\ currentRole' = currentRole
    BY <1>2 DEF matchVars, playVars, Human, Finished
  <2> QED BY <1>1, <1>2, <2>1, PlayWindowAssumption
          DEF Offer, OneMoveIsDue, BarrierModeIsCops, BoardShowsTheTurn, Asking, playVars, rootVars
<1>3. ASSUME NEW m \in GameMode, SelectMode(m) PROVE OfferInv'
  BY <1>1, <1>2, <1>3, CloseOffers DEF SelectMode, Asking
<1>4. CASE ConfirmSetup
  BY <1>1, <1>4, CloseOffers DEF ConfirmSetup
<1>5. CASE CancelDialog
  <2>1. CASE app = "play"
    <3>1. timers = 0 /\ ~afterId
      BY <1>5, <2>1 DEF CancelDialog, Offer, OneMoveIsDue, Asking
    <3>2. ~paused' /\ Advance(0, FALSE, barrierMode) /\ UNCHANGED <<matchVars, rootVars>>
      BY <1>5, <2>1, <3>1 DEF CancelDialog, Advance
    <3>3. barrierMode => currentRole' = "cop"
      BY <2>1, <3>2 DEF Offer, BarrierModeIsCops, matchVars
    <3>4. app' = "play" /\ command' = command
      BY <2>1, <3>2 DEF rootVars
    <3> QED BY <1>1, <3>2, <3>3, <3>4, WindowAdvances, PlayWindowAssumption
  <2>2. CASE app # "play"
    BY <1>1, <1>5, <2>2, PlayWindowAssumption DEF CancelDialog, playVars, rootVars
  <2> QED BY <2>1, <2>2
<1>6. CASE Joined \/ JoinTimesOut
  <2>1. PICK m, windows : OpenWindow(m, windows)
    BY <1>6 DEF Joined, JoinTimesOut
  <2> QED BY <1>1, <2>1, OpenOffers
<1>7. CASE NewGame
  BY <1>1, <1>7 DEF NewGame, playVars, rootVars, Asking
<1> QED BY <1>3, <1>4, <1>5, <1>6, <1>7 DEF RootNext

LEMMA NextOffers == OfferInv /\ [Next]_vars => OfferInv'
<1> SUFFICES ASSUME OfferInv, [Next]_vars PROVE OfferInv'
  OBVIOUS
<1>1. ASSUME UNCHANGED <<playVars, rootVars, dialog>>, app = "play" => UNCHANGED matchVars
      PROVE  OfferInv'
  BY <1>1, WindowUntouched DEF OfferInv, RootInv, playVars, rootVars
<1>2. ASSUME NEW w \in Windows, NetworkNext(w) PROVE OfferInv'
  BY <1>1, <1>2 DEF NetworkNext, ServerStarts, ServerStops, ServerFails, MatchReports, MatchEnds, DrainEvents, DismissAlert
<1>3. CASE Simulate
  BY <1>1, <1>3, PlayWindowAssumption DEF Simulate, OfferInv, RootInv
<1>4. CASE UNCHANGED vars
  BY <1>1, <1>4 DEF vars
<1> QED BY <1>2, <1>3, <1>4, PlayNextOffers, RootNextOffers DEF Next

\* At every turn of every match, whatever keys, clicks, timers and dialogs came
\* before, the play window offers just what the turn allows (play_app.py:42-80,
\* play_app_input.py:14-50).
THEOREM TurnIsOffered == Spec => []OffersTheTurn
<1>1. OfferInv => OffersTheTurn
  BY DEF OfferInv, Offer, OffersTheTurn
<1> QED BY InitOffer, NextOffers, <1>1, PTL DEF Spec

-------------------------------------------------------------------------------
(* The network windows.                                                    *)

Kinds == {"listening", "log", "done", "error", "server_error"}

Window ==
    [closed : BOOLEAN, left : BOOLEAN,
     server : {"starting", "listening", "over", "no_port"}, match : {"running", "over"},
     lines : Nat, events : Seq(Kinds), log : SUBSET Kinds,
     status : {"initializing", "online", "complete", "failed", "gone"}, alert : BOOLEAN]

\* The server of the window has not ended, and close() has not given it up.
Serves(window) == window.server \notin {"over", "no_port"} /\ ~window.left

\* If the server has missed its port, one up to it was given up.
Released(windows, w) == windows[w].server = "no_port" => \E v \in 1 .. w : windows[v].left

\* Only the window that is open may have a server that was not given up: the
\* next one is opened when the server of this one has ended, or gives it up.
PortInv ==
    /\ net \in Seq(Window)
    /\ app = "network" => net # <<>>
    /\ dialog = "closing" => app = "network"
    /\ \A w \in 1 .. Len(net) : Serves(net[w]) => app = "network" /\ w = Len(net)
    /\ \A w \in 1 .. Len(net) : Released(net, w)

\* A server that is given up stays so, whatever else becomes of the windows.
LEMMA ReleasedStays ==
    ASSUME NEW windows, NEW next, NEW w \in Nat, Released(windows, w),
           next[w].server = windows[w].server,
           \A v \in 1 .. w : windows[v].left => next[v].left
    PROVE  Released(next, w)
BY DEF Released

\* A thread or a callback changes one window, and the server of the others not.
LEMMA WindowStep ==
    ASSUME PortInv, NEW w \in Windows, NEW next \in Window,
           net' = [net EXCEPT ![w] = next], UNCHANGED app, dialog' = "closing" => app = "network",
           net[w].left => next.left,
           Serves(next) => app = "network" /\ w = Len(net),
           next.server = "no_port" =>
               \/ net[w].server = "no_port" \/ next.left
               \/ \E v \in 1 .. w - 1 : net[v].left
    PROVE  PortInv'
<1>1. net' \in Seq(Window) /\ Len(net') = Len(net) /\ Len(net) \in Nat
  BY ExceptSeq DEF PortInv, Windows
<1>2. \A v \in 1 .. Len(net) : net'[v] = IF v = w THEN next ELSE net[v]
  BY DEF PortInv, Windows
<1>3. w \in 1 .. Len(net)
  BY DEF Windows
<1>4. \A v \in 1 .. Len(net) : net[v].left => net'[v].left
  BY <1>2
<1>5. ASSUME NEW v \in 1 .. Len(net')
      PROVE  Serves(net'[v]) => app' = "network" /\ v = Len(net')
  <2>1. v \in 1 .. Len(net)
    BY <1>1
  <2>2. CASE v = w
    BY <1>1, <1>2, <2>1, <2>2
  <2>3. CASE v # w
    BY <1>1, <1>2, <2>1, <2>3 DEF PortInv
  <2> QED BY <2>2, <2>3
<1>6. ASSUME NEW v \in 1 .. Len(net') PROVE Released(net', v)
  <2>1. v \in 1 .. Len(net) /\ v \in Nat /\ 1 .. v \subseteq 1 .. Len(net) /\ Released(net, v)
    <3>1. v \in 1 .. Len(net) /\ v \in Nat /\ 1 .. v \subseteq 1 .. Len(net)
      BY <1>1
    <3> QED BY <3>1 DEF PortInv
  <2>2. \A u \in 1 .. v : net[u].left => net'[u].left
    BY <1>4, <2>1
  <2>3. CASE v # w \/ next.server = net[w].server
    <3>1. net'[v].server = net[v].server
      BY <1>2, <2>1, <2>3
    <3> QED BY <2>1, <2>2, <3>1, ReleasedStays
  <2>4. CASE v = w /\ next.server # net[w].server
    <3>1. net'[v] = next
      BY <1>2, <2>1, <2>4
    <3>2. CASE next.server # "no_port"
      BY <3>1, <3>2 DEF Released
    <3>3. CASE next.left
      BY <2>1, <3>1, <3>3 DEF Released
    <3>4. CASE \E u \in 1 .. w - 1 : net[u].left
      <4>1. PICK u \in 1 .. w - 1 : net[u].left
        BY <3>4
      <4>2. u \in 1 .. v
        BY <2>1, <2>4
      <4> QED BY <2>2, <4>1, <4>2 DEF Released
    <3> QED BY <2>4, <3>2, <3>3, <3>4
  <2> QED BY <2>3, <2>4
<1>7. net # <<>> => net' # <<>>
  BY <1>1, EmptySeq DEF PortInv
<1> QED BY <1>1, <1>5, <1>6, <1>7 DEF PortInv

LEMMA NetworkNextPort ==
    ASSUME PortInv, NEW w \in Windows, NetworkNext(w)
    PROVE  PortInv'
<1>1. UNCHANGED <<app, dialog>>
  BY DEF NetworkNext, ServerStarts, ServerStops, ServerFails, MatchReports, MatchEnds, DrainEvents, DismissAlert, rootVars
<1>2. /\ w \in 1 .. Len(net) /\ net \in Seq(Window) /\ net[w] \in Window
      /\ net[w].events \in Seq(Kinds) /\ net[w].lines \in Nat /\ net[w].log \subseteq Kinds
  <2>1. w \in 1 .. Len(net) /\ net \in Seq(Window)
    BY DEF PortInv, Windows
  <2>2. net[w] \in Window
    BY <2>1
  <2> QED BY <2>1, <2>2 DEF Window
<1>3. Serves(net[w]) => app = "network" /\ w = Len(net)
  BY <1>2 DEF PortInv
<1>4. SUFFICES \E next \in Window :
                  /\ net' = [net EXCEPT ![w] = next] /\ next.left = net[w].left
                  /\ next.server \in {net[w].server, "listening", "over", "no_port"}
                  /\ next.server = "no_port" => net[w].server = "no_port" \/ \E v \in 1 .. w : net[v].left
                  /\ next.server = "listening" => net[w].server \in {"starting", "listening"}
  <2>1. PICK next \in Window :
          /\ net' = [net EXCEPT ![w] = next] /\ next.left = net[w].left
          /\ next.server \in {net[w].server, "listening", "over", "no_port"}
          /\ next.server = "no_port" => net[w].server = "no_port" \/ \E v \in 1 .. w : net[v].left
          /\ next.server = "listening" => net[w].server \in {"starting", "listening"}
    BY <1>4
  <2>2. Serves(next) => app = "network" /\ w = Len(net)
    BY <1>2, <1>3, <2>1 DEF Serves, Window
  <2>3. next.server = "no_port" =>
            net[w].server = "no_port" \/ next.left \/ \E v \in 1 .. w - 1 : net[v].left
    BY <1>2, <2>1
  <2>4. dialog' = "closing" => app = "network"
    BY <1>1 DEF PortInv
  <2> QED BY <1>1, <2>1, <2>2, <2>3, <2>4, WindowStep
<1> DEFINE Reported(kind) == IF net[w].closed THEN net[w].events ELSE Append(net[w].events, kind)
<1>5. \A kind \in Kinds : Reported(kind) \in Seq(Kinds)
  BY <1>2
<1>6. CASE ServerStarts(w)
  <2> DEFINE reached == IF PortTaken THEN "no_port" ELSE "listening"
             next == [net[w] EXCEPT !.events = Reported("listening"), !.server = reached]
  <2>1. net[w].server = "starting"
    BY <1>6 DEF ServerStarts
  <2>2. net' = [net EXCEPT ![w] = next]
    BY <1>2, <1>6 DEF ServerStarts, Report, Window
  <2>3. Reported("listening") \in Seq(Kinds)
    BY <1>5 DEF Kinds
  <2> HIDE DEF Reported
  <2>4. next \in Window /\ next.server = reached /\ next.left = net[w].left
    BY <1>2, <2>3 DEF Window
  <2>5. ASSUME PortTaken PROVE \E v \in 1 .. w : net[v].left
    <3>1. PICK v \in Windows : net[v].server = "listening"
      BY <2>5 DEF PortTaken
    <3>2. v \in 1 .. Len(net) /\ v # w
      BY <2>1, <3>1 DEF Windows
    <3>3. CASE net[v].left /\ v <= w
      BY <1>2, <3>2, <3>3
    <3>4. CASE net[w].left
      BY <1>2, <3>4
    <3>5. CASE ~net[w].left /\ ~(net[v].left /\ v <= w)
      <4>1. Serves(net[w])
        BY <2>1, <3>5 DEF Serves
      <4>2. w = Len(net) /\ v <= w
        BY <1>2, <1>3, <3>2, <4>1
      <4>3. Serves(net[v])
        BY <3>1, <3>5, <4>2 DEF Serves
      <4> QED BY <3>2, <4>2, <4>3 DEF PortInv
    <3> QED BY <3>3, <3>4, <3>5
  <2> HIDE DEF next
  <2> QED BY <2>1, <2>2, <2>4, <2>5
<1>7. CASE ServerStops(w)
  <2> DEFINE next == [net[w] EXCEPT !.server = "over"]
  <2>1. next \in Window /\ next.server = "over" /\ next.left = net[w].left
    BY <1>2 DEF Window
  <2>2. net' = [net EXCEPT ![w] = next]
    BY <1>7 DEF ServerStops
  <2> HIDE DEF next
  <2> QED BY <2>1, <2>2
<1>8. CASE ServerFails(w)
  <2> DEFINE next == [net[w] EXCEPT !.events = Reported("server_error"), !.server = "over"]
  <2>1. net' = [net EXCEPT ![w] = next]
    BY <1>2, <1>8 DEF ServerFails, Report, Window
  <2>2. Reported("server_error") \in Seq(Kinds)
    BY <1>5 DEF Kinds
  <2> HIDE DEF Reported
  <2>3. next \in Window /\ next.server = "over" /\ next.left = net[w].left
    BY <1>2, <2>2 DEF Window
  <2> HIDE DEF next
  <2> QED BY <2>1, <2>3
<1>9. CASE MatchReports(w)
  <2> DEFINE next == [net[w] EXCEPT !.events = Reported("log"), !.lines = @ + 1]
  <2>1. net' = [net EXCEPT ![w] = next]
    BY <1>2, <1>9 DEF MatchReports, Report, Window
  <2>2. Reported("log") \in Seq(Kinds)
    BY <1>5 DEF Kinds
  <2>3. net[w].lines + 1 \in Nat
    BY <1>2
  <2> HIDE DEF Reported
  <2>4. next \in Window /\ next.server = net[w].server /\ next.left = net[w].left
    BY <1>2, <2>2, <2>3 DEF Window
  <2> HIDE DEF next
  <2> QED BY <1>2, <2>1, <2>4 DEF Window
<1>10. CASE MatchEnds(w)
  <2>1. PICK kind \in {"done", "error"} : net' = [Report(w, kind) EXCEPT ![w].match = "over"]
    BY <1>10 DEF MatchEnds
  <2> DEFINE next == [net[w] EXCEPT !.events = Reported(kind), !.match = "over"]
  <2>2. net' = [net EXCEPT ![w] = next]
    BY <1>2, <2>1 DEF Report, Window
  <2>3. Reported(kind) \in Seq(Kinds)
    BY <1>5 DEF Kinds
  <2> HIDE DEF Reported
  <2>4. next \in Window /\ next.server = net[w].server /\ next.left = net[w].left
    BY <1>2, <2>3 DEF Window
  <2> HIDE DEF next
  <2> QED BY <1>2, <2>2, <2>4 DEF Window
<1>11. CASE DrainEvents(w)
  <2> DEFINE kind == Head(net[w].events)
             alert == (kind \in Failures)
             next == [net[w] EXCEPT !.events = Tail(@), !.log = @ \cup {kind},
                                    !.status = StatusOf(kind), !.alert = alert]
  <2>1. net[w].events # <<>>
    BY <1>11 DEF DrainEvents
  <2>2. net' = [net EXCEPT ![w] = next]
    BY <1>2, <1>11 DEF DrainEvents, Window
  <2>3. kind \in Kinds /\ Tail(net[w].events) \in Seq(Kinds)
    BY <1>2, <2>1
  <2>4. StatusOf(kind) \in {"online", "complete", "failed"} /\ alert \in BOOLEAN
    BY DEF StatusOf
  <2> HIDE DEF kind, alert
  <2>5. next \in Window /\ next.server = net[w].server /\ next.left = net[w].left
    BY <1>2, <2>3, <2>4 DEF Window
  <2> HIDE DEF next
  <2> QED BY <1>2, <2>2, <2>5 DEF Window
<1>12. CASE DismissAlert(w)
  <2> DEFINE next == [net[w] EXCEPT !.alert = FALSE]
  <2>1. next \in Window /\ next.server = net[w].server /\ next.left = net[w].left
    BY <1>2 DEF Window
  <2>2. net' = [net EXCEPT ![w] = next]
    BY <1>12 DEF DismissAlert
  <2> HIDE DEF next
  <2> QED BY <1>2, <2>1, <2>2 DEF Window
<1> QED BY <1>6, <1>7, <1>8, <1>9, <1>10, <1>11, <1>12 DEF NetworkNext

\* The next window is opened when the server of every other has ended or was
\* given up, and opens it.
LEMMA OpenPort ==
    ASSUME NEW windows \in Seq(Window), NEW m, OpenWindow(m, windows),
           \A w \in 1 .. Len(windows) : ~Serves(windows[w]) /\ Released(windows, w)
    PROVE  PortInv'
<1>1. CASE m \in LocalModes
  BY <1>1, PlayWindowAssumption DEF OpenWindow, Advance, PortInv
<1>2. CASE m \notin LocalModes
  <2>1. app' = "network" /\ net' = Append(windows, NewWindow) /\ dialog' = None
    BY <1>2 DEF OpenWindow
  <2>2. <<>> \in Seq(Kinds)
    OBVIOUS
  <2>3. NewWindow \in Window /\ NewWindow.server = "starting"
    BY <2>2 DEF NewWindow, Window
  <2>4. /\ net' \in Seq(Window) /\ Len(net') = Len(windows) + 1 /\ Len(windows) \in Nat
        /\ \A w \in 1 .. Len(windows) : net'[w] = windows[w]
        /\ net'[Len(windows) + 1] = NewWindow
    BY <2>1, <2>3, AppendProperties
  <2>5. net' # <<>>
    BY <2>1, <2>3, AppendProperties
  <2>6. ASSUME NEW w \in 1 .. Len(net')
        PROVE  (Serves(net'[w]) => w = Len(net')) /\ Released(net', w)
    <3>1. w \in 1 .. Len(windows) + 1
      BY <2>4
    <3>2. CASE w \in 1 .. Len(windows)
      <4>1. w \in Nat /\ 1 .. w \subseteq 1 .. Len(windows)
        BY <2>4, <3>2
      <4>2. \A v \in 1 .. w : windows[v].left => net'[v].left
        BY <2>4, <4>1
      <4>3. net'[w].server = windows[w].server /\ Released(windows, w)
        BY <2>4, <3>2
      <4>4. Released(net', w)
        BY <4>1, <4>2, <4>3, ReleasedStays
      <4> QED BY <2>4, <3>2, <4>4
    <3>3. CASE w = Len(windows) + 1
      BY <2>3, <2>4, <3>3 DEF Released
    <3> QED BY <2>4, <3>1, <3>2, <3>3
  <2>7. dialog' # "closing"
    BY <2>1, PlayWindowAssumption
  <2>8. app' = "network"
    BY <2>1
  <2> QED BY <2>4, <2>5, <2>6, <2>7, <2>8 DEF PortInv
<1> QED BY <1>1, <1>2

LEMMA InitPort == Init => PortInv
<1> SUFFICES ASSUME Init PROVE PortInv
  OBVIOUS
<1>1. net = <<>> /\ net \in Seq(Window) /\ Len(net) = 0
  BY DEF Init
<1> QED BY <1>1, PlayWindowAssumption DEF Init, PortInv

LEMMA NextPort == OfferInv /\ PortInv /\ [Next]_vars => PortInv'
<1> SUFFICES ASSUME OfferInv, PortInv, [Next]_vars PROVE PortInv'
  OBVIOUS
<1>1. ASSUME UNCHANGED <<net, app>>, dialog' # "closing" PROVE PortInv'
  BY <1>1 DEF PortInv, Released
<1>2. CASE PlayNext
  <2>1. UNCHANGED <<net, app>> /\ app = "play"
    BY <1>2, PlayWindowAssumption DEF PlayNext, AgentTurn, ToggleBarrierMode, RequestNewGame,
       DismissResult, OnHumanMove, OnCellClick, HumanMayAct, Playing, rootVars, OfferInv, RootInv
  <2>2. OfferInv'
    BY <1>2, PlayNextOffers
  <2> QED BY <1>1, <2>1, <2>2 DEF OfferInv, RootInv
<1>3. CASE \E w \in Windows : NetworkNext(w)
  BY <1>3, NetworkNextPort
<1>4. CASE Simulate
  BY <1>4 DEF Simulate, PortInv, Released, rootVars
<1>5. ASSUME app = "network"
      PROVE  /\ Len(net) \in Nat /\ Len(net) \in 1 .. Len(net) /\ net[Len(net)] \in Window
             /\ net \in Seq(Window)
  <2>1. net # <<>> /\ net \in Seq(Window)
    BY <1>5 DEF PortInv
  <2> QED BY <2>1, EmptySeq
<1>6. ASSUME NEW m, CloseAndOpen(m) PROVE PortInv'
  <2>1. CASE app = "network"
    <3> DEFINE last == net[Len(net)]
               next == [last EXCEPT !.closed = TRUE, !.events = <<>>, !.log = {}, !.status = "gone"]
    <3>1. Len(net) \in Windows /\ last \in Window
      BY <1>5, <2>1 DEF Windows
    <3>2. <<>> \in Seq(Kinds) /\ {} \subseteq Kinds
      OBVIOUS
    <3>3. next \in Window /\ next.server = last.server /\ next.left = last.left
      BY <3>1, <3>2 DEF Window
    <3>4. app' = app /\ net' = [net EXCEPT ![Len(net)] = next]
      BY <1>6, <2>1 DEF CloseAndOpen, Close
    <3> HIDE DEF next
    <3> QED BY <2>1, <3>1, <3>3, <3>4, WindowStep
  <2>2. CASE app # "network"
    <3>1. OpenWindow(m, net)
      BY <1>6, <2>2 DEF CloseAndOpen
    <3>2. net \in Seq(Window)
          /\ \A w \in 1 .. Len(net) : ~Serves(net[w]) /\ Released(net, w)
      BY <2>2 DEF PortInv
    <3> QED BY <3>1, <3>2, OpenPort
  <2> QED BY <2>1, <2>2
<1>7. CASE Joined
  <2>1. app = "network" /\ ServerEnded(Len(net))
    BY <1>7 DEF Joined, PortInv
  <2>2. PICK m : OpenWindow(m, net)
    BY <1>7 DEF Joined
  <2>3. ~Serves(net[Len(net)])
    BY <2>1 DEF ServerEnded, Serves
  <2>4. \A w \in 1 .. Len(net) : ~Serves(net[w]) /\ Released(net, w)
    BY <2>3 DEF PortInv
  <2> QED BY <1>5, <2>1, <2>2, <2>4, OpenPort
<1>8. CASE JoinTimesOut
  <2>1. app = "network"
    BY <1>8 DEF JoinTimesOut, PortInv
  <2> DEFINE last == net[Len(net)]
             next == [last EXCEPT !.left = TRUE]
  <2>2. PICK windows : windows = [net EXCEPT ![Len(net)] = next]
    OBVIOUS
  <2>3. PICK m : OpenWindow(m, windows)
    BY <1>8, <2>2 DEF JoinTimesOut
  <2>4. next \in Window /\ next.server = last.server /\ next.left
    BY <1>5, <2>1 DEF Window
  <2> HIDE DEF next
  <2>5. /\ windows \in Seq(Window) /\ Len(windows) = Len(net)
        /\ \A w \in 1 .. Len(net) : windows[w] = IF w = Len(net) THEN next ELSE net[w]
    BY <1>5, <2>1, <2>2, <2>4, ExceptSeq
  <2>6. ASSUME NEW w \in 1 .. Len(windows) PROVE ~Serves(windows[w]) /\ Released(windows, w)
    <3>1. w \in 1 .. Len(net) /\ w \in Nat /\ 1 .. w \subseteq 1 .. Len(net)
      BY <1>5, <2>1, <2>5
    <3>2. windows[w].server = net[w].server
          /\ \A v \in 1 .. w : net[v].left => windows[v].left
      BY <2>4, <2>5, <3>1
    <3>3. Released(windows, w)
      BY <3>1, <3>2, ReleasedStays DEF PortInv
    <3>4. ~Serves(windows[w])
      BY <2>4, <2>5, <3>1 DEF Serves, PortInv
    <3> QED BY <3>3, <3>4
  <2> QED BY <2>3, <2>5, <2>6, OpenPort
<1>9. CASE RootNext
  <2>1. ASSUME NEW m \in GameMode, SelectMode(m) PROVE PortInv'
    BY <1>1, <1>6, <2>1 DEF SelectMode, rootVars
  <2>2. CASE ConfirmSetup
    BY <1>6, <2>2 DEF ConfirmSetup
  <2>3. CASE CancelDialog
    BY <1>1, <2>3, PlayWindowAssumption DEF CancelDialog, Advance, rootVars
  <2>4. CASE NewGame
    BY <1>1, <2>4 DEF NewGame, rootVars
  <2> QED BY <1>7, <1>8, <1>9, <2>1, <2>2, <2>3, <2>4 DEF RootNext
<1>10. CASE UNCHANGED vars
  BY <1>10 DEF vars, rootVars, PortInv, Released
<1> QED BY <1>2, <1>3, <1>4, <1>9, <1>10 DEF Next

\* However many windows follow each other, a server misses its port only when
\* close() gave up, after three seconds, on the server of a window up to it: as
\* long as every server ends in that time, the next finds the port free
\* (network_match_app.py:117-128, mcp_server.py:102-131).
THEOREM PortIsLostToALateServer == Spec => []PortIsReleased
<1>1. Init => OfferInv /\ PortInv
  BY InitOffer, InitPort
<1>2. OfferInv /\ PortInv /\ [Next]_vars => (OfferInv /\ PortInv)'
  BY NextOffers, NextPort
<1>3. PortInv => PortIsReleased
  BY DEF PortInv, PortIsReleased, Released, Windows
<1> QED BY <1>1, <1>2, <1>3, PTL DEF Spec

-----------------------------------------------------------------------------
(* The chase: the board.                                                 *)

LEMMA CellFacts ==
    ASSUME NEW c \in Cell
    PROVE  c = <<c[1], c[2]>> /\ c[1] \in Int /\ c[2] \in Int
BY SizeAssumption DEF Cell

\* A move that is not to stay leads to the next cell, and back again.
LEMMA StepFacts ==
    ASSUME NEW c \in Cell, NEW move \in Moves \ {"STAY"}, Destination(c, move) \in Cell
    PROVE  Destination(c, move) \in Neighbors(c) /\ c \in Neighbors(Destination(c, move))
<1> DEFINE d == Destination(c, move)
<1>1. c[1] \in Int /\ c[2] \in Int /\ d[1] \in Int /\ d[2] \in Int
  BY CellFacts
<1>2. \/ d[1] = c[1] - 1 /\ d[2] = c[2]
      \/ d[1] = c[1] + 1 /\ d[2] = c[2]
      \/ d[1] = c[1] /\ d[2] = c[2] - 1
      \/ d[1] = c[1] /\ d[2] = c[2] + 1
  BY DEF Destination, Moves
<1> HIDE DEF d
<1>3. Distance(d, c) = 1 /\ Distance(c, d) = 1
  BY <1>1, <1>2 DEF Distance, Gap
<1> QED BY <1>3 DEF Neighbors, d

LEMMA StayFacts == \A c : Destination(c, "STAY") = c
BY DEF Destination

\* The board has another cell than the one the thief starts on, so a neighbour.
LEMMA StartHasWayOut == Neighbors(ThiefStart) # {}
<1> DEFINE t == ThiefStart  c == CopStart
<1>1. t \in Cell /\ c \in Cell /\ t # c
  BY LocalMatchAssumption
<1>2. Size \in Nat /\ t = <<t[1], t[2]>> /\ c = <<c[1], c[2]>>
      /\ t[1] \in 0 .. Size - 1 /\ t[2] \in 0 .. Size - 1
      /\ c[1] \in 0 .. Size - 1 /\ c[2] \in 0 .. Size - 1
  BY <1>1, SizeAssumption DEF Cell
<1>3. Size > 1
  BY <1>1, <1>2
<1>4. CASE t[1] > 0
  <2>1. Destination(t, "N") \in Cell
    BY <1>2, <1>4 DEF Destination, Cell
  <2> QED BY <1>1, <2>1, StepFacts DEF Moves
<1>5. CASE t[1] = 0
  <2>1. Destination(t, "S") \in Cell
    BY <1>2, <1>3, <1>5 DEF Destination, Cell
  <2> QED BY <1>1, <2>1, StepFacts DEF Moves
<1> QED BY <1>2, <1>4, <1>5

\* The greedy search answers with a legal move.
LEMMA LeastFacts ==
    ASSUME NEW S \in SUBSET (1 .. 4), S # {}
    PROVE  Min(S) \in S
<1>1. \E x \in S : \A y \in S : x <= y
  <2>1. CASE 1 \in S
    BY <2>1
  <2>2. CASE 1 \notin S /\ 2 \in S
    BY <2>2
  <2>3. CASE 1 \notin S /\ 2 \notin S /\ 3 \in S
    BY <2>3
  <2>4. CASE 1 \notin S /\ 2 \notin S /\ 3 \notin S
    <3>1. \A y \in S : y = 4
      BY <2>4
    <3>2. PICK x \in S : TRUE
      OBVIOUS
    <3>3. x = 4 /\ \A y \in S : x <= y
      BY <3>1, <3>2
    <3> QED BY <3>2, <3>3
  <2> QED BY <2>1, <2>2, <2>3, <2>4
<1> QED BY <1>1 DEF Min

LEMMA GreedyIsLegal ==
    ASSUME NEW cell, NEW target, NEW chase
    PROVE  GreedyMove(cell, target, chase) \in Moves /\ Legal(cell, GreedyMove(cell, target, chase))
<1> DEFINE legal == {i \in 1 .. 4 : Legal(cell, Order[i])}
           better == {i \in legal : Score(cell, Order[i], target, chase)
                                     > Score(cell, "STAY", target, chase)}
           best == {i \in better : \A j \in better :
                      Score(cell, Order[j], target, chase) <= Score(cell, Order[i], target, chase)}
<1>1. best \subseteq 1 .. 4 /\ \A i \in best : Legal(cell, Order[i])
  OBVIOUS
<1>2. \A i \in 1 .. 4 : Order[i] \in Moves
  BY DEF Order, Moves
<1>3. GreedyMove(cell, target, chase) = IF best = {} THEN "STAY" ELSE Order[Min(best)]
  BY DEF GreedyMove
<1> HIDE DEF best
<1>4. CASE best = {}
  BY <1>3, <1>4 DEF Legal, Moves
<1>5. CASE best # {}
  BY <1>1, <1>2, <1>3, <1>5, LeastFacts
<1> QED BY <1>4, <1>5

-------------------------------------------------------------------------------
(* The invariant.  While a match goes on the thief is free: the cop is not *)
(* on its cell, no barrier is, and it has a way out.  The umpire asks for  *)
(* the way out after actions of the cop only; the match asks after each.   *)

Last == Min({MaxMoves, SurvivalThreshold})

ThiefIsFree ==
    /\ positions["cop"] # positions["thief"]
    /\ positions["thief"] \notin blocked
    /\ ~(Neighbors(positions["thief"]) \subseteq blocked)

MatchInv ==
    /\ \/ command = "play" /\ policy = None
       \/ command = "simulate" /\ policy \in Policies /\ blocked = {}
    /\ positions \in [Roles -> Cell] /\ currentRole \in Roles /\ turnsPlayed \in Nat
    /\ outcome \in {None, "capture", "survival", "technical_loss"}
    /\ ~Finished => ThiefIsFree
    /\ ~Finished /\ command = "play" =>
         turnsPlayed < MaxMoves /\ (currentRole = "cop" <=> turnsPlayed % 2 = 0)
    /\ ~Finished /\ command = "simulate" => turnsPlayed < Last

ChaseInv == OfferInv /\ MatchInv

LEMMA LastFacts == Last \in Nat \ {0} /\ Last <= MaxMoves /\ Last <= SurvivalThreshold
                   /\ (Last = MaxMoves \/ Last = SurvivalThreshold)
<1>1. MaxMoves \in Nat \ {0} /\ SurvivalThreshold \in Nat \ {0}
  BY LocalMatchAssumption
<1>2. CASE MaxMoves <= SurvivalThreshold
  BY <1>1, <1>2 DEF Last, Min
<1>3. CASE ~(MaxMoves <= SurvivalThreshold)
  BY <1>1, <1>3 DEF Last, Min
<1> QED BY <1>2, <1>3

\* A match that starts.
LEMMA StartIsFree ==
    ASSUME positions = Start, blocked = {}
    PROVE  ThiefIsFree /\ positions \in [Roles -> Cell]
BY StartHasWayOut, LocalMatchAssumption DEF ThiefIsFree, Start, Roles

LEMMA InitChase == Init => ChaseInv
<1> SUFFICES ASSUME Init PROVE ChaseInv
  OBVIOUS
<1>1. OfferInv
  BY InitOffer
<1>2. ThiefIsFree /\ positions \in [Roles -> Cell]
  BY StartIsFree DEF Init, FirstMatch
<1>3. turnsPlayed = 0 /\ 0 % 2 = 0 /\ currentRole = "cop" /\ outcome = None /\ blocked = {}
  BY DEF Init, FirstMatch
<1>4. 0 < MaxMoves /\ 0 < Last
  BY LocalMatchAssumption, LastFacts
<1> QED BY <1>1, <1>2, <1>3, <1>4 DEF Init, Dispatched, ChaseInv, MatchInv, Roles

-------------------------------------------------------------------------------
(* The actions of the interactive match.                                   *)

\* What the umpire reads off the match.
Actions ==
    IF command = "play" THEN turnsPlayed
    ELSE 2 * turnsPlayed + (IF Finished THEN (IF currentRole = "cop" THEN -1 ELSE 0)
                            ELSE (IF currentRole = "cop" THEN 0 ELSE 1))
Length == IF command = "play" THEN MaxMoves ELSE 2 * Last
Lawful == command = "play" \/ policy = "placeholder"
Verdict == IF Finished THEN outcome ELSE "open"

LEMMA UmpiresBoard == \A c : Umpire!Neighbors(c) = Neighbors(c)
BY DEF Umpire!Neighbors, Neighbors, Umpire!Cell, Cell, Umpire!Distance, Distance, Umpire!Gap, Gap

LEMMA ReachFacts ==
    ASSUME NEW c \in Cell, NEW move \in Moves, Legal(c, move)
    PROVE  Destination(c, move) \in Cell /\ Destination(c, move) \in Umpire!Reach(c)
<1>1. CASE move = "STAY"
  BY <1>1, StayFacts DEF Umpire!Reach
<1>2. CASE move # "STAY"
  <2>1. Destination(c, move) \in Cell \ blocked
    BY <1>2 DEF Legal
  <2>2. Destination(c, move) \in Neighbors(c)
    BY <1>2, <2>1, StepFacts
  <2> QED BY <2>1, <2>2, UmpiresBoard DEF Umpire!Reach
<1> QED BY <1>1, <1>2

\* How an action of the interactive match ends it, or does not.
LEMMA PlayEnds ==
    ASSUME MatchInv, ~Finished, command = "play", UNCHANGED <<command, policy>>,
           NEW caught \in BOOLEAN, RecordMoveAndAdvance(caught)
    PROVE  /\ Actions' = Actions + 1 /\ Length' = Length /\ Lawful' = Lawful
           /\ Verdict = "open" /\ (currentRole = "cop" <=> Actions % 2 = 0)
           /\ Verdict' = IF caught \/ CaughtAfter THEN "capture"
                         ELSE IF Actions' = Length THEN "survival" ELSE "open"
           /\ (caught \/ CaughtAfter) => Finished'
           /\ turnsPlayed' \in Nat /\ currentRole' \in Roles
           /\ outcome' \in {None, "capture", "survival", "technical_loss"}
           /\ ~Finished' => /\ turnsPlayed' < MaxMoves
                            /\ currentRole' = "cop" <=> turnsPlayed' % 2 = 0
<1>1. turnsPlayed \in Nat /\ turnsPlayed < MaxMoves /\ MaxMoves \in Nat /\ currentRole \in Roles
      /\ (currentRole = "cop" <=> turnsPlayed % 2 = 0)
  BY LocalMatchAssumption DEF MatchInv
<1>2. turnsPlayed' = turnsPlayed + 1
      /\ outcome' = (IF caught \/ CaughtAfter THEN "capture"
                     ELSE IF turnsPlayed' >= MaxMoves THEN "survival" ELSE None)
      /\ currentRole' = IF outcome' = None THEN Other(currentRole) ELSE currentRole
  BY DEF RecordMoveAndAdvance
<1>3. Actions = turnsPlayed /\ Actions' = turnsPlayed' /\ Length = MaxMoves /\ Length' = MaxMoves
      /\ Lawful' = Lawful /\ Verdict = "open"
  BY DEF Actions, Length, Lawful, Verdict
<1>4. turnsPlayed' >= MaxMoves <=> turnsPlayed' = MaxMoves
  BY <1>1, <1>2
<1>5. None \notin {"capture", "survival"}
  BY PlayWindowAssumption
<1>6. Verdict' = IF outcome' = None THEN "open" ELSE outcome'
  BY DEF Verdict, Finished
<1>7. Verdict' = IF caught \/ CaughtAfter THEN "capture"
                 ELSE IF Actions' = Length THEN "survival" ELSE "open"
  <2>1. CASE caught \/ CaughtAfter
    BY <1>2, <1>5, <1>6, <2>1
  <2>2. CASE ~(caught \/ CaughtAfter) /\ turnsPlayed' = MaxMoves
    BY <1>2, <1>3, <1>4, <1>5, <1>6, <2>2
  <2>3. CASE ~(caught \/ CaughtAfter) /\ turnsPlayed' # MaxMoves
    BY <1>2, <1>3, <1>4, <1>6, <2>3
  <2> QED BY <2>1, <2>2, <2>3
<1>8. (caught \/ CaughtAfter) => Finished'
  BY <1>2, <1>5 DEF Finished
<1>9. currentRole' \in Roles /\ outcome' \in {None, "capture", "survival", "technical_loss"}
  BY <1>1, <1>2 DEF Roles, Other
<1>10. ASSUME ~Finished'
       PROVE  turnsPlayed' < MaxMoves /\ (currentRole' = "cop" <=> turnsPlayed' % 2 = 0)
  <2>1. outcome' = None /\ currentRole' = Other(currentRole)
    BY <1>2, <1>10 DEF Finished
  <2>2. turnsPlayed' < MaxMoves
    BY <1>1, <1>2, <1>5, <2>1
  <2>3. turnsPlayed' % 2 = 0 <=> turnsPlayed % 2 # 0
    BY <1>1, <1>2
  <2>4. currentRole' = "cop" <=> currentRole # "cop"
    BY <1>1, <2>1 DEF Other, Roles
  <2> QED BY <1>1, <2>2, <2>3, <2>4
<1> QED BY <1>1, <1>2, <1>3, <1>7, <1>8, <1>9, <1>10

\* The actions of the umpire, on what it reads off the match.
LEMMA UmpireCopMoves ==
    ASSUME Verdict = "open", Actions % 2 = 0, UNCHANGED blocked,
           positions["cop"]' \in Umpire!Reach(positions["cop"]), UNCHANGED positions["thief"],
           Actions' = Actions + 1, Length' = Length, Lawful' = Lawful,
           Verdict' = IF \/ positions["thief"] = positions["cop"]'
                         \/ positions["thief"] \in blocked'
                         \/ Neighbors(positions["thief"]) \subseteq blocked'
                      THEN "capture"
                      ELSE IF Actions' = Length THEN "survival" ELSE "open"
    PROVE  Umpire!Next
BY UmpiresBoard DEF Umpire!Next, Umpire!CopActs, Umpire!Ends, Verdict, Actions, Length, Lawful, Last

LEMMA UmpiresCount == \A S : Umpire!Cardinality(S) = Cardinality(S)
BY DEF Umpire!Cardinality, Cardinality, Umpire!IsFiniteSet, IsFiniteSet

LEMMA UmpireCopWalls ==
    ASSUME Verdict = "open", Actions % 2 = 0, UNCHANGED positions["cop"], UNCHANGED positions["thief"],
           Cardinality(blocked) < MaxBarriers,
           NEW cell \in (Neighbors(positions["cop"]) \cup {positions["cop"]}) \ blocked,
           blocked' = blocked \cup {cell},
           Actions' = Actions + 1, Length' = Length, Lawful' = Lawful,
           Verdict' = IF \/ positions["thief"] = positions["cop"]'
                         \/ positions["thief"] \in blocked'
                         \/ Neighbors(positions["thief"]) \subseteq blocked'
                      THEN "capture"
                      ELSE IF Actions' = Length THEN "survival" ELSE "open"
    PROVE  Umpire!Next
<1>1. \E c \in (Umpire!Neighbors(positions["cop"]) \cup {positions["cop"]}) \ blocked :
         blocked' = blocked \cup {c}
  BY UmpiresBoard
<1>2. Umpire!Neighbors(positions["thief"]) = Neighbors(positions["thief"])
  BY UmpiresBoard
<1>3. Umpire!CopActs
  BY <1>1, <1>2, UmpiresCount DEF Umpire!CopActs, Umpire!Ends, Verdict, Actions, Length, Lawful, Last
<1> QED BY <1>3 DEF Umpire!Next

LEMMA UmpireThiefMoves ==
    ASSUME Verdict = "open", Actions % 2 = 1, UNCHANGED blocked, UNCHANGED positions["cop"],
           positions["thief"]' \in Umpire!Reach(positions["thief"]),
           Actions' = Actions + 1, Length' = Length, Lawful' = Lawful,
           Verdict' = IF positions["thief"]' = positions["cop"] THEN "capture"
                      ELSE IF Actions' = Length THEN "survival" ELSE "open"
    PROVE  Umpire!Next
BY DEF Umpire!Next, Umpire!ThiefMoves, Umpire!Ends, Verdict, Actions, Length, Lawful, Last

\* A thief that has moved is not walled in: the cell it left is free, or it
\* stays where it was not.
LEMMA ThiefKeepsWayOut ==
    ASSUME ThiefIsFree, NEW c \in Cell, c = positions["thief"], NEW move \in Moves, Legal(c, move)
    PROVE  /\ ~(Neighbors(Destination(c, move)) \subseteq blocked)
           /\ Destination(c, move) \notin blocked
<1>1. CASE move = "STAY"
  BY <1>1, StayFacts DEF ThiefIsFree
<1>2. CASE move # "STAY"
  <2>1. Destination(c, move) \in Cell \ blocked
    BY <1>2 DEF Legal
  <2>2. c \in Neighbors(Destination(c, move))
    BY <1>2, <2>1, StepFacts
  <2> QED BY <2>1, <2>2 DEF ThiefIsFree
<1> QED BY <1>1, <1>2

\* A player moves (interactive_match.py:168-192).
LEMMA ApplyMoveChase ==
    ASSUME MatchInv, command = "play", UNCHANGED <<command, policy>>,
           NEW move \in LegalMoves, ApplyMove(move)
    PROVE  MatchInv' /\ Umpire!Next
<1>1. ~Finished /\ UNCHANGED blocked /\ RecordMoveAndAdvance(FALSE)
      /\ positions' = [positions EXCEPT ![currentRole] = Destination(Own, move)]
  BY DEF ApplyMove
<1>2. /\ positions \in [Roles -> Cell] /\ currentRole \in Roles /\ ThiefIsFree
      /\ move \in Moves /\ Legal(Own, move) /\ Own \in Cell
  BY <1>1 DEF MatchInv, LegalMoves, Own
<1>3. Destination(Own, move) \in Cell /\ Destination(Own, move) \in Umpire!Reach(Own)
  BY <1>2, ReachFacts
<1>4. positions' \in [Roles -> Cell]
  BY <1>1, <1>2, <1>3
<1>5. /\ Actions' = Actions + 1 /\ Length' = Length /\ Lawful' = Lawful
      /\ Verdict = "open" /\ (currentRole = "cop" <=> Actions % 2 = 0)
      /\ Verdict' = IF CaughtAfter THEN "capture"
                    ELSE IF Actions' = Length THEN "survival" ELSE "open"
      /\ CaughtAfter => Finished'
      /\ turnsPlayed' \in Nat /\ currentRole' \in Roles
      /\ outcome' \in {None, "capture", "survival", "technical_loss"}
      /\ ~Finished' => turnsPlayed' < MaxMoves /\ (currentRole' = "cop" <=> turnsPlayed' % 2 = 0)
  BY <1>1, PlayEnds
<1>6. CASE currentRole = "cop"
  <2>1. positions'["cop"] = Destination(Own, move) /\ positions'["thief"] = positions["thief"]
        /\ Own = positions["cop"]
    BY <1>1, <1>2, <1>6 DEF Roles, Own
  <2>2. CaughtAfter <=> \/ positions["thief"] = positions'["cop"]
                        \/ positions["thief"] \in blocked'
                        \/ Neighbors(positions["thief"]) \subseteq blocked'
    BY <1>1, <1>2, <2>1 DEF CaughtAfter, ThiefIsFree
  <2>3. Umpire!Next
    BY <1>1, <1>3, <1>5, <1>6, <2>1, <2>2, UmpireCopMoves
  <2>4. ~Finished' => ThiefIsFree'
    BY <1>1, <1>2, <1>5, <2>1 DEF ThiefIsFree, CaughtAfter
  <2> QED BY <1>4, <1>5, <2>3, <2>4 DEF MatchInv
<1>7. CASE currentRole = "thief"
  <2>1. positions'["thief"] = Destination(Own, move) /\ positions'["cop"] = positions["cop"]
        /\ Own = positions["thief"]
    BY <1>1, <1>2, <1>7 DEF Roles, Own
  <2>2. /\ ~(Neighbors(Destination(Own, move)) \subseteq blocked)
        /\ Destination(Own, move) \notin blocked
    BY <1>2, <2>1, ThiefKeepsWayOut
  <2>3. CaughtAfter <=> positions'["thief"] = positions["cop"]
    BY <1>1, <2>1, <2>2 DEF CaughtAfter
  <2>4. Actions % 2 = 1
    BY <1>5, <1>7 DEF Actions, MatchInv
  <2>5. Umpire!Next
    BY <1>1, <1>3, <1>5, <2>1, <2>3, <2>4, UmpireThiefMoves
  <2>6. ~Finished' => ThiefIsFree'
    BY <1>1, <1>2, <1>5, <2>1, <2>2 DEF ThiefIsFree, CaughtAfter
  <2> QED BY <1>4, <1>5, <2>5, <2>6 DEF MatchInv
<1> QED BY <1>2, <1>6, <1>7 DEF Roles

\* The cop places a barrier (interactive_match.py:194-208).
LEMMA PlaceBarrierChase ==
    ASSUME MatchInv, command = "play", UNCHANGED <<command, policy>>,
           NEW cell \in Cell, PlaceBarrier(cell)
    PROVE  MatchInv' /\ Umpire!Next
<1>1. /\ ~Finished /\ currentRole = "cop" /\ UNCHANGED positions
      /\ cell \in (Neighbors(positions["cop"]) \cup {positions["cop"]}) \ blocked
      /\ Cardinality(blocked) < MaxBarriers /\ blocked' = blocked \cup {cell}
      /\ RecordMoveAndAdvance(cell = positions["thief"])
  BY DEF PlaceBarrier, MayPlaceBarrier, Own
<1>2. positions \in [Roles -> Cell] /\ ThiefIsFree
  BY <1>1 DEF MatchInv
<1>3. PICK caught \in BOOLEAN : caught <=> cell = positions["thief"]
  OBVIOUS
<1>4. RecordMoveAndAdvance(caught)
  BY <1>1, <1>3 DEF RecordMoveAndAdvance
<1>5. /\ Actions' = Actions + 1 /\ Length' = Length /\ Lawful' = Lawful
      /\ Verdict = "open" /\ (currentRole = "cop" <=> Actions % 2 = 0)
      /\ Verdict' = IF caught \/ CaughtAfter THEN "capture"
                    ELSE IF Actions' = Length THEN "survival" ELSE "open"
      /\ (caught \/ CaughtAfter) => Finished'
      /\ turnsPlayed' \in Nat /\ currentRole' \in Roles
      /\ outcome' \in {None, "capture", "survival", "technical_loss"}
      /\ ~Finished' => turnsPlayed' < MaxMoves /\ (currentRole' = "cop" <=> turnsPlayed' % 2 = 0)
  BY <1>1, <1>4, PlayEnds
<1>6. (caught \/ CaughtAfter) <=> \/ positions["thief"] = positions["cop"]'
                                  \/ positions["thief"] \in blocked'
                                  \/ Neighbors(positions["thief"]) \subseteq blocked'
  BY <1>1, <1>2, <1>3 DEF CaughtAfter, ThiefIsFree
<1>7. Umpire!Next
  BY <1>1, <1>5, <1>6, UmpireCopWalls
<1>8. ~Finished' => ThiefIsFree'
  BY <1>1, <1>2, <1>5, <1>6 DEF ThiefIsFree
<1> QED BY <1>1, <1>2, <1>5, <1>7, <1>8 DEF MatchInv

-------------------------------------------------------------------------------
(* The simulated match.                                                    *)

LEMMA UmpireForfeits ==
    ASSUME Verdict = "open", ~Lawful, UNCHANGED <<positions, blocked>>,
           Actions' = Actions + 1, Length' = Length, Lawful' = Lawful,
           Verdict' = IF Actions % 2 = 1 THEN "capture" ELSE "technical_loss"
    PROVE  Umpire!Next
BY DEF Umpire!Next, Umpire!Forfeits, Verdict, Actions, Length, Lawful, Last

\* A policy of the program makes a legal move; another may do anything.
LEMMA PolicyFacts ==
    ASSUME MatchInv, command = "simulate", NEW move \in PolicyMoves(policy)
    PROVE  move \in Moves /\ (Legal(Own, move) \/ ~Lawful)
<1>1. CASE policy = "placeholder"
  BY <1>1, GreedyIsLegal DEF PolicyMoves
<1>2. CASE policy # "placeholder"
  BY <1>2 DEF PolicyMoves, Lawful
<1> QED BY <1>1, <1>2

\* The turn of the cop (simulation.py:97-115).
LEMMA SimulatedCopChase ==
    ASSUME MatchInv, command = "simulate", UNCHANGED <<command, policy>>, SimulatedCop(policy)
    PROVE  MatchInv' /\ Umpire!Next
<1>1. PICK move \in PolicyMoves(policy) :
        /\ positions' = [positions EXCEPT !["cop"] =
                            IF Legal(Own, move) THEN Destination(Own, move) ELSE @]
        /\ outcome' = IF ~Legal(Own, move) THEN "technical_loss"
                      ELSE IF CaughtAfter THEN "capture" ELSE None
  BY DEF SimulatedCop
<1>2. /\ ~Finished /\ currentRole = "cop" /\ UNCHANGED blocked
      /\ turnsPlayed' = (IF outcome' = None THEN turnsPlayed ELSE Turn)
      /\ currentRole' = IF outcome' = None THEN "thief" ELSE "cop"
  BY DEF SimulatedCop
<1>3. /\ blocked = {} /\ policy \in Policies /\ positions \in [Roles -> Cell] /\ ThiefIsFree
      /\ turnsPlayed \in Nat /\ turnsPlayed < Last
      /\ Own = positions["cop"] /\ Own \in Cell
  BY <1>2 DEF MatchInv, Own, Roles
<1>4. move \in Moves /\ (Legal(Own, move) \/ ~Lawful)
  BY <1>1, PolicyFacts
<1>5. Actions = 2 * turnsPlayed /\ Length = 2 * Last /\ Length' = Length /\ Lawful' = Lawful
      /\ Verdict = "open" /\ Actions % 2 = 0
  BY <1>2, <1>3 DEF Actions, Length, Lawful, Verdict
<1>6. None \notin {"capture", "technical_loss"}
  BY PlayWindowAssumption
<1>7. Finished' <=> outcome' # None
  BY DEF Finished
<1>8. Actions' = Actions + 1
  <2>1. CASE Finished'
    BY <1>2, <1>3, <1>5, <1>7, <2>1 DEF Actions, Turn
  <2>2. CASE ~Finished'
    BY <1>2, <1>3, <1>5, <1>7, <2>2 DEF Actions
  <2> QED BY <2>1, <2>2
<1>9. Verdict' = IF outcome' = None THEN "open" ELSE outcome'
  BY DEF Verdict, Finished
<1>10. turnsPlayed' \in Nat /\ currentRole' \in Roles
       /\ outcome' \in {None, "capture", "survival", "technical_loss"}
  BY <1>1, <1>2, <1>3 DEF Turn, Roles
<1>11. ~Finished' => turnsPlayed' < Last
  BY <1>2, <1>3, <1>7
<1>12. CASE ~Legal(Own, move)
  <2>1. positions' = positions /\ outcome' = "technical_loss"
    BY <1>1, <1>3, <1>12
  <2>2. Verdict' = "technical_loss"
    BY <1>6, <1>9, <2>1
  <2>3. Umpire!Next
    BY <1>2, <1>4, <1>5, <1>8, <1>12, <2>1, <2>2, UmpireForfeits
  <2> QED BY <1>2, <1>3, <1>6, <1>7, <1>10, <2>1, <2>3 DEF MatchInv
<1>13. CASE Legal(Own, move)
  <2>1. Destination(Own, move) \in Cell /\ Destination(Own, move) \in Umpire!Reach(Own)
    BY <1>3, <1>4, <1>13, ReachFacts
  <2>2. positions'["cop"] = Destination(Own, move) /\ positions'["thief"] = positions["thief"]
        /\ positions' \in [Roles -> Cell]
    BY <1>1, <1>3, <1>13, <2>1 DEF Roles
  <2>3. CaughtAfter <=> \/ positions["thief"] = positions'["cop"]
                        \/ positions["thief"] \in blocked'
                        \/ Neighbors(positions["thief"]) \subseteq blocked'
    BY <1>2, <1>3, <2>2 DEF CaughtAfter, ThiefIsFree
  <2>4. Actions' # Length
    BY <1>3, <1>5, <1>8, LastFacts
  <2>5. Verdict' = IF CaughtAfter THEN "capture" ELSE "open"
    BY <1>1, <1>6, <1>9, <1>13
  <2>6. Umpire!Next
    BY <1>2, <1>3, <1>5, <1>8, <2>1, <2>2, <2>3, <2>4, <2>5, UmpireCopMoves
  <2>7. ~Finished' => ThiefIsFree'
    BY <1>1, <1>2, <1>3, <1>6, <1>7, <1>13, <2>2 DEF ThiefIsFree, CaughtAfter
  <2> QED BY <1>2, <1>3, <1>10, <1>11, <2>2, <2>6, <2>7 DEF MatchInv
<1> QED BY <1>12, <1>13

\* The turn of the thief (simulation.py:116-133).
LEMMA SimulatedThiefChase ==
    ASSUME MatchInv, command = "simulate", UNCHANGED <<command, policy>>, SimulatedThief(policy)
    PROVE  MatchInv' /\ Umpire!Next
<1>1. PICK move \in PolicyMoves(policy) :
        /\ positions' = [positions EXCEPT !["thief"] =
                            IF Legal(Own, move) THEN Destination(Own, move) ELSE @]
        /\ outcome' = IF ~Legal(Own, move) \/ positions'["thief"] = positions["cop"]
                      THEN "capture"
                      ELSE IF Turn >= SurvivalThreshold \/ Turn = MaxMoves
                      THEN "survival" ELSE None
  BY DEF SimulatedThief
<1>2. /\ ~Finished /\ currentRole = "thief" /\ UNCHANGED blocked /\ turnsPlayed' = Turn
      /\ currentRole' = IF outcome' = None THEN "cop" ELSE "thief"
  BY DEF SimulatedThief
<1>3. /\ blocked = {} /\ policy \in Policies /\ positions \in [Roles -> Cell] /\ ThiefIsFree
      /\ turnsPlayed \in Nat /\ turnsPlayed < Last
      /\ Own = positions["thief"] /\ Own \in Cell
  BY <1>2 DEF MatchInv, Own, Roles
<1>4. move \in Moves /\ (Legal(Own, move) \/ ~Lawful)
  BY <1>1, PolicyFacts
<1>5. Actions = 2 * turnsPlayed + 1 /\ Length = 2 * Last /\ Length' = Length /\ Lawful' = Lawful
      /\ Verdict = "open" /\ Actions % 2 = 1
  BY <1>2, <1>3 DEF Actions, Length, Lawful, Verdict
<1>6. None \notin {"capture", "survival"}
  BY PlayWindowAssumption
<1>7. Finished' <=> outcome' # None
  BY DEF Finished
<1>8. Actions' = Actions + 1 /\ Actions' = 2 * Turn
  <2>1. CASE Finished'
    BY <1>2, <1>3, <1>5, <1>7, <2>1 DEF Actions, Turn
  <2>2. CASE ~Finished'
    BY <1>2, <1>3, <1>5, <1>7, <2>2 DEF Actions, Turn
  <2> QED BY <2>1, <2>2
<1>9. Verdict' = IF outcome' = None THEN "open" ELSE outcome'
  BY DEF Verdict, Finished
<1>10. (Turn >= SurvivalThreshold \/ Turn = MaxMoves) <=> Turn = Last
  BY <1>3, LastFacts, LocalMatchAssumption DEF Turn
<1>11. turnsPlayed' \in Nat /\ currentRole' \in Roles
       /\ outcome' \in {None, "capture", "survival", "technical_loss"}
  BY <1>1, <1>2, <1>3 DEF Turn, Roles
<1>12. ~Finished' => turnsPlayed' < Last
  BY <1>1, <1>2, <1>3, <1>6, <1>7, <1>10, LastFacts DEF Turn
<1>13. CASE ~Legal(Own, move)
  <2>1. positions' = positions /\ outcome' = "capture"
    BY <1>1, <1>3, <1>13
  <2>2. Verdict' = "capture"
    BY <1>6, <1>9, <2>1
  <2>3. Umpire!Next
    BY <1>2, <1>4, <1>5, <1>8, <1>13, <2>1, <2>2, UmpireForfeits
  <2> QED BY <1>2, <1>3, <1>6, <1>7, <1>11, <2>1, <2>3 DEF MatchInv
<1>14. CASE Legal(Own, move)
  <2>1. Destination(Own, move) \in Cell /\ Destination(Own, move) \in Umpire!Reach(Own)
    BY <1>3, <1>4, <1>14, ReachFacts
  <2>2. positions'["thief"] = Destination(Own, move) /\ positions'["cop"] = positions["cop"]
        /\ positions' \in [Roles -> Cell]
    BY <1>1, <1>3, <1>14, <2>1 DEF Roles
  <2>3. /\ ~(Neighbors(Destination(Own, move)) \subseteq blocked)
        /\ Destination(Own, move) \notin blocked
    BY <1>3, <1>4, <1>14, ThiefKeepsWayOut
  <2>4. Actions' = Length <=> Turn = Last
    BY <1>3, <1>5, <1>8, LastFacts DEF Turn
  <2>5. Verdict' = IF positions'["thief"] = positions["cop"] THEN "capture"
                  ELSE IF Actions' = Length THEN "survival" ELSE "open"
    BY <1>1, <1>6, <1>9, <1>10, <1>14, <2>4
  <2>6. Umpire!Next
    BY <1>2, <1>3, <1>5, <1>8, <2>1, <2>2, <2>5, UmpireThiefMoves
  <2>7. ~Finished' => ThiefIsFree'
    BY <1>1, <1>2, <1>3, <1>6, <1>7, <1>14, <2>2, <2>3 DEF ThiefIsFree
  <2> QED BY <1>2, <1>3, <1>11, <1>12, <2>2, <2>6, <2>7 DEF MatchInv
<1> QED BY <1>13, <1>14

-------------------------------------------------------------------------------
(* The window.                                                             *)

LEMMA NewMatchChase ==
    ASSUME MatchInv, command = "play", UNCHANGED <<command, policy>>, NewMatch
    PROVE  MatchInv' /\ Umpire!Next
<1>1. positions' = Start /\ blocked' = {} /\ currentRole' = "cop" /\ turnsPlayed' = 0 /\ outcome' = None
  BY DEF NewMatch
<1>2. positions' \in [Roles -> Cell] /\ ThiefIsFree'
  BY <1>1, StartHasWayOut, LocalMatchAssumption DEF ThiefIsFree, Start, Roles
<1>3. 0 % 2 = 0 /\ 0 < MaxMoves
  BY LocalMatchAssumption
<1>4. MatchInv'
  BY <1>1, <1>2, <1>3 DEF MatchInv, Roles
<1>5. Umpire!NewChase
  BY <1>1 DEF Umpire!NewChase, Start, Finished
<1> QED BY <1>4, <1>5 DEF Umpire!Next

LEMMA Untouched ==
    ASSUME MatchInv, UNCHANGED <<command, policy>>, UNCHANGED matchVars
    PROVE  MatchInv' /\ UNCHANGED Umpire!vars
<1>1. MatchInv'
  BY DEF MatchInv, ThiefIsFree, Finished, matchVars
<1>2. UNCHANGED Umpire!vars
  BY DEF Umpire!vars, matchVars, Finished
<1> QED BY <1>1, <1>2

LEMMA OpenChase ==
    ASSUME MatchInv, command = "play", NEW m, NEW windows, OpenWindow(m, windows)
    PROVE  MatchInv' /\ [Umpire!Next]_(Umpire!vars)
BY NewMatchChase, Untouched DEF OpenWindow

LEMMA NextChase == ChaseInv /\ [Next]_vars => MatchInv' /\ [Umpire!Next]_(Umpire!vars)
<1> SUFFICES ASSUME OfferInv, MatchInv, [Next]_vars
             PROVE  MatchInv' /\ [Umpire!Next]_(Umpire!vars)
  BY DEF ChaseInv
<1>1. CASE PlayNext
  <2>1. command = "play" /\ UNCHANGED <<command, policy>>
    BY <1>1, PlayWindowAssumption DEF PlayNext, AgentTurn, ToggleBarrierMode, RequestNewGame,
       DismissResult, OnHumanMove, OnCellClick, HumanMayAct, Playing, rootVars, OfferInv, RootInv, MatchInv
  <2>2. AgentMoves \subseteq LegalMoves
    BY GreedyIsLegal DEF AgentMoves, LegalMoves
  <2>3. CASE AgentTurn
    BY <2>1, <2>2, <2>3, ApplyMoveChase, Untouched DEF AgentTurn
  <2>4. ASSUME NEW move \in Moves, OnHumanMove(move) PROVE MatchInv' /\ Umpire!Next
    BY <2>1, <2>4, ApplyMoveChase DEF OnHumanMove
  <2>5. ASSUME NEW cell \in Cell, OnCellClick(cell) PROVE MatchInv' /\ Umpire!Next
    BY <2>1, <2>5, ApplyMoveChase, PlaceBarrierChase DEF OnCellClick
  <2>6. CASE ToggleBarrierMode \/ RequestNewGame \/ DismissResult
    BY <2>1, <2>6, Untouched DEF ToggleBarrierMode, RequestNewGame, DismissResult
  <2> QED BY <1>1, <2>3, <2>4, <2>5, <2>6 DEF PlayNext
<1>2. CASE \E w \in Windows : NetworkNext(w)
  BY <1>2, Untouched DEF NetworkNext, ServerStarts, ServerStops, ServerFails, MatchReports, MatchEnds,
     DrainEvents, DismissAlert, rootVars
<1>3. CASE RootNext
  <2>1. command = "play"
    BY <1>3, PlayWindowAssumption DEF RootNext, SelectMode, ConfirmSetup, CancelDialog, Joined,
       JoinTimesOut, NewGame, OfferInv, RootInv, MatchInv
  <2>2. ASSUME NEW m, CloseAndOpen(m) PROVE MatchInv' /\ [Umpire!Next]_(Umpire!vars)
    BY <2>1, <2>2, OpenChase, Untouched DEF CloseAndOpen
  <2>3. ASSUME NEW m \in GameMode, SelectMode(m) PROVE MatchInv' /\ [Umpire!Next]_(Umpire!vars)
    BY <2>2, <2>3, Untouched DEF SelectMode, rootVars
  <2>4. CASE ConfirmSetup
    BY <2>2, <2>4 DEF ConfirmSetup
  <2>5. CASE CancelDialog
    BY <2>5, Untouched DEF CancelDialog, rootVars
  <2>6. CASE Joined \/ JoinTimesOut
    <3>1. PICK m, windows : OpenWindow(m, windows)
      BY <2>6 DEF Joined, JoinTimesOut
    <3> QED BY <2>1, <3>1, OpenChase
  <2>7. CASE NewGame
    BY <2>7, Untouched DEF NewGame, rootVars
  <2> QED BY <1>3, <2>3, <2>4, <2>5, <2>6, <2>7 DEF RootNext
<1>4. CASE Simulate
  BY <1>4, PlayWindowAssumption, SimulatedCopChase, SimulatedThiefChase DEF Simulate, rootVars
<1>5. CASE UNCHANGED vars
  BY <1>5, Untouched DEF vars, rootVars
<1> QED BY <1>1, <1>2, <1>3, <1>4, <1>5 DEF Next

LEMMA InitUmpire == Init => Umpire!Init
<1> SUFFICES ASSUME Init PROVE Umpire!Init
  OBVIOUS
<1>1. Last \in Nat \ {0} /\ Last <= MaxMoves /\ MaxMoves \in Nat \ {0}
  BY LastFacts, LocalMatchAssumption
<1> QED BY <1>1 DEF Init, FirstMatch, Dispatched, Start, Finished, Last, Umpire!Init

\* Whoever chooses the moves, and whatever the player presses, every match of
\* the windows and of the simulation follows the rules of the chase
\* (interactive_match.py:153-208, simulation.py:69-133).
THEOREM MatchesFollowTheRules == Spec => PlaysTheChase
<1>1. Init => ChaseInv /\ Umpire!Init
  BY InitChase, InitUmpire
<1>2. ChaseInv /\ [Next]_vars => ChaseInv'
  BY NextOffers, NextChase DEF ChaseInv
<1>3. ChaseInv /\ [Next]_vars => [Umpire!Next]_(Umpire!vars)
  BY NextChase
<1> QED BY <1>1, <1>2, <1>3, PTL DEF Spec, PlaysTheChase, Umpire!Spec
===============================================================================
