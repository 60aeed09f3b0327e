------------------------------ MODULE PeerMatch ------------------------------
(***************************************************************************)
(* One network game between two processes that run NetworkMatchRunner.run, *)
(* from the moment the session is negotiated to the result file.           *)
(*                                                                         *)
(* Each peer has a board, a position, a log of sealed records and a turn   *)
(* counter of its own.  All a peer learns of the other during play is what *)
(* a turn publishes: the barrier, the capture claim, the answer to the     *)
(* last claim, the claim of a win and the commitment of the record, which  *)
(* is represented by the record itself.  The records are revealed in the   *)
(* audit.  The strategy is any legal action.                               *)
(*                                                                         *)
(* Turns arrive in order and once (TurnDelivery); sending one may still    *)
(* fail after it has arrived, when the response is lost.                   *)
(***************************************************************************)
EXTENDS TrajectoryAudit

CONSTANTS
    MaxMoves,     \* turns of the thief (35 in config/game.json)
    MaxBarriers,  \* barriers of the police (14)
    Deadlines,    \* whether a deadline can expire
    Cancels       \* whether the operator may stop a peer

Roles == {"thief", "police"}

\* The answer to a claim, and what a peer seals in a turn.
Answers  == [claim : Cell, caught : BOOLEAN]
Wins     == {"boxed_in", "survival"}
Outcomes == {"capture", "survival", "technical_loss"}
Record ==
    [step : Nat, role : Roles, state : Cell, position : Cell, move : Moves \cup {"absent"},
     terminal_ack : BOOLEAN, barrier : Cell \cup {None}, claim : Cell \cup {None},
     response : Answers \cup {None}, win : Wins \cup {None}]

\* What _send carries.
TurnRequest  == [kind : {"turn"}, payload : Record]
AuditRequest ==
    [kind : {"audit"}, payload : [records : Seq(Record), claim : Outcomes]]

ASSUME MatchAssumption ==
    /\ MaxMoves \in Nat \ {0}
    /\ MaxBarriers \in Nat
    /\ Deadlines \in BOOLEAN /\ Cancels \in BOOLEAN
    /\ None \notin Answers /\ None \notin Wins
    /\ None \notin TurnRequest /\ None \notin AuditRequest

Peer(r) == IF r = "thief" THEN "police" ELSE "thief"

VARIABLES
    stage,     \* where run() is, or how it failed
    turn,      \* global_turn
    position,  \* own_position
    blocked,   \* Board._blocked; _barriers_placed is its size
    knownCop,  \* known_cop_position, of the thief
    response,  \* pending_claim_response, of the thief
    boxedIn,   \* thief_boxed_in
    claims,    \* outstanding_capture_claims, of the police
    missing,   \* missing_claim_response, of the police
    outcome,   \* the outcome each peer believes in
    log,       \* own_records without step 0
    commits,   \* peer_commits
    wire,      \* the request _send is repeating
    inbox,     \* PeerInboxes.turns
    audits,    \* PeerInboxes.audits
    result     \* the result file

boardVars  == <<position, blocked>>
thiefVars  == <<knownCop, response, boxedIn>>
policeVars == <<claims, missing>>
mailVars   == <<wire, inbox, audits>>
vars == <<stage, turn, boardVars, thiefVars, policeVars, outcome, log, commits,
          mailVars, result>>

Failures == {"timed_out", "cancelled", "protocol_error", "belief_error"}

Init ==
    /\ stage = [r \in Roles |-> "play"] /\ turn = [r \in Roles |-> 1]
    /\ position = [police |-> CopStart, thief |-> ThiefStart]
    /\ blocked = [r \in Roles |-> {}]
    /\ knownCop = CopStart /\ response = None /\ boxedIn = FALSE
    /\ claims = {} /\ missing = FALSE
    /\ outcome = [r \in Roles |-> "survival"]
    /\ log = [r \in Roles |-> <<>>] /\ commits = [r \in Roles |-> <<>>]
    /\ wire = [r \in Roles |-> None] /\ inbox = [r \in Roles |-> <<>>]
    /\ audits = [r \in Roles |-> None] /\ result = [r \in Roles |-> None]

-----------------------------------------------------------------------------
(* The loop over global_turn.                                              *)

Active(g) == IF g % 2 = 1 THEN "thief" ELSE "police"
StepOf(g) == (g + 1) \div 2
LastTurn  == 2 * MaxMoves - 1

OwnTurn(r)  == stage[r] = "play" /\ Active(turn[r]) = r
PeerTurn(r) == stage[r] = "play" /\ Active(turn[r]) # r

\* The next iteration, or the end of the range.
Advance(r) ==
    /\ turn' = [turn EXCEPT ![r] = @ + 1]
    /\ stage' = [stage EXCEPT ![r] = IF turn[r] = LastTurn THEN "over" ELSE "play"]
    /\ UNCHANGED outcome

Conclude(r, o) ==
    /\ outcome' = [outcome EXCEPT ![r] = o]
    /\ stage' = [stage EXCEPT ![r] = "over"]
    /\ UNCHANGED turn

Fail(r, why) ==
    /\ stage' = [stage EXCEPT ![r] = why]
    /\ UNCHANGED <<turn, outcome>>

\* stop.is_set() at the top of an iteration.
Cancel(r) ==
    /\ Cancels
    /\ stage[r] = "play"
    /\ Fail(r, "cancelled")
    /\ UNCHANGED <<boardVars, thiefVars, policeVars, log, commits, mailVars, result>>

Open(r, cell) == cell \in Cell \ blocked[r]

\* Board.apply_move: STAY never enters a cell.
Legal(r, move) ==
    move = "STAY" \/ Open(r, Destination(position[r], move))

\* Board.place_barrier
Placeable(r, cell) ==
    /\ Cardinality(blocked[r]) < MaxBarriers
    /\ cell \in Neighbors(position[r]) \cup {position[r]}
    /\ cell \notin blocked[r]

BoxedIn(cells, cell) == Neighbors(cell) \subseteq cells

Payload(r, move, barrier, claim, answer, win) ==
    [step |-> StepOf(turn[r]), role |-> r, state |-> position[r],
     position |-> position'[r], move |-> move, terminal_ack |-> FALSE,
     barrier |-> barrier, claim |-> claim, response |-> answer, win |-> win]

\* Seal, remember and begin to send a turn.
Submit(r, payload) ==
    /\ log' = [log EXCEPT ![r] = Append(@, payload)]
    /\ wire' = [wire EXCEPT ![r] = [kind |-> "turn", payload |-> payload]]
    /\ stage' = [stage EXCEPT ![r] = "sending"]
    /\ UNCHANGED <<turn, thiefVars, policeVars, outcome, commits, inbox, audits, result>>

Caught == response # None /\ response.caught

\* A caught thief acknowledges without a move.
AcknowledgeCapture ==
    /\ OwnTurn("thief") /\ Caught
    /\ UNCHANGED boardVars
    /\ Submit("thief", [Payload("thief", "absent", None, None, response, None)
                          EXCEPT !.terminal_ack = TRUE])

\* (Mutant) Survival is looked at before the walls.
WinClaimSurvivalFirst ==
    IF StepOf(turn["thief"]) >= MaxMoves THEN "survival"
    ELSE IF boxedIn THEN "boxed_in" ELSE None

WinClaim ==
    IF boxedIn THEN "boxed_in"
    ELSE IF StepOf(turn["thief"]) >= MaxMoves THEN "survival" ELSE None

ThiefMove(move) ==
    /\ OwnTurn("thief") /\ ~Caught
    /\ Legal("thief", move)
    /\ position' = [position EXCEPT !["thief"] = Destination(@, move)]
    /\ Submit("thief", Payload("thief", move, None, None, response, WinClaim))
    /\ UNCHANGED blocked

PoliceMove(move) ==
    /\ OwnTurn("police")
    /\ Legal("police", move)
    /\ position' = [position EXCEPT !["police"] = Destination(@, move)]
    /\ Submit("police", Payload("police", move, None, position'["police"], None, None))
    /\ UNCHANGED blocked

\* (Mutant) The police moves as well as placing a barrier.
PoliceBarrierAndMove(cell) ==
    /\ OwnTurn("police")
    /\ Placeable("police", cell)
    /\ blocked' = [blocked EXCEPT !["police"] = @ \cup {cell}]
    /\ \E move \in Moves :
          /\ Legal("police", move)
          /\ position' = [position EXCEPT !["police"] = Destination(@, move)]
          /\ Submit("police", Payload("police", move, cell, position'["police"], None, None))

\* A barrier takes the place of the move.
PoliceBarrier(cell) ==
    /\ OwnTurn("police")
    /\ Placeable("police", cell)
    /\ blocked' = [blocked EXCEPT !["police"] = @ \cup {cell}]
    /\ UNCHANGED position
    /\ Submit("police", Payload("police", "STAY", cell, position["police"], None, None))

Delivered(r) == stage[r] = "sending" /\ wire[r] = None

WinOutcome(win) == IF win = "boxed_in" THEN "capture" ELSE "survival"

\* _send returned: the police remembers what it asked, the thief forgets a
\* negative answer, and a terminal turn ends the loop.
PoliceTurnSent ==
    /\ Delivered("police")
    /\ LET p == Last(log["police"]) IN claims' = {p.claim, p.barrier} \ {None}
    /\ Advance("police")
    /\ UNCHANGED <<boardVars, thiefVars, missing, log, commits, mailVars, result>>

\* (Mutant) The acknowledgement ends the loop and leaves the outcome alone.
ThiefTurnSentForgettingCapture ==
    /\ Delivered("thief")
    /\ LET p == Last(log["thief"]) IN
          /\ response' = IF Caught THEN response ELSE None
          /\ IF Caught THEN Conclude("thief", outcome["thief"])
             ELSE IF p.win # None THEN Conclude("thief", WinOutcome(p.win))
             ELSE Advance("thief")
    /\ UNCHANGED <<boardVars, knownCop, boxedIn, policeVars, log, commits, mailVars, result>>

ThiefTurnSent ==
    /\ Delivered("thief")
    /\ LET p == Last(log["thief"]) IN
          /\ response' = IF Caught THEN response ELSE None
          /\ IF Caught THEN Conclude("thief", "capture")
             ELSE IF p.win # None THEN Conclude("thief", WinOutcome(p.win))
             ELSE Advance("thief")
    /\ UNCHANGED <<boardVars, knownCop, boxedIn, policeVars, log, commits, mailVars, result>>

-----------------------------------------------------------------------------
(* The tunnel.                                                             *)

\* The request reaches the peer's server, which answers ok.
Deliver(r) ==
    /\ wire[r] # None
    /\ wire' = [wire EXCEPT ![r] = None]
    /\ IF wire[r].kind = "turn"
       THEN inbox' = [inbox EXCEPT ![Peer(r)] = Append(@, wire[r].payload)] /\ UNCHANGED audits
       ELSE audits' = [audits EXCEPT ![Peer(r)] = wire[r].payload] /\ UNCHANGED inbox
    /\ UNCHANGED <<stage, turn, boardVars, thiefVars, policeVars, outcome, log, commits, result>>

\* (Mutant) The exchange of the audits has no deadline.
ExpireInPlay(r) ==
    /\ Deadlines
    /\ stage[r] = "sending" \/ (PeerTurn(r) /\ inbox[r] = <<>>)
    /\ Fail(r, "timed_out")
    /\ UNCHANGED <<boardVars, thiefVars, policeVars, log, commits, mailVars, result>>

\* The deadline of a request passes, whether or not it has arrived, or the
\* peer's turn or audit does not come in time.
Expire(r) ==
    /\ Deadlines
    /\ \/ stage[r] \in {"sending", "sending_audit"}
       \/ PeerTurn(r) /\ inbox[r] = <<>>
       \/ stage[r] = "awaiting_audit" /\ audits[r] = None
    /\ Fail(r, "timed_out")
    /\ UNCHANGED <<boardVars, thiefVars, policeVars, log, commits, mailVars, result>>

-----------------------------------------------------------------------------
(* The peer's turn.                                                        *)

NextTurn(r) ==
    /\ PeerTurn(r)
    /\ inbox[r] # <<>>
    /\ inbox' = [inbox EXCEPT ![r] = Tail(@)]
    /\ commits' = [commits EXCEPT ![r] = Append(@, Head(inbox[r]))]
    /\ UNCHANGED <<position, log, wire, audits, result>>

\* The thief's checks on a declared barrier.
BarrierRefused(p) ==
    /\ p.barrier # None /\ p.claim # None
    /\ \/ knownCop # None /\ p.claim # knownCop
       \/ p.barrier \notin Neighbors(p.claim) \cup {p.claim}

\* (Mutant) A barrier under the police is not put on the thief's board.
WallsBesidePolice(p) == blocked["thief"] \cup ({p.barrier} \ {None, p.claim})

Walls(p) == blocked["thief"] \cup ({p.barrier} \ {None})

\* BeliefMap.set_certain_position raises on a blocked cell; only the barrier
\* of this very turn is spared.
BeliefRefused(p) == p.claim # None /\ p.claim # p.barrier /\ p.claim \in Walls(p)

\* (Mutant) The answer always names the first claim.
AnswerFirstClaim(p) ==
    LET own == position["thief"]
        first == IF p.claim # None THEN p.claim ELSE p.barrier
    IN IF first = None THEN response
       ELSE [claim |-> first, caught |-> own \in {p.claim, p.barrier}]

\* The answer to the claims of a turn: the own cell, or the first claim.
Answer(p) ==
    LET own == position["thief"]
        first == IF p.claim # None THEN p.claim ELSE p.barrier
    IN IF first = None THEN response
       ELSE IF own \in {p.claim, p.barrier} THEN [claim |-> own, caught |-> TRUE]
       ELSE [claim |-> first, caught |-> FALSE]

ThiefAccepts ==
    /\ NextTurn("thief")
    /\ LET p == Head(inbox["thief"]) IN
          /\ ~BarrierRefused(p) /\ ~BeliefRefused(p)
          /\ blocked' = [blocked EXCEPT !["thief"] = Walls(p)]
          /\ knownCop' = p.claim
          /\ response' = Answer(p)
          /\ boxedIn' = (boxedIn \/ BoxedIn(Walls(p), position["thief"]))
    /\ Advance("thief")
    /\ UNCHANGED policeVars

ThiefRefuses ==
    /\ NextTurn("thief")
    /\ LET p == Head(inbox["thief"]) IN
          \/ /\ BarrierRefused(p)
             /\ Fail("thief", "protocol_error")
             /\ UNCHANGED blocked
          \/ /\ ~BarrierRefused(p) /\ BeliefRefused(p)
             /\ Fail("thief", "belief_error")
             /\ blocked' = [blocked EXCEPT !["thief"] = Walls(p)]
    /\ UNCHANGED <<thiefVars, policeVars>>

\* validate_claim_response, and the answer to no question.
AnswerRefused(p) == p.response # None /\ p.response.claim \notin claims

PoliceTakes ==
    /\ NextTurn("police")
    /\ LET p == Head(inbox["police"])
           caught == p.response # None /\ p.response.caught IN
          IF AnswerRefused(p)
          THEN Fail("police", "protocol_error") /\ UNCHANGED policeVars
          ELSE /\ missing' = (missing \/ (claims # {} /\ p.response = None))
               /\ claims' = IF caught THEN claims ELSE {}
               /\ IF caught THEN Conclude("police", "capture")
                  ELSE IF p.win # None THEN Conclude("police", WinOutcome(p.win))
                  ELSE Advance("police")
    /\ UNCHANGED <<blocked, thiefVars>>

-----------------------------------------------------------------------------
(* The final audit.                                                        *)

SendAudit(r) ==
    /\ stage[r] = "over"
    /\ wire' = [wire EXCEPT ![r] =
          [kind |-> "audit", payload |-> [records |-> log[r], claim |-> outcome[r]]]]
    /\ stage' = [stage EXCEPT ![r] = "sending_audit"]
    /\ UNCHANGED <<turn, boardVars, thiefVars, policeVars, outcome, log, commits,
                   inbox, audits, result>>

AuditSent(r) ==
    /\ stage[r] = "sending_audit" /\ wire[r] = None
    /\ stage' = [stage EXCEPT ![r] = "awaiting_audit"]
    /\ UNCHANGED <<turn, boardVars, thiefVars, policeVars, outcome, log, commits,
                   mailVars, result>>

\* verify_audit_records: every commitment is revealed, and nothing else.
Verdict(records, expected) ==
    IF ~(Range(expected) \subseteq Range(records)) THEN "forged"
    ELSE IF Range(records) # Range(expected) THEN "structural" ELSE "verified"

\* mutual_sign_off, for a peer that names its git commit.
Signed(r, replay, o) ==
    /\ audits[r].claim = o
    /\ replay.errors = {}
    /\ replay.capture # None => replay.trailing = 0
    /\ ~(r = "police" /\ missing)

WriteResult(r, o, signed) ==
    /\ outcome' = [outcome EXCEPT ![r] = o]
    /\ result' = [result EXCEPT ![r] = [outcome |-> o, signed |-> signed]]

Settle(r) ==
    /\ stage[r] = "awaiting_audit" /\ audits[r] # None
    /\ LET records == audits[r].records
           replay  == Audit(r, log[r], records)
           final   == IF replay.capture # None THEN "capture" ELSE outcome[r]
       IN CASE Verdict(records, commits[r]) = "forged" ->
                 WriteResult(r, "technical_loss", FALSE)
            [] Verdict(records, commits[r]) = "structural" ->
                 WriteResult(r, outcome[r], FALSE)
            [] Verdict(records, commits[r]) = "verified" ->
                 WriteResult(r, final, Signed(r, replay, final))
    /\ stage' = [stage EXCEPT ![r] = "done"]
    /\ UNCHANGED <<turn, boardVars, thiefVars, policeVars, log, commits, mailVars>>

-----------------------------------------------------------------------------
Ended(r) == stage[r] \in {"done"} \cup Failures

\* Both peers have returned from run().
BothEnded == (\A r \in Roles : Ended(r)) /\ UNCHANGED vars

ThiefStep ==
    \/ AcknowledgeCapture \/ (\E move \in Moves : ThiefMove(move))
    \/ ThiefTurnSent \/ ThiefAccepts \/ ThiefRefuses

PoliceStep ==
    \/ (\E move \in Moves : PoliceMove(move)) \/ (\E cell \in Cell : PoliceBarrier(cell))
    \/ PoliceTurnSent \/ PoliceTakes

AuditStep(r) == SendAudit(r) \/ AuditSent(r) \/ Settle(r)

Next ==
    \/ ThiefStep \/ PoliceStep
    \/ \E r \in Roles : AuditStep(r) \/ Deliver(r) \/ Expire(r) \/ Cancel(r)
    \/ BothEnded

Spec == Init /\ [][Next]_vars

\* A step of Settle, whatever the replay finds: fairness is stated of this
\* form, for which TLC need not replay the records to see that it is enabled.
SettleSomehow(r) ==
    /\ stage[r] = "awaiting_audit" /\ audits[r] # None
    /\ stage' = [stage EXCEPT ![r] = "done"]
    /\ \E o \in Outcomes, signed \in BOOLEAN :
          WriteResult(r, o, signed)
    /\ UNCHANGED <<turn, boardVars, thiefVars, policeVars, log, commits, mailVars>>

\* A process that can take its next step takes it, and its clock goes on.
RunFairness ==
    /\ WF_vars(ThiefStep) /\ WF_vars(PoliceStep)
    /\ \A r \in Roles :
          /\ WF_vars(SendAudit(r)) /\ WF_vars(AuditSent(r)) /\ WF_vars(SettleSomehow(r))
          /\ WF_vars(Expire(r))

RunSpec == Spec /\ RunFairness

-----------------------------------------------------------------------------

\* The k-th action of the police catches the thief where it stands: the police
\* or its barrier is on the thief's cell, or the thief is walled in.
CaughtAt(k) ==
    LET p     == log["police"][k]
        cell  == log["thief"][k].position
        walls == {log["police"][i].barrier : i \in 1 .. k}
    IN cell \in {p.position, p.barrier} \/ Neighbors(cell) \subseteq walls

\* What happened, told from both logs, which no peer sees during play.
CaughtInFact == \E k \in 1 .. Len(log["police"]) : CaughtAt(k)

\* Each result is the truth about the game: capture if and only if the thief
\* was caught (network_match.py:1050-1064, 872-878, 1103-1117).
ResultIsTrue ==
    \A r \in Roles :
        result[r] # None => (result[r].outcome = "capture" <=> CaughtInFact)

\* Two results of one game are the same, and so is the signature
\* (network_match.py:1213-1240).
ResultsAgree ==
    result["thief"] # None /\ result["police"] # None =>
        result["thief"] = result["police"]

\* The audit of a game between two runners of this code signs the result: the
\* records verify, the replay finds no fault and the claims match.
GameIsSigned == \A r \in Roles : result[r] # None => result[r].signed

\* No turn of a runner is refused by the other (network_match.py:959-987,
\* 1091-1111), but for one: a police that stays on a cell it walled in an
\* earlier turn claims it, and the belief map of the thief takes no blocked cell
\* (network_match.py:202-218).
TurnsAreAccepted ==
    /\ \A r \in Roles : stage[r] # "protocol_error"
    /\ stage["thief"] = "belief_error" =>
         LET last == Len(log["police"]) IN
         /\ log["police"][last].move = "STAY"
         /\ \E k \in 1 .. last - 1 : log["police"][k].barrier = log["police"][last].position

\* When the thief has seen every turn of the police, both boards have the same
\* barriers; before that the police is ahead by the barrier of one turn.
BoardsAgree ==
    LET sent == Len(log["police"])  seen == Len(commits["thief"]) IN
    /\ sent - seen \in {0, 1}
    /\ stage["thief"] # "protocol_error" =>
         blocked["police"] \ blocked["thief"] =
           IF sent = seen THEN {} ELSE {Last(log["police"]).barrier} \ {None}

\* The peers, who see half the board each, play the umpire's game: every
\* action is legal on the common board and none follows the capture
\* (network_match.py:763-1118).
Game == INSTANCE ChaseGame WITH
    thief   <- position["thief"],
    police  <- position["police"],
    walls   <- blocked["police"],
    actions <- Len(log["police"]) + IF CaughtInFact THEN Len(log["police"])
                                    ELSE Len(log["thief"]),
    verdict <- IF CaughtInFact THEN "capture"
               ELSE IF Len(log["thief"]) = MaxMoves THEN "survival" ELSE "open"
PlaysTheGame == Game!Spec

\* The audit never overturns the outcome a peer played to
\* (network_match.py:1197-1204).
AuditConfirms ==
    [][\A r \in Roles : result'[r] # result[r] => outcome'[r] = outcome[r]]_vars

\* With deadlines, both peers return from run().
NobodyHangs == <>(\A r \in Roles : Ended(r))

\* Once the thief knows it was caught, each peer records and signs the capture
\* or fails; it neither plays on nor settles for something else.
CaptureIsRecorded ==
    \A r \in Roles :
        Caught ~> \/ result[r] = [outcome |-> "capture", signed |-> TRUE]
                  \/ stage[r] \in Failures

===============================================================================
