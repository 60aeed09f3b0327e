--------------------------- MODULE PeerMatchProofs ---------------------------
(***************************************************************************)
(* Theorems about PeerMatch for every board, every budget of barriers,     *)
(* every length of the game, with or without deadlines and cancellation:   *)
(* no turn of a peer is refused, the boards agree, the two loops play the  *)
(* game of ChaseGame, the audit finds no fault in its records, and both    *)
(* results say what happened in it.  Of any two logs, whoever wrote them,  *)
(* the audit finds the faults and the capture of RevealedLogs.             *)
(***************************************************************************)
EXTENDS PeerMatch, RevealedLogs, FiniteSetTheorems, SequenceTheorems, WellFoundedInduction, TLAPS

-----------------------------------------------------------------------------
(* The inductive invariant.                                                *)

Playing == {"play", "sending"}
Stages  == {"play", "sending", "over", "sending_audit", "awaiting_audit", "done"} \cup Failures

TypeOK ==
    /\ stage \in [Roles -> Stages] /\ turn \in [Roles -> Nat \ {0}]
    /\ position \in [Roles -> Cell] /\ blocked \in [Roles -> SUBSET Cell]
    /\ knownCop \in Cell \cup {None} /\ response \in Answers \cup {None} /\ boxedIn \in BOOLEAN
    /\ log \in [Roles -> Seq(Record)]
    /\ commits \in [Roles -> Seq(Record)] /\ inbox \in [Roles -> Seq(Record)]
    /\ wire \in [Roles -> {None} \cup TurnRequest \cup AuditRequest]
    /\ outcome \in [Roles -> Outcomes]

Sent(r)   == Len(log[r])
Seen(r)   == Len(commits[r])
OnWire(r) == wire[r] # None /\ wire[r].kind = "turn"

\* Where each loop is: a turn of one's own is sealed, then sent, then counted.
LoopInv ==
    /\ Sent("thief") \in {Seen("thief"), Seen("thief") + 1}
    /\ Seen("police") \in {Sent("police"), Sent("police") + 1}
    /\ \A r \in Roles :
          /\ stage[r] = "play" => turn[r] = Sent(r) + Seen(r) + 1 /\ turn[r] <= LastTurn
          /\ stage[r] = "sending" => turn[r] = Sent(r) + Seen(r) /\ turn[r] <= LastTurn
    /\ stage["thief"] = "sending" => Sent("thief") = Seen("thief") + 1
    /\ stage["police"] = "sending" => Sent("police") = Seen("police")

\* What a peer has sealed has been taken, waits in the inbox or is being sent.
MailInv ==
    \A r \in Roles :
        /\ Sent(r) = Seen(Peer(r)) + Len(inbox[Peer(r)]) + (IF OnWire(r) THEN 1 ELSE 0)
        /\ OnWire(r) => wire[r].payload = log[r][Sent(r)]
        /\ inbox[Peer(r)] # <<>> => Head(inbox[Peer(r)]) = log[r][Sent(r)]
        /\ stage[r] \in {"play", "over"} => wire[r] = None
        /\ stage[r] = "sending" => wire[r] = None \/ OnWire(r)

\* The records of the police: what it claims is where it is, and a barrier
\* takes the place of the move.
PoliceRecords(k) ==
    LET p == log["police"][k] IN
    /\ p.claim = p.position
    /\ p.barrier # None => /\ p.position = p.state
                           /\ p.barrier \in Neighbors(p.position) \cup {p.position}
    /\ \A j \in 1 .. k - 1 : log["police"][j].barrier = p.position => p.move = "STAY"

\* The boards: the thief lacks at most the barrier of the turn it has not taken.
BoardInv ==
    /\ position["police"] = IF Sent("police") = 0 THEN CopStart
                            ELSE log["police"][Sent("police")].position
    /\ position["thief"] = IF Sent("thief") = 0 THEN ThiefStart
                           ELSE log["thief"][Sent("thief")].position
    /\ \A k \in 1 .. Sent("police") : PoliceRecords(k)
    /\ blocked["police"] = {log["police"][k].barrier : k \in 1 .. Sent("police")} \ {None}
    /\ blocked["thief"] \subseteq blocked["police"]
    /\ blocked["police"] \ blocked["thief"] =
         IF Sent("police") = Seen("thief") THEN {}
         ELSE {log["police"][Sent("police")].barrier} \ {None}
    /\ stage["thief"] \in Playing =>
         knownCop = IF Sent("police") = Seen("thief") THEN position["police"]
                    ELSE log["police"][Sent("police")].state

\* The answer of a thief in a cell to a turn of the police.
AnswerTo(p, own) ==
    IF own \in {p.claim, p.barrier} THEN [claim |-> own, caught |-> TRUE]
    ELSE [claim |-> p.claim, caught |-> FALSE]

IsCaught(answer) == answer # None /\ answer.caught

Replies(k) ==
    log["thief"][k].response =
        IF k = 1 THEN None ELSE AnswerTo(log["police"][k - 1], log["thief"][k - 1].position)

\* What the thief knows before its own turn, and what it seals in it.
ThiefKnows ==
    stage["thief"] = "play" =>
        IF Sent("thief") = Seen("thief")
        THEN /\ response = IF Seen("thief") = 0 THEN None
                          ELSE AnswerTo(log["police"][Seen("thief")], position["thief"])
             /\ boxedIn <=> Seen("thief") > 0 /\ BoxedIn(blocked["thief"], position["thief"])
        ELSE ~boxedIn

ThiefTells ==
    stage["thief"] = "sending" =>
        LET t == log["thief"][Sent("thief")] IN
        /\ t.response = response
        /\ ~Caught /\ boxedIn => t.win = "boxed_in"

\* What the police asked is what its last turn claims.
PoliceAsks ==
    stage["police"] = "play" /\ Sent("police") = Seen("police") =>
        claims = IF Sent("police") = 0 THEN {}
                 ELSE {log["police"][Sent("police")].claim,
                       log["police"][Sent("police")].barrier} \ {None}

ReplyInv ==
    /\ \A k \in 1 .. Sent("thief") : Replies(k)
    /\ ThiefKnows /\ ThiefTells /\ PoliceAsks

\* Nothing follows the capture but the thief's admission of it.
Terminal(t) == IsCaught(t.response) \/ t.win # None

ChaseInv ==
    /\ \A k \in 1 .. Sent("police") - 1 : ~CaughtAt(k)
    /\ Sent("thief") = Sent("police") + 1 /\ Sent("police") > 0 /\ CaughtAt(Sent("police")) =>
         Terminal(log["thief"][Sent("thief")])
    /\ stage["police"] \in Playing /\ Seen("police") = Sent("police") + 1 =>
         ~Terminal(log["thief"][Sent("thief")])

\* Why a turn is refused, if one is.
RefusalInv ==
    stage["thief"] = "belief_error" =>
        Sent("police") = Seen("thief") /\ Sent("thief") = Seen("thief")

IInv == TypeOK /\ LoopInv /\ MailInv /\ BoardInv /\ ReplyInv /\ ChaseInv
        /\ RefusalInv /\ TurnsAreAccepted

-----------------------------------------------------------------------------
(* Two roles, and what a step may do to a log.                             *)

LEMMA RoleFacts ==
    /\ Roles = {"thief", "police"}
    /\ Peer("thief") = "police" /\ Peer("police") = "thief"
    /\ \A r \in Roles : Peer(r) \in Roles /\ Peer(Peer(r)) = r
BY DEF Roles, Peer

\* The board: where a legal move leads.
LEMMA MoveFacts ==
    ASSUME TypeOK, NEW r \in Roles, NEW move \in Moves, Legal(r, move)
    PROVE  /\ Destination(position[r], move) \in Cell
           /\ move # "STAY" => Destination(position[r], move) \notin blocked[r]
           /\ move = "STAY" => Destination(position[r], move) = position[r]
BY DEF TypeOK, Legal, Open, Destination

LEMMA NeighborsAreCells == \A c : Neighbors(c) \subseteq Cell
BY DEF Neighbors

LEMMA StepType == \A n \in Nat : StepOf(n) \in Nat
BY DEF StepOf

\* Sealing a turn adds one record and goes on to send it.
LEMMA Sealed ==
    ASSUME TypeOK, NEW r \in Roles, NEW t \in Record, Submit(r, t)
    PROVE  /\ log' \in [Roles -> Seq(Record)]
           /\ Sent(r)' = Sent(r) + 1 /\ log'[r][Sent(r) + 1] = t
           /\ \A k \in 1 .. Sent(r) : log'[r][k] = log[r][k]
           /\ log'[Peer(r)] = log[Peer(r)] /\ Sent(Peer(r))' = Sent(Peer(r))
           /\ wire' = [wire EXCEPT ![r] = [kind |-> "turn", payload |-> t]]
           /\ OnWire(r)'
           /\ stage' = [stage EXCEPT ![r] = "sending"]
           /\ UNCHANGED <<turn, knownCop, response, boxedIn, claims, missing, outcome,
                          commits, inbox, audits, result>>
<1>1. log' = [log EXCEPT ![r] = Append(@, t)]
  BY DEF Submit
<1>2. log[r] \in Seq(Record)
  BY DEF TypeOK
<1>3. /\ Append(log[r], t) \in Seq(Record)
      /\ Len(Append(log[r], t)) = Len(log[r]) + 1
      /\ \A k \in 1 .. Len(log[r]) : Append(log[r], t)[k] = log[r][k]
      /\ Append(log[r], t)[Len(log[r]) + 1] = t
  BY <1>2, AppendProperties
<1>4. log'[r] = Append(log[r], t) /\ log'[Peer(r)] = log[Peer(r)]
  BY <1>1, RoleFacts DEF TypeOK
<1>5. log' \in [Roles -> Seq(Record)]
  BY <1>1, <1>3 DEF TypeOK
<1>6. wire' = [wire EXCEPT ![r] = [kind |-> "turn", payload |-> t]]
  BY DEF Submit
<1>7. [kind |-> "turn", payload |-> t] \in TurnRequest
  BY DEF TurnRequest
<1>8. wire'[r] # None /\ wire'[r].kind = "turn"
  BY <1>6, <1>7, MatchAssumption DEF TypeOK
<1> QED BY <1>3, <1>4, <1>5, <1>6, <1>8 DEF Sent, OnWire, Submit, thiefVars, policeVars

-----------------------------------------------------------------------------
(* What an own turn seals, whichever action it is.                         *)

LEMMA PayloadType ==
    ASSUME TypeOK, position' \in [Roles -> Cell], NEW r \in Roles,
           NEW move \in Moves \cup {"absent"}, NEW barrier \in Cell \cup {None},
           NEW claim \in Cell \cup {None}, NEW answer \in Answers \cup {None},
           NEW win \in Wins \cup {None}
    PROVE  Payload(r, move, barrier, claim, answer, win) \in Record
<1>1. StepOf(turn[r]) \in Nat
  BY StepType DEF TypeOK
<1> QED BY <1>1 DEF Payload, Record, TypeOK

Reaches(r, cell) ==
    \/ cell = position[r]
    \/ cell \in Cell \ blocked[r] /\ \E move \in Moves : cell = Destination(position[r], move)

\* The record tells a move from a cell to its position.
Leads(p, cell) == p.state = cell /\ p.position = Destination(cell, ReadMove(p))

\* What the record of a turn discloses, whoever seals it.
Discloses(r, t) ==
    /\ t.step = StepOf(turn[r]) /\ t.role = r /\ Audited(t) /\ Leads(t, position[r])
    /\ r = "thief" => t.barrier = None /\ t.claim = None

ThiefSeals(t) ==
    /\ Discloses("thief", t)
    /\ OwnTurn("thief") /\ Submit("thief", t) /\ UNCHANGED blocked
    /\ position' = [position EXCEPT !["thief"] = t.position]
    /\ Reaches("thief", t.position) /\ (Caught => t.position = position["thief"])
    /\ t.response = response /\ (~Caught => t.win = WinClaim)

PoliceSeals(p) ==
    /\ Discloses("police", p)
    /\ OwnTurn("police") /\ Submit("police", p)
    /\ position' = [position EXCEPT !["police"] = p.position]
    /\ blocked' = [blocked EXCEPT !["police"] = @ \cup ({p.barrier} \ {None})]
    /\ p.state = position["police"] /\ p.claim = p.position
    /\ Reaches("police", p.position) /\ (p.position \in blocked["police"] => p.move = "STAY")
    /\ p.barrier # None =>
         /\ p.position = position["police"]
         /\ p.barrier \in (Neighbors(p.position) \cup {p.position}) \ blocked["police"]
         /\ Cardinality(blocked["police"]) < MaxBarriers

LEMMA WinClaimType == WinClaim \in Wins \cup {None}
BY DEF WinClaim, Wins

LEMMA ThiefTurns ==
    ASSUME TypeOK, AcknowledgeCapture \/ (\E move \in Moves : ThiefMove(move))
    PROVE  \E t \in Record : ThiefSeals(t)
<1>1. CASE AcknowledgeCapture
  <2> DEFINE q == Payload("thief", "absent", None, None, response, None)
             t == [q EXCEPT !.terminal_ack = TRUE]
  <2>1. position' = position /\ blocked' = blocked
    BY <1>1 DEF AcknowledgeCapture, boardVars
  <2>2. position' \in [Roles -> Cell]
    BY <2>1 DEF TypeOK
  <2>3. q \in Record
    BY <2>2, PayloadType, RoleFacts DEF TypeOK
  <2>4. t \in Record /\ t.position = position["thief"] /\ t.response = response
    BY <2>1, <2>3 DEF Record, Payload
  <2>5. OwnTurn("thief") /\ Caught /\ Submit("thief", t)
    BY <1>1 DEF AcknowledgeCapture
  <2> HIDE DEF t
  <2>6. position' = [position EXCEPT !["thief"] = t.position]
    BY <2>1, <2>4 DEF TypeOK
  <2>7. Discloses("thief", t)
    BY <2>1, <2>4 DEF t, Payload, Discloses, Audited, Leads, ReadMove, Destination
  <2>8. ThiefSeals(t)
    BY <2>1, <2>4, <2>5, <2>6, <2>7 DEF ThiefSeals, Reaches
  <2> QED BY <2>4, <2>8
<1>2. CASE \E move \in Moves : ThiefMove(move)
  <2>1. PICK move \in Moves : ThiefMove(move)
    BY <1>2
  <2> DEFINE cell == Destination(position["thief"], move)
             t == Payload("thief", move, None, None, response, WinClaim)
  <2>2. OwnTurn("thief") /\ ~Caught /\ Legal("thief", move) /\ Submit("thief", t) /\ blocked' = blocked
    BY <2>1 DEF ThiefMove
  <2>3. position' = [position EXCEPT !["thief"] = cell]
    BY <2>1 DEF ThiefMove
  <2>4. cell \in Cell /\ Reaches("thief", cell)
    BY <2>2, MoveFacts, RoleFacts DEF Reaches
  <2> HIDE DEF cell
  <2>5. position' \in [Roles -> Cell] /\ position'["thief"] = cell
    BY <2>3, <2>4, RoleFacts DEF TypeOK
  <2>6. t \in Record
    BY <2>5, PayloadType, WinClaimType, RoleFacts DEF TypeOK
  <2>7. t.position = cell /\ t.response = response /\ t.win = WinClaim
    BY <2>5 DEF Payload
  <2>8. Discloses("thief", t)
    BY <2>7 DEF cell, Payload, Discloses, Audited, Leads, ReadMove, Moves
  <2> HIDE DEF t
  <2>9. ThiefSeals(t)
    BY <2>2, <2>3, <2>4, <2>7, <2>8 DEF ThiefSeals
  <2> QED BY <2>6, <2>9
<1> QED BY <1>1, <1>2

LEMMA PoliceTurns ==
    ASSUME TypeOK, (\E move \in Moves : PoliceMove(move)) \/ (\E cell \in Cell : PoliceBarrier(cell))
    PROVE  \E p \in Record : PoliceSeals(p)
<1>1. CASE \E move \in Moves : PoliceMove(move)
  <2>1. PICK move \in Moves : PoliceMove(move)
    BY <1>1
  <2> DEFINE cell == Destination(position["police"], move)
             p == Payload("police", move, None, position'["police"], None, None)
  <2>2. OwnTurn("police") /\ Legal("police", move) /\ Submit("police", p) /\ blocked' = blocked
    BY <2>1 DEF PoliceMove
  <2>3. position' = [position EXCEPT !["police"] = cell]
    BY <2>1 DEF PoliceMove
  <2>4. cell \in Cell /\ Reaches("police", cell) /\ (cell \in blocked["police"] => move = "STAY")
    BY <2>2, MoveFacts, RoleFacts DEF Reaches
  <2> HIDE DEF cell
  <2>5. position' \in [Roles -> Cell] /\ position'["police"] = cell
    BY <2>3, <2>4, RoleFacts DEF TypeOK
  <2>6. p \in Record
    BY <2>5, PayloadType, RoleFacts DEF TypeOK
  <2>7. /\ p.position = cell /\ p.claim = cell /\ p.state = position["police"]
        /\ p.move = move /\ p.barrier = None
    BY <2>5 DEF Payload
  <2>8. Discloses("police", p)
    BY <2>7 DEF cell, Payload, Discloses, Audited, Leads, ReadMove, Moves
  <2> HIDE DEF p
  <2>9. blocked' = [blocked EXCEPT !["police"] = @ \cup ({p.barrier} \ {None})]
    BY <2>2, <2>7 DEF TypeOK
  <2>10. PoliceSeals(p)
    BY <2>2, <2>3, <2>4, <2>7, <2>8, <2>9 DEF PoliceSeals
  <2> QED BY <2>6, <2>10
<1>2. CASE \E cell \in Cell : PoliceBarrier(cell)
  <2>1. PICK cell \in Cell : PoliceBarrier(cell)
    BY <1>2
  <2> DEFINE here == position["police"]
             p == Payload("police", "STAY", cell, here, None, None)
  <2>2. OwnTurn("police") /\ Placeable("police", cell) /\ Submit("police", p) /\ position' = position
    BY <2>1 DEF PoliceBarrier
  <2>3. blocked' = [blocked EXCEPT !["police"] = @ \cup {cell}]
    BY <2>1 DEF PoliceBarrier
  <2>4. position' \in [Roles -> Cell] /\ here \in Cell
    BY <2>2, RoleFacts DEF TypeOK
  <2>5. p \in Record
    BY <2>4, PayloadType, RoleFacts DEF Moves
  <2>6. p.position = here /\ p.claim = here /\ p.state = here /\ p.move = "STAY" /\ p.barrier = cell
    BY <2>2 DEF Payload
  <2>7. Discloses("police", p)
    BY <2>6 DEF Payload, Discloses, Audited, Leads, ReadMove, Destination
  <2> HIDE DEF p
  <2>8. cell # None
    BY StartAssumption
  <2>9. position' = [position EXCEPT !["police"] = p.position]
    BY <2>2, <2>6 DEF TypeOK
  <2>10. blocked' = [blocked EXCEPT !["police"] = @ \cup ({p.barrier} \ {None})]
    BY <2>3, <2>6, <2>8
  <2>11. PoliceSeals(p)
    BY <2>2, <2>6, <2>7, <2>9, <2>10 DEF PoliceSeals, Placeable, Reaches
  <2> QED BY <2>5, <2>11
<1> QED BY <1>1, <1>2

-----------------------------------------------------------------------------
(* Type correctness.                                                       *)

LEMMA AnswerType ==
    ASSUME TypeOK, NEW p \in Record
    PROVE  Answer(p) \in Answers \cup {None}
BY RoleFacts DEF Answer, Answers, Record, TypeOK

LEMMA TypeStep == TypeOK /\ [Next]_vars => TypeOK'
<1> SUFFICES ASSUME TypeOK, [Next]_vars PROVE TypeOK'
  OBVIOUS
<1>1. ASSUME NEW t \in Record, ThiefSeals(t) PROVE TypeOK'
  <2>1. t.position \in Cell /\ Submit("thief", t)
    BY <1>1 DEF ThiefSeals, Record
  <2>2. [kind |-> "turn", payload |-> t] \in TurnRequest
    BY DEF TurnRequest
  <2> QED BY <1>1, <2>1, <2>2, Sealed, RoleFacts DEF TypeOK, ThiefSeals, Stages
<1>2. ASSUME NEW p \in Record, PoliceSeals(p) PROVE TypeOK'
  <2>1. p.position \in Cell /\ Submit("police", p) /\ {p.barrier} \ {None} \subseteq Cell
    BY <1>2 DEF PoliceSeals, Record
  <2>2. [kind |-> "turn", payload |-> p] \in TurnRequest
    BY DEF TurnRequest
  <2>3. blocked' \in [Roles -> SUBSET Cell]
    BY <1>2, <2>1 DEF TypeOK, PoliceSeals
  <2>4. position' \in [Roles -> Cell]
    BY <1>2, <2>1 DEF TypeOK, PoliceSeals
  <2> QED BY <2>1, <2>2, <2>3, <2>4, Sealed, RoleFacts DEF TypeOK, Stages
<1>3. ASSUME NEW r \in Roles, Advance(r)
      PROVE  /\ stage' \in [Roles -> Stages] /\ turn' \in [Roles -> Nat \ {0}]
             /\ outcome' \in [Roles -> Outcomes]
  BY <1>3 DEF TypeOK, Advance, Stages
<1>4. ASSUME NEW r \in Roles, NEW o \in Outcomes, Conclude(r, o)
      PROVE  /\ stage' \in [Roles -> Stages] /\ turn' \in [Roles -> Nat \ {0}]
             /\ outcome' \in [Roles -> Outcomes]
  BY <1>4 DEF TypeOK, Conclude, Stages
<1>5. ASSUME NEW r \in Roles, NEW why \in Failures, Fail(r, why)
      PROVE  /\ stage' \in [Roles -> Stages] /\ turn' \in [Roles -> Nat \ {0}]
             /\ outcome' \in [Roles -> Outcomes]
  BY <1>5 DEF TypeOK, Fail, Stages
<1>6. \A win : WinOutcome(win) \in Outcomes
  BY DEF WinOutcome, Outcomes
<1>7. "capture" \in Outcomes /\ "technical_loss" \in Outcomes
  BY DEF Outcomes
<1>8. CASE ThiefTurnSent
  BY <1>3, <1>4, <1>6, <1>7, <1>8, RoleFacts DEF ThiefTurnSent, TypeOK, boardVars, policeVars, mailVars
<1>9. CASE PoliceTurnSent
  <2>1. Advance("police")
    BY <1>9 DEF PoliceTurnSent
  <2> QED BY <1>3, <1>9, <2>1, RoleFacts DEF PoliceTurnSent, TypeOK, boardVars, thiefVars, mailVars
<1>10. ASSUME NEW r \in Roles, NextTurn(r)
       PROVE  /\ Head(inbox[r]) \in Record
              /\ inbox' \in [Roles -> Seq(Record)] /\ commits' \in [Roles -> Seq(Record)]
              /\ UNCHANGED <<position, log, wire, audits, result>>
  <2>1. inbox[r] \in Seq(Record) /\ inbox[r] # <<>> /\ commits[r] \in Seq(Record)
    BY <1>10 DEF TypeOK, NextTurn
  <2>2. Head(inbox[r]) \in Record /\ Tail(inbox[r]) \in Seq(Record)
    BY <2>1, HeadTailProperties
  <2>3. Append(commits[r], Head(inbox[r])) \in Seq(Record)
    BY <2>1, <2>2, AppendProperties
  <2> QED BY <1>10, <2>2, <2>3 DEF TypeOK, NextTurn
<1>11. ASSUME NEW p \in Record PROVE Walls(p) \in SUBSET Cell
  BY RoleFacts DEF TypeOK, Walls, Record
<1>12. CASE ThiefAccepts
  <2> DEFINE p == Head(inbox["thief"])
  <2>1. NextTurn("thief") /\ Advance("thief") /\ blocked' = [blocked EXCEPT !["thief"] = Walls(p)]
        /\ knownCop' = p.claim /\ response' = Answer(p)
        /\ boxedIn' = (boxedIn \/ BoxedIn(Walls(p), position["thief"]))
    BY <1>12 DEF ThiefAccepts
  <2>2. p \in Record
    BY <1>10, <2>1, RoleFacts
  <2> HIDE DEF p
  <2>3. blocked' \in [Roles -> SUBSET Cell] /\ boxedIn' \in BOOLEAN
    BY <1>11, <2>1, <2>2 DEF TypeOK
  <2>4. response' \in Answers \cup {None} /\ knownCop' \in Cell \cup {None}
    BY <2>1, <2>2, AnswerType DEF Record
  <2> QED BY <1>3, <1>10, <2>1, <2>3, <2>4, RoleFacts DEF TypeOK
<1>13. CASE ThiefRefuses
  <2> DEFINE p == Head(inbox["thief"])
  <2>1. NextTurn("thief") /\ UNCHANGED thiefVars
        /\ \E why \in Failures : Fail("thief", why)
        /\ (UNCHANGED blocked \/ blocked' = [blocked EXCEPT !["thief"] = Walls(p)])
    BY <1>13 DEF ThiefRefuses, Failures
  <2>2. p \in Record
    BY <1>10, <2>1, RoleFacts
  <2> HIDE DEF p
  <2>3. blocked' \in [Roles -> SUBSET Cell]
    BY <1>11, <2>1, <2>2 DEF TypeOK
  <2> QED BY <1>5, <1>10, <2>1, <2>3, RoleFacts DEF TypeOK, thiefVars
<1>14. CASE PoliceTakes
  <2>1. NextTurn("police") /\ UNCHANGED <<blocked, thiefVars>>
        /\ \/ Fail("police", "protocol_error") \/ Advance("police")
           \/ \E o \in Outcomes : Conclude("police", o)
    BY <1>6, <1>7, <1>14 DEF PoliceTakes
  <2>2. "protocol_error" \in Failures
    BY DEF Failures
  <2> QED BY <1>3, <1>4, <1>5, <1>10, <2>1, <2>2, RoleFacts DEF TypeOK, thiefVars
<1>15. ASSUME NEW r \in Roles, Deliver(r) PROVE TypeOK'
  <2>1. wire' \in [Roles -> {None} \cup TurnRequest \cup AuditRequest]
    BY <1>15 DEF TypeOK, Deliver
  <2>2. CASE wire[r].kind = "turn"
    <3>1. wire[r] \in TurnRequest
      BY <1>15, <2>2 DEF TypeOK, Deliver, AuditRequest
    <3>2. wire[r].payload \in Record
      BY <3>1 DEF TurnRequest
    <3>3. Append(inbox[Peer(r)], wire[r].payload) \in Seq(Record)
      BY <3>2, RoleFacts, AppendProperties DEF TypeOK
    <3> QED BY <1>15, <2>1, <2>2, <3>3 DEF TypeOK, Deliver, boardVars, thiefVars
  <2>3. CASE wire[r].kind # "turn"
    BY <1>15, <2>1, <2>3 DEF TypeOK, Deliver, boardVars, thiefVars
  <2> QED BY <2>2, <2>3
<1>16. ASSUME NEW r \in Roles, Expire(r) \/ Cancel(r) PROVE TypeOK'
  <2>1. \E why \in Failures : Fail(r, why)
    BY <1>16 DEF Expire, Cancel, Failures
  <2> QED BY <1>5, <1>16, <2>1 DEF TypeOK, Expire, Cancel, boardVars, thiefVars, mailVars
<1>17. ASSUME NEW r \in Roles, AuditStep(r) PROVE TypeOK'
  <2>1. CASE SendAudit(r)
    <3>1. [kind |-> "audit", payload |-> [records |-> log[r], claim |-> outcome[r]]] \in AuditRequest
      BY DEF TypeOK, AuditRequest
    <3> QED BY <2>1, <3>1 DEF TypeOK, SendAudit, boardVars, thiefVars, Stages
  <2>2. CASE AuditSent(r)
    BY <2>2 DEF TypeOK, AuditSent, boardVars, thiefVars, mailVars, Stages
  <2>3. CASE Settle(r)
    <3> DEFINE v == Verdict(audits[r].records, commits[r])
               f == IF Audit(r, log[r], audits[r].records).capture # None
                    THEN "capture" ELSE outcome[r]
    <3>1. v \in {"forged", "structural", "verified"}
      BY DEF Verdict
    <3>2. f \in Outcomes /\ outcome[r] \in Outcomes
      BY <1>7 DEF TypeOK
    <3>3. \/ outcome' = [outcome EXCEPT ![r] = "technical_loss"]
          \/ outcome' = [outcome EXCEPT ![r] = outcome[r]]
          \/ outcome' = [outcome EXCEPT ![r] = f]
      <4>1. CASE v = "forged"
        BY <2>3, <4>1 DEF Settle, WriteResult
      <4>2. CASE v = "structural"
        BY <2>3, <4>2 DEF Settle, WriteResult
      <4>3. CASE v = "verified"
        BY <2>3, <4>3 DEF Settle, WriteResult
      <4> QED BY <3>1, <4>1, <4>2, <4>3
    <3> HIDE DEF f, v
    <3>4. \E o \in Outcomes : outcome' = [outcome EXCEPT ![r] = o]
      BY <1>7, <3>2, <3>3
    <3> QED BY <2>3, <3>4 DEF TypeOK, Settle, boardVars, thiefVars, mailVars, Stages
  <2> QED BY <1>17, <2>1, <2>2, <2>3 DEF AuditStep
<1>18. CASE UNCHANGED vars
  BY <1>18 DEF TypeOK, vars, boardVars, thiefVars, mailVars
<1> QED BY <1>1, <1>2, <1>8, <1>9, <1>12, <1>13, <1>14, <1>15, <1>16, <1>17, <1>18,
           ThiefTurns, PoliceTurns DEF Next, ThiefStep, PoliceStep, BothEnded

-----------------------------------------------------------------------------
(* How far each peer is, and what a peer finds in its inbox.               *)

\* A peer is at most one turn ahead of what the other has taken.
LEMMA Counts ==
    ASSUME TypeOK, LoopInv, MailInv
    PROVE  /\ \A r \in Roles : Sent(r) \in Nat /\ Seen(r) \in Nat
           /\ Seen("thief") <= Sent("police") /\ Sent("police") <= Seen("police")
           /\ Seen("police") <= Sent("thief") /\ Sent("thief") <= Seen("thief") + 1
           /\ \A r \in Roles : Sent(r) <= Seen(Peer(r)) + 1
<1>1. \A r \in Roles : Sent(r) \in Nat /\ Seen(r) \in Nat /\ Len(inbox[r]) \in Nat
  BY LenProperties DEF TypeOK, Sent, Seen
<1>2. \A r \in Roles : Seen(Peer(r)) <= Sent(r)
  <2> TAKE r \in Roles
  <2>1. Sent(r) = Seen(Peer(r)) + Len(inbox[Peer(r)]) + (IF OnWire(r) THEN 1 ELSE 0)
    BY DEF MailInv
  <2>2. Seen(Peer(r)) \in Nat /\ Len(inbox[Peer(r)]) \in Nat
    BY <1>1, RoleFacts
  <2> QED BY <2>1, <2>2
<1> QED BY <1>1, <1>2, RoleFacts DEF LoopInv

\* On its own turn the thief has taken everything the police sealed, and the
\* police everything but the turn to come.
LEMMA OwnTurns ==
    ASSUME TypeOK, LoopInv, MailInv
    PROVE  /\ OwnTurn("thief") =>
                /\ Sent("thief") = Seen("thief") /\ Sent("police") = Seen("thief")
                /\ Seen("police") = Sent("thief") /\ Sent("thief") < MaxMoves
                /\ StepOf(turn["thief"]) = Sent("thief") + 1
           /\ OwnTurn("police") =>
                /\ Seen("police") = Sent("police") + 1 /\ Sent("thief") = Seen("police")
                /\ Seen("thief") = Sent("police") /\ Sent("thief") < MaxMoves
                /\ StepOf(turn["police"]) = Sent("police") + 1
<1>1. ASSUME OwnTurn("thief")
      PROVE  Sent("thief") = Seen("thief") /\ turn["thief"] = 2 * Sent("thief") + 1
             /\ turn["thief"] <= LastTurn
  <2>1. turn["thief"] = Sent("thief") + Seen("thief") + 1 /\ turn["thief"] % 2 = 1
        /\ turn["thief"] <= LastTurn
    BY <1>1, RoleFacts DEF OwnTurn, Active, LoopInv
  <2> QED BY <2>1, Counts, RoleFacts DEF LoopInv
<1>2. ASSUME OwnTurn("police")
      PROVE  Seen("police") = Sent("police") + 1 /\ turn["police"] = 2 * Sent("police") + 2
             /\ turn["police"] <= LastTurn
  <2>1. turn["police"] = Sent("police") + Seen("police") + 1 /\ turn["police"] % 2 # 1
        /\ turn["police"] <= LastTurn
    BY <1>2, RoleFacts DEF OwnTurn, Active, LoopInv
  <2> QED BY <2>1, Counts, RoleFacts DEF LoopInv
<1>3. \A k \in Nat : StepOf(2 * k + 1) = k + 1 /\ StepOf(2 * k + 2) = k + 1
  BY DEF StepOf
<1>4. ASSUME OwnTurn("thief")
      PROVE  /\ Sent("police") = Seen("thief") /\ Seen("police") = Sent("thief")
             /\ Sent("thief") < MaxMoves /\ StepOf(turn["thief"]) = Sent("thief") + 1
  BY <1>1, <1>3, <1>4, Counts, RoleFacts, MatchAssumption DEF LastTurn
<1>5. ASSUME OwnTurn("police")
      PROVE  /\ Sent("thief") = Seen("police") /\ Seen("thief") = Sent("police")
             /\ Sent("thief") < MaxMoves /\ StepOf(turn["police"]) = Sent("police") + 1
  BY <1>2, <1>3, <1>5, Counts, RoleFacts, MatchAssumption DEF LastTurn
<1> QED BY <1>1, <1>2, <1>4, <1>5

\* On the other's turn, a peer that finds a turn finds the last one sealed.
LEMMA Taken ==
    ASSUME TypeOK, LoopInv, MailInv, NEW r \in Roles, NextTurn(r)
    PROVE  /\ stage[r] = "play" /\ Seen(r) + 1 = Sent(Peer(r))
           /\ r = "thief" => Sent(r) = Seen(r) + 1 /\ Sent(r) = Seen("police")
           /\ r = "police" => Sent(r) = Seen(r)
           /\ Head(inbox[r]) = log[Peer(r)][Sent(Peer(r))] /\ Head(inbox[r]) \in Record
           /\ inbox' = [inbox EXCEPT ![r] = <<>>]
           /\ Seen(r)' = Seen(r) + 1 /\ Seen(Peer(r))' = Seen(Peer(r))
           /\ ~OnWire(Peer(r)) /\ wire[r] = None
           /\ UNCHANGED <<position, log, wire, audits, result>>
<1>1. inbox[r] \in Seq(Record) /\ inbox[r] # <<>> /\ commits[r] \in Seq(Record) /\ stage[r] = "play"
  BY DEF TypeOK, NextTurn, PeerTurn
<1>2. /\ Head(inbox[r]) \in Record /\ Tail(inbox[r]) \in Seq(Record)
      /\ Len(Tail(inbox[r])) = Len(inbox[r]) - 1 /\ Len(inbox[r]) \in Nat /\ Len(inbox[r]) > 0
  BY <1>1, HeadTailProperties, LenProperties
<1>3. Sent(Peer(r)) = Seen(r) + Len(inbox[r]) + (IF OnWire(Peer(r)) THEN 1 ELSE 0)
      /\ Head(inbox[r]) = log[Peer(r)][Sent(Peer(r))] /\ wire[r] = None
  BY <1>1, RoleFacts DEF MailInv
<1>4. Sent(Peer(r)) <= Seen(r) + 1 /\ Sent(Peer(r)) \in Nat /\ Seen(r) \in Nat
  BY Counts, RoleFacts
<1>5. Seen(r) + 1 = Sent(Peer(r)) /\ Len(inbox[r]) = 1 /\ ~OnWire(Peer(r))
  <2> DEFINE n == Len(inbox[r])  seen == Seen(r)  sent == Sent(Peer(r))
  <2>1. n \in Nat /\ n > 0 /\ seen \in Nat /\ sent \in Nat /\ sent <= seen + 1
    BY <1>2, <1>4
  <2>2. sent = seen + n + (IF OnWire(Peer(r)) THEN 1 ELSE 0)
    BY <1>3
  <2> HIDE DEF n, seen, sent
  <2>3. seen + 1 = sent /\ n = 1 /\ ~OnWire(Peer(r))
    BY <2>1, <2>2
  <2> QED BY <2>3 DEF n, seen, sent
<1>6. Tail(inbox[r]) = <<>>
  <2>1. Tail(inbox[r]) \in Seq(Record) /\ Len(Tail(inbox[r])) = 0
    BY <1>2, <1>5
  <2> QED BY <2>1, EmptySeq, Zenon
<1>7. Len(Append(commits[r], Head(inbox[r]))) = Len(commits[r]) + 1
  BY <1>1, <1>2, AppendProperties
<1>8. Seen(r)' = Seen(r) + 1 /\ Seen(Peer(r))' = Seen(Peer(r))
  BY <1>7, RoleFacts DEF NextTurn, Seen, TypeOK
<1>9. turn[r] = Sent(r) + Seen(r) + 1
  BY <1>1 DEF LoopInv
<1>10. ASSUME r = "thief" PROVE Sent("thief") = Seen("thief") + 1 /\ Sent("thief") = Seen("police")
  <2>1. Sent("thief") + Seen("thief") + 1 \in Nat /\ (Sent("thief") + Seen("thief") + 1) % 2 # 1
    BY <1>9, <1>10, Counts, RoleFacts DEF NextTurn, PeerTurn, Active
  <2>2. Sent("thief") = Seen("thief") + 1
    BY <2>1, Counts, RoleFacts DEF LoopInv
  <2> QED BY <1>5, <1>10, <2>2, Counts, RoleFacts
<1>11. ASSUME r = "police" PROVE Sent("police") = Seen("police")
  <2>1. (Sent("police") + Seen("police") + 1) % 2 = 1
    BY <1>9, <1>11 DEF NextTurn, PeerTurn, Active
  <2> QED BY <2>1, Counts, RoleFacts DEF LoopInv
<1>12. inbox' = [inbox EXCEPT ![r] = <<>>]
  BY <1>6 DEF NextTurn
<1> QED BY <1>1, <1>2, <1>3, <1>5, <1>8, <1>10, <1>11, <1>12 DEF NextTurn

-----------------------------------------------------------------------------
(* The steps, by what they do to the state of the game.                    *)

\* A peer that stops, or goes through its audit: the game stays as it is.
Leaves(r) ==
    /\ \E s \in Stages \ (Playing \cup {"over", "protocol_error", "belief_error"}) :
          stage' = [stage EXCEPT ![r] = s]
    /\ UNCHANGED <<turn, boardVars, thiefVars, policeVars, log, commits, inbox>>
    /\ \/ UNCHANGED wire
       \/ stage[r] = "over" /\ \E a \in AuditRequest : wire' = [wire EXCEPT ![r] = a]

SendsTurn(r) == IF r = "thief" THEN ThiefTurnSent ELSE PoliceTurnSent
TakesTurn(r) == IF r = "thief" THEN ThiefAccepts \/ ThiefRefuses ELSE PoliceTakes

LEMMA Leaving ==
    ASSUME TypeOK, NEW r \in Roles, AuditStep(r) \/ Expire(r) \/ Cancel(r)
    PROVE  Leaves(r)
<1> DEFINE S == Stages \ (Playing \cup {"over", "protocol_error", "belief_error"})
<1>1. S = {"sending_audit", "awaiting_audit", "done", "timed_out", "cancelled"}
  BY DEF Stages, Playing, Failures
<1>2. CASE SendAudit(r)
  <2>1. [kind |-> "audit", payload |-> [records |-> log[r], claim |-> outcome[r]]] \in AuditRequest
    BY DEF TypeOK, AuditRequest
  <2> QED BY <1>1, <1>2, <2>1 DEF SendAudit, Leaves
<1>3. CASE AuditSent(r)
  BY <1>1, <1>3 DEF AuditSent, Leaves, mailVars
<1>4. CASE Settle(r)
  BY <1>1, <1>4 DEF Settle, Leaves, mailVars
<1>5. CASE Expire(r) \/ Cancel(r)
  BY <1>1, <1>5 DEF Expire, Cancel, Fail, Leaves, mailVars
<1> QED BY <1>2, <1>3, <1>4, <1>5 DEF AuditStep

\* The steps of a peer that has no turn to make or take.
RunsOn(r) == AuditStep(r) \/ Expire(r) \/ Cancel(r)

LEMMA StepCases ==
    ASSUME TypeOK, [Next]_vars
    PROVE  \/ \E t \in Record : ThiefSeals(t)
           \/ \E p \in Record : PoliceSeals(p)
           \/ \E r \in Roles : SendsTurn(r) \/ TakesTurn(r) \/ Deliver(r) \/ RunsOn(r)
           \/ UNCHANGED vars
<1>1. CASE ThiefStep
  <2>1. "thief" \in Roles
    BY RoleFacts
  <2> QED BY <1>1, <2>1, ThiefTurns DEF ThiefStep, SendsTurn, TakesTurn
<1>2. CASE PoliceStep
  <2>1. "police" \in Roles
    BY RoleFacts
  <2> QED BY <1>2, <2>1, PoliceTurns DEF PoliceStep, SendsTurn, TakesTurn
<1>3. CASE \E r \in Roles : AuditStep(r) \/ Deliver(r) \/ Expire(r) \/ Cancel(r)
  BY <1>3 DEF RunsOn
<1> QED BY <1>1, <1>2, <1>3 DEF Next, BothEnded

LEMMA Steps ==
    ASSUME TypeOK, [Next]_vars
    PROVE  \/ \E t \in Record : ThiefSeals(t)
           \/ \E p \in Record : PoliceSeals(p)
           \/ \E r \in Roles : SendsTurn(r) \/ TakesTurn(r) \/ Deliver(r) \/ Leaves(r)
           \/ UNCHANGED vars
BY StepCases, Leaving DEF RunsOn

\* The end of an iteration.
LEMMA Iterated ==
    ASSUME TypeOK, NEW r \in Roles, Advance(r) \/ \E o : Conclude(r, o)
    PROVE  /\ stage' \in {[stage EXCEPT ![r] = s] : s \in {"play", "over"}}
           /\ stage'[r] = "play" => turn[r] # LastTurn /\ turn'[r] = turn[r] + 1
           /\ stage'[Peer(r)] = stage[Peer(r)] /\ turn'[Peer(r)] = turn[Peer(r)]
BY RoleFacts DEF TypeOK, Advance, Conclude

LEMMA TurnSent ==
    ASSUME TypeOK, NEW r \in Roles, SendsTurn(r)
    PROVE  /\ stage[r] = "sending" /\ wire[r] = None
           /\ Advance(r) \/ \E o : Conclude(r, o)
           /\ UNCHANGED <<boardVars, knownCop, boxedIn, missing, log, commits, mailVars>>
BY RoleFacts DEF SendsTurn, ThiefTurnSent, PoliceTurnSent, Delivered, policeVars, thiefVars

LEMMA TurnTaken ==
    ASSUME NEW r \in Roles, TakesTurn(r)
    PROVE  /\ NextTurn(r)
           /\ Advance(r) \/ (\E o : Conclude(r, o))
              \/ \E why \in {"protocol_error", "belief_error"} : Fail(r, why)
BY RoleFacts DEF TakesTurn, ThiefAccepts, ThiefRefuses, PoliceTakes

-----------------------------------------------------------------------------
(* The loops and the mail between them.                                    *)

LEMMA LoopStep ==
    ASSUME TypeOK, LoopInv, MailInv, [Next]_vars
    PROVE  LoopInv'
<1>0. \A r \in Roles : turn[r] \in Nat /\ Sent(r) \in Nat /\ Seen(r) \in Nat /\ LastTurn \in Nat
  BY Counts, MatchAssumption DEF TypeOK, LastTurn
<1>1. ASSUME NEW t \in Record, ThiefSeals(t) PROVE LoopInv'
  <2>1. /\ Sent("thief")' = Sent("thief") + 1 /\ Sent("police")' = Sent("police")
        /\ commits' = commits /\ turn' = turn /\ stage' = [stage EXCEPT !["thief"] = "sending"]
    BY <1>1, Sealed, RoleFacts DEF ThiefSeals
  <2>2. \A r \in Roles : Seen(r)' = Seen(r)
    BY <2>1 DEF Seen
  <2>3. stage'["thief"] = "sending" /\ stage'["police"] = stage["police"]
    BY <2>1, RoleFacts DEF TypeOK
  <2>4. Sent("thief") = Seen("thief") /\ turn["thief"] = Sent("thief") + Seen("thief") + 1
        /\ turn["thief"] <= LastTurn
    BY <1>1, OwnTurns, RoleFacts DEF ThiefSeals, OwnTurn, LoopInv
  <2>5. \A r \in Roles :
          /\ stage'[r] = "play" => turn'[r] = Sent(r)' + Seen(r)' + 1 /\ turn'[r] <= LastTurn
          /\ stage'[r] = "sending" => turn'[r] = Sent(r)' + Seen(r)' /\ turn'[r] <= LastTurn
    BY <1>0, <2>1, <2>2, <2>3, <2>4, RoleFacts DEF LoopInv
  <2> QED BY <1>0, <2>1, <2>2, <2>3, <2>4, <2>5, RoleFacts DEF LoopInv
<1>2. ASSUME NEW p \in Record, PoliceSeals(p) PROVE LoopInv'
  <2>1. /\ Sent("police")' = Sent("police") + 1 /\ Sent("thief")' = Sent("thief")
        /\ commits' = commits /\ turn' = turn /\ stage' = [stage EXCEPT !["police"] = "sending"]
    BY <1>2, Sealed, RoleFacts DEF PoliceSeals
  <2>2. \A r \in Roles : Seen(r)' = Seen(r)
    BY <2>1 DEF Seen
  <2>3. stage'["police"] = "sending" /\ stage'["thief"] = stage["thief"]
    BY <2>1, RoleFacts DEF TypeOK
  <2>4. Seen("police") = Sent("police") + 1 /\ turn["police"] = Sent("police") + Seen("police") + 1
        /\ turn["police"] <= LastTurn
    BY <1>2, OwnTurns, RoleFacts DEF PoliceSeals, OwnTurn, LoopInv
  <2>5. \A r \in Roles :
          /\ stage'[r] = "play" => turn'[r] = Sent(r)' + Seen(r)' + 1 /\ turn'[r] <= LastTurn
          /\ stage'[r] = "sending" => turn'[r] = Sent(r)' + Seen(r)' /\ turn'[r] <= LastTurn
    BY <1>0, <2>1, <2>2, <2>3, <2>4, RoleFacts DEF LoopInv
  <2> QED BY <1>0, <2>1, <2>2, <2>3, <2>4, <2>5, RoleFacts DEF LoopInv
<1>3. ASSUME NEW r \in Roles, SendsTurn(r) PROVE LoopInv'
  <2>1. stage[r] = "sending" /\ (Advance(r) \/ \E o : Conclude(r, o)) /\ log' = log /\ commits' = commits
    BY <1>3, TurnSent
  <2>2. \A q \in Roles : Seen(q)' = Seen(q) /\ Sent(q)' = Sent(q)
    BY <2>1 DEF Seen, Sent
  <2>3. /\ stage' \in {[stage EXCEPT ![r] = s] : s \in {"play", "over"}}
        /\ stage'[r] = "play" => turn[r] # LastTurn /\ turn'[r] = turn[r] + 1
        /\ stage'[Peer(r)] = stage[Peer(r)] /\ turn'[Peer(r)] = turn[Peer(r)]
    BY <2>1, Iterated
  <2>4. stage'[r] \in {"play", "over"}
    BY <2>3 DEF TypeOK
  <2>5. turn[r] = Sent(r) + Seen(r) /\ turn[r] <= LastTurn
    BY <2>1 DEF LoopInv
  <2>6. \A q \in Roles :
          /\ stage'[q] = "play" => turn'[q] = Sent(q)' + Seen(q)' + 1 /\ turn'[q] <= LastTurn
          /\ stage'[q] = "sending" => turn'[q] = Sent(q)' + Seen(q)' /\ turn'[q] <= LastTurn
    <3>1. stage'[r] = "play" => turn'[r] = Sent(r) + Seen(r) + 1 /\ turn'[r] <= LastTurn
      BY <1>0, <2>3, <2>5
    <3>2. \A q \in Roles : q = r \/ q = Peer(r)
      BY RoleFacts
    <3> QED BY <2>2, <2>3, <2>4, <3>1, <3>2, RoleFacts DEF LoopInv
  <2> QED BY <2>2, <2>3, <2>4, <2>6, RoleFacts DEF LoopInv
<1>4. ASSUME NEW r \in Roles, TakesTurn(r) PROVE LoopInv'
  <2>1. NextTurn(r)
    BY <1>4, TurnTaken
  <2>2. /\ stage[r] = "play" /\ log' = log /\ Seen(r)' = Seen(r) + 1 /\ Seen(Peer(r))' = Seen(Peer(r))
        /\ r = "thief" => Sent(r) = Seen(r) + 1 /\ Sent(r) = Seen("police")
        /\ r = "police" => Sent(r) = Seen(r)
    BY <2>1, Taken
  <2>3. \A q \in Roles : Sent(q)' = Sent(q)
    BY <2>2 DEF Sent
  <2>4. \/ /\ stage' \in {[stage EXCEPT ![r] = s] : s \in {"play", "over"}}
           /\ stage'[r] = "play" => turn[r] # LastTurn /\ turn'[r] = turn[r] + 1
           /\ turn'[Peer(r)] = turn[Peer(r)]
        \/ turn' = turn /\ stage' \in {[stage EXCEPT ![r] = s] : s \in {"protocol_error", "belief_error"}}
    BY <1>4, TurnTaken, Iterated DEF Fail
  <2>5. stage'[r] # "sending" /\ stage'[Peer(r)] = stage[Peer(r)] /\ turn'[Peer(r)] = turn[Peer(r)]
        /\ (stage'[r] = "play" => turn[r] # LastTurn /\ turn'[r] = turn[r] + 1)
    BY <2>4, RoleFacts DEF TypeOK
  <2>6. turn[r] = Sent(r) + Seen(r) + 1 /\ turn[r] <= LastTurn
    BY <2>2 DEF LoopInv
  <2>7. \A q \in Roles :
          /\ stage'[q] = "play" => turn'[q] = Sent(q)' + Seen(q)' + 1 /\ turn'[q] <= LastTurn
          /\ stage'[q] = "sending" => turn'[q] = Sent(q)' + Seen(q)' /\ turn'[q] <= LastTurn
    <3>1. stage'[r] = "play" => turn'[r] = Sent(r) + (Seen(r) + 1) + 1 /\ turn'[r] <= LastTurn
      BY <1>0, <2>5, <2>6
    <3>2. \A q \in Roles : q = r \/ q = Peer(r)
      BY RoleFacts
    <3> QED BY <2>2, <2>3, <2>5, <3>1, <3>2, RoleFacts DEF LoopInv
  <2>8. CASE r = "thief"
    <3>1. Seen("thief")' = Seen("thief") + 1 /\ Seen("police")' = Seen("police")
          /\ stage'["thief"] # "sending" /\ stage'["police"] = stage["police"]
          /\ Sent("thief") = Seen("thief") + 1
      BY <2>2, <2>5, <2>8, RoleFacts
    <3> QED BY <1>0, <2>3, <2>7, <3>1, RoleFacts DEF LoopInv
  <2>9. CASE r = "police"
    <3>1. Seen("police")' = Seen("police") + 1 /\ Seen("thief")' = Seen("thief")
          /\ stage'["police"] # "sending" /\ stage'["thief"] = stage["thief"]
          /\ Sent("police") = Seen("police")
      BY <2>2, <2>5, <2>9, RoleFacts
    <3> QED BY <1>0, <2>3, <2>7, <3>1, RoleFacts DEF LoopInv
  <2> QED BY <2>8, <2>9, RoleFacts
<1>5. ASSUME NEW r \in Roles, Deliver(r) PROVE LoopInv'
  BY <1>5 DEF Deliver, LoopInv, Seen, Sent
<1>6. ASSUME NEW r \in Roles, Leaves(r) PROVE LoopInv'
  <2>1. \A q \in Roles : stage'[q] \in Playing => stage'[q] = stage[q]
    BY <1>6 DEF Leaves, TypeOK
  <2>2. turn' = turn /\ \A q \in Roles : Sent(q)' = Sent(q) /\ Seen(q)' = Seen(q)
    BY <1>6 DEF Leaves, Sent, Seen
  <2> QED BY <2>1, <2>2, RoleFacts DEF LoopInv, Playing
<1>7. CASE UNCHANGED vars
  BY <1>7 DEF vars, LoopInv, Seen, Sent
<1> QED BY <1>1, <1>2, <1>3, <1>4, <1>5, <1>6, <1>7, Steps

LEMMA MailStep ==
    ASSUME TypeOK, LoopInv, MailInv, [Next]_vars
    PROVE  MailInv'
<1> DEFINE Mail(r) ==
        /\ Sent(r) = Seen(Peer(r)) + Len(inbox[Peer(r)]) + (IF OnWire(r) THEN 1 ELSE 0)
        /\ OnWire(r) => wire[r].payload = log[r][Sent(r)]
        /\ inbox[Peer(r)] # <<>> => Head(inbox[Peer(r)]) = log[r][Sent(r)]
        /\ stage[r] \in {"play", "over"} => wire[r] = None
        /\ stage[r] = "sending" => wire[r] = None \/ OnWire(r)
<1>a. MailInv' <=> \A r \in Roles : Mail(r)'
  BY DEF MailInv
<1>b. \A r \in Roles : Mail(r)
  BY DEF MailInv
<1>c. \A r \in Roles : Sent(r) \in Nat /\ Seen(r) \in Nat /\ Len(inbox[r]) \in Nat
  BY Counts, LenProperties DEF TypeOK
\* A peer that seals a turn has nothing on the wire or in the other's inbox.
<1>1. ASSUME NEW r \in Roles, NEW t \in Record, OwnTurn(r), Submit(r, t) PROVE MailInv'
  <2>1. wire[r] = None /\ ~OnWire(r)
    BY <1>1, <1>b DEF OwnTurn, OnWire
  <2>2. Sent(r) = Seen(Peer(r))
    BY <1>1, OwnTurns, RoleFacts
  <2>3. inbox[Peer(r)] = <<>>
    <3>1. Len(inbox[Peer(r)]) = 0
      BY <1>b, <1>c, <2>1, <2>2, RoleFacts
    <3>2. inbox[Peer(r)] \in Seq(Record)
      BY RoleFacts DEF TypeOK
    <3> QED BY <3>1, <3>2, EmptySeq, Zenon
  <2>4. /\ Sent(r)' = Sent(r) + 1 /\ log'[r][Sent(r) + 1] = t
        /\ log'[Peer(r)] = log[Peer(r)] /\ Sent(Peer(r))' = Sent(Peer(r))
        /\ wire' = [wire EXCEPT ![r] = [kind |-> "turn", payload |-> t]] /\ OnWire(r)'
        /\ stage' = [stage EXCEPT ![r] = "sending"] /\ commits' = commits /\ inbox' = inbox
    BY <1>1, Sealed
  <2>5. \A q \in Roles : Seen(q)' = Seen(q)
    BY <2>4 DEF Seen
  <2>6. Mail(r)'
    <3>1. Sent(r)' = Seen(Peer(r))' + Len(inbox[Peer(r)])' + (IF OnWire(r)' THEN 1 ELSE 0)
      BY <1>c, <2>2, <2>3, <2>4, <2>5, RoleFacts, EmptySeq
    <3> QED BY <2>3, <2>4, <3>1 DEF TypeOK
  <2>7. Mail(Peer(r))'
    <3>1. wire'[Peer(r)] = wire[Peer(r)] /\ stage'[Peer(r)] = stage[Peer(r)]
      BY <2>4, RoleFacts DEF TypeOK
    <3>2. OnWire(Peer(r))' = OnWire(Peer(r))
      BY <3>1 DEF OnWire
    <3>3. Mail(Peer(r))
      BY <1>b, RoleFacts
    <3> QED BY <2>4, <2>5, <3>1, <3>2, <3>3, RoleFacts DEF TypeOK
  <2> QED BY <1>a, <2>6, <2>7, RoleFacts
<1>2. ASSUME NEW r \in Roles, SendsTurn(r) PROVE MailInv'
  <2>1. /\ wire[r] = None /\ wire' = wire /\ log' = log /\ commits' = commits /\ inbox' = inbox
        /\ Advance(r) \/ \E o : Conclude(r, o)
    BY <1>2, TurnSent DEF mailVars
  <2>2. stage' \in {[stage EXCEPT ![r] = s] : s \in {"play", "over"}}
    BY <2>1, Iterated
  <2> QED BY <1>a, <1>b, <2>1, <2>2 DEF Sent, Seen, OnWire, TypeOK
<1>3. ASSUME NEW r \in Roles, TakesTurn(r) PROVE MailInv'
  <2>1. NextTurn(r)
    BY <1>3, TurnTaken
  <2>2. /\ Seen(r) + 1 = Sent(Peer(r)) /\ inbox' = [inbox EXCEPT ![r] = <<>>]
        /\ Seen(r)' = Seen(r) + 1 /\ Seen(Peer(r))' = Seen(Peer(r))
        /\ ~OnWire(Peer(r)) /\ wire[r] = None /\ log' = log /\ wire' = wire
    BY <2>1, Taken
  <2>3. \A q \in Roles : Sent(q)' = Sent(q) /\ OnWire(q)' = OnWire(q)
    BY <2>2 DEF Sent, OnWire
  <2>4. /\ stage' \in {[stage EXCEPT ![r] = s] : s \in {"play", "over", "protocol_error", "belief_error"}}
    BY <1>3, TurnTaken, Iterated DEF Fail
  <2>5. Mail(Peer(r))'
    <3>1. inbox'[r] = <<>> /\ Len(inbox'[r]) = 0
      BY <2>2, EmptySeq DEF TypeOK
    <3>2. stage'[Peer(r)] = stage[Peer(r)]
      BY <2>4, RoleFacts DEF TypeOK
    <3> QED BY <1>b, <1>c, <2>2, <2>3, <3>1, <3>2, RoleFacts
  <2>6. Mail(r)'
    <3>1. inbox'[Peer(r)] = inbox[Peer(r)] /\ stage'[r] \in {"play", "over", "protocol_error", "belief_error"}
      BY <2>2, <2>4, RoleFacts DEF TypeOK
    <3> QED BY <1>b, <2>2, <2>3, <3>1
  <2> QED BY <1>a, <2>5, <2>6, RoleFacts
<1>4. ASSUME NEW r \in Roles, Deliver(r) PROVE MailInv'
  <2>1. /\ wire[r] # None /\ wire' = [wire EXCEPT ![r] = None]
        /\ stage' = stage /\ log' = log /\ commits' = commits
    BY <1>4 DEF Deliver
  <2>2. \A q \in Roles : Sent(q)' = Sent(q) /\ Seen(q)' = Seen(q)
    BY <2>1 DEF Sent, Seen
  <2>3. ~OnWire(r)' /\ wire'[r] = None /\ wire'[Peer(r)] = wire[Peer(r)]
        /\ OnWire(Peer(r))' = OnWire(Peer(r))
    BY <2>1, RoleFacts DEF OnWire, TypeOK
  <2>4. inbox'[r] = inbox[r]
    BY <1>4, RoleFacts DEF Deliver, TypeOK
  <2>5. Mail(Peer(r))'
    BY <1>b, <2>1, <2>2, <2>3, <2>4, RoleFacts
  <2>6. CASE OnWire(r)
    <3> DEFINE n == Len(inbox[Peer(r)])
    <3>1. wire[r].payload = log[r][Sent(r)] /\ Sent(r) = Seen(Peer(r)) + n + 1
      BY <1>b, <2>6
    <3>2. n = 0
      BY <1>c, <3>1, Counts, RoleFacts
    <3>3. inbox[Peer(r)] \in Seq(Record) /\ inbox[Peer(r)] = <<>>
      <4>1. inbox[Peer(r)] \in Seq(Record)
        BY RoleFacts DEF TypeOK
      <4> QED BY <3>2, <4>1, EmptySeq, Zenon
    <3>4. inbox'[Peer(r)] = Append(<<>>, log[r][Sent(r)])
      BY <1>4, <2>6, <3>1, <3>3, RoleFacts DEF Deliver, OnWire, TypeOK
    <3>5. Len(inbox'[Peer(r)]) = 1 /\ Head(inbox'[Peer(r)]) = log[r][Sent(r)]
      BY <3>4
    <3>6. Mail(r)'
      BY <1>c, <2>1, <2>2, <2>3, <3>1, <3>2, <3>5, RoleFacts
    <3> QED BY <1>a, <2>5, <3>6, RoleFacts
  <2>7. CASE ~OnWire(r)
    <3>1. inbox' = inbox
      BY <1>4, <2>7 DEF Deliver, OnWire
    <3>2. Mail(r)'
      BY <1>b, <2>1, <2>2, <2>3, <2>7, <3>1, RoleFacts
    <3> QED BY <1>a, <2>5, <3>2, RoleFacts
  <2> QED BY <2>6, <2>7
<1>5. ASSUME NEW r \in Roles, Leaves(r) PROVE MailInv'
  <2>1. log' = log /\ commits' = commits /\ inbox' = inbox
    BY <1>5 DEF Leaves
  <2>2. /\ stage'[r] \notin {"play", "sending", "over"} /\ stage'[Peer(r)] = stage[Peer(r)]
        /\ wire'[Peer(r)] = wire[Peer(r)]
    BY <1>5, RoleFacts DEF Leaves, TypeOK, Playing
  <2>3. OnWire(Peer(r))' = OnWire(Peer(r))
    BY <2>2 DEF OnWire
  <2>4. OnWire(r)' = OnWire(r) /\ (OnWire(r) => wire' = wire)
    <3>1. CASE wire' = wire
      BY <3>1 DEF OnWire
    <3>2. CASE stage[r] = "over" /\ \E a \in AuditRequest : wire' = [wire EXCEPT ![r] = a]
      <4>1. wire[r] = None /\ wire'[r] \in AuditRequest
        BY <1>b, <3>2 DEF TypeOK
      <4> QED BY <4>1 DEF OnWire, AuditRequest
    <3> QED BY <1>5, <3>1, <3>2 DEF Leaves
  <2>5. Mail(r)'
    BY <1>b, <2>1, <2>2, <2>4 DEF Sent, Seen
  <2>6. Mail(Peer(r))'
    BY <1>b, <2>1, <2>2, <2>3, RoleFacts DEF Sent, Seen
  <2> QED BY <1>a, <2>5, <2>6, RoleFacts
<1>6. CASE UNCHANGED vars
  BY <1>6 DEF vars, mailVars, MailInv, Sent, Seen, OnWire
<1> HIDE DEF Mail
<1>7. ASSUME NEW t \in Record, ThiefSeals(t) PROVE MailInv'
  BY <1>1, <1>7, RoleFacts DEF ThiefSeals
<1>8. ASSUME NEW p \in Record, PoliceSeals(p) PROVE MailInv'
  BY <1>1, <1>8, RoleFacts DEF PoliceSeals
<1> QED BY <1>2, <1>3, <1>4, <1>5, <1>6, <1>7, <1>8, Steps

-----------------------------------------------------------------------------
(* The boards.                                                             *)

\* The turn the thief takes: it claims the cell of the police, a barrier in it
\* is near that cell, and with it the thief has every barrier.
LEMMA ThiefSees ==
    ASSUME TypeOK, LoopInv, MailInv, BoardInv, NextTurn("thief")
    PROVE  LET p == log["police"][Sent("police")] IN
           /\ Sent("police") > 0 /\ p \in Record /\ Head(inbox["thief"]) = p
           /\ p.claim = p.position /\ p.claim = position["police"] /\ p.claim \in Cell
           /\ PoliceRecords(Sent("police")) /\ ~BarrierRefused(p)
           /\ Walls(p) = blocked["police"]
           /\ blocked["thief"] = blocked["police"] \ ({p.barrier} \ {None})
<1> DEFINE p == log["police"][Sent("police")]
<1>1. /\ stage["thief"] = "play" /\ Seen("thief") + 1 = Sent("police")
      /\ Head(inbox["thief"]) = p /\ p \in Record
  BY Taken, RoleFacts
<1>2. Sent("police") \in Nat /\ Seen("thief") \in Nat
  BY Counts, RoleFacts
<1>3. Sent("police") \in 1 .. Sent("police") /\ Sent("police") # Seen("thief")
  BY <1>1, <1>2
<1>4. PoliceRecords(Sent("police"))
  BY <1>3 DEF BoardInv
<1>5. p.claim = p.position /\ p.claim = position["police"] /\ p.claim \in Cell
  BY <1>1, <1>3, <1>4 DEF BoardInv, PoliceRecords, Record
<1>6. ~BarrierRefused(p)
  <2>1. knownCop = p.state
    BY <1>1, <1>3 DEF BoardInv, Playing
  <2> QED BY <1>4, <1>5, <2>1 DEF BarrierRefused, PoliceRecords
<1>7. /\ blocked["police"] \ blocked["thief"] = {p.barrier} \ {None}
      /\ blocked["thief"] \subseteq blocked["police"]
  BY <1>3 DEF BoardInv
<1> HIDE DEF p
<1>8. Walls(p) = blocked["police"] /\ blocked["thief"] = blocked["police"] \ ({p.barrier} \ {None})
  BY <1>7 DEF Walls
<1> QED BY <1>1, <1>2, <1>3, <1>4, <1>5, <1>6, <1>8 DEF p

\* What the thief does with it: it goes on, or its belief map takes no blocked cell.
LEMMA ThiefTakes ==
    ASSUME TypeOK, LoopInv, MailInv, BoardInv, TakesTurn("thief")
    PROVE  LET p == log["police"][Sent("police")] IN
           /\ NextTurn("thief") /\ blocked' = [blocked EXCEPT !["thief"] = blocked["police"]]
           /\ \/ /\ Advance("thief") /\ ~BeliefRefused(p) /\ UNCHANGED policeVars
                 /\ knownCop' = p.claim /\ response' = Answer(p)
                 /\ boxedIn' = (boxedIn \/ BoxedIn(blocked["police"], position["thief"]))
              \/ Fail("thief", "belief_error") /\ BeliefRefused(p) /\ UNCHANGED <<thiefVars, policeVars>>
<1>1. NextTurn("thief")
  BY TurnTaken, RoleFacts
<1> DEFINE p == log["police"][Sent("police")]
<1>2. Head(inbox["thief"]) = p /\ ~BarrierRefused(p) /\ Walls(p) = blocked["police"]
  BY <1>1, ThiefSees
<1>3. CASE ThiefAccepts
  BY <1>1, <1>2, <1>3 DEF ThiefAccepts
<1>4. CASE ThiefRefuses
  BY <1>1, <1>2, <1>4 DEF ThiefRefuses
<1> QED BY <1>3, <1>4 DEF TakesTurn

LEMMA BoardStep ==
    ASSUME TypeOK, TypeOK', LoopInv, MailInv, BoardInv, [Next]_vars
    PROVE  BoardInv'
<1>0. \A r \in Roles : Sent(r) \in Nat /\ Seen(r) \in Nat
  BY Counts
<1> DEFINE P == Sent("police")  T == Sent("thief")
           Barriers(n) == {log["police"][k].barrier : k \in 1 .. n}
<1>1. ASSUME NEW t \in Record, ThiefSeals(t) PROVE BoardInv'
  <2>1. /\ T' = T + 1 /\ log'["thief"][T + 1] = t /\ log'["police"] = log["police"] /\ P' = P
        /\ commits' = commits /\ stage' = [stage EXCEPT !["thief"] = "sending"] /\ knownCop' = knownCop
    BY <1>1, Sealed, RoleFacts DEF ThiefSeals
  <2>2. stage["thief"] = "play" /\ blocked' = blocked /\ position'["thief"] = t.position
        /\ position'["police"] = position["police"]
    BY <1>1, RoleFacts DEF ThiefSeals, OwnTurn, TypeOK
  <2>3. Seen("thief")' = Seen("thief")
    BY <2>1 DEF Seen
  <2>4. \A k \in 1 .. P : PoliceRecords(k)'
    BY <2>1 DEF BoardInv, PoliceRecords
  <2>5. T' # 0 /\ stage["thief"] \in Playing
    BY <1>0, <2>1, <2>2, RoleFacts DEF Playing
  <2> QED BY <2>1, <2>2, <2>3, <2>4, <2>5 DEF BoardInv
<1>2. ASSUME NEW p \in Record, PoliceSeals(p) PROVE BoardInv'
  <2>1. /\ P' = P + 1 /\ log'["police"][P + 1] = p /\ log'["thief"] = log["thief"] /\ T' = T
        /\ \A k \in 1 .. P : log'["police"][k] = log["police"][k]
        /\ commits' = commits /\ stage' = [stage EXCEPT !["police"] = "sending"] /\ knownCop' = knownCop
    BY <1>2, Sealed, RoleFacts DEF PoliceSeals
  <2>2. /\ P = Seen("thief") /\ Seen("thief")' = Seen("thief") /\ P \in Nat
    BY <1>0, <1>2, <2>1, OwnTurns, RoleFacts DEF PoliceSeals, Seen
  <2>3. /\ position'["police"] = p.position /\ position'["thief"] = position["thief"]
        /\ p.state = position["police"] /\ stage'["thief"] = stage["thief"]
    BY <1>2, <2>1, RoleFacts DEF PoliceSeals, TypeOK
  <2>4. /\ blocked'["police"] = blocked["police"] \cup ({p.barrier} \ {None})
        /\ blocked'["thief"] = blocked["thief"]
    BY <1>2, RoleFacts DEF PoliceSeals, TypeOK
  <2>5. PICK n \in Nat : n = P
    BY <2>2
  <2>6. /\ \A k \in 1 .. n : log'["police"][k] = log["police"][k]
        /\ log'["police"][n + 1] = p /\ P' = n + 1
    BY <2>1, <2>5
  <2>7. /\ blocked["thief"] = blocked["police"] /\ blocked["police"] = Barriers(n) \ {None}
        /\ \A k \in 1 .. n : PoliceRecords(k)
    BY <2>2, <2>5 DEF BoardInv
  <2>8. Barriers(n + 1)' = Barriers(n) \cup {p.barrier}
    <3>1. \A k \in 1 .. n + 1 : k = n + 1 \/ k \in 1 .. n
      OBVIOUS
    <3>2. n + 1 \in 1 .. n + 1 /\ \A k \in 1 .. n : k \in 1 .. n + 1
      OBVIOUS
    <3> QED BY <2>6, <3>1, <3>2
  <2>9. /\ p.claim = p.position /\ (p.position \in blocked["police"] => p.move = "STAY")
        /\ p.barrier # None => /\ p.position = p.state /\ p.barrier \notin blocked["police"]
                               /\ p.barrier \in Neighbors(p.position) \cup {p.position}
    BY <1>2 DEF PoliceSeals
  <2>10. PoliceRecords(n + 1)'
    <3>1. \A j \in 1 .. n : log["police"][j].barrier = p.position => p.move = "STAY"
      BY <2>7, <2>9, StartAssumption DEF Record
    <3>2. \A j \in 1 .. (n + 1) - 1 : j \in 1 .. n
      OBVIOUS
    <3> QED BY <2>6, <2>9, <3>1, <3>2 DEF PoliceRecords
  <2>11. ASSUME NEW k \in 1 .. n PROVE PoliceRecords(k)'
    <3>1. PoliceRecords(k) /\ \A j \in 1 .. k - 1 : j \in 1 .. n
      BY <2>7
    <3> QED BY <2>6, <3>1 DEF PoliceRecords
  <2>12. \A k \in 1 .. n + 1 : PoliceRecords(k)'
    <3> TAKE k \in 1 .. n + 1
    <3>1. CASE k = n + 1
      BY <2>10, <3>1
    <3>2. CASE k \in 1 .. n
      BY <2>11, <3>2
    <3> QED BY <3>1, <3>2
  <2> HIDE DEF Barriers
  <2>13. blocked'["police"] = Barriers(n + 1)' \ {None}
    BY <2>4, <2>7, <2>8
  <2>14. blocked'["thief"] \subseteq blocked'["police"]
         /\ blocked'["police"] \ blocked'["thief"] = {p.barrier} \ {None}
    BY <2>4, <2>7, <2>9
  <2>15. stage'["thief"] \in Playing => knownCop' = p.state
    BY <2>1, <2>2, <2>3 DEF BoardInv
  <2>16. P' # 0 /\ P' # Seen("thief")'
    BY <2>1, <2>2
  <2> QED BY <2>1, <2>3, <2>6, <2>12, <2>13, <2>14, <2>15, <2>16 DEF BoardInv, Barriers
<1>3. ASSUME log' = log, commits' = commits, UNCHANGED boardVars, knownCop' = knownCop,
             stage'["thief"] \in Playing => stage["thief"] \in Playing
      PROVE  BoardInv'
  BY <1>3 DEF BoardInv, boardVars, Sent, Seen, PoliceRecords
<1>4. ASSUME NEW r \in Roles, SendsTurn(r) PROVE BoardInv'
  <2>1. /\ stage[r] = "sending" /\ UNCHANGED <<boardVars, knownCop, log, commits>>
        /\ Advance(r) \/ \E o : Conclude(r, o)
    BY <1>4, TurnSent
  <2>2. stage'["thief"] \in Playing => stage["thief"] \in Playing
    BY <2>1, Iterated, RoleFacts DEF Playing
  <2> QED BY <1>3, <2>1, <2>2
<1>5. CASE TakesTurn("thief")
  <2> DEFINE p == log["police"][P]
  <2>1. NextTurn("thief") /\ blocked' = [blocked EXCEPT !["thief"] = blocked["police"]]
        /\ ((Advance("thief") /\ knownCop' = p.claim) \/ Fail("thief", "belief_error"))
    BY <1>5, ThiefTakes
  <2>2. Seen("thief") + 1 = P /\ Seen("thief")' = Seen("thief") + 1 /\ log' = log /\ position' = position
    BY <2>1, Taken, RoleFacts
  <2>3. p.claim = position["police"]
    BY <2>1, ThiefSees
  <2>4. blocked'["thief"] = blocked["police"] /\ blocked'["police"] = blocked["police"]
    BY <2>1, RoleFacts DEF TypeOK
  <2>5. P' = P /\ T' = T /\ P' = Seen("thief")'
    BY <2>2 DEF Sent
  <2>6. stage'["thief"] \in Playing => knownCop' = position["police"]
    BY <2>1, <2>3, RoleFacts DEF Fail, Playing, TypeOK
  <2>7. \A k \in 1 .. P : PoliceRecords(k)'
    BY <2>2 DEF BoardInv, PoliceRecords
  <2> QED BY <2>2, <2>4, <2>5, <2>6, <2>7 DEF BoardInv
<1>6. CASE TakesTurn("police")
  <2>1. NextTurn("police") /\ blocked' = blocked /\ knownCop' = knownCop
    BY <1>6, RoleFacts DEF TakesTurn, PoliceTakes, thiefVars
  <2>2. log' = log /\ position' = position /\ Seen("thief")' = Seen("thief")
    <3>1. commits'["thief"] = commits["thief"]
      BY <2>1, RoleFacts DEF NextTurn, TypeOK
    <3> QED BY <2>1, <3>1 DEF NextTurn, Seen
  <2>3. stage'["thief"] = stage["thief"]
    BY <1>6, TurnTaken, RoleFacts, SMTT(40) DEF Advance, Conclude, Fail, TypeOK
  <2>4. T' = T /\ P' = P /\ \A k \in 1 .. P : PoliceRecords(k)'
    BY <2>2 DEF Sent, BoardInv, PoliceRecords
  <2> QED BY <2>1, <2>2, <2>3, <2>4 DEF BoardInv
<1>7. ASSUME NEW r \in Roles, Deliver(r) PROVE BoardInv'
  BY <1>3, <1>7 DEF Deliver, thiefVars
<1>8. ASSUME NEW r \in Roles, Leaves(r) PROVE BoardInv'
  <2>1. stage'["thief"] \in Playing => stage["thief"] \in Playing
    BY <1>8, RoleFacts DEF Leaves, TypeOK
  <2> QED BY <1>3, <1>8, <2>1 DEF Leaves, thiefVars
<1>9. CASE UNCHANGED vars
  BY <1>3, <1>9 DEF vars, thiefVars
<1>10. ASSUME NEW r \in Roles, TakesTurn(r) PROVE BoardInv'
  BY <1>5, <1>6, <1>10, RoleFacts
<1> QED BY <1>1, <1>2, <1>4, <1>7, <1>8, <1>9, <1>10, Steps

-----------------------------------------------------------------------------
(* The claims and their answers.                                           *)

LEMMA ReplyStep ==
    ASSUME TypeOK, TypeOK', LoopInv, MailInv, BoardInv, ReplyInv, [Next]_vars
    PROVE  ReplyInv'
<1> DEFINE P == Sent("police")  T == Sent("thief")
<1>0. \A r \in Roles : Sent(r) \in Nat /\ Seen(r) \in Nat
  BY Counts
<1>a. "thief" \in Roles /\ "police" \in Roles
  BY RoleFacts
<1>1. ASSUME NEW t \in Record, ThiefSeals(t) PROVE ReplyInv'
  <2>1. /\ T' = T + 1 /\ log'["thief"][T + 1] = t /\ log'["police"] = log["police"] /\ P' = P
        /\ \A k \in 1 .. T : log'["thief"][k] = log["thief"][k]
        /\ commits' = commits /\ stage' = [stage EXCEPT !["thief"] = "sending"]
        /\ response' = response /\ boxedIn' = boxedIn /\ claims' = claims
    BY <1>1, Sealed, RoleFacts DEF ThiefSeals
  <2>2. stage["thief"] = "play" /\ T = Seen("thief") /\ P = T /\ T \in Nat
    BY <1>0, <1>a, <1>1, OwnTurns DEF ThiefSeals, OwnTurn
  <2>3. stage'["thief"] = "sending" /\ stage'["police"] = stage["police"]
    BY <2>1, RoleFacts DEF TypeOK
  <2>4. t.response = response /\ (~Caught => t.win = WinClaim)
    BY <1>1 DEF ThiefSeals
  <2>5. PICK n \in Nat : n = T
    BY <2>2
  <2>6. Replies(n + 1)'
    <3>1. response = IF n = 0 THEN None ELSE AnswerTo(log["police"][n], position["thief"])
      BY <2>2, <2>5 DEF ReplyInv, ThiefKnows
    <3>2. n # 0 => n \in 1 .. n /\ position["thief"] = log["thief"][n].position
      BY <2>5 DEF BoardInv
    <3>3. (n + 1) - 1 = n /\ (n + 1 = 1 <=> n = 0)
      OBVIOUS
    <3> QED BY <2>1, <2>4, <2>5, <3>1, <3>2, <3>3 DEF Replies
  <2>7. ASSUME NEW k \in 1 .. n PROVE Replies(k)'
    <3>1. Replies(k) /\ (k # 1 => k - 1 \in 1 .. n)
      BY <2>5 DEF ReplyInv
    <3> QED BY <2>1, <2>5, <3>1 DEF Replies
  <2>8. \A k \in 1 .. n + 1 : Replies(k)'
    <3> TAKE k \in 1 .. n + 1
    <3>1. k = n + 1 \/ k \in 1 .. n
      OBVIOUS
    <3> QED BY <2>6, <2>7, <3>1
  <2>9. ThiefTells'
    <3>1. ~Caught /\ boxedIn => t.win = "boxed_in"
      BY <2>4 DEF WinClaim
    <3>2. Caught' = Caught
      BY <2>1 DEF Caught
    <3> QED BY <2>1, <2>4, <3>1, <3>2 DEF ThiefTells
  <2>10. PoliceAsks'
    BY <2>1, <2>3 DEF ReplyInv, PoliceAsks, Seen
  <2> QED BY <2>1, <2>3, <2>5, <2>8, <2>9, <2>10 DEF ReplyInv, ThiefKnows
<1>2. ASSUME NEW p \in Record, PoliceSeals(p) PROVE ReplyInv'
  <2>1. /\ log'["thief"] = log["thief"] /\ T' = T
        /\ \A k \in 1 .. P : log'["police"][k] = log["police"][k]
        /\ commits' = commits /\ stage' = [stage EXCEPT !["police"] = "sending"]
        /\ response' = response /\ boxedIn' = boxedIn
    BY <1>2, Sealed, RoleFacts DEF PoliceSeals
  <2>2. Seen("thief") = P /\ T = P + 1 /\ P \in Nat
    BY <1>0, <1>a, <1>2, OwnTurns DEF PoliceSeals
  <2>3. stage'["police"] = "sending" /\ stage'["thief"] = stage["thief"]
    BY <2>1, RoleFacts DEF TypeOK
  <2>4. ASSUME NEW k \in 1 .. T PROVE Replies(k)'
    <3>1. Replies(k) /\ (k # 1 => k - 1 \in 1 .. P)
      BY <2>2 DEF ReplyInv
    <3> QED BY <2>1, <3>1 DEF Replies
  <2>5. Seen("thief")' = Seen("thief") /\ T # Seen("thief")
    BY <2>1, <2>2 DEF Seen
  <2>6. ThiefKnows'
    BY <2>1, <2>3, <2>5 DEF ReplyInv, ThiefKnows
  <2>7. ThiefTells' /\ PoliceAsks'
    BY <2>1, <2>3 DEF ReplyInv, ThiefTells, PoliceAsks, Caught
  <2> QED BY <2>1, <2>4, <2>6, <2>7 DEF ReplyInv
<1>3. CASE SendsTurn("thief")
  <2>1. /\ stage["thief"] = "sending" /\ position' = position /\ boxedIn' = boxedIn
        /\ log' = log /\ commits' = commits /\ Seen("thief") # T
    BY <1>0, <1>3, <1>a, TurnSent DEF boardVars, LoopInv
  <2>2. ThiefTurnSent /\ claims' = claims
    BY <1>3 DEF SendsTurn, ThiefTurnSent, policeVars
  <2>3. stage' \in {[stage EXCEPT !["thief"] = s] : s \in {"play", "over"}}
    BY <1>3, <1>a, TurnSent, Iterated
  <2>4. stage'["thief"] \in {"play", "over"} /\ stage'["police"] = stage["police"]
    BY <2>3, RoleFacts, SMTT(40) DEF TypeOK
  <2>5. stage'["thief"] = "play" => ~boxedIn
    <3>1. stage'["thief"] = "play" => ~Caught /\ Last(log["thief"]).win = None
      BY <2>2, <1>a DEF ThiefTurnSent, Conclude, TypeOK
    <3>2. boxedIn /\ ~Caught => Last(log["thief"]).win = "boxed_in"
      BY <2>1 DEF ReplyInv, ThiefTells, Last, Sent
    <3>3. None # "boxed_in"
      BY MatchAssumption DEF Wins
    <3> QED BY <3>1, <3>2, <3>3
  <2>6. T' = T /\ P' = P /\ \A r \in Roles : Seen(r)' = Seen(r)
    BY <2>1 DEF Sent, Seen
  <2>7. \A k \in 1 .. T : Replies(k)'
    BY <2>1 DEF ReplyInv, Replies
  <2>8. ThiefKnows' /\ ThiefTells'
    BY <1>a, <2>1, <2>4, <2>5, <2>6 DEF ThiefKnows, ThiefTells
  <2>9. PoliceAsks'
    BY <1>a, <2>1, <2>2, <2>4, <2>6 DEF ReplyInv, PoliceAsks
  <2> QED BY <2>6, <2>7, <2>8, <2>9 DEF ReplyInv
<1>4. CASE SendsTurn("police")
  <2>1. /\ stage["police"] = "sending" /\ position' = position /\ blocked' = blocked
        /\ boxedIn' = boxedIn /\ log' = log /\ commits' = commits
    BY <1>4, <1>a, TurnSent DEF boardVars
  <2>2. response' = response /\ claims' = {Last(log["police"]).claim, Last(log["police"]).barrier} \ {None}
    BY <1>4 DEF SendsTurn, PoliceTurnSent, thiefVars
  <2>3. stage' \in {[stage EXCEPT !["police"] = s] : s \in {"play", "over"}}
    BY <1>4, <1>a, TurnSent, Iterated
  <2>4. stage'["thief"] = stage["thief"]
    BY <2>3, RoleFacts, SMTT(40) DEF TypeOK
  <2>5. T' = T /\ P' = P /\ \A r \in Roles : Seen(r)' = Seen(r)
    BY <2>1 DEF Sent, Seen
  <2>6. P # 0
    <3>1. P = Seen("police") /\ turn["police"] = P + Seen("police") /\ turn["police"] # 0
      BY <1>a, <2>1 DEF LoopInv, TypeOK
    <3> QED BY <1>0, <1>a, <3>1
  <2>7. \A k \in 1 .. T : Replies(k)'
    BY <2>1 DEF ReplyInv, Replies
  <2>8. ThiefKnows'
    BY <1>a, <2>1, <2>2, <2>4, <2>5 DEF ReplyInv, ThiefKnows
  <2>9. ThiefTells'
    BY <1>a, <2>1, <2>2, <2>4, <2>5 DEF ReplyInv, ThiefTells, Caught
  <2>10. PoliceAsks'
    BY <2>1, <2>2, <2>5, <2>6 DEF PoliceAsks, Last, Sent
  <2> QED BY <2>5, <2>7, <2>8, <2>9, <2>10 DEF ReplyInv
<1>5. CASE TakesTurn("thief")
  <2> DEFINE p == log["police"][P]
  <2>1. NextTurn("thief") /\ blocked'["thief"] = blocked["police"]
        /\ \/ /\ stage'["thief"] \in {"play", "over"} /\ response' = Answer(p)
              /\ boxedIn' = (boxedIn \/ BoxedIn(blocked["police"], position["thief"]))
           \/ stage'["thief"] = "belief_error"
    BY <1>5, <1>a, ThiefTakes DEF Advance, Fail, TypeOK
  <2>2. claims' = claims /\ stage'["police"] = stage["police"]
    BY <1>5, ThiefTakes, RoleFacts DEF Advance, Fail, TypeOK, policeVars
  <2>3. /\ stage["thief"] = "play" /\ Seen("thief") + 1 = P /\ Seen("thief")' = Seen("thief") + 1
        /\ log' = log /\ position' = position /\ T = Seen("thief") + 1
    BY <2>1, <1>a, Taken, RoleFacts
  <2>4. Seen("police")' = Seen("police")
    <3>1. commits'["police"] = commits["police"]
      BY <2>1, RoleFacts DEF NextTurn, TypeOK
    <3> QED BY <3>1 DEF Seen
  <2>5. T' = T /\ P' = P
    BY <2>3 DEF Sent
  <2>6. ~boxedIn
    BY <1>0, <1>a, <2>3 DEF ReplyInv, ThiefKnows
  <2>7. Answer(p) = AnswerTo(p, position["thief"])
    <3>1. p.claim # None
      BY <2>1, ThiefSees, StartAssumption
    <3> QED BY <3>1 DEF Answer, AnswerTo
  <2>8. \A k \in 1 .. T : Replies(k)'
    BY <2>3 DEF ReplyInv, Replies
  <2>9. ThiefKnows'
    <3>1. Seen("thief")' = P /\ P > 0 /\ T' = Seen("thief")'
      BY <1>0, <1>a, <2>3, <2>5
    <3>2. stage'["thief"] = "play" =>
            /\ response' = AnswerTo(log["police"][P], position["thief"])
            /\ boxedIn' <=> BoxedIn(blocked'["thief"], position["thief"])
      BY <2>1, <2>6, <2>7
    <3> QED BY <2>3, <3>1, <3>2 DEF ThiefKnows
  <2>10. ThiefTells'
    BY <2>1 DEF ThiefTells
  <2>11. PoliceAsks'
    BY <2>2, <2>3, <2>4, <2>5 DEF ReplyInv, PoliceAsks
  <2> QED BY <2>5, <2>8, <2>9, <2>10, <2>11 DEF ReplyInv
<1>6. CASE TakesTurn("police")
  <2>1. NextTurn("police") /\ blocked' = blocked /\ response' = response /\ boxedIn' = boxedIn
    BY <1>6, RoleFacts DEF TakesTurn, PoliceTakes, thiefVars
  <2>2. /\ Seen("police")' = Seen("police") + 1 /\ P = Seen("police")
        /\ log' = log /\ position' = position
    BY <2>1, <1>a, Taken, RoleFacts
  <2>3. stage'["thief"] = stage["thief"]
    BY <1>6, <1>a, TurnTaken, RoleFacts, SMTT(40) DEF Advance, Conclude, Fail, TypeOK
  <2>4. commits'["thief"] = commits["thief"]
    BY <2>1, RoleFacts DEF NextTurn, TypeOK
  <2>5. T' = T /\ P' = P /\ Seen("thief")' = Seen("thief")
    BY <2>2, <2>4 DEF Sent, Seen
  <2>6. \A k \in 1 .. T : Replies(k)'
    BY <2>2 DEF ReplyInv, Replies
  <2>7. ThiefKnows'
    BY <2>1, <2>2, <2>3, <2>5 DEF ReplyInv, ThiefKnows
  <2>8. ThiefTells'
    BY <2>1, <2>2, <2>3, <2>5 DEF ReplyInv, ThiefTells, Caught
  <2>9. PoliceAsks'
    BY <1>0, <1>a, <2>2, <2>5 DEF PoliceAsks
  <2> QED BY <2>5, <2>6, <2>7, <2>8, <2>9 DEF ReplyInv
<1>7. ASSUME log' = log, commits' = commits, UNCHANGED <<boardVars, thiefVars, policeVars>>,
             \A r \in Roles : stage'[r] \in Playing => stage'[r] = stage[r]
      PROVE  ReplyInv'
  <2>1. T' = T /\ P' = P /\ \A r \in Roles : Seen(r)' = Seen(r)
    BY <1>7 DEF Sent, Seen
  <2>2. \A k \in 1 .. T : Replies(k)'
    BY <1>7 DEF ReplyInv, Replies
  <2>3. \A r \in Roles : /\ stage'[r] = "play" => stage[r] = "play"
                         /\ stage'[r] = "sending" => stage[r] = "sending"
    BY <1>7 DEF Playing
  <2>4. ThiefKnows'
    BY <1>7, <1>a, <2>1, <2>3 DEF ReplyInv, ThiefKnows, boardVars, thiefVars
  <2>5. ThiefTells'
    BY <1>7, <1>a, <2>1, <2>3 DEF ReplyInv, ThiefTells, thiefVars, Caught
  <2>6. PoliceAsks'
    BY <1>7, <1>a, <2>1, <2>3 DEF ReplyInv, PoliceAsks, policeVars
  <2> QED BY <2>1, <2>2, <2>4, <2>5, <2>6 DEF ReplyInv
<1>8. ASSUME NEW r \in Roles, Deliver(r) PROVE ReplyInv'
  BY <1>7, <1>8 DEF Deliver
<1>9. ASSUME NEW r \in Roles, Leaves(r) PROVE ReplyInv'
  <2>1. \A q \in Roles : stage'[q] \in Playing => stage'[q] = stage[q]
    BY <1>9, RoleFacts DEF Leaves, TypeOK
  <2> QED BY <1>7, <1>9, <2>1 DEF Leaves
<1>10. CASE UNCHANGED vars
  BY <1>7, <1>10 DEF vars
<1>11. ASSUME NEW r \in Roles, SendsTurn(r) \/ TakesTurn(r) PROVE ReplyInv'
  BY <1>3, <1>4, <1>5, <1>6, <1>11, RoleFacts
<1> QED BY <1>1, <1>2, <1>8, <1>9, <1>10, <1>11, Steps

-----------------------------------------------------------------------------
(* The end of the game.                                                    *)

\* Whether an action caught the thief is told by the records up to it.
LEMMA CaughtStays ==
    ASSUME NEW n \in Nat,
           \A k \in 1 .. n : log'["police"][k] = log["police"][k] /\ log'["thief"][k] = log["thief"][k]
    PROVE  \A k \in 1 .. n : CaughtAt(k)' <=> CaughtAt(k)
<1> TAKE k \in 1 .. n
<1>1. \A i \in 1 .. k : i \in 1 .. n
  OBVIOUS
<1>2. {log["police"][i].barrier : i \in 1 .. k}' = {log["police"][i].barrier : i \in 1 .. k}
  BY <1>1
<1> QED BY <1>1, <1>2 DEF CaughtAt

\* On its own turn the thief knows whether it was caught: the answer it owes
\* says so, or it has seen its walls.
LEMMA ThiefKnowsTheEnd ==
    ASSUME TypeOK, LoopInv, MailInv, BoardInv, ReplyInv, OwnTurn("thief"), Sent("police") > 0
    PROVE  CaughtAt(Sent("police")) <=> Caught \/ boxedIn
<1> DEFINE P == Sent("police")  p == log["police"][P]  here == position["thief"]
           walls == {log["police"][i].barrier : i \in 1 .. P}
<1>1. Sent("thief") = P /\ Seen("thief") = P /\ stage["thief"] = "play" /\ P \in Nat
  BY OwnTurns, Counts, RoleFacts DEF OwnTurn
<1>2. /\ here = log["thief"][P].position /\ here \in Cell
      /\ PoliceRecords(P) /\ blocked["thief"] = walls \ {None}
  BY <1>1, RoleFacts DEF BoardInv, TypeOK
<1>3. p.claim = p.position
  BY <1>2 DEF PoliceRecords
<1>4. response = AnswerTo(p, here) /\ (boxedIn <=> BoxedIn(blocked["thief"], here))
  BY <1>1 DEF ReplyInv, ThiefKnows
<1>5. Caught <=> here \in {p.position, p.barrier}
  <2>1. AnswerTo(p, here) # None
    <3>1. p \in Record
      BY <1>1, LenProperties, RoleFacts DEF TypeOK, Sent
    <3>2. AnswerTo(p, here) \in Answers
      BY <1>2, <3>1, <1>3 DEF AnswerTo, Answers, Record
    <3> QED BY <3>2, MatchAssumption
  <2> QED BY <1>3, <1>4, <2>1 DEF Caught, AnswerTo
<1>6. boxedIn <=> Neighbors(here) \subseteq walls
  BY <1>2, <1>4, NeighborsAreCells, StartAssumption DEF BoxedIn
<1> QED BY <1>2, <1>5, <1>6 DEF CaughtAt

LEMMA ChaseStep ==
    ASSUME TypeOK, TypeOK', LoopInv, MailInv, BoardInv, ReplyInv, ChaseInv, [Next]_vars
    PROVE  ChaseInv'
<1> DEFINE P == Sent("police")  T == Sent("thief")
<1>0. \A r \in Roles : Sent(r) \in Nat /\ Seen(r) \in Nat
  BY Counts
<1>a. "thief" \in Roles /\ "police" \in Roles
  BY RoleFacts
<1>1. ASSUME NEW t \in Record, ThiefSeals(t) PROVE ChaseInv'
  <2>1. /\ T' = T + 1 /\ log'["thief"][T + 1] = t /\ log'["police"] = log["police"] /\ P' = P
        /\ \A k \in 1 .. T : log'["thief"][k] = log["thief"][k]
        /\ commits' = commits
    BY <1>1, Sealed, RoleFacts DEF ThiefSeals
  <2>2. OwnTurn("thief") /\ P = T /\ Seen("police") = T
    BY <1>1, OwnTurns DEF ThiefSeals
  <2>3. PICK n \in Nat : n = P
    BY <1>0, <1>a
  <2>4. \A k \in 1 .. n : CaughtAt(k)' <=> CaughtAt(k)
    BY <2>1, <2>2, <2>3, CaughtStays
  <2>5. \A k \in 1 .. n - 1 : ~CaughtAt(k)'
    BY <2>3, <2>4 DEF ChaseInv
  <2>6. n > 0 /\ CaughtAt(n)' => Terminal(t)
    <3> SUFFICES ASSUME n > 0, CaughtAt(n)' PROVE Terminal(t)
      OBVIOUS
    <3>1. Caught \/ boxedIn
      BY <2>2, <2>3, <2>4, ThiefKnowsTheEnd
    <3>2. t.response = response /\ (~Caught => t.win = WinClaim)
      BY <1>1 DEF ThiefSeals
    <3>3. ~Caught => t.win = "boxed_in"
      BY <3>1, <3>2 DEF WinClaim
    <3>4. "boxed_in" # None
      BY MatchAssumption DEF Wins
    <3> QED BY <3>2, <3>3, <3>4 DEF Terminal, IsCaught, Caught
  <2>7. Seen("police")' # P' + 1
    BY <1>0, <1>a, <2>1, <2>2 DEF Seen
  <2> QED BY <2>1, <2>2, <2>3, <2>5, <2>6, <2>7 DEF ChaseInv
<1>2. ASSUME NEW p \in Record, PoliceSeals(p) PROVE ChaseInv'
  <2>1. /\ log'["thief"] = log["thief"] /\ T' = T /\ P' = P + 1
        /\ \A k \in 1 .. P : log'["police"][k] = log["police"][k]
        /\ commits' = commits
    BY <1>2, Sealed, RoleFacts DEF PoliceSeals
  <2>2. /\ stage["police"] = "play" /\ Seen("police") = P + 1 /\ T = P + 1
    BY <1>2, OwnTurns DEF PoliceSeals, OwnTurn
  <2>3. PICK n \in Nat : n = P
    BY <1>0, <1>a
  <2>4. \A k \in 1 .. n : CaughtAt(k)' <=> CaughtAt(k)
    BY <2>1, <2>3, CaughtStays
  <2>5. \A k \in 1 .. n : ~CaughtAt(k)
    <3>1. P > 0 => ~CaughtAt(P)
      BY <2>2 DEF ChaseInv, Playing
    <3> TAKE k \in 1 .. n
    <3>2. k \in 1 .. P - 1 \/ (k = P /\ P > 0)
      BY <2>3
    <3> QED BY <3>1, <3>2 DEF ChaseInv
  <2>6. \A k \in 1 .. (n + 1) - 1 : ~CaughtAt(k)'
    BY <2>4, <2>5
  <2>7. P' = n + 1 /\ T' = n + 1 /\ Seen("police")' = n + 1
    BY <2>1, <2>2, <2>3 DEF Seen
  <2> QED BY <2>6, <2>7 DEF ChaseInv
<1>3. ASSUME log' = log,
             stage'["police"] \in Playing /\ Seen("police")' = P + 1 =>
                 \/ ~Terminal(log["thief"][T])
                 \/ stage["police"] \in Playing /\ Seen("police") = P + 1
      PROVE  ChaseInv'
  <2>1. T' = T /\ P' = P
    BY <1>3 DEF Sent
  <2>2. \A k : CaughtAt(k)' <=> CaughtAt(k)
    BY <1>3 DEF CaughtAt
  <2> QED BY <1>3, <2>1, <2>2 DEF ChaseInv
<1>4. ASSUME NEW r \in Roles, SendsTurn(r) PROVE ChaseInv'
  <2>1. /\ stage[r] = "sending" /\ log' = log /\ commits' = commits
        /\ Advance(r) \/ \E o : Conclude(r, o)
    BY <1>4, TurnSent
  <2>2. stage'["police"] \in Playing => stage["police"] \in Playing
    BY <2>1, Iterated, RoleFacts DEF Playing
  <2>3. Seen("police")' = Seen("police")
    BY <2>1 DEF Seen
  <2> QED BY <1>3, <2>1, <2>2, <2>3
<1>5. CASE TakesTurn("thief")
  <2>1. NextTurn("thief") /\ stage'["police"] = stage["police"]
    BY <1>5, ThiefTakes, RoleFacts DEF Advance, Fail, TypeOK
  <2>2. log' = log
    BY <2>1 DEF NextTurn
  <2>3. commits'["police"] = commits["police"]
    BY <2>1, RoleFacts DEF NextTurn, TypeOK
  <2> QED BY <1>3, <2>1, <2>2, <2>3 DEF Seen
<1>6. CASE TakesTurn("police")
  <2> DEFINE p == Head(inbox["police"])
  <2>1. NextTurn("police") /\ PoliceTakes
    BY <1>6, TurnTaken, RoleFacts DEF TakesTurn
  <2>2. log' = log /\ p = log["thief"][T]
    BY <1>a, <2>1, Taken, RoleFacts
  <2>3. stage'["police"] \in Playing => ~Terminal(p)
    BY <2>1, <1>a DEF PoliceTakes, Conclude, Fail, TypeOK, Playing, Terminal, IsCaught
  <2> QED BY <1>3, <2>2, <2>3
<1>7. ASSUME NEW r \in Roles, Deliver(r) PROVE ChaseInv'
  BY <1>3, <1>7 DEF Deliver, Seen
<1>8. ASSUME NEW r \in Roles, Leaves(r) PROVE ChaseInv'
  <2>1. stage'["police"] \in Playing => stage["police"] \in Playing
    BY <1>8, RoleFacts DEF Leaves, TypeOK
  <2> QED BY <1>3, <1>8, <2>1 DEF Leaves, Seen
<1>9. CASE UNCHANGED vars
  BY <1>3, <1>9 DEF vars, Seen
<1>10. ASSUME NEW r \in Roles, TakesTurn(r) PROVE ChaseInv'
  BY <1>5, <1>6, <1>10, RoleFacts
<1> QED BY <1>1, <1>2, <1>4, <1>7, <1>8, <1>9, <1>10, Steps

-----------------------------------------------------------------------------
(* No turn is refused.                                                     *)

\* The answer the police takes is to what it asked.
LEMMA PoliceTakesIt ==
    ASSUME TypeOK, LoopInv, MailInv, BoardInv, ReplyInv, NextTurn("police")
    PROVE  ~AnswerRefused(Head(inbox["police"]))
<1> DEFINE P == Sent("police")  t == Head(inbox["police"])  p == log["police"][P]
           own == log["thief"][P].position
<1>1. /\ stage["police"] = "play" /\ Sent("thief") = P + 1 /\ Seen("police") = P
      /\ t = log["thief"][Sent("thief")]
  BY Taken, RoleFacts
<1>2. P \in Nat
  BY Counts, RoleFacts
<1> SUFFICES ASSUME t.response # None PROVE t.response.claim \in claims
  BY DEF AnswerRefused
<1>3. P # 0 /\ t.response = AnswerTo(p, own)
  <2>1. Replies(P + 1)
    BY <1>1, <1>2 DEF ReplyInv
  <2> QED BY <1>1, <1>2, <2>1 DEF Replies
<1>4. claims = {p.claim, p.barrier} \ {None}
  BY <1>1, <1>3 DEF ReplyInv, PoliceAsks
<1>5. p.claim \in Cell /\ own \in Cell
  <2>1. P \in 1 .. P /\ P \in 1 .. Sent("thief")
    BY <1>1, <1>2, <1>3
  <2>2. p \in Record /\ log["thief"][P] \in Record
    BY <2>1, LenProperties, RoleFacts DEF TypeOK, Sent
  <2>3. p.claim = p.position
    BY <2>1 DEF BoardInv, PoliceRecords
  <2> QED BY <2>2, <2>3 DEF Record
<1>6. AnswerTo(p, own).claim \in {p.claim, p.barrier} \ {None}
  BY <1>5, StartAssumption DEF AnswerTo
<1> QED BY <1>3, <1>4, <1>6

LEMMA RefusalStep ==
    ASSUME TypeOK, TypeOK', LoopInv, MailInv, BoardInv, ReplyInv, RefusalInv, TurnsAreAccepted,
           [Next]_vars
    PROVE  RefusalInv' /\ TurnsAreAccepted'
<1> DEFINE P == Sent("police")  T == Sent("thief")
<1>0. \A r \in Roles : Sent(r) \in Nat /\ Seen(r) \in Nat
  BY Counts
<1>a. "thief" \in Roles /\ "police" \in Roles
  BY RoleFacts
<1>1. ASSUME NEW t \in Record, ThiefSeals(t) PROVE RefusalInv' /\ TurnsAreAccepted'
  <2>1. stage' = [stage EXCEPT !["thief"] = "sending"]
    BY <1>1, Sealed, <1>a DEF ThiefSeals
  <2> QED BY <2>1, <1>a DEF TypeOK, RefusalInv, TurnsAreAccepted
<1>2. ASSUME NEW p \in Record, PoliceSeals(p) PROVE RefusalInv' /\ TurnsAreAccepted'
  <2>1. stage' = [stage EXCEPT !["police"] = "sending"]
    BY <1>2, Sealed, <1>a DEF PoliceSeals
  <2>2. P = Seen("thief") /\ T = P + 1 /\ P \in Nat
    BY <1>0, <1>a, <1>2, OwnTurns DEF PoliceSeals
  <2>3. stage["thief"] # "belief_error"
    BY <2>2 DEF RefusalInv
  <2> QED BY <2>1, <2>3, <1>a DEF TypeOK, RefusalInv, TurnsAreAccepted
\* The other steps leave the logs.
<1>3. ASSUME log' = log, stage'["thief"] = "belief_error" => Seen("thief")' = Seen("thief"),
             \A r \in Roles : stage'[r] \in {"protocol_error", "belief_error"} => stage'[r] = stage[r]
      PROVE  RefusalInv' /\ TurnsAreAccepted'
  <2>1. T' = T /\ P' = P
    BY <1>3 DEF Sent
  <2>2. RefusalInv'
    BY <1>3, <1>a, <2>1 DEF RefusalInv
  <2>3. TurnsAreAccepted'
    BY <1>3, <1>a DEF TurnsAreAccepted
  <2> QED BY <2>2, <2>3
<1>4. ASSUME NEW r \in Roles, SendsTurn(r) PROVE RefusalInv' /\ TurnsAreAccepted'
  <2>1. log' = log /\ commits' = commits /\ (Advance(r) \/ \E o : Conclude(r, o))
    BY <1>4, TurnSent
  <2>2. \A q \in Roles : stage'[q] \in {"protocol_error", "belief_error"} => stage'[q] = stage[q]
    BY <2>1, Iterated, RoleFacts DEF TypeOK
  <2> QED BY <1>3, <2>1, <2>2 DEF Seen
<1>5. CASE TakesTurn("thief")
  <2> DEFINE p == log["police"][P]
  <2>1. NextTurn("thief")
        /\ (Advance("thief") \/ (Fail("thief", "belief_error") /\ BeliefRefused(p)))
    BY <1>5, ThiefTakes
  <2>2. /\ T = Seen("thief") + 1 /\ P = Seen("thief") + 1 /\ Seen("thief")' = Seen("thief") + 1
        /\ log' = log
    BY <1>a, <2>1, Taken, RoleFacts
  <2>3. CASE Advance("thief")
    <3>1. stage' \in {[stage EXCEPT !["thief"] = s] : s \in {"play", "over"}}
      BY <1>a, <2>3, Iterated
    <3>2. \A q \in Roles : stage'[q] \in {"protocol_error", "belief_error"} => stage'[q] = stage[q]
      BY <3>1, <1>a DEF TypeOK
    <3>3. stage'["thief"] # "belief_error"
      BY <3>1, <1>a DEF TypeOK
    <3> QED BY <1>3, <2>2, <3>2, <3>3
  <2>4. CASE Fail("thief", "belief_error") /\ BeliefRefused(p)
    <3>1. stage' = [stage EXCEPT !["thief"] = "belief_error"]
      BY <2>4 DEF Fail
    <3>2. RefusalInv'
      BY <2>2 DEF RefusalInv, Sent
    <3>3. p.claim = p.position /\ p.claim \in Cell /\ PoliceRecords(P) /\ Walls(p) = blocked["police"]
      BY <2>1, ThiefSees
    <3>4. p.position \in blocked["police"] /\ p.position # p.barrier
      BY <2>4, <3>3 DEF BeliefRefused
    <3>5. \E k \in 1 .. P - 1 : log["police"][k].barrier = p.position
      <4>1. PICK k \in 1 .. P : log["police"][k].barrier = p.position
        BY <3>4 DEF BoardInv
      <4>2. k # P
        BY <3>4, <4>1
      <4> QED BY <1>0, <1>a, <4>1, <4>2
    <3>6. p.move = "STAY"
      BY <3>3, <3>5 DEF PoliceRecords
    <3>7. \A r \in Roles : stage'[r] # "protocol_error"
      BY <3>1 DEF TypeOK, TurnsAreAccepted
    <3>8. TurnsAreAccepted'
      BY <2>2, <3>5, <3>6, <3>7 DEF TurnsAreAccepted, Sent
    <3> QED BY <3>2, <3>8
  <2> QED BY <2>1, <2>3, <2>4
<1>6. CASE TakesTurn("police")
  <2>1. NextTurn("police") /\ PoliceTakes
    BY <1>6, TurnTaken, RoleFacts DEF TakesTurn
  <2>2. ~AnswerRefused(Head(inbox["police"]))
    BY <2>1, PoliceTakesIt
  <2>3. Advance("police") \/ \E o : Conclude("police", o)
    BY <2>1, <2>2 DEF PoliceTakes
  <2>4. stage' \in {[stage EXCEPT !["police"] = s] : s \in {"play", "over"}}
    BY <1>a, <2>3, Iterated
  <2>5. \A q \in Roles : stage'[q] \in {"protocol_error", "belief_error"} => stage'[q] = stage[q]
    BY <2>4, <1>a DEF TypeOK
  <2>6. log' = log
    BY <2>1 DEF NextTurn
  <2>7. commits'["thief"] = commits["thief"]
    BY <2>1, <1>a DEF NextTurn, TypeOK
  <2> QED BY <1>3, <2>5, <2>6, <2>7 DEF Seen
<1>7. ASSUME NEW r \in Roles, Deliver(r) PROVE RefusalInv' /\ TurnsAreAccepted'
  BY <1>3, <1>7 DEF Deliver, Seen
<1>8. ASSUME NEW r \in Roles, Leaves(r) PROVE RefusalInv' /\ TurnsAreAccepted'
  <2>1. \A q \in Roles : stage'[q] \in {"protocol_error", "belief_error"} => stage'[q] = stage[q]
    BY <1>8, RoleFacts DEF Leaves, TypeOK
  <2> QED BY <1>3, <1>8, <2>1 DEF Leaves, Seen
<1>9. CASE UNCHANGED vars
  BY <1>3, <1>9 DEF vars, Seen
<1>10. ASSUME NEW r \in Roles, TakesTurn(r) PROVE RefusalInv' /\ TurnsAreAccepted'
  BY <1>5, <1>6, <1>10, RoleFacts
<1> QED BY <1>1, <1>2, <1>4, <1>7, <1>8, <1>9, <1>10, Steps

-----------------------------------------------------------------------------
(* The theorems.                                                           *)

LEMMA InitInv == Init => IInv
<1> SUFFICES ASSUME Init PROVE IInv
  OBVIOUS
<1>1. \A r \in Roles : /\ stage[r] = "play" /\ turn[r] = 1 /\ blocked[r] = {} /\ outcome[r] = "survival"
                       /\ log[r] = <<>> /\ commits[r] = <<>> /\ inbox[r] = <<>> /\ wire[r] = None
  BY DEF Init
<1>2. "thief" \in Roles /\ "police" \in Roles
  BY RoleFacts
<1>3. \A r \in Roles : Sent(r) = 0 /\ Seen(r) = 0 /\ Len(inbox[r]) = 0 /\ ~OnWire(r)
  BY <1>1 DEF Sent, Seen, OnWire
<1>4. position["police"] = CopStart /\ position["thief"] = ThiefStart
  BY DEF Init
<1>5. TypeOK
  <2>1. <<>> \in Seq(Record)
    OBVIOUS
  <2>2. position \in [Roles -> Cell]
    BY StartAssumption DEF Init, Roles
  <2>3. "play" \in Stages /\ "survival" \in Outcomes /\ 1 \in Nat \ {0}
    BY DEF Stages, Outcomes
  <2> QED BY <2>1, <2>2, <2>3, StartAssumption DEF Init, TypeOK
<1>6. LoopInv
  BY <1>1, <1>2, <1>3, MatchAssumption DEF LoopInv, LastTurn
<1>7. MailInv
  BY <1>1, <1>3, RoleFacts DEF MailInv
<1>8. BoardInv
  BY <1>1, <1>2, <1>3, <1>4 DEF BoardInv, Init
<1>9. ReplyInv
  BY <1>1, <1>2, <1>3 DEF ReplyInv, ThiefKnows, ThiefTells, PoliceAsks, Init
<1>10. ChaseInv
  BY <1>2, <1>3 DEF ChaseInv
<1>11. RefusalInv /\ TurnsAreAccepted
  BY <1>1, <1>2 DEF RefusalInv, TurnsAreAccepted
<1> QED BY <1>5, <1>6, <1>7, <1>8, <1>9, <1>10, <1>11 DEF IInv

LEMMA InvStep == IInv /\ [Next]_vars => IInv'
<1> SUFFICES ASSUME IInv, [Next]_vars PROVE IInv'
  OBVIOUS
<1>1. /\ TypeOK /\ LoopInv /\ MailInv /\ BoardInv /\ ReplyInv /\ ChaseInv
      /\ RefusalInv /\ TurnsAreAccepted
  BY DEF IInv
<1>2. TypeOK'
  BY <1>1, TypeStep
<1>3. LoopInv' /\ MailInv'
  BY <1>1, LoopStep, MailStep
<1>4. BoardInv' /\ ReplyInv' /\ ChaseInv' /\ RefusalInv' /\ TurnsAreAccepted'
  BY <1>1, <1>2, BoardStep, ReplyStep, ChaseStep, RefusalStep
<1> QED BY <1>2, <1>3, <1>4 DEF IInv

LEMMA Invariance == Spec => []IInv
BY InitInv, InvStep, PTL DEF Spec

\* A network game never stops on a turn one peer made and the other refuses,
\* but for a police that claims a cell it walled in (network_match.py:959-987,
\* 1091-1111, 202-218).
THEOREM EveryTurnIsAccepted == Spec => []TurnsAreAccepted
<1>1. IInv => TurnsAreAccepted
  BY DEF IInv
<1> QED BY <1>1, Invariance, PTL

\* The two boards, each kept by its own peer, differ at most by the barrier of
\* the turn that is under way (network_match.py:959-1001).
THEOREM TheBoardsAgree == Spec => []BoardsAgree
<1>1. IInv => BoardsAgree
  <2> SUFFICES ASSUME IInv PROVE BoardsAgree
    OBVIOUS
  <2>1. Sent("police") - Seen("thief") \in {0, 1}
    <3>1. /\ Sent("police") \in Nat /\ Seen("thief") \in Nat
          /\ Seen("thief") <= Sent("police") /\ Sent("police") <= Seen("thief") + 1
      BY Counts, RoleFacts DEF IInv
    <3> QED BY <3>1
  <2> QED BY <2>1 DEF IInv, BoardInv, BoardsAgree, Sent, Seen, Last
<1> QED BY <1>1, Invariance, PTL

-----------------------------------------------------------------------------
(* The game the two peers play.                                            *)

LEMMA SameGrid ==
    /\ Game!Cell = Cell /\ Game!Moves = Moves
    /\ \A cell : Game!Neighbors(cell) = Neighbors(cell)
    /\ \A cell, move : Game!Destination(cell, move) = Destination(cell, move)
BY DEF Game!Cell, Cell, Game!Moves, Moves, Game!Neighbors, Neighbors, Game!Distance, Distance,
       Game!Gap, Gap, Game!Destination, Destination

LEMMA SameSize == \A S : Game!Cardinality(S) = Cardinality(S)
BY Zenon DEF Game!Cardinality, Cardinality

LEMMA MovesToNeighbors ==
    ASSUME NEW cell \in Cell, NEW move \in Moves, Destination(cell, move) \in Cell
    PROVE  Destination(cell, move) \in Neighbors(cell) \cup {cell}
BY SizeAssumption DEF Destination, Cell, Moves, Neighbors, Distance, Gap

\* A thief that is walled in stays where it is.
LEMMA WalledIn ==
    ASSUME TypeOK, NEW cell, Reaches("thief", cell), BoxedIn(blocked["thief"], position["thief"])
    PROVE  cell = position["thief"]
<1>1. position["thief"] \in Cell
  BY RoleFacts DEF TypeOK
<1> QED BY <1>1, MovesToNeighbors DEF Reaches, BoxedIn
\* The clock and the verdict of the game, told from the two logs.
Actions == Len(log["police"]) + IF CaughtInFact THEN Len(log["police"]) ELSE Len(log["thief"])
Outlook == IF CaughtInFact THEN "capture"
           ELSE IF Len(log["thief"]) = MaxMoves THEN "survival" ELSE "open"

LEMMA GameState ==
    ASSUME UNCHANGED <<position, log>>, blocked'["police"] = blocked["police"]
    PROVE  UNCHANGED Game!vars
<1>1. CaughtInFact' <=> CaughtInFact
  BY DEF CaughtInFact, CaughtAt
<1> QED BY <1>1 DEF Game!vars

\* The steps that seal no turn leave the game where it is.
LEMMA QuietSteps ==
    ASSUME IInv, NEW r \in Roles, SendsTurn(r) \/ TakesTurn(r) \/ Deliver(r) \/ Leaves(r)
    PROVE  UNCHANGED Game!vars
<1>1. TypeOK /\ LoopInv /\ MailInv /\ BoardInv
  BY DEF IInv
<1>2. UNCHANGED <<position, log>> /\ blocked'["police"] = blocked["police"]
  <2>1. CASE SendsTurn(r)
    BY <1>1, <2>1, TurnSent DEF boardVars
  <2>2. CASE TakesTurn(r)
    <3>1. NextTurn(r)
      BY <2>2, TurnTaken
    <3>2. CASE r = "thief"
      <4>1. blocked' = [blocked EXCEPT !["thief"] = blocked["police"]]
        BY <1>1, <2>2, <3>2, ThiefTakes
      <4> QED BY <1>1, <3>1, <4>1, RoleFacts DEF NextTurn, TypeOK
    <3>3. CASE r = "police"
      BY <2>2, <3>1, <3>3 DEF TakesTurn, PoliceTakes, NextTurn
    <3> QED BY <3>2, <3>3, RoleFacts
  <2>3. CASE Deliver(r)
    BY <2>3 DEF Deliver, boardVars
  <2>4. CASE Leaves(r)
    BY <2>4 DEF Leaves, boardVars
  <2> QED BY <2>1, <2>2, <2>3, <2>4
<1> QED BY <1>2, GameState

\* The thief's turn is a move of the game, or says that the game is over.
LEMMA ThiefPlays ==
    ASSUME IInv, NEW t \in Record, ThiefSeals(t)
    PROVE  [Game!Next]_(Game!vars)
<1> DEFINE P == Sent("police")  T == Sent("thief")
<1>1. TypeOK /\ LoopInv /\ MailInv /\ BoardInv /\ ReplyInv /\ ChaseInv
  BY DEF IInv
<1>2. OwnTurn("thief") /\ P = T /\ Seen("thief") = T /\ T < MaxMoves /\ T \in Nat /\ stage["thief"] = "play"
  BY <1>1, OwnTurns, Counts, RoleFacts DEF ThiefSeals, OwnTurn
<1>3. /\ T' = T + 1 /\ log'["police"] = log["police"] /\ P' = P
      /\ \A k \in 1 .. T : log'["thief"][k] = log["thief"][k]
  BY <1>1, Sealed, RoleFacts DEF ThiefSeals
<1>4. /\ position'["thief"] = t.position /\ position'["police"] = position["police"]
      /\ blocked' = blocked /\ Reaches("thief", t.position)
      /\ Caught => t.position = position["thief"]
  BY <1>1, RoleFacts DEF ThiefSeals, TypeOK
<1>5. PICK n \in Nat : n = P
  BY <1>2
<1>6. \A k \in 1 .. n : CaughtAt(k)' <=> CaughtAt(k)
  BY <1>2, <1>3, <1>5, CaughtStays
<1>7. CaughtInFact' <=> CaughtInFact
  BY <1>3, <1>5, <1>6 DEF CaughtInFact, Sent
<1>8. P > 0 => (CaughtAt(P) <=> Caught \/ boxedIn)
  BY <1>1, <1>2, ThiefKnowsTheEnd
<1>9. P = 0 => ~Caught /\ ~boxedIn
  BY <1>1, <1>2 DEF ReplyInv, ThiefKnows, Caught
<1>10. CaughtInFact <=> Caught \/ boxedIn
  <2>1. \A k \in 1 .. P : k \in 1 .. P - 1 \/ (k = P /\ P > 0)
    BY <1>2
  <2>2. P > 0 => P \in 1 .. P
    BY <1>2
  <2> QED BY <1>1, <1>2, <1>8, <1>9, <2>1, <2>2 DEF CaughtInFact, ChaseInv, Sent
<1>11. CASE CaughtInFact
  <2>1. t.position = position["thief"]
    <3>1. CASE Caught
      BY <1>4, <3>1
    <3>2. CASE boxedIn
      <4>1. BoxedIn(blocked["thief"], position["thief"])
        BY <1>1, <1>2, <3>2 DEF ReplyInv, ThiefKnows
      <4> QED BY <1>1, <1>4, <4>1, WalledIn
    <3> QED BY <1>10, <1>11, <3>1, <3>2
  <2> QED BY <1>3, <1>4, <1>7, <1>11, <2>1 DEF Game!vars, Sent
<1>12. CASE ~CaughtInFact
  <2>0. /\ Len(log["police"]) = T /\ Len(log["thief"]) = T /\ ~CaughtInFact'
        /\ Len(log'["police"]) = T /\ Len(log'["thief"]) = T + 1
    BY <1>2, <1>3, <1>7, <1>12 DEF Sent
  <2>1. Actions = 2 * T /\ Actions' = Actions + 1
    BY <1>2, <1>12, <2>0 DEF Actions
  <2>2. Outlook = "open" /\ Outlook' = IF Actions' = 2 * MaxMoves - 1 THEN "survival" ELSE "open"
    <3>1. Outlook' = IF T + 1 = MaxMoves THEN "survival" ELSE "open"
      BY <2>0 DEF Outlook
    <3>2. T + 1 = MaxMoves <=> Actions' = 2 * MaxMoves - 1
      BY <1>2, <2>1, MatchAssumption
    <3> QED BY <1>2, <1>12, <2>0, <3>1, <3>2 DEF Outlook
  <2>3. blocked["thief"] = blocked["police"]
    BY <1>1, <1>2 DEF BoardInv
  <2>4. t.position \in Game!Reach(position["thief"])
    BY <1>4, <2>3, SameGrid DEF Game!Reach, Reaches
  <2>5. Actions % 2 = 0
    BY <1>2, <2>1
  <2>6. Game!ThiefMoves
    BY <1>4, <2>1, <2>2, <2>4, <2>5 DEF Game!ThiefMoves, Actions, Outlook
  <2> QED BY <2>6 DEF Game!Next
<1> QED BY <1>11, <1>12

\* The turn of the police is an action of the game, in time.
LEMMA PolicePlays ==
    ASSUME IInv, IInv', NEW p \in Record, PoliceSeals(p)
    PROVE  Game!PoliceActs
<1> DEFINE P == Sent("police")  T == Sent("thief")
           Barriers(k) == {log["police"][i].barrier : i \in 1 .. k}
<1>1. TypeOK /\ LoopInv /\ MailInv /\ BoardInv /\ ReplyInv /\ ChaseInv
  BY DEF IInv
<1>2. OwnTurn("police") /\ T = P + 1 /\ Seen("police") = P + 1 /\ Seen("thief") = P /\ P \in Nat
      /\ T < MaxMoves /\ stage["police"] = "play"
  BY <1>1, OwnTurns, Counts, RoleFacts DEF PoliceSeals, OwnTurn
<1>3. /\ P' = P + 1 /\ log'["police"][P + 1] = p /\ log'["thief"] = log["thief"] /\ T' = T
      /\ \A k \in 1 .. P : log'["police"][k] = log["police"][k]
  BY <1>1, Sealed, RoleFacts DEF PoliceSeals
<1>4. /\ position'["police"] = p.position /\ position'["thief"] = position["thief"]
      /\ blocked'["police"] = blocked["police"] \cup ({p.barrier} \ {None})
      /\ Reaches("police", p.position)
      /\ p.barrier # None =>
           /\ p.position = position["police"] /\ Cardinality(blocked["police"]) < MaxBarriers
           /\ p.barrier \in (Neighbors(p.position) \cup {p.position}) \ blocked["police"]
  BY <1>1, RoleFacts DEF PoliceSeals, TypeOK
<1>5. PICK n \in Nat : n = P
  BY <1>2
<1>6. /\ \A k \in 1 .. n : log'["police"][k] = log["police"][k]
      /\ log'["police"][n + 1] = p /\ P' = n + 1
  BY <1>3, <1>5
<1>7. \A k \in 1 .. n : CaughtAt(k)' <=> CaughtAt(k)
  BY <1>3, <1>5, CaughtStays
<1>8. \A k \in 1 .. n : ~CaughtAt(k)
  <2>1. P > 0 => ~CaughtAt(P)
    BY <1>1, <1>2 DEF ChaseInv, Playing
  <2> TAKE k \in 1 .. n
  <2>2. k \in 1 .. P - 1 \/ (k = P /\ P > 0)
    BY <1>5
  <2> QED BY <1>1, <2>1, <2>2 DEF ChaseInv
<1>9. ~CaughtInFact
  BY <1>5, <1>8 DEF CaughtInFact, Sent
<1>10. CaughtInFact' <=> CaughtAt(n + 1)'
  <2>1. \A k \in 1 .. n + 1 : k = n + 1 \/ k \in 1 .. n
    OBVIOUS
  <2>2. n + 1 \in 1 .. n + 1
    OBVIOUS
  <2>3. Len(log'["police"]) = n + 1
    BY <1>6 DEF Sent
  <2>4. \A k \in 1 .. n : ~CaughtAt(k)'
    BY <1>7, <1>8
  <2>5. ASSUME CaughtInFact' PROVE CaughtAt(n + 1)'
    <3>1. PICK k \in 1 .. n + 1 : CaughtAt(k)'
      BY <2>3, <2>5 DEF CaughtInFact
    <3>2. k = n + 1
      BY <2>1, <2>4, <3>1
    <3> QED BY <3>1, <3>2
  <2>6. ASSUME CaughtAt(n + 1)' PROVE CaughtInFact'
    BY <2>2, <2>3, <2>6 DEF CaughtInFact
  <2> QED BY <2>5, <2>6
<1>11. blocked'["police"] = Barriers(n + 1)' \ {None}
  BY <1>6 DEF IInv, BoardInv
<1>12. position["thief"] = log["thief"][n + 1].position /\ position["thief"] \in Cell
  BY <1>1, <1>2, <1>5, RoleFacts DEF BoardInv, TypeOK
<1>13. CaughtInFact' <=> \/ position["thief"] \in {p.position, p.barrier}
                        \/ Neighbors(position["thief"]) \subseteq blocked'["police"]
  <2>1. CaughtAt(n + 1)' <=> \/ position["thief"] \in {p.position, p.barrier}
                            \/ Neighbors(position["thief"]) \subseteq Barriers(n + 1)'
    BY <1>3, <1>6, <1>12 DEF CaughtAt
  <2> QED BY <1>10, <1>11, <2>1, NeighborsAreCells, StartAssumption
<1> HIDE DEF Barriers
<1>a. /\ Len(log["police"]) = P /\ Len(log["thief"]) = P + 1
      /\ Len(log'["police"]) = P + 1 /\ Len(log'["thief"]) = P + 1
  BY <1>2, <1>3 DEF Sent
<1>14. Actions = 2 * P + 1 /\ Actions' = Actions + 1
  BY <1>2, <1>9, <1>a DEF Actions
<1>15. Outlook = "open" /\ Outlook' = IF CaughtInFact' THEN "capture" ELSE "open"
  BY <1>2, <1>9, <1>a, MatchAssumption DEF Outlook
<1>16. \/ p.barrier = None /\ p.position \in Game!Reach(position["police"])
       \/ /\ p.barrier # None /\ p.position = position["police"]
          /\ Cardinality(blocked["police"]) < MaxBarriers
          /\ p.barrier \in (Neighbors(position["police"]) \cup {position["police"]}) \ blocked["police"]
  BY <1>4, SameGrid DEF Reaches, Game!Reach
<1>17. \/ position'["police"] \in Game!Reach(position["police"]) /\ blocked'["police"] = blocked["police"]
       \/ /\ Cardinality(blocked["police"]) < MaxBarriers
          /\ \E cell \in (Game!Neighbors(position["police"]) \cup {position["police"]}) \ blocked["police"] :
                 blocked'["police"] = blocked["police"] \cup {cell}
          /\ position'["police"] = position["police"]
  <2>1. CASE p.barrier = None
    BY <1>4, <1>16, <2>1
  <2>2. CASE p.barrier # None
    <3>1. blocked'["police"] = blocked["police"] \cup {p.barrier}
      BY <1>4, <2>2
    <3> QED BY <1>4, <1>16, <2>2, <3>1, SameGrid
  <2> QED BY <2>1, <2>2
<1>18. Outlook' = IF \/ position["thief"] = position'["police"]
                    \/ position["thief"] \in blocked'["police"] \ blocked["police"]
                    \/ Game!Neighbors(position["thief"]) \subseteq blocked'["police"]
                 THEN "capture" ELSE "open"
  <2>1. position["thief"] = p.barrier <=> position["thief"] \in blocked'["police"] \ blocked["police"]
    BY <1>4, <1>12, StartAssumption
  <2> QED BY <1>4, <1>13, <1>15, <2>1, SameGrid
<1>19. Actions % 2 = 1
  BY <1>2, <1>14
<1>20. position'["thief"] = position["thief"]
  BY <1>4
<1> HIDE DEF P, T
<1>21. Outlook = "open" /\ Actions' = Actions + 1
  BY <1>14, <1>15
<1> QED BY <1>17, <1>18, <1>19, <1>20, <1>21, SameSize DEF Game!PoliceActs, Actions, Outlook

LEMMA InitGame == Init => Game!Init
<1> SUFFICES ASSUME Init PROVE Game!Init
  OBVIOUS
<1>1. log["thief"] = <<>> /\ log["police"] = <<>> /\ blocked["police"] = {}
      /\ position["police"] = CopStart /\ position["thief"] = ThiefStart
  BY RoleFacts DEF Init
<1>2. ~CaughtInFact
  BY <1>1 DEF CaughtInFact
<1> QED BY <1>1, <1>2, MatchAssumption DEF Game!Init

\* The two loops, over a tunnel that loses responses and with peers that stop,
\* play the umpire's game: no illegal action, no action out of turn and none
\* after the capture or the last turn (network_match.py:763-1118).
THEOREM PeersPlayTheGame == Spec => PlaysTheGame
<1>1. IInv /\ IInv' /\ [Next]_vars => [Game!Next]_(Game!vars)
  <2> SUFFICES ASSUME IInv, IInv', [Next]_vars PROVE [Game!Next]_(Game!vars)
    OBVIOUS
  <2>1. ASSUME NEW p \in Record, PoliceSeals(p) PROVE [Game!Next]_(Game!vars)
    BY <2>1, PolicePlays DEF Game!Next
  <2>2. CASE UNCHANGED vars
    BY <2>2, GameState DEF vars, boardVars
  <2>3. TypeOK
    BY DEF IInv
  <2> QED BY <2>1, <2>2, <2>3, Steps, ThiefPlays, QuietSteps
<1> QED BY <1>1, Invariance, InitGame, PTL DEF Spec, PlaysTheGame, Game!Spec

-----------------------------------------------------------------------------
(* Induction over a set of numbers.                                        *)

LEMMA SetInduction ==
    ASSUME NEW S \in SUBSET Nat, 0 \in S, \A n \in S : n + 1 \in S
    PROVE  S = Nat
<1> SUFFICES ASSUME Nat \ S # {} PROVE FALSE
  OBVIOUS
<1>1. IsWellFoundedOn(OpToRel(<, Nat), Nat)
  BY NatLessThanWellFounded
<1>2. PICK n \in Nat \ S : \A m \in Nat \ S : <<m, n>> \notin OpToRel(<, Nat)
  BY <1>1, WFMin
<1>3. \A m \in Nat \ S : ~(m < n)
  BY <1>2 DEF OpToRel
<1>4. n # 0
  OBVIOUS
<1>5. n - 1 \in Nat /\ n - 1 < n /\ (n - 1) + 1 = n
  BY <1>4
<1>6. n - 1 \in S
  BY <1>3, <1>5
<1> QED BY <1>5, <1>6

-----------------------------------------------------------------------------
(* The replay: what is known after each record.                            *)

\* A function of the form of the replay's.
Recounts(a, entries, n) ==
    a = [k \in 0 .. n |-> IF k = 0 THEN Beginning ELSE AuditRecord(a[k - 1], entries[k])]

LEMMA RecountExists ==
    ASSUME NEW entries, NEW n \in Nat
    PROVE  \E a : Recounts(a, entries, n)
<1> DEFINE S == {m \in Nat : \E a : Recounts(a, entries, m)}
<1>1. 0 \in S
  <2> DEFINE g == [k \in 0 .. 0 |-> Beginning]
  <2>1. g = [k \in 0 .. 0 |-> IF k = 0 THEN Beginning ELSE AuditRecord(g[k - 1], entries[k])]
    OBVIOUS
  <2>2. Recounts(g, entries, 0)
    BY <2>1 DEF Recounts
  <2> QED BY <2>2
<1>2. ASSUME NEW m \in S PROVE m + 1 \in S
  <2>1. PICK g : Recounts(g, entries, m)
    BY <1>2
  <2> DEFINE h == [k \in 0 .. m + 1 |-> IF k <= m THEN g[k] ELSE AuditRecord(g[m], entries[m + 1])]
  <2>2. \A k \in 0 .. m : h[k] = g[k]
    OBVIOUS
  <2>3. h[m + 1] = AuditRecord(g[m], entries[m + 1])
    OBVIOUS
  <2>4. \A k \in 0 .. m : g[k] = IF k = 0 THEN Beginning ELSE AuditRecord(g[k - 1], entries[k])
    BY <2>1 DEF Recounts
  <2>5. DOMAIN h = 0 .. m + 1 /\ h = [k \in 0 .. m + 1 |-> h[k]]
    OBVIOUS
  <2> HIDE DEF h
  <2>6. ASSUME NEW k \in 0 .. m + 1
        PROVE  h[k] = IF k = 0 THEN Beginning ELSE AuditRecord(h[k - 1], entries[k])
    <3>1. CASE k = m + 1
      <4>1. k - 1 \in 0 .. m /\ k - 1 = m /\ k # 0
        BY <3>1
      <4> QED BY <2>2, <2>3, <3>1, <4>1
    <3>2. CASE k = 0
      BY <2>2, <2>4, <3>2
    <3>3. CASE k \in 1 .. m
      <4>1. k - 1 \in 0 .. m /\ k \in 0 .. m /\ k # 0
        BY <3>3
      <4> QED BY <2>2, <2>4, <4>1
    <3> QED BY <3>1, <3>2, <3>3
  <2>7. Recounts(h, entries, m + 1)
    BY <2>5, <2>6 DEF Recounts
  <2> QED BY <2>7
<1>3. S = Nat
  <2> HIDE DEF S
  <2> QED BY <1>1, <1>2, SetInduction DEF S
<1> QED BY <1>3

LEMMA ReplayFacts ==
    ASSUME NEW entries, Len(entries) \in Nat
    PROVE  /\ Replay(entries)[0] = Beginning
           /\ \A k \in 1 .. Len(entries) :
                 Replay(entries)[k] = AuditRecord(Replay(entries)[k - 1], entries[k])
<1>1. Replay(entries) = CHOOSE a : Recounts(a, entries, Len(entries))
  BY DEF Replay, Recounts
<1>2. Recounts(Replay(entries), entries, Len(entries))
  BY <1>1, RecountExists
<1> DEFINE a == Replay(entries)
<1> HIDE DEF a
<1>3. \A k \in 0 .. Len(entries) : a[k] = IF k = 0 THEN Beginning ELSE AuditRecord(a[k - 1], entries[k])
  BY <1>2 DEF Recounts, a
<1>4. 0 \in 0 .. Len(entries) /\ \A k \in 1 .. Len(entries) : k \in 0 .. Len(entries) /\ k # 0
  OBVIOUS
<1> QED BY <1>3, <1>4 DEF a

-----------------------------------------------------------------------------
(* The order of the records: the thief's before that of the police.        *)

\* The numbers of 1 .. n by rank: as many rank up to i as the rank of i.
Ranking(pl, n) ==
    /\ \A i \in 1 .. n : pl[i] \in 1 .. n
    /\ \A i, j \in 1 .. n : pl[i] = pl[j] => i = j
    /\ \A k \in 1 .. n : \E i \in 1 .. n : pl[i] = k

LEMMA Ranked ==
    ASSUME NEW n \in Nat, NEW pl, Ranking(pl, n), NEW i \in 1 .. n
    PROVE  Cardinality({j \in 1 .. n : pl[j] <= pl[i]}) = pl[i]
<1>1. PICK m \in 1 .. n : m = pl[i]
  BY DEF Ranking
<1> DEFINE U == {j \in 1 .. n : pl[j] <= m}
           f == [k \in 1 .. m |-> CHOOSE j \in 1 .. n : pl[j] = k]
<1>2. ASSUME NEW k \in 1 .. m PROVE f[k] \in 1 .. n /\ pl[f[k]] = k
  <2>1. k \in 1 .. n
    OBVIOUS
  <2>2. \E j \in 1 .. n : pl[j] = k
    BY <2>1 DEF Ranking
  <2> QED BY <2>2
<1>3. DOMAIN f = 1 .. m /\ f = [k \in 1 .. m |-> f[k]]
  OBVIOUS
<1> HIDE DEF f
<1>4. ASSUME NEW j \in 1 .. n, pl[j] <= m PROVE \E k \in 1 .. m : f[k] = j
  <2>1. pl[j] \in 1 .. m
    BY <1>4 DEF Ranking
  <2>2. f[pl[j]] \in 1 .. n /\ pl[f[pl[j]]] = pl[j]
    BY <1>2, <2>1
  <2>3. f[pl[j]] = j
    BY <2>2 DEF Ranking
  <2> QED BY <2>1, <2>3
<1>5. \A k \in 1 .. m : f[k] \in U
  BY <1>2
<1>6. f \in Bijection(1 .. m, U)
  <2>1. f \in [1 .. m -> U]
    BY <1>3, <1>5
  <2>2. \A k, l \in 1 .. m : f[k] = f[l] => k = l
    BY <1>2
  <2>3. \A j \in U : \E k \in 1 .. m : f[k] = j
    BY <1>4
  <2> QED BY <2>1, <2>2, <2>3 DEF Bijection, Injection, Surjection, IsInjective
<1>7. ExistsBijection(1 .. m, U)
  BY <1>6 DEF ExistsBijection
<1>8. IsFiniteSet(1 .. m) /\ Cardinality(1 .. m) = m
  BY FS_Interval
<1> QED BY <1>1, <1>7, <1>8, FS_Bijection

\* Where a record belongs among those of a game.
Place(e) == 2 * e.payload.step - IF e.role = "thief" THEN 1 ELSE 0

LEMMA PrecedesByPlace ==
    ASSUME NEW d, NEW e, d.role \in Roles, e.role \in Roles,
           d.payload.step \in Nat, e.payload.step \in Nat
    PROVE  Precedes(d, e) <=> Place(d) < Place(e)
<1>1. PICK a \in Nat, b \in Nat : a = d.payload.step /\ b = e.payload.step
  OBVIOUS
<1>2. SortStep(d.payload) = a /\ SortStep(e.payload) = b
  BY <1>1, StartAssumption DEF SortStep
<1>3. Precedes(d, e) <=> a < b \/ (a = b /\ d.role = "thief" /\ e.role # "thief")
  BY <1>2 DEF Precedes
<1> QED BY <1>1, <1>3 DEF Place

\* Records that take part, one for each place.
Placed(all, n) ==
    /\ DOMAIN all = 1 .. n
    /\ \A i \in 1 .. n : /\ all[i].role \in Roles /\ all[i].payload.step \in Nat
                         /\ Audited(all[i].payload) /\ Place(all[i]) \in 1 .. n
    /\ \A i, j \in 1 .. n : Place(all[i]) = Place(all[j]) => i = j
    /\ \A k \in 1 .. n : \E i \in 1 .. n : Place(all[i]) = k

LEMMA SortedByPlace ==
    ASSUME NEW all, NEW n \in Nat, Placed(all, n)
    PROVE  /\ DOMAIN Sorted(all) = 1 .. n /\ Len(Sorted(all)) = n
           /\ \A i \in 1 .. n : Sorted(all)[Place(all[i])] = all[i]
<1> DEFINE kept == {i \in DOMAIN all : Audited(all[i].payload)}
           Upto(i) == {j \in kept : \/ Precedes(all[j], all[i])
                                    \/ j <= i /\ ~Precedes(all[i], all[j])}
<1>1. PICK pl : pl = [i \in 1 .. n |-> Place(all[i])]
  OBVIOUS
<1>2. kept = 1 .. n
  BY DEF Placed
<1>3. /\ \A i \in 1 .. n : pl[i] = Place(all[i]) /\ pl[i] \in 1 .. n
      /\ Ranking(pl, n)
  <2>1. \A i \in 1 .. n : pl[i] = Place(all[i])
    BY <1>1
  <2>2. \A i \in 1 .. n : pl[i] \in 1 .. n
    BY <2>1, SMTT(40) DEF Placed
  <2>3. ASSUME NEW i \in 1 .. n, NEW j \in 1 .. n, pl[i] = pl[j] PROVE i = j
    <3>1. Place(all[i]) = Place(all[j])
      BY <2>1, <2>3
    <3> QED BY <3>1 DEF Placed
  <2>4. ASSUME NEW k \in 1 .. n PROVE \E i \in 1 .. n : pl[i] = k
    <3>1. PICK i \in 1 .. n : Place(all[i]) = k
      BY DEF Placed
    <3> QED BY <2>1, <3>1
  <2> QED BY <2>1, <2>2, <2>3, <2>4 DEF Ranking
<1>4. ASSUME NEW i \in 1 .. n, NEW j \in 1 .. n
      PROVE  /\ Precedes(all[i], all[j]) <=> pl[i] < pl[j]
             /\ pl[i] \in Int /\ (pl[i] = pl[j] => i = j)
  <2>1. all[i].role \in Roles /\ all[j].role \in Roles
        /\ all[i].payload.step \in Nat /\ all[j].payload.step \in Nat
    BY DEF Placed
  <2>2. Precedes(all[i], all[j]) <=> Place(all[i]) < Place(all[j])
    BY <2>1, PrecedesByPlace
  <2> QED BY <1>3, <2>2 DEF Ranking
<1>5. ASSUME NEW i \in 1 .. n PROVE Cardinality(Upto(i)) = pl[i]
  <2>1. ASSUME NEW j \in 1 .. n
        PROVE  (Precedes(all[j], all[i]) \/ (j <= i /\ ~Precedes(all[i], all[j]))) <=> pl[j] <= pl[i]
    <3>1. (Precedes(all[j], all[i]) <=> pl[j] < pl[i]) /\ (Precedes(all[i], all[j]) <=> pl[i] < pl[j])
          /\ pl[i] \in Int /\ pl[j] \in Int /\ (pl[i] = pl[j] => i = j)
      BY <1>4
    <3> QED BY <3>1
  <2>2. Upto(i) = {j \in 1 .. n : pl[j] <= pl[i]}
    BY <1>2, <2>1
  <2>3. Cardinality({j \in 1 .. n : pl[j] <= pl[i]}) = pl[i]
    BY <1>3, Ranked
  <2> QED BY <2>2, <2>3
<1>6. Cardinality(kept) = n
  <2>1. Cardinality(1 .. n) = n
    BY FS_Interval
  <2> QED BY <1>2, <2>1
<1>7. Sorted(all) = [k \in 1 .. Cardinality(kept) |-> all[CHOOSE i \in kept : Cardinality(Upto(i)) = k]]
  BY DEF Sorted
<1> HIDE DEF kept, Upto
<1>8. Sorted(all) = [k \in 1 .. n |-> all[CHOOSE i \in 1 .. n : Cardinality(Upto(i)) = k]]
  BY <1>2, <1>6, <1>7
<1>9. ASSUME NEW i \in 1 .. n PROVE Sorted(all)[pl[i]] = all[i]
  <2> DEFINE c == CHOOSE x \in 1 .. n : Cardinality(Upto(x)) = pl[i]
  <2>1. c \in 1 .. n /\ Cardinality(Upto(c)) = pl[i]
    BY <1>5
  <2>2. Sorted(all)[pl[i]] = all[c]
    BY <1>3, <1>8
  <2> HIDE DEF c
  <2>3. pl[c] = pl[i]
    BY <1>5, <2>1
  <2>4. c = i
    BY <1>4, <2>1, <2>3
  <2> QED BY <2>2, <2>4
<1>10. DOMAIN Sorted(all) = 1 .. n /\ Len(Sorted(all)) = n
  BY <1>8
<1> QED BY <1>3, <1>9, <1>10

-----------------------------------------------------------------------------
(* The records of a game, as the audit goes through them.                  *)

\* The logs of a game of n turns of the police, which the thief ends.
Logs(L, Q, n) ==
    /\ L \in Seq(Record) /\ Q \in Seq(Record) /\ Len(L) = n + 1 /\ Len(Q) = n
    /\ \A k \in 1 .. n + 1 : L[k].step = k /\ Audited(L[k])
    /\ \A k \in 1 .. n : Q[k].step = k /\ Audited(Q[k])

InTurns(s, L, Q, n) ==
    /\ Len(s) = 2 * n + 1
    /\ \A k \in 1 .. n + 1 : s[2 * k - 1] = [role |-> "thief", payload |-> L[k]]
    /\ \A k \in 1 .. n : s[2 * k] = [role |-> "police", payload |-> Q[k]]

LEMMA EntriesFacts ==
    ASSUME NEW r, NEW s \in Seq(Record)
    PROVE  /\ Entries(r, s) \in Seq([role : {r}, payload : Record])
           /\ Len(Entries(r, s)) = Len(s) /\ Len(s) \in Nat
           /\ \A i \in 1 .. Len(s) : Entries(r, s)[i] = [role |-> r, payload |-> s[i]]
<1>1. Len(s) \in Nat /\ \A i \in 1 .. Len(s) : s[i] \in Record
  BY LenProperties
<1> QED BY <1>1 DEF Entries

\* The records of one role, then those of the other.
Joins(all, r, s, q, t) ==
    /\ DOMAIN all = 1 .. Len(s) + Len(t)
    /\ \A i \in 1 .. Len(s) : all[i] = [role |-> r, payload |-> s[i]]
    /\ \A i \in 1 .. Len(t) : all[Len(s) + i] = [role |-> q, payload |-> t[i]]

LEMMA EntriesJoin ==
    ASSUME NEW r \in Roles, NEW q \in Roles, NEW s \in Seq(Record), NEW t \in Seq(Record)
    PROVE  Joins(Entries(r, s) \o Entries(q, t), r, s, q, t)
<1> DEFINE S == [role : Roles, payload : Record]
<1>1. Entries(r, s) \in Seq(S) /\ Entries(q, t) \in Seq(S)
  BY LenProperties DEF Entries
<1>2. PICK a \in Nat, b \in Nat : a = Len(s) /\ b = Len(t)
  BY LenProperties
<1>3. Len(Entries(r, s)) = a /\ Len(Entries(q, t)) = b
  BY <1>2, EntriesFacts
<1>4. PICK all : all = Entries(r, s) \o Entries(q, t)
  OBVIOUS
<1>5. /\ all \in Seq(S) /\ Len(all) = a + b
      /\ \A i \in 1 .. a + b : all[i] = IF i <= a THEN Entries(r, s)[i] ELSE Entries(q, t)[i - a]
  BY <1>1, <1>3, <1>4, ConcatProperties
<1>6. DOMAIN all = 1 .. a + b
  BY <1>5
<1>7. ASSUME NEW i \in 1 .. a PROVE all[i] = [role |-> r, payload |-> s[i]]
  <2>1. i \in 1 .. a + b /\ i <= a
    OBVIOUS
  <2>2. Entries(r, s)[i] = [role |-> r, payload |-> s[i]]
    BY <1>2, EntriesFacts
  <2> QED BY <1>5, <2>1, <2>2
<1>8. ASSUME NEW i \in 1 .. b PROVE all[a + i] = [role |-> q, payload |-> t[i]]
  <2>1. a + i \in 1 .. a + b /\ ~(a + i <= a) /\ (a + i) - a = i
    OBVIOUS
  <2>2. Entries(q, t)[i] = [role |-> q, payload |-> t[i]]
    BY <1>2, EntriesFacts
  <2> QED BY <1>5, <2>1, <2>2
<1> QED BY <1>2, <1>4, <1>6, <1>7, <1>8 DEF Joins

\* Every number is twice a number, or one less.
LEMMA OddOrEven ==
    ASSUME NEW n \in Nat, NEW k \in 1 .. 2 * n + 1
    PROVE  (\E h \in 1 .. n + 1 : k = 2 * h - 1) \/ (\E h \in 1 .. n : k = 2 * h)
<1>1. \E h \in Int : k = 2 * h \/ k = 2 * h + 1
  <2>1. k \div 2 \in Int /\ 2 * (k \div 2) <= k /\ k <= 2 * (k \div 2) + 1
    OBVIOUS
  <2>2. k = 2 * (k \div 2) \/ k = 2 * (k \div 2) + 1
    BY <2>1
  <2> QED BY <2>1, <2>2
<1>a. PICK h \in Int : k = 2 * h \/ k = 2 * h + 1
  BY <1>1
<1>2. CASE k = 2 * h
  <2>1. h \in 1 .. n
    BY <1>2
  <2> QED BY <1>2, <2>1
<1>3. CASE k = 2 * h + 1
  <2>1. h + 1 \in 1 .. n + 1 /\ k = 2 * (h + 1) - 1
    BY <1>3
  <2> QED BY <2>1
<1> QED BY <1>a, <1>2, <1>3

\* A list with the entries of both logs, those of the thief at f.
Holds(all, f, g, L, Q, n) ==
    /\ DOMAIN all = 1 .. 2 * n + 1
    /\ \A k \in 1 .. n + 1 : f[k] \in 1 .. 2 * n + 1 /\ all[f[k]] = [role |-> "thief", payload |-> L[k]]
    /\ \A k \in 1 .. n : g[k] \in 1 .. 2 * n + 1 /\ all[g[k]] = [role |-> "police", payload |-> Q[k]]
    /\ \A i \in 1 .. 2 * n + 1 : (\E k \in 1 .. n + 1 : i = f[k]) \/ (\E k \in 1 .. n : i = g[k])

LEMMA SortedInTurns ==
    ASSUME NEW n \in Nat, NEW L, NEW Q, Logs(L, Q, n), NEW all, NEW f, NEW g,
           Holds(all, f, g, L, Q, n)
    PROVE  InTurns(Sorted(all), L, Q, n)
<1> DEFINE Fits(e, k) ==
        /\ e.role \in Roles /\ e.payload.step \in Nat /\ Audited(e.payload)
        /\ Place(e) = k /\ k \in 1 .. 2 * n + 1
<1>1. ASSUME NEW k \in 1 .. n + 1
      PROVE  /\ f[k] \in 1 .. 2 * n + 1 /\ all[f[k]] = [role |-> "thief", payload |-> L[k]]
             /\ Fits(all[f[k]], 2 * k - 1)
  <2>1. f[k] \in 1 .. 2 * n + 1 /\ all[f[k]] = [role |-> "thief", payload |-> L[k]]
    BY DEF Holds
  <2>2. L[k].step = k /\ Audited(L[k])
    BY DEF Logs
  <2>3. Place(all[f[k]]) = 2 * k - 1
    BY <2>1, <2>2 DEF Place
  <2>4. all[f[k]].role = "thief" /\ all[f[k]].payload = L[k]
    BY <2>1
  <2>5. 2 * k - 1 \in 1 .. 2 * n + 1 /\ k \in Nat
    OBVIOUS
  <2> QED BY <2>1, <2>2, <2>3, <2>4, <2>5, RoleFacts
<1>2. ASSUME NEW k \in 1 .. n
      PROVE  /\ g[k] \in 1 .. 2 * n + 1 /\ all[g[k]] = [role |-> "police", payload |-> Q[k]]
             /\ Fits(all[g[k]], 2 * k)
  <2>1. g[k] \in 1 .. 2 * n + 1 /\ all[g[k]] = [role |-> "police", payload |-> Q[k]]
    BY DEF Holds
  <2>2. Q[k].step = k /\ Audited(Q[k])
    BY DEF Logs
  <2>3. Place(all[g[k]]) = 2 * k
    BY <2>1, <2>2 DEF Place
  <2>4. all[g[k]].role = "police" /\ all[g[k]].payload = Q[k]
    BY <2>1
  <2>5. 2 * k \in 1 .. 2 * n + 1 /\ k \in Nat
    OBVIOUS
  <2> QED BY <2>1, <2>2, <2>3, <2>4, <2>5, RoleFacts
<1>3. ASSUME NEW i \in 1 .. 2 * n + 1
      PROVE  \/ \E k \in 1 .. n + 1 : i = f[k] /\ Fits(all[i], 2 * k - 1)
             \/ \E k \in 1 .. n : i = g[k] /\ Fits(all[i], 2 * k)
  <2> HIDE DEF Fits
  <2>1. (\E k \in 1 .. n + 1 : i = f[k]) \/ (\E k \in 1 .. n : i = g[k])
    BY DEF Holds
  <2>2. CASE \E k \in 1 .. n + 1 : i = f[k]
    <3>1. PICK k \in 1 .. n + 1 : i = f[k]
      BY <2>2
    <3> QED BY <1>1, <3>1
  <2>3. CASE \E k \in 1 .. n : i = g[k]
    <3>1. PICK k \in 1 .. n : i = g[k]
      BY <2>3
    <3> QED BY <1>2, <3>1
  <2> QED BY <2>1, <2>2, <2>3
<1>4. ASSUME NEW i \in 1 .. 2 * n + 1, NEW j \in 1 .. 2 * n + 1, Place(all[i]) = Place(all[j])
      PROVE  i = j
  <2>1. CASE \E k \in 1 .. n + 1 : i = f[k] /\ Fits(all[i], 2 * k - 1)
    <3>1. PICK k \in 1 .. n + 1 : i = f[k] /\ Place(all[i]) = 2 * k - 1
      BY <2>1
    <3>2. CASE \E h \in 1 .. n + 1 : j = f[h] /\ Fits(all[j], 2 * h - 1)
      BY <1>4, <3>1, <3>2
    <3>3. CASE \E h \in 1 .. n : j = g[h] /\ Fits(all[j], 2 * h)
      BY <1>4, <3>1, <3>3
    <3> QED BY <1>3, <3>2, <3>3
  <2>2. CASE \E k \in 1 .. n : i = g[k] /\ Fits(all[i], 2 * k)
    <3>1. PICK k \in 1 .. n : i = g[k] /\ Place(all[i]) = 2 * k
      BY <2>2
    <3>2. CASE \E h \in 1 .. n + 1 : j = f[h] /\ Fits(all[j], 2 * h - 1)
      BY <1>4, <3>1, <3>2
    <3>3. CASE \E h \in 1 .. n : j = g[h] /\ Fits(all[j], 2 * h)
      BY <1>4, <3>1, <3>3
    <3> QED BY <1>3, <3>2, <3>3
  <2> QED BY <1>3, <2>1, <2>2
<1>5. ASSUME NEW k \in 1 .. 2 * n + 1 PROVE \E i \in 1 .. 2 * n + 1 : Place(all[i]) = k
  <2>1. CASE \E h \in 1 .. n + 1 : k = 2 * h - 1
    BY <1>1, <2>1
  <2>2. CASE \E h \in 1 .. n : k = 2 * h
    BY <1>2, <2>2
  <2> QED BY <2>1, <2>2, OddOrEven
<1>6. 2 * n + 1 \in Nat /\ Placed(all, 2 * n + 1)
  <2>1. DOMAIN all = 1 .. 2 * n + 1
    BY DEF Holds
  <2>2. ASSUME NEW i \in 1 .. 2 * n + 1
        PROVE  /\ all[i].role \in Roles /\ all[i].payload.step \in Nat
               /\ Audited(all[i].payload) /\ Place(all[i]) \in 1 .. 2 * n + 1
    BY <1>3
  <2> QED BY <1>4, <1>5, <2>1, <2>2 DEF Placed
<1>7. /\ Len(Sorted(all)) = 2 * n + 1
      /\ \A i \in 1 .. 2 * n + 1 : Sorted(all)[Place(all[i])] = all[i]
  BY <1>6, SortedByPlace
<1>8. ASSUME NEW k \in 1 .. n + 1 PROVE Sorted(all)[2 * k - 1] = [role |-> "thief", payload |-> L[k]]
  <2>1. f[k] \in 1 .. 2 * n + 1 /\ Place(all[f[k]]) = 2 * k - 1
        /\ all[f[k]] = [role |-> "thief", payload |-> L[k]]
    BY <1>1
  <2> QED BY <1>7, <2>1
<1>9. ASSUME NEW k \in 1 .. n PROVE Sorted(all)[2 * k] = [role |-> "police", payload |-> Q[k]]
  <2>1. g[k] \in 1 .. 2 * n + 1 /\ Place(all[g[k]]) = 2 * k
        /\ all[g[k]] = [role |-> "police", payload |-> Q[k]]
    BY <1>2
  <2> QED BY <1>7, <2>1
<1> QED BY <1>7, <1>8, <1>9 DEF InTurns

LEMMA Alternation ==
    ASSUME NEW n \in Nat, NEW L, NEW Q, Logs(L, Q, n)
    PROVE  /\ InTurns(Decorated("thief", L, Q), L, Q, n)
           /\ InTurns(Decorated("police", Q, L), L, Q, n)
<1>1. L \in Seq(Record) /\ Q \in Seq(Record) /\ Len(L) = n + 1 /\ Len(Q) = n
  BY DEF Logs
<1>a. "thief" \in Roles /\ "police" \in Roles /\ L \in Seq(Record) /\ Q \in Seq(Record)
  BY <1>1, RoleFacts
<1>3. InTurns(Decorated("thief", L, Q), L, Q, n)
  <2>1. PICK all : all = Entries("thief", L) \o Entries("police", Q)
    OBVIOUS
  <2>2. Decorated("thief", L, Q) = Sorted(all)
    BY <2>1 DEF Decorated
  <2>3. /\ DOMAIN all = 1 .. (n + 1) + n
        /\ \A i \in 1 .. n + 1 : all[i] = [role |-> "thief", payload |-> L[i]]
        /\ \A i \in 1 .. n : all[(n + 1) + i] = [role |-> "police", payload |-> Q[i]]
    <3>1. Joins(all, "thief", L, "police", Q)
      BY <1>a, <2>1, EntriesJoin
    <3> QED BY <1>1, <3>1 DEF Joins
  <2>4. PICK f : f = [k \in 1 .. n + 1 |-> k]
    OBVIOUS
  <2>5. PICK g : g = [k \in 1 .. n |-> (n + 1) + k]
    OBVIOUS
  <2>6. \A k \in 1 .. n + 1 : f[k] = k /\ k \in 1 .. 2 * n + 1
    BY <2>4
  <2>7. \A k \in 1 .. n : g[k] = (n + 1) + k /\ (n + 1) + k \in 1 .. 2 * n + 1
    BY <2>5
  <2>8. ASSUME NEW i \in 1 .. 2 * n + 1
        PROVE  (\E k \in 1 .. n + 1 : i = f[k]) \/ (\E k \in 1 .. n : i = g[k])
    <3>1. i \in 1 .. n + 1 \/ (i - (n + 1) \in 1 .. n /\ i = (n + 1) + (i - (n + 1)))
      OBVIOUS
    <3> QED BY <2>6, <2>7, <3>1
  <2>9. InTurns(Sorted(all), L, Q, n)
    <3>1. (n + 1) + n = 2 * n + 1 /\ n + (n + 1) = 2 * n + 1
      OBVIOUS
    <3>2. Holds(all, f, g, L, Q, n)
      BY <2>3, <2>6, <2>7, <2>8, <3>1 DEF Holds
    <3> QED BY <3>2, SortedInTurns
  <2> QED BY <2>2, <2>9
<1>4. InTurns(Decorated("police", Q, L), L, Q, n)
  <2>1. PICK all : all = Entries("police", Q) \o Entries("thief", L)
    OBVIOUS
  <2>2. Decorated("police", Q, L) = Sorted(all)
    BY <2>1 DEF Decorated
  <2>3. /\ DOMAIN all = 1 .. n + (n + 1)
        /\ \A i \in 1 .. n : all[i] = [role |-> "police", payload |-> Q[i]]
        /\ \A i \in 1 .. n + 1 : all[n + i] = [role |-> "thief", payload |-> L[i]]
    <3>1. Joins(all, "police", Q, "thief", L)
      BY <1>a, <2>1, EntriesJoin
    <3> QED BY <1>1, <3>1 DEF Joins
  <2>4. PICK f : f = [k \in 1 .. n + 1 |-> n + k]
    OBVIOUS
  <2>5. PICK g : g = [k \in 1 .. n |-> k]
    OBVIOUS
  <2>6. \A k \in 1 .. n + 1 : f[k] = n + k /\ n + k \in 1 .. 2 * n + 1
    BY <2>4
  <2>7. \A k \in 1 .. n : g[k] = k /\ k \in 1 .. 2 * n + 1
    BY <2>5
  <2>8. ASSUME NEW i \in 1 .. 2 * n + 1
        PROVE  (\E k \in 1 .. n + 1 : i = f[k]) \/ (\E k \in 1 .. n : i = g[k])
    <3>1. i \in 1 .. n \/ (i - n \in 1 .. n + 1 /\ i = n + (i - n))
      OBVIOUS
    <3> QED BY <2>6, <2>7, <3>1
  <2>9. InTurns(Sorted(all), L, Q, n)
    <3>1. (n + 1) + n = 2 * n + 1 /\ n + (n + 1) = 2 * n + 1
      OBVIOUS
    <3>2. Holds(all, f, g, L, Q, n)
      BY <2>3, <2>6, <2>7, <2>8, <3>1 DEF Holds
    <3> QED BY <3>2, SortedInTurns
  <2> QED BY <2>2, <2>9
<1> QED BY <1>3, <1>4

-----------------------------------------------------------------------------
(* What a record of a game adds to what the audit knows.                   *)

\* What the audit knows of a game it finds no fault with.
Known(cop, thief, seen, coincidence, capture, pending) ==
    [position |-> [police |-> cop, thief |-> thief], seen |-> seen, errors |-> {},
     coincidence |-> coincidence, capture |-> capture, trailing |-> 0, pending |-> pending]

\* The coincidence of the positions is noted and decides nothing.
Tells(a, cop, thief, seen, capture, pending) ==
    \E c : a = Known(cop, thief, seen, c, capture, pending)

Entry(r, p) == [role |-> r, payload |-> p]

LEMMA PostFacts ==
    ASSUME NEW p \in Record, NEW cell \in Cell, Leads(p, cell)
    PROVE  RevealedPost(p, cell) = Found(p.position) /\ p.position # None
<1>1. ReadMove(p) \in Moves
  BY DEF ReadMove, Record, Moves
<1>2. cell # None /\ p.position \in Cell /\ p.position # None
  BY StartAssumption DEF Record
<1> QED BY <1>1, <1>2 DEF RevealedPost, Moved, Leads

LEMMA NoFaults ==
    ASSUME NEW a, NEW kinds, NEW e, NEW cop, NEW thief, NEW seen, NEW c, NEW cap, NEW pend,
           a = Known(cop, thief, seen, c, cap, pend), kinds = {}
    PROVE  WithFaults(a, kinds, e) = a
<1>1. a.errors \cup {<<k, e.role, e.payload.step>> : k \in kinds} = {}
  BY DEF Known
<1>2. [a EXCEPT !.errors = {}] = a
  BY DEF Known
<1> QED BY <1>1, <1>2 DEF WithFaults

\* A record without a fault is replayed.
LEMMA FaultlessRecord ==
    ASSUME NEW r \in Roles, NEW p \in Record, p.role = r, NEW cop \in Cell, NEW thief \in Cell,
           Leads(p, IF r = "thief" THEN thief ELSE cop),
           NEW seen, <<r, p.step>> \notin seen, NEW c, NEW cap, NEW pend,
           p.barrier # None => /\ r = "police" /\ p.position = cop
                               /\ p.barrier \in Cell /\ Distance(p.barrier, cop) <= 1
    PROVE  AuditRecord(Known(cop, thief, seen, c, cap, pend), Entry(r, p)) =
             Replayed(Known(cop, thief, seen \cup {<<r, p.step>>}, c, cap, pend), Entry(r, p), p.position)
<1> DEFINE e == Entry(r, p)
           a == Known(cop, thief, seen, c, cap, pend)
           b == Known(cop, thief, seen \cup {<<r, p.step>>}, c, cap, pend)
           cell == IF r = "thief" THEN thief ELSE cop
<1>1. e.role = r /\ e.payload = p
  BY DEF Entry
<1>2. a.position[r] = cell /\ a.seen = seen /\ [a EXCEPT !.seen = @ \cup {<<r, p.step>>}] = b
  BY RoleFacts, SMTT(40) DEF Known
<1>3. p.step \in Nat /\ p.step # None
  BY StartAssumption DEF Record
<1>4. cell \in Cell /\ RevealedPost(p, cell) = Found(p.position) /\ p.position # None
  BY PostFacts
<1>5. TargetFaults(e) = {}
  BY <1>1 DEF TargetFaults
<1>6. PlacementFaults(e, cell, p.position) = {}
  <2>1. CASE p.barrier = None
    BY <1>1, <2>1 DEF PlacementFaults
  <2>2. CASE p.barrier # None
    <3>1. r = "police" /\ p.position = cell /\ Distance(p.barrier, cell) <= 1
      BY <2>2
    <3>2. Distance(p.barrier, cell) \in Int
      <4>1. p.barrier \in Cell
        BY <2>2
      <4> QED BY <1>4, <4>1, SizeAssumption DEF Distance, Gap, Cell
    <3>3. ~(Distance(p.barrier, cell) > 1)
      BY <3>1, <3>2
    <3> QED BY <1>1, <3>1, <3>3 DEF PlacementFaults
  <2> QED BY <2>1, <2>2
<1> HIDE DEF e, a, cell
<1>7. WithFaults(b, TargetFaults(e), e) = b /\ WithFaults(b, PlacementFaults(e, cell, p.position), e) = b
  BY <1>5, <1>6, NoFaults
<1>8. ~Found(p.position).error /\ Found(p.position).cell = p.position
  BY DEF Found
<1> HIDE DEF b
<1> QED
  <2>1. AuditRecord(a, e) =
          LET known == WithFaults([a EXCEPT !.seen = @ \cup {<<r, p.step>>}], TargetFaults(e), e)
              post == RevealedPost(p, a.position[r])
          IN IF <<r, p.step>> \in a.seen THEN Fault(a, "duplicate", e)
             ELSE IF post.error THEN Fault(known, "position", e)
             ELSE IF post.cell = None THEN [known EXCEPT !.position[r] = None]
             ELSE Replayed(WithFaults(known, PlacementFaults(e, a.position[r], post.cell), e), e, post.cell)
    BY <1>1, <1>3 DEF AuditRecord
  <2> QED BY <1>2, <1>4, <1>7, <1>8, <2>1 DEF a, b, e

\* The thief's record answers the claim that is pending, if there is one.
AnswersClaim(p, pend) == pend # None /\ IsCaught(p.response) => p.response.claim = pend.cell
Captured(p, pend)     == IF pend # None /\ IsCaught(p.response) THEN pend.step ELSE None

LEMMA ThiefRecord ==
    ASSUME NEW p \in Record, p.role = "thief", NEW cop \in Cell, NEW thief \in Cell, Leads(p, thief),
           p.barrier = None, p.claim = None,
           NEW seen, <<"thief", p.step>> \notin seen, NEW c, NEW pend,
           AnswersClaim(p, pend)
    PROVE  Tells(AuditRecord(Known(cop, thief, seen, c, None, pend), Entry("thief", p)),
                 cop, p.position, seen \cup {<<"thief", p.step>>}, Captured(p, pend), None)
<1> DEFINE s == seen \cup {<<"thief", p.step>>}
           e == Entry("thief", p)
           a == Known(cop, thief, s, c, None, pend)
           b == [a EXCEPT !.position["thief"] = p.position]
<1>1. AuditRecord(Known(cop, thief, seen, c, None, pend), e) = Replayed(a, e, p.position)
  BY FaultlessRecord, RoleFacts
<1>2. e.role = "thief" /\ e.payload = p
  BY DEF Entry
<1>3. b = Known(cop, p.position, s, c, None, pend)
  BY DEF Known
<1> HIDE DEF e, a, s, b
<1>4. PICK d : (IF Coincide(b.position) /\ b.coincidence = None
               THEN [b EXCEPT !.coincidence = <<e.payload.step, e.role>>] ELSE b)
              = Known(cop, p.position, s, d, None, pend)
  <2>1. [b EXCEPT !.coincidence = <<e.payload.step, e.role>>]
          = Known(cop, p.position, s, <<e.payload.step, e.role>>, None, pend)
    BY <1>3 DEF Known
  <2> QED BY <1>3, <2>1
<1> DEFINE k == Known(cop, p.position, s, d, None, pend)
<1>5. Replayed(a, e, p.position) = Claimed(Answered(k, e), e)
  <2>1. b.capture = None
    BY <1>3 DEF Known
  <2>2. b = [a EXCEPT !.position[e.role] = p.position]
    BY <1>2 DEF b
  <2> QED BY <1>4, <2>1, <2>2 DEF Replayed, Exchanged
<1>6. \A x : Claimed(x, e) = x
  BY <1>2 DEF Claimed
<1>7. k.pending = pend
  BY DEF Known
<1>8. /\ pend = None => k = Known(cop, p.position, s, d, None, None)
      /\ [k EXCEPT !.pending = None] = Known(cop, p.position, s, d, None, None)
      /\ [Known(cop, p.position, s, d, None, None) EXCEPT !.capture = pend.step]
           = Known(cop, p.position, s, d, pend.step, None)
  BY DEF Known
<1> HIDE DEF k
<1>9. Answered(k, e) = Known(cop, p.position, s, d, Captured(p, pend), None)
  BY <1>2, <1>7, <1>8 DEF Answered, IsCaught, AnswersClaim, Captured
<1> QED BY <1>1, <1>5, <1>6, <1>9 DEF e, s, Tells

\* The record of the police claims the cell it is on and that of its barrier.
ClaimOf(p, thief) ==
    IF thief \in {p.position, p.barrier} THEN [step |-> p.step, cell |-> thief] ELSE None

LEMMA PoliceRecord ==
    ASSUME NEW p \in Record, p.role = "police", NEW cop \in Cell, NEW thief \in Cell, Leads(p, cop),
           p.claim = p.position,
           p.barrier # None => /\ p.position = cop /\ p.barrier \in Cell
                               /\ Distance(p.barrier, cop) <= 1,
           NEW seen, <<"police", p.step>> \notin seen, NEW c
    PROVE  Tells(AuditRecord(Known(cop, thief, seen, c, None, None), Entry("police", p)),
                 p.position, thief, seen \cup {<<"police", p.step>>}, None, ClaimOf(p, thief))
<1> DEFINE s == seen \cup {<<"police", p.step>>}
           e == Entry("police", p)
           a == Known(cop, thief, s, c, None, None)
           b == [a EXCEPT !.position["police"] = p.position]
<1>1. AuditRecord(Known(cop, thief, seen, c, None, None), e) = Replayed(a, e, p.position)
  BY FaultlessRecord, RoleFacts
<1>2. e.role = "police" /\ e.payload = p
  BY DEF Entry
<1>3. b = Known(p.position, thief, s, c, None, None)
  BY DEF Known
<1> HIDE DEF e, a, s, b
<1>4. PICK d : (IF Coincide(b.position) /\ b.coincidence = None
               THEN [b EXCEPT !.coincidence = <<e.payload.step, e.role>>] ELSE b)
              = Known(p.position, thief, s, d, None, None)
  <2>1. [b EXCEPT !.coincidence = <<e.payload.step, e.role>>]
          = Known(p.position, thief, s, <<e.payload.step, e.role>>, None, None)
    BY <1>3 DEF Known
  <2> QED BY <1>3, <2>1
<1> DEFINE k == Known(p.position, thief, s, d, None, None)
<1>5. Replayed(a, e, p.position) = Claimed(Answered(k, e), e)
  <2>1. b.capture = None
    BY <1>3 DEF Known
  <2>2. b = [a EXCEPT !.position[e.role] = p.position]
    BY <1>2 DEF b
  <2> QED BY <1>4, <2>1, <2>2 DEF Replayed, Exchanged
<1>6. Answered(k, e) = k
  BY <1>2 DEF Answered
<1>7. k.position.police = p.position /\ k.position.thief = thief
  BY DEF Known
<1>8. \A x : [k EXCEPT !.pending = x] = Known(p.position, thief, s, d, None, x)
  BY DEF Known
<1>9. k = Known(p.position, thief, s, d, None, None)
  OBVIOUS
<1> HIDE DEF k
<1>10. thief # None /\ p.position # None /\ p.claim # None
  BY StartAssumption DEF Record
<1>11. Coincide(k.position) <=> p.position = thief
  BY <1>7, <1>10 DEF Coincide
<1>12. Claimed(k, e) = Known(p.position, thief, s, d, None, ClaimOf(p, thief))
  <2>1. CASE p.barrier # None /\ thief = p.barrier
    BY <1>2, <1>7, <1>8, <2>1 DEF Claimed, ClaimOf
  <2>2. CASE ~(p.barrier # None /\ thief = p.barrier)
    <3>1. thief # p.barrier
      BY <1>10, <2>2
    <3>2. CASE thief = p.position
      BY <1>2, <1>7, <1>8, <1>10, <1>11, <2>2, <3>1, <3>2 DEF Claimed, ClaimOf
    <3>3. CASE thief # p.position
      BY <1>2, <1>7, <1>9, <1>11, <2>2, <3>1, <3>3 DEF Claimed, ClaimOf
    <3> QED BY <3>2, <3>3
  <2> QED BY <2>1, <2>2
<1> QED BY <1>1, <1>5, <1>6, <1>12 DEF e, s, Tells

-----------------------------------------------------------------------------
(* The replay of a game.                                                   *)

CellAfter(start, records, k) == IF k = 0 THEN start ELSE records[k].position

\* The logs of a game in which the thief is caught by no turn of the police but
\* the last.
GameLogs(L, Q, n) ==
    /\ Logs(L, Q, n)
    /\ \A k \in 1 .. n + 1 :
          /\ L[k].role = "thief" /\ Leads(L[k], CellAfter(ThiefStart, L, k - 1))
          /\ L[k].barrier = None /\ L[k].claim = None
          /\ L[k].response = IF k = 1 THEN None ELSE AnswerTo(Q[k - 1], L[k - 1].position)
    /\ \A k \in 1 .. n :
          /\ Q[k].role = "police" /\ Leads(Q[k], CellAfter(CopStart, Q, k - 1))
          /\ Q[k].claim = Q[k].position
          /\ Q[k].barrier # None => /\ Q[k].position = Q[k].state
                                    /\ Q[k].barrier \in Neighbors(Q[k].position) \cup {Q[k].position}
          /\ ~IsCaught(L[k].response)

\* The claim that the last turn of the police leaves.
PendingAfter(L, Q, k) ==
    IF k > 0 /\ L[k].position \in {Q[k].position, Q[k].barrier}
    THEN [step |-> k, cell |-> L[k].position] ELSE None

\* Nothing beyond the k-th turn was seen.
SeenUpTo(seen, k) == \A r, i : <<r, i>> \in seen => i \in Nat /\ i <= k

AfterTurns(a, L, Q, k) ==
    \E seen : /\ SeenUpTo(seen, k)
              /\ Tells(a, CellAfter(CopStart, Q, k), CellAfter(ThiefStart, L, k), seen,
                       None, PendingAfter(L, Q, k))

LEMMA CellsOfGame ==
    ASSUME NEW n \in Nat, NEW L, NEW Q, Logs(L, Q, n)
    PROVE  /\ \A k \in 1 .. n + 1 : L[k] \in Record /\ L[k].step = k
           /\ \A k \in 1 .. n : Q[k] \in Record /\ Q[k].step = k
           /\ \A k \in 0 .. n : CellAfter(CopStart, Q, k) \in Cell
           /\ \A k \in 0 .. n + 1 : CellAfter(ThiefStart, L, k) \in Cell
<1>1. \A k \in 1 .. n + 1 : L[k] \in Record /\ L[k].step = k
  BY ElementOfSeq DEF Logs
<1>2. \A k \in 1 .. n : Q[k] \in Record /\ Q[k].step = k
  BY ElementOfSeq DEF Logs
<1>3. \A k \in 0 .. n : CellAfter(CopStart, Q, k) \in Cell
  BY <1>2, StartAssumption DEF CellAfter, Record
<1>4. \A k \in 0 .. n + 1 : CellAfter(ThiefStart, L, k) \in Cell
  BY <1>1, StartAssumption DEF CellAfter, Record
<1> QED BY <1>1, <1>2, <1>3, <1>4

\* The thief's next record: it answers the claim, truly.
LEMMA ThiefReplayed ==
    ASSUME NEW n \in Nat, NEW L, NEW Q, GameLogs(L, Q, n), NEW k \in 0 .. n,
           NEW a, AfterTurns(a, L, Q, k)
    PROVE  \E seen :
             /\ SeenUpTo(seen, k + 1) /\ <<"police", k + 1>> \notin seen
             /\ Tells(AuditRecord(a, Entry("thief", L[k + 1])), CellAfter(CopStart, Q, k),
                      L[k + 1].position, seen, IF IsCaught(L[k + 1].response) THEN k ELSE None, None)
<1> DEFINE p == L[k + 1]  cop == CellAfter(CopStart, Q, k)  thief == CellAfter(ThiefStart, L, k)
           pend == PendingAfter(L, Q, k)
<1>1. k + 1 \in 1 .. n + 1 /\ (k + 1) - 1 = k /\ k \in Nat
  OBVIOUS
<1>2. /\ Logs(L, Q, n) /\ p.role = "thief" /\ Leads(p, thief) /\ p.barrier = None /\ p.claim = None
      /\ p.response = IF k = 0 THEN None ELSE AnswerTo(Q[k], L[k].position)
  BY <1>1 DEF GameLogs
<1>3. p \in Record /\ p.step = k + 1 /\ cop \in Cell /\ thief \in Cell
  BY <1>1, <1>2, CellsOfGame
<1>4. PICK seen, c : SeenUpTo(seen, k) /\ a = Known(cop, thief, seen, c, None, pend)
  BY DEF AfterTurns, Tells
<1>5. <<"thief", p.step>> \notin seen
  BY <1>1, <1>3, <1>4 DEF SeenUpTo
<1>6. /\ pend # None <=> k > 0 /\ L[k].position \in {Q[k].position, Q[k].barrier}
      /\ pend # None => pend.step = k /\ pend.cell = L[k].position
  <2>1. k > 0 => [step |-> k, cell |-> L[k].position] # None
    <3>1. k > 0 => L[k].position \in Cell
      BY <1>1, <1>3 DEF CellAfter
    <3> QED BY <1>1, <3>1, StartAssumption
  <2> QED BY <2>1 DEF PendingAfter
<1>7. /\ IsCaught(p.response) <=> pend # None
      /\ pend # None => p.response.claim = pend.cell
  <2>1. CASE k = 0
    BY <1>2, <1>6, <2>1 DEF IsCaught
  <2>2. CASE k > 0
    <3>1. k \in 1 .. n /\ Q[k].claim = Q[k].position
      BY <1>1, <2>2 DEF GameLogs
    <3>2. Q[k].position \in Cell /\ L[k].position \in Cell
      BY <1>1, <1>3, <2>2 DEF CellAfter
    <3>3. AnswerTo(Q[k], L[k].position) \in Answers
      BY <3>1, <3>2 DEF AnswerTo, Answers
    <3>4. p.response # None /\ p.response = AnswerTo(Q[k], L[k].position)
      BY <1>2, <2>2, <3>3, MatchAssumption
    <3>5. /\ p.response.caught <=> L[k].position \in {Q[k].position, Q[k].barrier}
          /\ p.response.caught => p.response.claim = L[k].position
      BY <3>1, <3>4 DEF AnswerTo
    <3> QED BY <1>6, <2>2, <3>4, <3>5 DEF IsCaught
  <2> QED BY <1>1, <2>1, <2>2
<1> HIDE DEF p, cop, thief, pend
<1>8. Tells(AuditRecord(a, Entry("thief", p)), cop, p.position, seen \cup {<<"thief", p.step>>},
            Captured(p, pend), None)
  <2>1. p \in Record /\ p.role = "thief" /\ Leads(p, thief) /\ p.barrier = None /\ p.claim = None
    BY <1>2, <1>3
  <2>2. AnswersClaim(p, pend)
    BY <1>7 DEF AnswersClaim
  <2>3. cop \in Cell /\ thief \in Cell
    BY <1>3
  <2> QED BY <1>4, <1>5, <2>1, <2>2, <2>3, ThiefRecord
<1>9. Captured(p, pend) = IF IsCaught(p.response) THEN k ELSE None
  BY <1>6, <1>7 DEF Captured
<1>10. <<"police", k + 1>> \notin seen \cup {<<"thief", p.step>>}
  BY <1>1, <1>4 DEF SeenUpTo
<1>11. SeenUpTo(seen \cup {<<"thief", p.step>>}, k + 1)
  <2> SUFFICES ASSUME NEW r, NEW i, <<r, i>> \in seen \cup {<<"thief", p.step>>}
               PROVE  i \in Nat /\ i <= k + 1
    BY DEF SeenUpTo
  <2>1. CASE <<r, i>> \in seen
    <3>1. i \in Nat /\ i <= k
      BY <1>4, <2>1 DEF SeenUpTo
    <3> QED BY <3>1, <1>1
  <2>2. CASE <<r, i>> = <<"thief", p.step>>
    BY <1>1, <1>3, <2>2
  <2> QED BY <2>1, <2>2
<1> QED BY <1>8, <1>9, <1>10, <1>11 DEF p, cop

\* The next record of the police: its claim is what the replay says of it.
LEMMA PoliceReplayed ==
    ASSUME NEW n \in Nat, NEW L, NEW Q, GameLogs(L, Q, n), NEW k \in 1 .. n,
           NEW seen, SeenUpTo(seen, k), <<"police", k>> \notin seen,
           NEW a, Tells(a, CellAfter(CopStart, Q, k - 1), L[k].position, seen, None, None)
    PROVE  AfterTurns(AuditRecord(a, Entry("police", Q[k])), L, Q, k)
<1> DEFINE p == Q[k]  cop == CellAfter(CopStart, Q, k - 1)  thief == L[k].position
<1>1. /\ Logs(L, Q, n) /\ p.role = "police" /\ Leads(p, cop) /\ p.claim = p.position
      /\ p.barrier # None => /\ p.position = p.state
                             /\ p.barrier \in Neighbors(p.position) \cup {p.position}
  BY DEF GameLogs
<1>2. k \in 1 .. n + 1 /\ k - 1 \in 0 .. n /\ k \in Nat /\ k # 0
  OBVIOUS
<1>3. p \in Record /\ p.step = k /\ cop \in Cell /\ L[k] \in Record
  BY <1>1, <1>2, CellsOfGame
<1>4. thief \in Cell
  BY <1>3 DEF Record
<1>5. p.barrier # None => p.position = cop /\ p.barrier \in Cell /\ Distance(p.barrier, cop) <= 1
  <2> SUFFICES ASSUME p.barrier # None
               PROVE  p.position = cop /\ p.barrier \in Cell /\ Distance(p.barrier, cop) <= 1
    OBVIOUS
  <2>1. p.position = cop /\ p.barrier \in Neighbors(cop) \cup {cop}
    BY <1>1 DEF Leads
  <2>2. CASE p.barrier \in Neighbors(cop)
    BY <2>1, <2>2 DEF Neighbors
  <2>3. CASE p.barrier = cop
    BY <1>3, <2>1, <2>3 DEF Distance, Gap, Cell
  <2> QED BY <2>1, <2>2, <2>3
<1>6. PICK c : a = Known(cop, thief, seen, c, None, None)
  BY DEF Tells
<1> HIDE DEF p, cop, thief
<1>7. Tells(AuditRecord(a, Entry("police", p)), p.position, thief, seen \cup {<<"police", p.step>>},
            None, ClaimOf(p, thief))
  <2>1. <<"police", p.step>> \notin seen
    BY <1>3
  <2> QED BY <1>1, <1>3, <1>4, <1>5, <1>6, <2>1, PoliceRecord
<1>8. SeenUpTo(seen \cup {<<"police", p.step>>}, k)
  BY <1>2, <1>3 DEF SeenUpTo
<1>9. /\ p.position = CellAfter(CopStart, Q, k) /\ thief = CellAfter(ThiefStart, L, k)
      /\ ClaimOf(p, thief) = PendingAfter(L, Q, k)
  BY <1>2, <1>3 DEF CellAfter, ClaimOf, PendingAfter, p, thief
<1> QED BY <1>7, <1>8, <1>9 DEF AfterTurns, p

\* The whole replay, by induction over the turns of the police.
LEMMA ReplayOfGame ==
    ASSUME NEW n \in Nat, NEW L, NEW Q, GameLogs(L, Q, n), NEW s, InTurns(s, L, Q, n)
    PROVE  \E seen : Tells(Replay(s)[2 * n + 1], CellAfter(CopStart, Q, n), L[n + 1].position, seen,
                           IF IsCaught(L[n + 1].response) THEN n ELSE None, None)
<1> DEFINE after == Replay(s)
           S == {m \in Nat : m <= n => AfterTurns(after[2 * m], L, Q, m)}
<1>1. /\ Len(s) = 2 * n + 1 /\ Len(s) \in Nat
      /\ \A k \in 1 .. n + 1 : s[2 * k - 1] = Entry("thief", L[k])
      /\ \A k \in 1 .. n : s[2 * k] = Entry("police", Q[k])
  BY DEF InTurns, Entry
<1>2. /\ after[0] = Beginning
      /\ \A k \in 1 .. 2 * n + 1 : after[k] = AuditRecord(after[k - 1], s[k])
  BY <1>1, ReplayFacts
<1> HIDE DEF after
<1>3. 0 \in S
  <2>1. Beginning = Known(CopStart, ThiefStart, {}, None, None, None)
    BY DEF Beginning, Known
  <2>2. SeenUpTo({}, 0)
    BY DEF SeenUpTo
  <2>3. AfterTurns(Beginning, L, Q, 0)
    BY <2>1, <2>2 DEF AfterTurns, Tells, CellAfter, PendingAfter
  <2>4. 2 * 0 = 0
    OBVIOUS
  <2> QED BY <1>2, <2>3, <2>4
\* The thief's record of a turn.
<1>4. ASSUME NEW m \in 0 .. n, AfterTurns(after[2 * m], L, Q, m)
      PROVE  \E seen :
               /\ SeenUpTo(seen, m + 1) /\ <<"police", m + 1>> \notin seen
               /\ Tells(after[2 * m + 1], CellAfter(CopStart, Q, m), L[m + 1].position, seen,
                        IF IsCaught(L[m + 1].response) THEN m ELSE None, None)
  <2>1. /\ m + 1 \in 1 .. n + 1 /\ 2 * (m + 1) - 1 = 2 * m + 1
        /\ 2 * m + 1 \in 1 .. 2 * n + 1 /\ (2 * m + 1) - 1 = 2 * m
    OBVIOUS
  <2>2. s[2 * m + 1] = Entry("thief", L[m + 1])
    BY <1>1, <2>1
  <2>3. after[2 * m + 1] = AuditRecord(after[2 * m], Entry("thief", L[m + 1]))
    BY <1>2, <2>1, <2>2
  <2> QED BY <1>4, <2>3, ThiefReplayed
<1>5. ASSUME NEW m \in S PROVE m + 1 \in S
  <2> SUFFICES ASSUME m + 1 <= n PROVE AfterTurns(after[2 * (m + 1)], L, Q, m + 1)
    OBVIOUS
  <2>1. /\ m \in 0 .. n /\ m + 1 \in 1 .. n /\ (m + 1) - 1 = m
        /\ 2 * (m + 1) \in 1 .. 2 * n + 1 /\ 2 * (m + 1) - 1 = 2 * m + 1
    OBVIOUS
  <2>2. AfterTurns(after[2 * m], L, Q, m)
    BY <2>1
  <2>3. ~IsCaught(L[m + 1].response)
    BY <2>1 DEF GameLogs
  <2>4. PICK seen :
               /\ SeenUpTo(seen, m + 1) /\ <<"police", m + 1>> \notin seen
               /\ Tells(after[2 * m + 1], CellAfter(CopStart, Q, m), L[m + 1].position, seen, None, None)
    BY <1>4, <2>1, <2>2, <2>3
  <2>5. after[2 * (m + 1)] = AuditRecord(after[2 * m + 1], Entry("police", Q[m + 1]))
    BY <1>1, <1>2, <2>1
  <2> QED BY <2>1, <2>4, <2>5, PoliceReplayed
<1>6. S = Nat
  <2> HIDE DEF S
  <2> QED BY <1>3, <1>5, SetInduction DEF S
<1>7. n \in 0 .. n /\ AfterTurns(after[2 * n], L, Q, n)
  <2>1. n \in S
    BY <1>6
  <2>2. n <= n => AfterTurns(after[2 * n], L, Q, n)
    BY <2>1, Zenon
  <2> QED BY <2>2
<1> QED BY <1>4, <1>7 DEF after

\* The audit of a game finds no fault, and a capture only if the thief admits it.
LEMMA AuditOfGame ==
    ASSUME NEW n \in Nat, NEW L, NEW Q, GameLogs(L, Q, n),
           NEW a \in {Audit("thief", L, Q), Audit("police", Q, L)}
    PROVE  /\ a.errors = {} /\ a.trailing = 0
           /\ a.capture # None <=> IsCaught(L[n + 1].response)
<1>1. InTurns(Decorated("thief", L, Q), L, Q, n) /\ InTurns(Decorated("police", Q, L), L, Q, n)
  BY Alternation DEF GameLogs
<1>2. PICK s : InTurns(s, L, Q, n) /\ a = Replay(s)[Len(s)]
  BY <1>1 DEF Audit
<1>3. a = Replay(s)[2 * n + 1]
  BY <1>2 DEF InTurns
<1>4. PICK seen, c : a = Known(CellAfter(CopStart, Q, n), L[n + 1].position, seen, c,
                            IF IsCaught(L[n + 1].response) THEN n ELSE None, None)
  BY <1>2, <1>3, ReplayOfGame DEF Tells
<1> QED BY <1>4, StartAssumption DEF Known

-----------------------------------------------------------------------------
(* What the audit will find: the invariant of the records and of the end.  *)

Start(r) == IF r = "thief" THEN ThiefStart ELSE CopStart

\* The k-th record of a role discloses what its peer did.
Honest(r, k) ==
    LET p == log[r][k] IN
    /\ p.step = k /\ p.role = r /\ Audited(p) /\ Leads(p, CellAfter(Start(r), log[r], k - 1))
    /\ r = "thief" => p.barrier = None /\ p.claim = None

RecordInv == \A r \in Roles : \A k \in 1 .. Sent(r) : Honest(r, k)

\* The thief ends the game, in its last turn at the latest, and says why.
EndsBy(t) ==
    /\ IsCaught(t.response) \/ t.win = "boxed_in" <=> CaughtInFact
    /\ Sent("thief") = MaxMoves => Terminal(t)

LastInv ==
    /\ Sent("police") < MaxMoves
    /\ \A k \in 1 .. Sent("police") : ~Terminal(log["thief"][k])
    /\ Sent("thief") = Sent("police") + 1 => EndsBy(log["thief"][Sent("thief")])

\* The commitments a peer took are those of the other's records.
CommitInv == \A r \in Roles : \A k \in 1 .. Seen(r) : commits[r][k] = log[Peer(r)][k]

LEMMA LogStays ==
    ASSUME IInv, NEW r \in Roles, SendsTurn(r) \/ TakesTurn(r) \/ Deliver(r) \/ Leaves(r)
    PROVE  log' = log
<1>1. TypeOK
  BY DEF IInv
<1> QED BY <1>1, TurnSent, TurnTaken DEF NextTurn, Deliver, Leaves

\* A peer seals the turn it made.
LEMMA HonestSeal ==
    ASSUME IInv, RecordInv, NEW r \in Roles, NEW t \in Record,
           OwnTurn(r), Submit(r, t), Discloses(r, t)
    PROVE  RecordInv'
<1>1. TypeOK /\ LoopInv /\ MailInv /\ BoardInv
  BY DEF IInv
<1>2. PICK n \in Nat : n = Sent(r)
  BY <1>1, Counts
<1>3. /\ Sent(r)' = n + 1 /\ log'[r][n + 1] = t /\ \A k \in 1 .. n : log'[r][k] = log[r][k]
      /\ log'[Peer(r)] = log[Peer(r)] /\ Sent(Peer(r))' = Sent(Peer(r))
  BY <1>1, <1>2, Sealed
<1>4. position[r] = CellAfter(Start(r), log[r], n)
  BY <1>1, <1>2, RoleFacts DEF BoardInv, CellAfter, Start
<1>5. StepOf(turn[r]) = n + 1
  BY <1>1, <1>2, OwnTurns, RoleFacts
<1>6. \A k \in 0 .. n : CellAfter(Start(r), log'[r], k) = CellAfter(Start(r), log[r], k)
  BY <1>3 DEF CellAfter
<1>7. ASSUME NEW k \in 1 .. n + 1 PROVE Honest(r, k)'
  <2>1. CASE k = n + 1
    <3>1. k - 1 = n /\ n \in 0 .. n
      BY <2>1
    <3> QED BY <1>3, <1>4, <1>5, <1>6, <2>1, <3>1 DEF Honest, Discloses
  <2>2. CASE k \in 1 .. n
    <3>1. k - 1 \in 0 .. n
      BY <2>2
    <3>2. Honest(r, k)
      BY <1>2, <2>2 DEF RecordInv
    <3> QED BY <1>3, <1>6, <2>2, <3>1, <3>2 DEF Honest
  <2> QED BY <2>1, <2>2
<1>8. \A k \in 1 .. Sent(Peer(r))' : Honest(Peer(r), k)'
  BY <1>3, RoleFacts DEF RecordInv, Honest
<1> QED BY <1>3, <1>7, <1>8, RoleFacts DEF RecordInv

LEMMA RecordStep == IInv /\ RecordInv /\ [Next]_vars => RecordInv'
<1> SUFFICES ASSUME IInv, RecordInv, [Next]_vars PROVE RecordInv'
  OBVIOUS
<1>1. ASSUME NEW t \in Record, ThiefSeals(t) PROVE RecordInv'
  BY <1>1, HonestSeal, RoleFacts DEF ThiefSeals
<1>2. ASSUME NEW p \in Record, PoliceSeals(p) PROVE RecordInv'
  BY <1>2, HonestSeal, RoleFacts DEF PoliceSeals
<1>3. CASE log' = log
  BY <1>3 DEF RecordInv, Honest, Sent
<1>4. TypeOK
  BY DEF IInv
<1> QED BY <1>1, <1>2, <1>3, <1>4, Steps, LogStays DEF vars

LEMMA CommitStep == IInv /\ CommitInv /\ [Next]_vars => CommitInv'
<1> SUFFICES ASSUME IInv, CommitInv, [Next]_vars PROVE CommitInv'
  OBVIOUS
<1>1. TypeOK /\ LoopInv /\ MailInv
  BY DEF IInv
<1>a. \A r \in Roles : Seen(r) \in Nat /\ Sent(r) \in Nat /\ Seen(r) <= Sent(Peer(r))
  BY <1>1, Counts, RoleFacts
\* Sealing adds a record that nobody has taken.
<1>2. ASSUME NEW r \in Roles, NEW t \in Record, Submit(r, t) PROVE CommitInv'
  <2>1. /\ \A k \in 1 .. Sent(r) : log'[r][k] = log[r][k]
        /\ log'[Peer(r)] = log[Peer(r)] /\ commits' = commits
    BY <1>1, <1>2, Sealed
  <2>2. ASSUME NEW q \in Roles, NEW k \in 1 .. Seen(q) PROVE commits'[q][k] = log'[Peer(q)][k]
    <3>1. k \in 1 .. Sent(Peer(q))
      BY <1>a, RoleFacts
    <3> QED BY <2>1, <3>1, RoleFacts DEF CommitInv
  <2> QED BY <2>1, <2>2 DEF CommitInv, Seen
<1>3. ASSUME NEW r \in Roles, TakesTurn(r) PROVE CommitInv'
  <2>1. NextTurn(r)
    BY <1>3, TurnTaken
  <2>2. /\ Seen(r) + 1 = Sent(Peer(r)) /\ Head(inbox[r]) = log[Peer(r)][Sent(Peer(r))]
        /\ Head(inbox[r]) \in Record /\ log' = log /\ Seen(r)' = Seen(r) + 1
    BY <1>1, <2>1, Taken
  <2>3. commits[r] \in Seq(Record) /\ commits' = [commits EXCEPT ![r] = Append(@, Head(inbox[r]))]
    BY <1>1, <2>1 DEF TypeOK, NextTurn
  <2>4. /\ \A k \in 1 .. Seen(r) : commits'[r][k] = commits[r][k]
        /\ commits'[r][Seen(r) + 1] = Head(inbox[r])
        /\ commits'[Peer(r)] = commits[Peer(r)]
    BY <1>1, <2>2, <2>3, AppendProperties, RoleFacts DEF TypeOK, Seen
  <2>5. ASSUME NEW k \in 1 .. Seen(r)' PROVE commits'[r][k] = log'[Peer(r)][k]
    <3>1. k \in 1 .. Seen(r) \/ k = Seen(r) + 1
      BY <1>a, <2>2
    <3> QED BY <2>2, <2>4, <3>1 DEF CommitInv
  <2>6. ASSUME NEW k \in 1 .. Seen(Peer(r))' PROVE commits'[Peer(r)][k] = log'[r][k]
    BY <2>2, <2>4, RoleFacts DEF CommitInv, Seen
  <2> QED BY <2>5, <2>6, RoleFacts DEF CommitInv
<1>4. CASE log' = log /\ commits' = commits
  BY <1>4 DEF CommitInv, Seen
<1>5. ASSUME NEW r \in Roles, SendsTurn(r) \/ Deliver(r) \/ Leaves(r) PROVE CommitInv'
  BY <1>1, <1>4, <1>5, TurnSent DEF Deliver, Leaves
<1>6. ASSUME NEW t \in Record, ThiefSeals(t) \/ PoliceSeals(t) PROVE CommitInv'
  BY <1>2, <1>6, RoleFacts DEF ThiefSeals, PoliceSeals
<1> QED BY <1>1, <1>3, <1>4, <1>5, <1>6, Steps DEF vars

\* On its own turn the thief knows whether the chase is over.
LEMMA ThiefKnowsTheTruth ==
    ASSUME IInv, OwnTurn("thief")
    PROVE  CaughtInFact <=> Caught \/ boxedIn
<1> DEFINE P == Sent("police")
<1>1. TypeOK /\ LoopInv /\ MailInv /\ BoardInv /\ ReplyInv /\ ChaseInv
  BY DEF IInv
<1>2. P = Seen("thief") /\ Sent("thief") = P /\ P \in Nat /\ stage["thief"] = "play"
  BY <1>1, OwnTurns, Counts, RoleFacts DEF OwnTurn
<1>3. P > 0 => (CaughtAt(P) <=> Caught \/ boxedIn)
  BY <1>1, ThiefKnowsTheEnd
<1>4. P = 0 => ~Caught /\ ~boxedIn
  BY <1>1, <1>2 DEF ReplyInv, ThiefKnows, Caught
<1>5. \A k \in 1 .. P : k \in 1 .. P - 1 \/ (k = P /\ P > 0)
  BY <1>2
<1>6. P > 0 => P \in 1 .. P
  BY <1>2
<1> QED BY <1>1, <1>2, <1>3, <1>4, <1>5, <1>6 DEF CaughtInFact, ChaseInv, Sent

LEMMA LastStep == IInv /\ LastInv /\ [Next]_vars => LastInv'
<1> SUFFICES ASSUME IInv, LastInv, [Next]_vars PROVE LastInv'
  OBVIOUS
<1> DEFINE P == Sent("police")  T == Sent("thief")
<1>1. TypeOK /\ LoopInv /\ MailInv /\ ChaseInv
  BY DEF IInv
<1>2. P \in Nat /\ T \in Nat
  BY <1>1, Counts, RoleFacts
<1>3. ASSUME NEW t \in Record, ThiefSeals(t) PROVE LastInv'
  <2>1. /\ T' = T + 1 /\ log'["thief"][T + 1] = t /\ log'["police"] = log["police"] /\ P' = P
        /\ \A k \in 1 .. T : log'["thief"][k] = log["thief"][k]
    BY <1>1, <1>3, Sealed, RoleFacts DEF ThiefSeals
  <2>2. OwnTurn("thief") /\ P = T /\ StepOf(turn["thief"]) = T + 1
    BY <1>1, <1>3, OwnTurns DEF ThiefSeals
  <2>3. PICK n \in Nat : n = P
    BY <1>2
  <2>4. \A k \in 1 .. n : CaughtAt(k)' <=> CaughtAt(k)
    BY <2>1, <2>2, <2>3, CaughtStays
  <2>5. CaughtInFact' <=> CaughtInFact
    BY <2>1, <2>3, <2>4 DEF CaughtInFact, Sent
  <2>6. CaughtInFact <=> Caught \/ boxedIn
    BY <2>2, ThiefKnowsTheTruth
  <2>7. t.response = response /\ (~Caught => t.win = WinClaim)
    BY <1>3 DEF ThiefSeals
  <2>8. IsCaught(t.response) <=> Caught
    BY <2>7 DEF IsCaught, Caught
  <2>9. ~Caught => (t.win = "boxed_in" <=> boxedIn)
    BY <2>7, MatchAssumption DEF WinClaim, Wins
  <2>10. T + 1 = MaxMoves => Terminal(t)
    BY <2>2, <2>7, <2>8, MatchAssumption DEF Terminal, WinClaim, Wins
  <2>11. EndsBy(log["thief"][Sent("thief")])'
    BY <2>1, <2>5, <2>6, <2>8, <2>9, <2>10 DEF EndsBy
  <2>12. \A k \in 1 .. P' : ~Terminal(log["thief"][k])'
    BY <2>1, <2>2 DEF LastInv
  <2> QED BY <2>1, <2>11, <2>12 DEF LastInv
<1>4. ASSUME NEW p \in Record, PoliceSeals(p) PROVE LastInv'
  <2>1. P' = P + 1 /\ log'["thief"] = log["thief"] /\ T' = T
    BY <1>1, <1>4, Sealed, RoleFacts DEF PoliceSeals
  <2>2. /\ OwnTurn("police") /\ Seen("police") = P + 1 /\ T = P + 1 /\ T < MaxMoves
        /\ stage["police"] = "play"
    BY <1>1, <1>4, OwnTurns DEF PoliceSeals, OwnTurn
  <2>3. ~Terminal(log["thief"][T])
    BY <1>1, <2>2 DEF ChaseInv, Playing
  <2>4. \A k \in 1 .. P' : ~Terminal(log["thief"][k])'
    <3> TAKE k \in 1 .. P'
    <3>1. k \in 1 .. P \/ k = T
      BY <1>2, <2>1, <2>2
    <3> QED BY <2>1, <2>3, <3>1 DEF LastInv
  <2> QED BY <1>2, <2>1, <2>2, <2>4 DEF LastInv
<1>5. CASE log' = log
  <2>1. CaughtInFact' <=> CaughtInFact
    BY <1>5 DEF CaughtInFact, CaughtAt
  <2> QED BY <1>5, <2>1 DEF LastInv, EndsBy, Sent
<1> QED BY <1>1, <1>3, <1>4, <1>5, Steps, LogStays DEF vars

\* Every claim of the police is answered.
LEMMA NothingIsMissing == IInv /\ missing = FALSE /\ [Next]_vars => missing' = FALSE
<1> SUFFICES ASSUME IInv, missing = FALSE, [Next]_vars PROVE missing' = FALSE
  OBVIOUS
<1>1. TypeOK /\ LoopInv /\ MailInv /\ BoardInv /\ ReplyInv
  BY DEF IInv
<1>2. ASSUME TakesTurn("police") PROVE missing' = FALSE
  <2> DEFINE P == Sent("police")  t == Head(inbox["police"])
  <2>1. NextTurn("police") /\ PoliceTakes
    BY <1>2, RoleFacts DEF TakesTurn, PoliceTakes
  <2>2. /\ stage["police"] = "play" /\ Sent("thief") = P + 1 /\ Seen("police") = P
        /\ t = log["thief"][P + 1] /\ P \in Nat
    BY <1>1, <2>1, Taken, Counts, RoleFacts
  <2>3. CASE P = 0
    <3>1. claims = {}
      BY <1>1, <2>2, <2>3 DEF ReplyInv, PoliceAsks
    <3> QED BY <2>1, <3>1 DEF PoliceTakes, policeVars
  <2>4. CASE P # 0
    <3> DEFINE p == log["police"][P]  own == log["thief"][P].position
    <3>1. P + 1 \in 1 .. P + 1 /\ P \in 1 .. P /\ P \in 1 .. Sent("thief")
      BY <2>2, <2>4
    <3>2. t.response = AnswerTo(p, own)
      BY <1>1, <2>2, <2>4, <3>1 DEF ReplyInv, Replies
    <3>3. p \in Record /\ log["thief"][P] \in Record /\ p.claim = p.position
      BY <1>1, <3>1, ElementOfSeq, RoleFacts DEF TypeOK, Sent, BoardInv, PoliceRecords
    <3>4. AnswerTo(p, own) \in Answers
      BY <3>3 DEF AnswerTo, Answers, Record
    <3>5. t.response # None
      BY <3>2, <3>4, MatchAssumption
    <3> QED BY <2>1, <3>5 DEF PoliceTakes, policeVars
  <2> QED BY <2>3, <2>4
<1>3. ASSUME NEW r \in Roles, NEW t, Submit(r, t) PROVE missing' = missing
  BY <1>3 DEF Submit, policeVars
<1>4. ASSUME TakesTurn("thief") PROVE missing' = missing
  BY <1>4, RoleFacts DEF TakesTurn, ThiefAccepts, ThiefRefuses, policeVars
<1>5. ASSUME NEW r \in Roles, SendsTurn(r) \/ Deliver(r) \/ Leaves(r) PROVE missing' = missing
  BY <1>1, <1>5, TurnSent DEF Deliver, Leaves, policeVars
<1>6. CASE UNCHANGED vars
  BY <1>6 DEF vars, policeVars
<1> QED BY <1>1, <1>2, <1>3, <1>4, <1>5, <1>6, Steps, RoleFacts DEF ThiefSeals, PoliceSeals

-----------------------------------------------------------------------------
(* The end of the loops.                                                   *)

\* The thief has made its last turn, which says how the game ended.
GameOver == Sent("thief") = Sent("police") + 1 /\ Terminal(log["thief"][Sent("thief")])

Truth == IF CaughtInFact THEN "capture" ELSE "survival"

LEMMA LastTurnTells ==
    ASSUME IInv, LastInv, Sent("thief") = Sent("police") + 1
    PROVE  LET t == log["thief"][Sent("thief")] IN
           /\ t \in Record
           /\ IsCaught(t.response) => Truth = "capture"
           /\ ~IsCaught(t.response) /\ t.win # None => Truth = WinOutcome(t.win)
<1> DEFINE t == log["thief"][Sent("thief")]
<1>1. t \in Record
  <2>1. TypeOK /\ Sent("police") \in Nat
    BY Counts, RoleFacts DEF IInv
  <2>2. Sent("thief") \in 1 .. Sent("thief")
    BY <2>1
  <2> QED BY <2>1, <2>2, ElementOfSeq, RoleFacts DEF TypeOK, Sent
<1>2. IsCaught(t.response) \/ t.win = "boxed_in" <=> CaughtInFact
  BY DEF LastInv, EndsBy
<1>3. t.win \in {"boxed_in", "survival", None}
  BY <1>1 DEF Record, Wins
<1> QED BY <1>1, <1>2, <1>3 DEF Truth, WinOutcome

\* A loop goes on, or stops at a refused turn.
GoesOn(r) ==
    /\ \E s \in {"play", "protocol_error", "belief_error"} : stage' = [stage EXCEPT ![r] = s]
    /\ outcome' = outcome

\* A loop ends with the outcome the game had.
Concludes(r) ==
    /\ GameOver /\ Seen(r)' = Sent(Peer(r))
    /\ stage' = [stage EXCEPT ![r] = "over"] /\ outcome' = [outcome EXCEPT ![r] = Truth]

\* Only a terminal turn of the thief can be the last one.
LEMMA LastTurnIsTerminal ==
    ASSUME IInv, LastInv
    PROVE  LET t == log["thief"][Sent("thief")] IN
           /\ Sent("thief") = MaxMoves => Terminal(t)
           /\ Sent("thief") > 0 /\ Terminal(t) => GameOver
<1> DEFINE P == Sent("police")  T == Sent("thief")  t == log["thief"][T]
<1>1. P \in Nat /\ T \in Nat /\ P <= T /\ T <= P + 1
  <2>1. /\ P \in Nat /\ T \in Nat /\ Seen("thief") \in Nat /\ Seen("police") \in Nat
        /\ P <= Seen("police") /\ Seen("police") <= T /\ T <= Seen("thief") + 1 /\ Seen("thief") <= P
    BY Counts, RoleFacts DEF IInv
  <2> QED BY <2>1
<1>2. P < MaxMoves /\ (T = P + 1 => (T = MaxMoves => Terminal(t)))
  BY DEF LastInv, EndsBy
<1>3. T = MaxMoves => T = P + 1
  BY <1>1, <1>2, MatchAssumption
<1>4. T > 0 /\ Terminal(t) => T = P + 1
  <2>1. T \in 1 .. P => ~Terminal(t)
    BY DEF LastInv
  <2> QED BY <1>1, <2>1
<1> QED BY <1>2, <1>3, <1>4 DEF GameOver

\* A loop ends on the last turn of the thief and nowhere else, with the truth.
LEMMA ThiefLoopEnds ==
    ASSUME IInv, LastInv, ThiefTurnSent
    PROVE  GoesOn("thief") \/ Concludes("thief")
<1> DEFINE P == Sent("police")  T == Sent("thief")  t == log["thief"][T]
<1>1. TypeOK /\ LoopInv /\ MailInv /\ ReplyInv
  BY DEF IInv
<1>2. stage["thief"] = "sending" /\ commits' = commits
  BY DEF ThiefTurnSent, Delivered
<1>3. /\ T = Seen("thief") + 1 /\ turn["thief"] = T + Seen("thief")
      /\ T \in Nat /\ Seen("thief") \in Nat /\ P \in Nat /\ Seen("thief") <= P
  BY <1>1, <1>2, Counts, RoleFacts DEF LoopInv
<1>4. Last(log["thief"]) = t
  BY DEF Last, Sent
<1>5. IsCaught(t.response) <=> Caught
  BY <1>1, <1>2 DEF ReplyInv, ThiefTells, IsCaught, Caught
<1>6. Terminal(t) => GameOver /\ Seen("thief")' = P
  <2>1. Terminal(t) => GameOver
    BY <1>3, LastTurnIsTerminal
  <2> QED BY <1>2, <1>3, <2>1 DEF GameOver, Seen
<1>7. CASE Terminal(t)
  <2>1. T = P + 1
    BY <1>6, <1>7 DEF GameOver
  <2>2. /\ Caught => Truth = "capture"
        /\ ~Caught /\ t.win # None => Truth = WinOutcome(t.win)
    BY <1>5, <2>1, LastTurnTells
  <2>3. Conclude("thief", Truth)
    BY <1>4, <1>5, <1>7, <2>2 DEF ThiefTurnSent, Terminal
  <2> QED BY <1>6, <1>7, <2>3, RoleFacts DEF Conclude, Concludes
<1>8. CASE ~Terminal(t)
  <2>1. Advance("thief")
    BY <1>4, <1>5, <1>8 DEF ThiefTurnSent, Terminal
  <2>2. T # MaxMoves
    BY <1>8, LastTurnIsTerminal
  <2>3. turn["thief"] # LastTurn
    BY <1>3, <2>2, MatchAssumption DEF LastTurn
  <2> QED BY <2>1, <2>3 DEF Advance, GoesOn
<1> QED BY <1>7, <1>8

LEMMA PoliceLoopEnds ==
    ASSUME IInv, LastInv, PoliceTakes
    PROVE  GoesOn("police") \/ Concludes("police")
<1> DEFINE P == Sent("police")  T == Sent("thief")  t == Head(inbox["police"])
<1>1. TypeOK /\ LoopInv /\ MailInv
  BY DEF IInv
<1>2. NextTurn("police")
  BY DEF PoliceTakes
<1>3. /\ stage["police"] = "play" /\ Seen("police") = P /\ T = P + 1 /\ P \in Nat
      /\ t = log["thief"][T] /\ Seen("police")' = T
  BY <1>1, <1>2, Taken, Counts, RoleFacts
<1>4. turn["police"] = P + P + 1
  BY <1>1, <1>3, RoleFacts DEF LoopInv
<1>5. CASE AnswerRefused(t)
  BY <1>5 DEF PoliceTakes, Fail, GoesOn
<1>6. CASE ~AnswerRefused(t) /\ Terminal(t)
  <2>1. GameOver
    BY <1>3, <1>6 DEF GameOver
  <2>2. /\ IsCaught(t.response) => Truth = "capture"
        /\ ~IsCaught(t.response) /\ t.win # None => Truth = WinOutcome(t.win)
    BY <1>3, LastTurnTells
  <2>3. Conclude("police", Truth)
    BY <1>6, <2>2 DEF PoliceTakes, Terminal, IsCaught
  <2> QED BY <1>3, <2>1, <2>3, RoleFacts DEF Conclude, Concludes
<1>7. CASE ~AnswerRefused(t) /\ ~Terminal(t)
  <2>1. Advance("police")
    BY <1>7 DEF PoliceTakes, Terminal, IsCaught
  <2>2. T # MaxMoves
    BY <1>3, <1>7, LastTurnIsTerminal
  <2>3. turn["police"] # LastTurn
    BY <1>3, <1>4, <2>2, MatchAssumption DEF LastTurn
  <2> QED BY <2>1, <2>3 DEF Advance, GoesOn
<1> QED BY <1>5, <1>6, <1>7

LEMMA LoopEnds ==
    ASSUME IInv, LastInv, NEW r \in Roles, SendsTurn(r) \/ TakesTurn(r)
    PROVE  GoesOn(r) \/ Concludes(r)
<1>1. TypeOK /\ LoopInv /\ MailInv
  BY DEF IInv
<1>2. MaxMoves \in Nat /\ \A q \in Roles : Sent(q) \in Nat /\ Seen(q) \in Nat
  BY <1>1, Counts, MatchAssumption
<1>3. ASSUME PoliceTurnSent PROVE GoesOn("police")
  <2>1. stage["police"] = "sending" /\ Advance("police")
    BY <1>3 DEF PoliceTurnSent, Delivered
  <2>2. Sent("police") = Seen("police") /\ turn["police"] = Sent("police") + Seen("police")
    BY <1>1, <2>1, RoleFacts DEF LoopInv
  <2>3. turn["police"] # LastTurn
    BY <1>2, <2>2, RoleFacts DEF LastTurn
  <2> QED BY <2>1, <2>3 DEF Advance, GoesOn
<1>4. ASSUME ThiefAccepts \/ ThiefRefuses PROVE GoesOn("thief")
  <2>1. CASE ThiefRefuses
    BY <2>1 DEF ThiefRefuses, Fail, GoesOn
  <2>2. CASE ThiefAccepts
    <3>1. NextTurn("thief") /\ Advance("thief")
      BY <2>2 DEF ThiefAccepts
    <3>2. stage["thief"] = "play" /\ Sent("thief") = Seen("thief") + 1
      BY <1>1, <3>1, Taken, RoleFacts
    <3>3. turn["thief"] = Sent("thief") + Seen("thief") + 1
      BY <1>1, <3>2, RoleFacts DEF LoopInv
    <3>4. turn["thief"] # LastTurn
      BY <1>2, <3>2, <3>3, RoleFacts DEF LastTurn
    <3> QED BY <3>1, <3>4 DEF Advance, GoesOn
  <2> QED BY <1>4, <2>1, <2>2
<1> QED BY <1>3, <1>4, ThiefLoopEnds, PoliceLoopEnds, RoleFacts DEF SendsTurn, TakesTurn

-----------------------------------------------------------------------------
(* The audit, from the end of the loops to the result.                     *)

Results == [outcome : Outcomes, signed : BOOLEAN]
Finals  == {"over", "sending_audit", "awaiting_audit", "done"}

\* A peer has seen the last turn and believes what happened.
Concluded(r) == GameOver /\ Seen(r) = Sent(Peer(r)) /\ outcome[r] = Truth

Revealed(r) == [records |-> log[r], claim |-> outcome[r]]

Finds(r, o) == o = [outcome |-> Truth, signed |-> TRUE]

\* Whoever leaves the loop knows the truth, reveals it, finds it revealed, and
\* writes it down.
Ends(r) ==
    /\ stage[r] \in Finals => Concluded(r)
    /\ wire[r] # None /\ wire[r].kind = "audit" => Concluded(r) /\ wire[r].payload = Revealed(r)
    /\ audits[r] # None => Concluded(Peer(r)) /\ audits[r] = Revealed(Peer(r))
    /\ result[r] # None => Concluded(r) /\ Concluded(Peer(r)) /\ Finds(r, result[r])

EndInv ==
    /\ audits \in [Roles -> {None} \cup [records : Seq(Record), claim : Outcomes]]
    /\ result \in [Roles -> {None} \cup Results]
    /\ \A r \in Roles : Ends(r)

AInv == IInv /\ RecordInv /\ LastInv /\ CommitInv /\ missing = FALSE /\ EndInv

LEMMA ConcludedStays ==
    ASSUME NEW q \in Roles, log' = log, Seen(q)' = Seen(q), outcome'[q] = outcome[q], Concluded(q)
    PROVE  Concluded(q)' /\ Revealed(q)' = Revealed(q)
<1>1. GameOver' <=> GameOver
  BY DEF GameOver, Sent, Terminal, IsCaught
<1>2. Truth' = Truth
  BY DEF Truth, CaughtInFact, CaughtAt
<1> QED BY <1>1, <1>2 DEF Concluded, Revealed, Sent

\* Nobody makes a turn after the last one.
LEMMA NoTurnAfterTheEnd == ASSUME IInv, NEW r \in Roles, OwnTurn(r) PROVE ~GameOver
<1>1. TypeOK /\ LoopInv /\ MailInv /\ ChaseInv
  BY DEF IInv
<1>2. ASSUME OwnTurn("thief") PROVE ~GameOver
  BY <1>1, <1>2, OwnTurns, Counts, RoleFacts DEF GameOver
<1>3. ASSUME OwnTurn("police") PROVE ~GameOver
  <2>1. stage["police"] = "play" /\ Seen("police") = Sent("police") + 1
    BY <1>1, <1>3, OwnTurns DEF OwnTurn
  <2> QED BY <1>1, <2>1 DEF ChaseInv, Playing, GameOver
<1> QED BY <1>2, <1>3, RoleFacts

\* The end is as it was, if what changes is how far a loop is.
LEMMA EndsStay ==
    ASSUME EndInv, UNCHANGED <<log, wire, audits, result>>,
           \A q \in Roles : Concluded(q) => Concluded(q)' /\ Revealed(q)' = Revealed(q),
           \A q \in Roles : stage'[q] \in Finals => Concluded(q)'
    PROVE  EndInv'
<1>1. Truth' = Truth
  BY DEF Truth, CaughtInFact, CaughtAt
<1>2. ASSUME NEW q \in Roles PROVE Ends(q)'
  <2>1. Ends(q) /\ Peer(q) \in Roles
    BY RoleFacts DEF EndInv
  <2> QED BY <1>1, <2>1 DEF Ends, Finds
<1> QED BY <1>2 DEF EndInv

\* The commitments a peer holds at the end are the records revealed to it.
LEMMA AllCommitsRevealed ==
    ASSUME IInv, CommitInv, NEW r \in Roles, Seen(r) = Sent(Peer(r))
    PROVE  commits[r] = log[Peer(r)]
<1>1. commits[r] \in Seq(Record) /\ log[Peer(r)] \in Seq(Record)
  BY RoleFacts DEF IInv, TypeOK
<1> QED BY <1>1, SeqEqual DEF CommitInv, Seen, Sent

\* The logs of a game that is over.
LEMMA GameLogged ==
    ASSUME IInv, RecordInv, LastInv, GameOver
    PROVE  GameLogs(log["thief"], log["police"], Sent("police"))
<1> DEFINE P == Sent("police")  L == log["thief"]  Q == log["police"]
<1>1. P \in Nat /\ Sent("thief") = P + 1
  BY Counts, RoleFacts DEF IInv, GameOver
<1>2. L \in Seq(Record) /\ Q \in Seq(Record) /\ Len(L) = P + 1 /\ Len(Q) = P
  BY <1>1, RoleFacts DEF IInv, TypeOK, Sent
<1>3. \A k \in 1 .. P + 1 : Honest("thief", k)
  BY <1>1, RoleFacts DEF RecordInv
<1>4. \A k \in 1 .. P : Honest("police", k)
  BY RoleFacts DEF RecordInv
<1>5. Logs(L, Q, P)
  BY <1>2, <1>3, <1>4 DEF Logs, Honest
<1>6. \A k \in 1 .. P + 1 : Replies(k)
  BY <1>1 DEF IInv, ReplyInv
<1>7. \A k \in 1 .. P : PoliceRecords(k)
  BY DEF IInv, BoardInv
<1>8. \A k \in 1 .. P : ~IsCaught(L[k].response)
  BY DEF LastInv, Terminal
<1> QED BY <1>3, <1>4, <1>5, <1>6, <1>7, <1>8 DEF GameLogs, Honest, Start, Replies, PoliceRecords

\* A peer that settles after the end of both loops writes the truth, signed.
LEMMA SettlesForTheTruth ==
    ASSUME AInv, NEW r \in Roles, Settle(r)
    PROVE  /\ Concluded(r) /\ Concluded(Peer(r))
           /\ outcome' = [outcome EXCEPT ![r] = Truth]
           /\ \E o : Finds(r, o) /\ result' = [result EXCEPT ![r] = o]
<1> DEFINE records == audits[r].records  replay == Audit(r, log[r], records)
           final == IF replay.capture # None THEN "capture" ELSE outcome[r]
<1>1. Ends(r) /\ Peer(r) \in Roles /\ stage[r] = "awaiting_audit" /\ audits[r] # None
  BY RoleFacts DEF AInv, EndInv, Settle
<1>2. /\ Concluded(r) /\ Concluded(Peer(r)) /\ records = log[Peer(r)]
      /\ audits[r].claim = outcome[Peer(r)]
  BY <1>1 DEF Ends, Finals, Revealed
<1>3. GameOver /\ outcome[r] = Truth /\ outcome[Peer(r)] = Truth /\ Seen(r) = Sent(Peer(r))
  BY <1>2 DEF Concluded
<1>4. commits[r] = records
  BY <1>2, <1>3, AllCommitsRevealed DEF AInv
<1>5. Verdict(records, commits[r]) = "verified"
  BY <1>4 DEF Verdict
<1>6. /\ replay.errors = {} /\ replay.trailing = 0
      /\ replay.capture # None <=> IsCaught(log["thief"][Sent("thief")].response)
  <2> DEFINE P == Sent("police")  L == log["thief"]  Q == log["police"]
  <2>1. GameLogs(L, Q, P) /\ P \in Nat /\ Sent("thief") = P + 1
    BY <1>3, GameLogged, Counts, RoleFacts DEF AInv, IInv, GameOver
  <2>2. replay \in {Audit("thief", L, Q), Audit("police", Q, L)}
    BY <1>2, RoleFacts
  <2> HIDE DEF replay, L, Q
  <2>3. /\ replay.errors = {} /\ replay.trailing = 0
        /\ replay.capture # None <=> IsCaught(L[P + 1].response)
    BY <2>1, <2>2, AuditOfGame
  <2> QED BY <2>1, <2>3 DEF L
<1>7. final = Truth
  <2>1. IsCaught(log["thief"][Sent("thief")].response) => Truth = "capture"
    BY <1>3, LastTurnTells DEF AInv, GameOver
  <2> QED BY <1>3, <1>6, <2>1
<1>8. Signed(r, replay, final)
  BY <1>2, <1>3, <1>6, <1>7 DEF Signed, AInv
<1> HIDE DEF replay, records, final
<1>9. WriteResult(r, final, Signed(r, replay, final))
  BY <1>5 DEF Settle, replay, records, final
<1>10. Finds(r, [outcome |-> final, signed |-> Signed(r, replay, final)])
  BY <1>7, <1>8 DEF Finds
<1> QED BY <1>2, <1>7, <1>9, <1>10 DEF WriteResult

LEMMA SettleEnds == ASSUME AInv, NEW r \in Roles, Settle(r) PROVE EndInv'
<1>1. /\ Concluded(r) /\ Concluded(Peer(r)) /\ outcome' = [outcome EXCEPT ![r] = Truth]
  BY SettlesForTheTruth
<1>2. PICK o : Finds(r, o) /\ result' = [result EXCEPT ![r] = o]
  BY SettlesForTheTruth
<1>3. stage' = [stage EXCEPT ![r] = "done"] /\ log' = log /\ commits' = commits
      /\ wire' = wire /\ audits' = audits
  BY DEF Settle, mailVars
<1>4. outcome' = outcome
  BY <1>1 DEF Concluded, AInv, IInv, TypeOK
<1>5. \A q \in Roles : Seen(q)' = Seen(q) /\ outcome'[q] = outcome[q]
  BY <1>3, <1>4 DEF Seen
<1>6. \A q \in Roles : Concluded(q) => Concluded(q)' /\ Revealed(q)' = Revealed(q)
  BY <1>3, <1>5, ConcludedStays
<1>7. Truth' = Truth
  BY <1>3 DEF Truth, CaughtInFact, CaughtAt
<1>8. o \in Results
  BY <1>2 DEF Finds, Results, Truth, Outcomes
<1>9. ASSUME NEW q \in Roles PROVE Ends(q)'
  <2>1. Ends(q) /\ Peer(q) \in Roles
    BY RoleFacts DEF AInv, EndInv
  <2>2. stage'[q] \in Finals => stage[q] \in Finals \/ q = r
    BY <1>3 DEF AInv, IInv, TypeOK
  <2>3. result'[q] # None => Concluded(q) /\ Concluded(Peer(q)) /\ Finds(q, result'[q])
    BY <1>1, <1>2, <2>1 DEF Ends, AInv, EndInv, Finds
  <2> QED BY <1>1, <1>3, <1>6, <1>7, <2>1, <2>2, <2>3 DEF Ends, Finds
<1> QED BY <1>2, <1>3, <1>8, <1>9 DEF AInv, EndInv

\* Both loops end with the truth.
LEMMA LoopsEndWell ==
    ASSUME AInv, NEW r \in Roles, SendsTurn(r) \/ TakesTurn(r)
    PROVE  EndInv'
<1>1. TypeOK /\ LoopInv /\ MailInv
  BY DEF AInv, IInv

<1>2. log' = log
  BY LogStays DEF AInv
<1>3. GoesOn(r) \/ Concludes(r)
  BY LoopEnds DEF AInv
<1>4. UNCHANGED <<wire, audits, result>>
  BY <1>1, TurnTaken, RoleFacts DEF SendsTurn, ThiefTurnSent, PoliceTurnSent, mailVars, NextTurn
<1>5. ASSUME NEW q \in Roles, q # r PROVE Seen(q)' = Seen(q) /\ outcome'[q] = outcome[q]
  <2>1. outcome'[q] = outcome[q]
    BY <1>1, <1>3, <1>5 DEF GoesOn, Concludes, TypeOK
  <2>2. commits'[q] = commits[q]
    BY <1>1, <1>5, TurnSent, TurnTaken DEF NextTurn, TypeOK
  <2> QED BY <2>1, <2>2 DEF Seen
<1>6. SendsTurn(r) => Seen(r)' = Seen(r)
  BY <1>1, TurnSent DEF Seen
<1>7. TakesTurn(r) => ~Concluded(r)
  <2>1. TakesTurn(r) => Seen(r) + 1 = Sent(Peer(r)) /\ Seen(r) \in Nat
    BY <1>1, TurnTaken, Taken, Counts
  <2> QED BY <2>1 DEF Concluded
<1>8. Concluded(r) => Seen(r)' = Seen(r) /\ outcome'[r] = outcome[r]
  BY <1>1, <1>3, <1>6, <1>7 DEF GoesOn, Concludes, Concluded, TypeOK
<1>9. ASSUME NEW q \in Roles, Concluded(q) PROVE Concluded(q)' /\ Revealed(q)' = Revealed(q)
  <2>1. Seen(q)' = Seen(q) /\ outcome'[q] = outcome[q]
    BY <1>5, <1>8, <1>9
  <2> QED BY <1>2, <1>9, <2>1, ConcludedStays
<1>10. Concludes(r) => Concluded(r)'
  <2>1. (GameOver' <=> GameOver) /\ Truth' = Truth /\ Sent(Peer(r))' = Sent(Peer(r))
    BY <1>2 DEF GameOver, Sent, Terminal, IsCaught, Truth, CaughtInFact, CaughtAt
  <2> QED BY <1>1, <2>1 DEF Concludes, Concluded, TypeOK
<1>11. ASSUME NEW q \in Roles, stage'[q] \in Finals PROVE Concluded(q)'
  <2>1. CASE q = r
    <3>1. Concludes(r)
      BY <1>1, <1>3, <1>11, <2>1 DEF GoesOn, Finals, TypeOK
    <3> QED BY <1>10, <2>1, <3>1
  <2>2. CASE q # r
    <3>1. stage'[q] = stage[q]
      BY <1>1, <1>3, <2>2 DEF GoesOn, Concludes, TypeOK
    <3>2. Concluded(q)
      BY <1>11, <3>1 DEF AInv, EndInv, Ends
    <3> QED BY <1>9, <3>2
  <2> QED BY <2>1, <2>2
<1> QED BY <1>2, <1>4, <1>9, <1>11, EndsStay DEF AInv

\* No turn is sealed once a peer has left its loop.
LEMMA SealsBeforeTheEnd ==
    ASSUME AInv, NEW r \in Roles, NEW t \in Record, OwnTurn(r), Submit(r, t)
    PROVE  EndInv'
<1>1. TypeOK /\ ~GameOver
  BY NoTurnAfterTheEnd DEF AInv, IInv
<1>2. /\ wire' = [wire EXCEPT ![r] = [kind |-> "turn", payload |-> t]]
      /\ stage' = [stage EXCEPT ![r] = "sending"] /\ audits' = audits /\ result' = result
  BY <1>1, Sealed
<1>3. ASSUME NEW q \in Roles PROVE Ends(q)'
  <2>1. Ends(q)
    BY DEF AInv, EndInv
  <2>2. stage[q] \notin Finals /\ ~(wire[q] # None /\ wire[q].kind = "audit")
        /\ audits[q] = None /\ result[q] = None
    BY <1>1, <2>1 DEF Ends, Concluded
  <2>3. stage'[q] \notin Finals
    BY <1>1, <1>2, <2>2 DEF TypeOK, Finals
  <2>4. ~(wire'[q] # None /\ wire'[q].kind = "audit")
    BY <1>1, <1>2, <2>2 DEF TypeOK
  <2> QED BY <1>2, <2>2, <2>3, <2>4 DEF Ends
<1> QED BY <1>2, <1>3 DEF AInv, EndInv

\* Nothing moves but the audit.
LEMMA AuditStays ==
    ASSUME AInv, UNCHANGED <<log, commits, outcome>>
    PROVE  /\ \A q \in Roles : Concluded(q) => Concluded(q)' /\ Revealed(q)' = Revealed(q)
           /\ Truth' = Truth
<1>1. \A q \in Roles : Seen(q)' = Seen(q) /\ outcome'[q] = outcome[q]
  BY DEF Seen
<1>2. Truth' = Truth
  BY DEF Truth, CaughtInFact, CaughtAt
<1> QED BY <1>1, <1>2, ConcludedStays

LEMMA DeliverEnds == ASSUME AInv, NEW r \in Roles, Deliver(r) PROVE EndInv'
<1>1. TypeOK /\ EndInv
  BY DEF AInv, IInv
<1>2. UNCHANGED <<stage, log, commits, outcome, result>> /\ wire[r] # None
      /\ wire' = [wire EXCEPT ![r] = None]
  BY DEF Deliver
<1>3. /\ \A q \in Roles : Concluded(q) => Concluded(q)' /\ Revealed(q)' = Revealed(q)
      /\ Truth' = Truth
  BY <1>2, AuditStays
<1>4. wire[r] \in TurnRequest \cup AuditRequest
  BY <1>1, <1>2 DEF TypeOK
<1>5. \/ audits' = audits
      \/ wire[r].kind = "audit" /\ audits' = [audits EXCEPT ![Peer(r)] = wire[r].payload]
  BY <1>4 DEF Deliver, TurnRequest, AuditRequest
<1>6. wire[r].kind = "audit" => wire[r].payload \in [records : Seq(Record), claim : Outcomes]
  BY <1>4 DEF TurnRequest, AuditRequest
<1>7. audits' \in [Roles -> {None} \cup [records : Seq(Record), claim : Outcomes]]
  BY <1>1, <1>5, <1>6 DEF EndInv
<1>8. ASSUME NEW q \in Roles PROVE Ends(q)'
  <2>1. Ends(q) /\ Ends(r) /\ Peer(q) \in Roles /\ Peer(r) \in Roles /\ Peer(Peer(r)) = r
    BY <1>1, RoleFacts DEF EndInv
  <2>2. wire'[q] # None => wire'[q] = wire[q]
    BY <1>1, <1>2 DEF TypeOK
  <2>3. audits'[q] # None => Concluded(Peer(q)) /\ audits'[q] = Revealed(Peer(q))
    <3>1. audits' = audits \/ q # Peer(r) => audits'[q] = audits[q]
      BY <1>1, <1>5 DEF EndInv
    <3>2. CASE wire[r].kind = "audit" /\ audits' = [audits EXCEPT ![Peer(r)] = wire[r].payload] /\ q = Peer(r)
      <4>1. audits'[q] = wire[r].payload /\ Peer(q) = r
        BY <1>1, <2>1, <3>2 DEF EndInv
      <4> QED BY <1>2, <2>1, <3>2, <4>1 DEF Ends
    <3> QED BY <1>5, <2>1, <3>1, <3>2 DEF Ends
  <2>4. stage'[q] \in Finals => Concluded(q)
    BY <1>2, <2>1 DEF Ends
  <2>5. wire'[q] # None /\ wire'[q].kind = "audit" => Concluded(q) /\ wire'[q].payload = Revealed(q)
    BY <2>1, <2>2 DEF Ends
  <2>6. result'[q] # None => Concluded(q) /\ Concluded(Peer(q)) /\ Finds(q, result'[q])
    BY <1>2, <2>1 DEF Ends
  <2> QED BY <1>3, <2>1, <2>3, <2>4, <2>5, <2>6 DEF Ends, Finds
<1> QED BY <1>1, <1>2, <1>7, <1>8 DEF EndInv

LEMMA SendAuditEnds == ASSUME AInv, NEW r \in Roles, SendAudit(r) PROVE EndInv'
<1>1. TypeOK /\ EndInv
  BY DEF AInv, IInv
<1>2. UNCHANGED <<log, commits, outcome, audits, result>> /\ stage[r] = "over"
      /\ stage' = [stage EXCEPT ![r] = "sending_audit"]
      /\ wire' = [wire EXCEPT ![r] = [kind |-> "audit", payload |-> Revealed(r)]]
  BY DEF SendAudit, Revealed
<1>3. /\ \A q \in Roles : Concluded(q) => Concluded(q)' /\ Revealed(q)' = Revealed(q)
      /\ Truth' = Truth
  BY <1>2, AuditStays
<1>4. Concluded(r)
  BY <1>1, <1>2 DEF EndInv, Ends, Finals
<1>5. ASSUME NEW q \in Roles PROVE Ends(q)'
  <2>1. Ends(q) /\ Peer(q) \in Roles
    BY <1>1, RoleFacts DEF EndInv
  <2>2. stage'[q] \in Finals => Concluded(q)
    BY <1>1, <1>2, <1>4, <2>1 DEF Ends, TypeOK
  <2>3. wire'[q] # None /\ wire'[q].kind = "audit" => Concluded(q) /\ wire'[q].payload = Revealed(q)
    BY <1>1, <1>2, <1>4, <2>1 DEF Ends, TypeOK
  <2> QED BY <1>2, <1>3, <2>1, <2>2, <2>3 DEF Ends, Finds
<1> QED BY <1>1, <1>2, <1>5 DEF EndInv

\* A peer waits for the audit, or fails.
LEMMA WaitEnds == ASSUME AInv, NEW r \in Roles, AuditSent(r) \/ Expire(r) \/ Cancel(r) PROVE EndInv'
<1>1. TypeOK /\ EndInv
  BY DEF AInv, IInv
<1>2. UNCHANGED <<log, commits, outcome, wire, audits, result>>
  BY DEF AuditSent, Expire, Cancel, Fail, mailVars
<1>3. \A q \in Roles : Concluded(q) => Concluded(q)' /\ Revealed(q)' = Revealed(q)
  BY <1>2, AuditStays
<1>4. \/ stage[r] = "sending_audit" /\ stage' = [stage EXCEPT ![r] = "awaiting_audit"]
      \/ \E s \in {"timed_out", "cancelled"} : stage' = [stage EXCEPT ![r] = s]
  BY DEF AuditSent, Expire, Cancel, Fail
<1>5. \A q \in Roles : stage'[q] \in Finals => stage[q] \in Finals
  BY <1>1, <1>4 DEF Finals, TypeOK
<1>6. \A q \in Roles : stage'[q] \in Finals => Concluded(q)'
  BY <1>1, <1>3, <1>5 DEF EndInv, Ends
<1> QED BY <1>1, <1>2, <1>3, <1>6, EndsStay

LEMMA EndStep == AInv /\ [Next]_vars => EndInv'
<1> SUFFICES ASSUME AInv, [Next]_vars PROVE EndInv'
  OBVIOUS
<1>1. TypeOK
  BY DEF AInv, IInv
<1>2. ASSUME NEW t \in Record, ThiefSeals(t) \/ PoliceSeals(t) PROVE EndInv'
  BY <1>2, SealsBeforeTheEnd, RoleFacts DEF ThiefSeals, PoliceSeals
<1>3. ASSUME NEW r \in Roles, RunsOn(r) PROVE EndInv'
  BY <1>3, SettleEnds, SendAuditEnds, WaitEnds DEF RunsOn, AuditStep
<1>4. CASE UNCHANGED vars
  <2>1. UNCHANGED <<stage, outcome, log, commits, wire, audits, result>>
    BY <1>4 DEF vars, mailVars
  <2> QED BY <2>1, AuditStays, EndsStay DEF AInv, EndInv, Ends
<1> QED BY <1>1, <1>2, <1>3, <1>4, StepCases, LoopsEndWell, DeliverEnds

LEMMA InitAudit == Init => AInv
<1> SUFFICES ASSUME Init PROVE AInv
  OBVIOUS
<1>1. IInv
  BY InitInv
<1>2. Sent("thief") = 0 /\ Sent("police") = 0 /\ Seen("thief") = 0 /\ Seen("police") = 0
  BY RoleFacts DEF Init, Sent, Seen
<1>3. RecordInv /\ CommitInv
  BY <1>2, RoleFacts DEF RecordInv, CommitInv
<1>4. LastInv
  BY <1>2, MatchAssumption DEF LastInv
<1>5. EndInv
  BY RoleFacts DEF Init, EndInv, Ends, Finals
<1> QED BY <1>1, <1>3, <1>4, <1>5 DEF AInv, Init

LEMMA AuditStepInv == AInv /\ [Next]_vars => AInv'
BY InvStep, RecordStep, LastStep, CommitStep, NothingIsMissing, EndStep DEF AInv

LEMMA AuditInvariance == Spec => []AInv
BY InitAudit, AuditStepInv, PTL DEF Spec

\* Each result of a network game says what happened in it: a capture if and
\* only if the thief was caught (network_match.py:1050-1064, 872-878,
\* 1103-1117).
THEOREM TheResultIsTrue == Spec => []ResultIsTrue
<1>1. AInv => ResultIsTrue
  <2> SUFFICES ASSUME AInv, NEW r \in Roles, result[r] # None
               PROVE  result[r].outcome = "capture" <=> CaughtInFact
    BY DEF ResultIsTrue
  <2>1. Finds(r, result[r])
    BY DEF AInv, EndInv, Ends
  <2> QED BY <2>1 DEF Finds, Truth
<1> QED BY <1>1, AuditInvariance, PTL

\* The replay finds no fault in the records of two runners of this code,
\* whatever game they played, and both sign (network_match.py:565-675,
\* 1213-1240).
THEOREM EveryGameIsSigned == Spec => []GameIsSigned
<1>1. AInv => GameIsSigned
  <2> SUFFICES ASSUME AInv, NEW r \in Roles, result[r] # None PROVE result[r].signed
    BY DEF GameIsSigned
  <2>1. Finds(r, result[r])
    BY DEF AInv, EndInv, Ends
  <2> QED BY <2>1 DEF Finds
<1> QED BY <1>1, AuditInvariance, PTL

\* The two result files of a game say the same (network_match.py:1213-1240).
THEOREM TheResultsAgree == Spec => []ResultsAgree
<1>1. AInv => ResultsAgree
  <2> SUFFICES ASSUME AInv, result["thief"] # None, result["police"] # None
               PROVE  result["thief"] = result["police"]
    BY DEF ResultsAgree
  <2>1. Finds("thief", result["thief"]) /\ Finds("police", result["police"])
    BY RoleFacts DEF AInv, EndInv, Ends
  <2> QED BY <2>1 DEF Finds
<1> QED BY <1>1, AuditInvariance, PTL

\* The outcome of the audit is the one the peer played to: the replay never
\* overturns it (network_match.py:1197-1204).
THEOREM TheAuditConfirms == Spec => AuditConfirms
<1> DEFINE Confirmed == \A r \in Roles : result'[r] # result[r] => outcome'[r] = outcome[r]
<1>1. AInv /\ [Next]_vars => [Confirmed]_vars
  <2> SUFFICES ASSUME AInv, [Next]_vars PROVE Confirmed \/ UNCHANGED vars
    OBVIOUS
  <2>1. TypeOK
    BY DEF AInv, IInv
  <2>2. ASSUME NEW r \in Roles, Settle(r) PROVE Confirmed
    BY <2>1, <2>2, SettlesForTheTruth DEF Concluded, TypeOK
  <2>3. ASSUME NEW r \in Roles, RunsOn(r) PROVE Confirmed
    BY <2>2, <2>3 DEF RunsOn, AuditStep, SendAudit, AuditSent, Expire, Cancel
  <2>4. ASSUME NEW t \in Record, ThiefSeals(t) \/ PoliceSeals(t) PROVE Confirmed
    BY <2>4 DEF ThiefSeals, PoliceSeals, Submit
  <2>5. ASSUME NEW r \in Roles, SendsTurn(r) \/ TakesTurn(r) \/ Deliver(r) PROVE Confirmed
    BY <2>5, TurnTaken DEF SendsTurn, ThiefTurnSent, PoliceTurnSent, NextTurn, Deliver
  <2> QED BY <2>1, <2>3, <2>4, <2>5, StepCases
<1> QED BY <1>1, AuditInvariance, PTL DEF Spec, AuditConfirms

-----------------------------------------------------------------------------
(* A stable sort keeps what it sorts.                                      *)

\* Records with their places in a list, in the order of the sort.
Before(all, i, j) ==
    \/ Precedes(all[i], all[j])
    \/ i < j /\ ~Precedes(all[j], all[i])

Sortable(all, n) ==
    /\ DOMAIN all = 1 .. n
    /\ \A i \in 1 .. n : all[i].role \in Roles /\ all[i].payload.step \in Int \cup {None}

LEMMA PrecedesIsAnOrder ==
    ASSUME NEW n \in Nat, NEW all, Sortable(all, n), NEW i \in 1 .. n, NEW j \in 1 .. n
    PROVE  /\ ~Before(all, i, i)
           /\ Before(all, i, j) \/ Before(all, j, i) \/ i = j
           /\ ~(Before(all, i, j) /\ Before(all, j, i))
           /\ \A k \in 1 .. n : Before(all, i, j) /\ Before(all, j, k) => Before(all, i, k)
<1> DEFINE w(x) == SortStep(all[x].payload)
           late(x) == IF all[x].role = "thief" THEN 0 ELSE 1
<1>1. \A x \in 1 .. n : w(x) \in Int
  BY DEF Sortable, SortStep
<1>2. \A x \in 1 .. n : late(x) \in 0 .. 1
  OBVIOUS
<1>3. \A x, y \in 1 .. n : Precedes(all[x], all[y]) <=> w(x) < w(y) \/ (w(x) = w(y) /\ late(x) < late(y))
  BY DEF Precedes
<1> HIDE DEF w, late
<1> QED BY <1>1, <1>2, <1>3 DEF Before

\* As many records come before the i-th as its place in the order.
LEMMA SortedKeeps ==
    ASSUME NEW n \in Nat, NEW all, Sortable(all, n)
    PROVE  /\ Len(Sorted(all)) \in Nat /\ DOMAIN Sorted(all) = 1 .. Len(Sorted(all))
           /\ \A k \in 1 .. Len(Sorted(all)) : \E i \in 1 .. n : Sorted(all)[k] = all[i]
<1> DEFINE kept == {i \in DOMAIN all : Audited(all[i].payload)}
           Upto(i) == {j \in kept : \/ Precedes(all[j], all[i])
                                    \/ j <= i /\ ~Precedes(all[i], all[j])}
           m == Cardinality(kept)
<1>1. kept \subseteq 1 .. n /\ IsFiniteSet(kept) /\ m \in Nat
  <2>1. kept \subseteq 1 .. n
    BY DEF Sortable
  <2>2. IsFiniteSet(1 .. n)
    BY FS_Interval
  <2> QED BY <2>1, <2>2, FS_Subset, FS_CardinalityType
<1>2. \A i, j \in kept : j \in Upto(i) <=> Before(all, j, i) \/ j = i
  <2> TAKE i \in kept, j \in kept
  <2>1. ~Precedes(all[i], all[i]) /\ i \in Int /\ j \in Int
    BY <1>1, PrecedesIsAnOrder DEF Before
  <2> QED BY <2>1 DEF Before
<1>3. ASSUME NEW i \in kept
      PROVE  Upto(i) \subseteq kept /\ IsFiniteSet(Upto(i)) /\ Cardinality(Upto(i)) \in 1 .. m
  <2>1. Upto(i) \subseteq kept /\ i \in Upto(i)
    BY <1>2
  <2>2. IsFiniteSet(Upto(i)) /\ Cardinality(Upto(i)) <= m
    BY <1>1, <2>1, FS_Subset
  <2>3. Cardinality(Upto(i)) \in Nat /\ Cardinality(Upto(i)) # 0
    BY <2>1, <2>2, FS_CardinalityType, FS_EmptySet
  <2> QED BY <1>1, <2>1, <2>2, <2>3
\* The later of two records has more before it.
<1>4. ASSUME NEW i \in kept, NEW j \in kept, Before(all, i, j)
      PROVE  Cardinality(Upto(i)) # Cardinality(Upto(j))
  <2>1. Upto(i) \subseteq Upto(j)
    <3> SUFFICES ASSUME NEW k \in kept, k \in Upto(i) PROVE k \in Upto(j)
      BY <1>3
    <3>1. Before(all, k, i) \/ k = i
      BY <1>2
    <3>2. Before(all, k, j)
      BY <1>1, <1>4, <3>1, PrecedesIsAnOrder
    <3> QED BY <1>2, <3>2
  <2>2. j \in Upto(j) /\ j \notin Upto(i)
    BY <1>1, <1>2, <1>4, PrecedesIsAnOrder
  <2> QED BY <1>3, <2>1, <2>2, FS_Subset
<1>5. PICK f : f = [i \in kept |-> Cardinality(Upto(i))]
  OBVIOUS
<1> HIDE DEF kept, Upto, m
<1>6. f \in Injection(kept, 1 .. m)
  <2>1. f \in [kept -> 1 .. m]
    BY <1>3, <1>5
  <2>2. \A i, j \in kept : f[i] = f[j] => i = j
    BY <1>1, <1>4, <1>5, PrecedesIsAnOrder
  <2> QED BY <2>1, <2>2 DEF Injection, IsInjective
<1>7. \A k \in 1 .. m : \E i \in kept : f[i] = k
  <2>1. IsFiniteSet(1 .. m) /\ Cardinality(1 .. m) = m
    BY <1>1, FS_Interval
  <2>2. f \in Surjection(kept, 1 .. m)
    BY <1>6, <2>1, FS_Injection DEF m
  <2> QED BY <2>2 DEF Surjection
<1>8. Sorted(all) = [k \in 1 .. m |-> all[CHOOSE i \in kept : Cardinality(Upto(i)) = k]]
  BY DEF Sorted, m, kept, Upto
<1>9. Len(Sorted(all)) = m /\ DOMAIN Sorted(all) = 1 .. m
  BY <1>1, <1>8
<1>10. ASSUME NEW k \in 1 .. m PROVE \E i \in 1 .. n : Sorted(all)[k] = all[i]
  <2> DEFINE c == CHOOSE i \in kept : Cardinality(Upto(i)) = k
  <2>1. c \in kept
    BY <1>5, <1>7
  <2>2. Sorted(all)[k] = all[c]
    BY <1>8
  <2> HIDE DEF c
  <2> QED BY <1>1, <2>1, <2>2
<1> QED BY <1>1, <1>9, <1>10

-----------------------------------------------------------------------------
(* The logs as they are revealed.                                          *)

LogsOK == thiefLog \in Seq(ThiefPayloads) /\ policeLog \in Seq(PolicePayloads)

StoryOK ==
    /\ Len(Story) \in Nat /\ DOMAIN Story = 1 .. Len(Story)
    /\ \A k \in 1 .. Len(Story) : Story[k].role \in Roles /\ Story[k].payload.step \in Int \cup {None}

LEMMA LogsStay == RevealSpec => []LogsOK
<1>1. NothingRevealed => LogsOK
  BY DEF NothingRevealed, LogsOK
<1>2. LogsOK /\ [Reveal]_logs => LogsOK'
  <2> SUFFICES ASSUME LogsOK, [Reveal]_logs PROVE LogsOK'
    OBVIOUS
  <2>1. ASSUME NEW p \in ThiefPayloads, RevealThief(p) PROVE LogsOK'
    BY <2>1, AppendProperties DEF RevealThief, LogsOK
  <2>2. ASSUME NEW p \in PolicePayloads, RevealPolice(p) PROVE LogsOK'
    BY <2>2, AppendProperties DEF RevealPolice, LogsOK
  <2>3. CASE UNCHANGED logs
    BY <2>3 DEF logs, LogsOK
  <2> QED BY <2>1, <2>2, <2>3 DEF Reveal
<1> QED BY <1>1, <1>2, PTL DEF RevealSpec

LEMMA StoryType == ASSUME LogsOK PROVE StoryOK
<1> DEFINE all == Entries("thief", thiefLog) \o Entries("police", policeLog)
           S == ThiefPayloads \cup PolicePayloads
           E == [role : Roles, payload : S]
<1>1. Entries("thief", thiefLog) \in Seq(E) /\ Entries("police", policeLog) \in Seq(E)
  BY LenProperties DEF Entries, LogsOK, Roles
<1>2. PICK n \in Nat : n = Len(all)
  BY <1>1, ConcatProperties, LenProperties
<1>3. all \in Seq(E) /\ DOMAIN all = 1 .. n
  BY <1>1, <1>2, ConcatProperties, LenProperties
<1>4. \A i \in 1 .. n : all[i] \in E
  BY <1>2, <1>3, ElementOfSeq
<1>5. Sortable(all, n)
  BY <1>3, <1>4, PayloadsAssumption DEF Sortable
<1>6. Story = Sorted(all)
  BY DEF Story, Decorated
<1> HIDE DEF all
<1> QED BY <1>2, <1>5, <1>6, SortedKeeps DEF StoryOK, Sortable

\* Where a role is after one more record.
LEMMA WhereNext ==
    ASSUME NEW role, NEW k \in Nat
    PROVE  Where(role, k + 1) = IF Story[k + 1].role = role THEN Story[k + 1].payload.position
                                ELSE Where(role, k)
<1> DEFINE own(n) == {i \in 1 .. n : Story[i].role = role}
<1>1. CASE Story[k + 1].role = role
  <2>1. k + 1 \in own(k + 1) /\ \A j \in own(k + 1) : j <= k + 1
    BY <1>1
  <2>2. \A i \in own(k + 1) : (\A j \in own(k + 1) : j <= i) => i = k + 1
    BY <2>1
  <2>3. LastOf(role, k + 1) = k + 1
    <3> DEFINE c == CHOOSE i \in own(k + 1) : \A j \in own(k + 1) : j <= i
    <3>1. c \in own(k + 1) /\ \A j \in own(k + 1) : j <= c
      BY <2>1
    <3>2. c = k + 1
      BY <2>2, <3>1
    <3> QED BY <2>1, <3>2 DEF LastOf
  <2> QED BY <1>1, <2>3 DEF Where
<1>2. CASE Story[k + 1].role # role
  <2>1. own(k + 1) = own(k)
    BY <1>2
  <2>2. \A n : LastOf(role, n) = IF own(n) = {} THEN 0 ELSE CHOOSE i \in own(n) : \A j \in own(n) : j <= i
    BY DEF LastOf
  <2>3. LastOf(role, k + 1) = LastOf(role, k)
    <3> HIDE DEF own
    <3> QED BY <2>1, <2>2
  <2> QED BY <1>2, <2>3 DEF Where
<1> QED BY <1>1, <1>2

LEMMA WhereFirst == Where("thief", 0) = ThiefStart /\ Where("police", 0) = CopStart
<1>1. \A role : LastOf(role, 0) = 0
  BY DEF LastOf
<1> QED BY <1>1 DEF Where

-----------------------------------------------------------------------------
(* What one record does to what the audit knows.                           *)

IsState(a) ==
    a = [position |-> [police |-> a.position.police, thief |-> a.position.thief],
         seen |-> a.seen, errors |-> a.errors, coincidence |-> a.coincidence,
         capture |-> a.capture, trailing |-> a.trailing, pending |-> a.pending]

\* From a to b, nothing but the exchange of claims and answers has gone on.
Exchanges(a, b) ==
    /\ IsState(b) /\ b.position = a.position /\ b.seen = a.seen
    /\ a.errors \subseteq b.errors
    /\ \A f \in b.errors : f \in a.errors \/ f[1] = "response_cell"

LEMMA FaultFields ==
    ASSUME NEW a, IsState(a), NEW kind, NEW e
    PROVE  LET b == Fault(a, kind, e) IN
           /\ IsState(b) /\ b.errors = a.errors \cup {<<kind, e.role, e.payload.step>>}
           /\ b.position = a.position /\ b.seen = a.seen
BY DEF IsState, Fault

LEMMA WithFaultsFields ==
    ASSUME NEW a, IsState(a), NEW kinds, NEW e
    PROVE  LET b == WithFaults(a, kinds, e) IN
           /\ IsState(b) /\ b.position = a.position /\ b.seen = a.seen
           /\ b.errors = a.errors \cup {<<k, e.role, e.payload.step>> : k \in kinds}
           /\ kinds = {} => b = a
BY DEF IsState, WithFaults

\* Changing one field.
LEMMA PendingSet ==
    ASSUME NEW a, IsState(a), NEW x, NEW b, b = [a EXCEPT !.pending = x]
    PROVE  /\ IsState(b) /\ b.position = a.position /\ b.seen = a.seen /\ b.errors = a.errors
           /\ b.capture = a.capture /\ b.coincidence = a.coincidence /\ b.pending = x
BY DEF IsState

LEMMA CaptureSet ==
    ASSUME NEW a, IsState(a), NEW x, NEW b, b = [a EXCEPT !.capture = x]
    PROVE  /\ IsState(b) /\ b.position = a.position /\ b.seen = a.seen /\ b.errors = a.errors
           /\ b.capture = x /\ b.coincidence = a.coincidence /\ b.pending = a.pending
BY DEF IsState

LEMMA CoincidenceSet ==
    ASSUME NEW a, IsState(a), NEW x, NEW b, b = [a EXCEPT !.coincidence = x]
    PROVE  /\ IsState(b) /\ b.position = a.position /\ b.seen = a.seen /\ b.errors = a.errors
           /\ b.capture = a.capture /\ b.pending = a.pending
BY DEF IsState

LEMMA TrailingSet ==
    ASSUME NEW a, IsState(a), NEW x, NEW b, b = [a EXCEPT !.trailing = x]
    PROVE  /\ IsState(b) /\ b.position = a.position /\ b.seen = a.seen /\ b.errors = a.errors
           /\ b.capture = a.capture /\ b.pending = a.pending
BY DEF IsState

Put(a, r, x) == [a EXCEPT !.position[r] = x]

PutAt(b, a, r, x) ==
    /\ IsState(b) /\ b.seen = a.seen /\ b.errors = a.errors
    /\ b.capture = a.capture /\ b.coincidence = a.coincidence /\ b.pending = a.pending
    /\ b.position = [a.position EXCEPT ![r] = x]

LEMMA PositionSet == ASSUME NEW a, IsState(a), NEW r \in Roles, NEW x PROVE PutAt(Put(a, r, x), a, r, x)
<1>0. PICK b : b = [a EXCEPT !.position[r] = x]
  OBVIOUS
<1>1. PICK p, t, s, e, c, k, n, d :
        a = [position |-> [police |-> p, thief |-> t], seen |-> s, errors |-> e, coincidence |-> c,
             capture |-> k, trailing |-> n, pending |-> d]
  BY DEF IsState
<1>2. CASE r = "thief"
  <2>1. b = [position |-> [police |-> p, thief |-> x], seen |-> s, errors |-> e, coincidence |-> c,
             capture |-> k, trailing |-> n, pending |-> d]
    BY <1>0, <1>1, <1>2
  <2> QED BY <1>0, <1>1, <1>2, <2>1, RoleFacts DEF IsState, PutAt, Put
<1>3. CASE r = "police"
  <2>1. b = [position |-> [police |-> x, thief |-> t], seen |-> s, errors |-> e, coincidence |-> c,
             capture |-> k, trailing |-> n, pending |-> d]
    BY <1>0, <1>1, <1>3
  <2> QED BY <1>0, <1>1, <1>3, <2>1, RoleFacts DEF IsState, PutAt, Put
<1> QED BY <1>2, <1>3, RoleFacts

LEMMA AnsweredFields ==
    ASSUME NEW a, IsState(a), NEW e
    PROVE  Exchanges(a, Answered(a, e))
<1>1. PICK b : b = [a EXCEPT !.pending = None]
  OBVIOUS
<1>2. PICK c : c = [b EXCEPT !.capture = a.pending.step]
  OBVIOUS
<1>3. PICK d : d = Fault(b, "response_cell", e)
  OBVIOUS
<1>4. IsState(b) /\ b.position = a.position /\ b.seen = a.seen /\ b.errors = a.errors
  BY <1>1, PendingSet
<1>5. IsState(c) /\ c.position = a.position /\ c.seen = a.seen /\ c.errors = a.errors
  BY <1>2, <1>4, CaptureSet
<1>6. IsState(d) /\ d.position = a.position /\ d.seen = a.seen
      /\ d.errors = a.errors \cup {<<"response_cell", e.role, e.payload.step>>}
  BY <1>3, <1>4, FaultFields
<1>7. Answered(a, e) = a \/ Answered(a, e) = b \/ Answered(a, e) = c \/ Answered(a, e) = d
  BY <1>1, <1>2, <1>3 DEF Answered
<1>8. Exchanges(a, a) /\ Exchanges(a, b) /\ Exchanges(a, c)
  BY <1>4, <1>5 DEF Exchanges
<1>9. Exchanges(a, d)
  BY <1>6 DEF Exchanges
<1> QED BY <1>7, <1>8, <1>9

LEMMA ClaimedFields ==
    ASSUME NEW a, IsState(a), NEW e
    PROVE  Exchanges(a, Claimed(a, e)) /\ Claimed(a, e).errors = a.errors
<1>1. PICK b : b = [a EXCEPT !.pending = [step |-> e.payload.step, cell |-> e.payload.barrier]]
  OBVIOUS
<1>2. PICK c : c = [a EXCEPT !.pending = [step |-> e.payload.step, cell |-> e.payload.claim]]
  OBVIOUS
<1>3. Claimed(a, e) = a \/ Claimed(a, e) = b \/ Claimed(a, e) = c
  BY <1>1, <1>2 DEF Claimed
<1>4. IsState(b) /\ b.position = a.position /\ b.seen = a.seen /\ b.errors = a.errors
  BY <1>1 DEF IsState
<1>5. IsState(c) /\ c.position = a.position /\ c.seen = a.seen /\ c.errors = a.errors
  BY <1>2 DEF IsState
<1>6. Exchanges(a, a) /\ Exchanges(a, b) /\ Exchanges(a, c)
  BY <1>4, <1>5 DEF Exchanges
<1> QED BY <1>3, <1>4, <1>5, <1>6

\* The state with the new position, before anything is exchanged.
Placing(a, e, post) ==
    LET b == [a EXCEPT !.position[e.role] = post] IN
    IF Coincide(b.position) /\ b.coincidence = None
    THEN [b EXCEPT !.coincidence = <<e.payload.step, e.role>>] ELSE b

PlacedOf(b, a, e, post) ==
    /\ IsState(b) /\ b.seen = a.seen /\ b.errors = a.errors
    /\ b.position = [a.position EXCEPT ![e.role] = post]
    /\ b.capture = a.capture /\ b.pending = a.pending

LEMMA PlacingFields ==
    ASSUME NEW a, IsState(a), NEW e, e.role \in Roles, NEW post
    PROVE  PlacedOf(Placing(a, e, post), a, e, post)
<1>0. PICK r \in Roles : r = e.role
  OBVIOUS
<1>1. PICK b : b = Put(a, r, post)
  OBVIOUS
<1>a. PutAt(b, a, r, post)
  BY <1>1, PositionSet
<1>2. PICK c : c = [b EXCEPT !.coincidence = <<e.payload.step, e.role>>]
  OBVIOUS
<1>3. /\ IsState(b) /\ b.seen = a.seen /\ b.errors = a.errors
      /\ b.position = [a.position EXCEPT ![r] = post]
      /\ b.capture = a.capture /\ b.pending = a.pending
  BY <1>a DEF PutAt
<1>4. /\ IsState(c) /\ c.seen = b.seen /\ c.errors = b.errors /\ c.position = b.position
      /\ c.capture = b.capture /\ c.pending = b.pending
  BY <1>2, <1>3, CoincidenceSet
<1>5. Placing(a, e, post) \in {b, c}
  BY <1>0, <1>1, <1>2 DEF Placing, Put
<1> QED BY <1>0, <1>3, <1>4, <1>5 DEF PlacedOf

\* A record with a position changes that position, and no fault in the turns is found.
ReplayedOf(b, a, e, post) ==
    /\ IsState(b) /\ b.seen = a.seen /\ a.errors \subseteq b.errors
    /\ b.position = [a.position EXCEPT ![e.role] = post]
    /\ \A f \in b.errors : f \in a.errors \/ f[1] = "response_cell"

LEMMA ReplayedFields ==
    ASSUME NEW a, IsState(a), NEW e, e.role \in Roles, NEW post
    PROVE  ReplayedOf(Replayed(a, e, post), a, e, post)
<1>0. PICK r \in Roles : r = e.role
  OBVIOUS
<1>1. PICK b : b = Put(a, r, post)
  OBVIOUS
<1>a. PutAt(b, a, r, post)
  BY <1>1, PositionSet
<1>2. PICK d : d = [b EXCEPT !.trailing = @ + 1]
  OBVIOUS
<1>3. PICK c : c = Placing(a, e, post)
  OBVIOUS
<1>4. /\ IsState(b) /\ b.seen = a.seen /\ b.errors = a.errors
      /\ b.position = [a.position EXCEPT ![r] = post]
  BY <1>a DEF PutAt
<1>5. IsState(d) /\ d.seen = a.seen /\ d.errors = a.errors /\ d.position = b.position
  BY <1>2, <1>4, TrailingSet
<1>6. \/ Replayed(a, e, post) \in {b, d}
      \/ Replayed(a, e, post) = Claimed(Answered(c, e), e)
  BY <1>0, <1>1, <1>2, <1>3 DEF Replayed, Exchanged, Placing, Put
<1>7. IsState(c) /\ c.seen = a.seen /\ c.errors = a.errors
      /\ c.position = [a.position EXCEPT ![e.role] = post]
  BY <1>3, PlacingFields DEF PlacedOf
<1>8. Exchanges(c, Answered(c, e))
  BY <1>7, AnsweredFields
<1>9. Exchanges(Answered(c, e), Claimed(Answered(c, e), e))
  BY <1>8, ClaimedFields DEF Exchanges
<1>10. CASE Replayed(a, e, post) \in {b, d}
  BY <1>0, <1>4, <1>5, <1>10 DEF ReplayedOf
<1>11. CASE Replayed(a, e, post) = Claimed(Answered(c, e), e)
  BY <1>7, <1>8, <1>9, <1>11 DEF Exchanges, ReplayedOf
<1> QED BY <1>6, <1>10, <1>11

-----------------------------------------------------------------------------
(* What a lawful record is, and that nothing else passes the replay.       *)

Announced(e, seen) ==
    LET p == e.payload IN
    p.step # None /\ p.role \in {None, e.role} /\ <<e.role, p.step>> \notin seen

Lawful(e, from, seen) == Announced(e, seen) /\ MovesWell(e.payload, from) /\ BuildsWell(e, from)

LEMMA PostFound ==
    ASSUME NEW p, NEW from \in Cell, p.position # None
    PROVE  RevealedPost(p, from) = IF MovesWell(p, from) THEN Found(p.position) ELSE Broken
<1>1. from # None
  BY StartAssumption
<1>2. CASE ReadMove(p) \in Moves
  <2>1. RevealedPost(p, from) = Moved(p, from)
    BY <1>1, <1>2 DEF RevealedPost
  <2> DEFINE target == Destination(from, ReadMove(p))
  <2>2. Moved(p, from) = IF target \in Cell /\ p.position = target /\ p.state \in {None, from, target}
                         THEN Found(target) ELSE Broken
    BY DEF Moved
  <2>3. MovesWell(p, from) <=> p.position \in Cell /\ p.position = target
                               /\ p.state \in {None, from, p.position}
    BY <1>2 DEF MovesWell
  <2> HIDE DEF target
  <2> QED BY <2>1, <2>2, <2>3
<1>3. CASE ReadMove(p) \notin Moves
  <2>1. RevealedPost(p, from) = Located(p, from)
    BY <1>1, <1>3 DEF RevealedPost
  <2>2. CASE p.position \notin Cell
    BY <2>1, <2>2 DEF Located, MovesWell
  <2>3. CASE p.position \in Cell
    <3> DEFINE far == Distance(p.position, from)
    <3>1. far \in Int
      BY <2>3 DEF Distance, Gap, Cell
    <3>2. Located(p, from) = IF p.state \notin {None, from, p.position} \/ far > 1
                             THEN Broken ELSE Found(p.position)
      BY <1>1, <2>3 DEF Located
    <3>3. MovesWell(p, from) <=> far <= 1 /\ p.state \in {None, from, p.position}
      BY <1>3, <2>3 DEF MovesWell
    <3> HIDE DEF far
    <3> QED BY <2>1, <3>1, <3>2, <3>3
  <2> QED BY <2>2, <2>3
<1> QED BY <1>2, <1>3

LEMMA ReachOfBarrier ==
    ASSUME NEW from \in Cell, NEW c \in Cell
    PROVE  Distance(c, from) > 1 <=> c \notin Neighbors(from) \cup {from}
<1>1. PICK x \in 0 .. Size - 1, y \in 0 .. Size - 1 : from = <<x, y>>
  BY DEF Cell
<1>2. PICK u \in 0 .. Size - 1, v \in 0 .. Size - 1 : c = <<u, v>>
  BY DEF Cell
<1>3. Distance(c, from) = Gap(u, x) + Gap(v, y)
  BY <1>1, <1>2 DEF Distance
<1>4. Size \in Nat
  BY SizeAssumption
<1>5. Gap(u, x) \in Nat /\ Gap(v, y) \in Nat /\ (Gap(u, x) = 0 <=> u = x) /\ (Gap(v, y) = 0 <=> v = y)
  BY <1>4 DEF Gap
<1>6. c = from <=> Gap(u, x) = 0 /\ Gap(v, y) = 0
  BY <1>1, <1>2, <1>5
<1>7. c \in Neighbors(from) <=> Gap(u, x) + Gap(v, y) = 1
  BY <1>3 DEF Neighbors
<1> QED BY <1>3, <1>5, <1>6, <1>7

LEMMA BarrierFaults ==
    ASSUME NEW e, e.role \in Roles, NEW from \in Cell
    PROVE  BuildsWell(e, from) <=> /\ TargetFaults(e) = {}
                                   /\ PlacementFaults(e, from, e.payload.position) = {}
<1> DEFINE p == e.payload
<1>0. from # None
  BY StartAssumption
<1>1. TargetFaults(e) = {} <=> (p.barrier # None => e.role # "thief" /\ p.barrier \in Cell)
  <2>1. "thief_barrier" \in TargetFaults(e) <=> p.barrier # None /\ e.role = "thief"
    BY DEF TargetFaults
  <2>2. "barrier_target" \in TargetFaults(e) <=> p.barrier # None /\ p.barrier \notin Cell
    BY DEF TargetFaults
  <2>3. TargetFaults(e) \subseteq {"thief_barrier", "barrier_target"}
    BY DEF TargetFaults
  <2> QED BY <2>1, <2>2, <2>3
<1>2. PlacementFaults(e, from, p.position) = {}
        <=> (p.barrier # None /\ e.role = "police" => p.position = from /\ ~(Distance(p.barrier, from) > 1))
  <2> DEFINE P == PlacementFaults(e, from, p.position)
  <2>1. "barrier_and_move" \in P <=> p.barrier # None /\ e.role = "police" /\ p.position # from
    BY <1>0 DEF PlacementFaults
  <2>2. "barrier_far" \in P <=> p.barrier # None /\ e.role = "police" /\ Distance(p.barrier, from) > 1
    BY <1>0 DEF PlacementFaults
  <2>3. P \subseteq {"barrier_and_move", "barrier_far"}
    BY DEF PlacementFaults
  <2> HIDE DEF P
  <2>4. P = {} <=> "barrier_and_move" \notin P /\ "barrier_far" \notin P
    BY <2>3
  <2> QED BY <2>1, <2>2, <2>4 DEF P
<1>3. p.barrier \in Cell => (Distance(p.barrier, from) > 1 <=> p.barrier \notin Neighbors(from) \cup {from})
  BY ReachOfBarrier
<1>4. Neighbors(from) \cup {from} \subseteq Cell
  BY NeighborsAreCells
<1> QED BY <1>1, <1>2, <1>3, <1>4, RoleFacts DEF BuildsWell

-----------------------------------------------------------------------------
(* One record of the audit.                                                *)

Seeing(a, e) == [a EXCEPT !.seen = @ \cup {<<e.role, e.payload.step>>}]
Knowing(a, e) == WithFaults(Seeing(a, e), TargetFaults(e), e)

LEMMA SeeingFields ==
    ASSUME NEW a, IsState(a), NEW e
    PROVE  LET b == Seeing(a, e) IN
           /\ IsState(b) /\ b.seen = a.seen \cup {<<e.role, e.payload.step>>}
           /\ b.position = a.position /\ b.errors = a.errors
           /\ b.capture = a.capture /\ b.pending = a.pending
BY DEF IsState, Seeing

LEMMA RecordCases ==
    ASSUME NEW a, NEW e
    PROVE  LET p == e.payload
               b == AuditRecord(a, e)
               post == RevealedPost(p, a.position[e.role])
               known == Knowing(a, e)
           IN /\ ~Announced(e, a.seen) => \E kind \in {"step", "role", "duplicate"} : b = Fault(a, kind, e)
              /\ Announced(e, a.seen) =>
                   IF post.error THEN b = Fault(known, "position", e)
                   ELSE IF post.cell = None THEN b = [known EXCEPT !.position[e.role] = None]
                   ELSE b = Replayed(WithFaults(known, PlacementFaults(e, a.position[e.role], post.cell), e),
                                     e, post.cell)
<1> DEFINE p == e.payload  post == RevealedPost(p, a.position[e.role])  known == Knowing(a, e)
<1>1. CASE p.step = None
  BY <1>1 DEF AuditRecord, Announced
<1>2. CASE p.step # None /\ p.role \notin {None, e.role}
  BY <1>2 DEF AuditRecord, Announced
<1>3. CASE p.step # None /\ p.role \in {None, e.role} /\ <<e.role, p.step>> \in a.seen
  BY <1>3 DEF AuditRecord, Announced
<1>4. CASE p.step # None /\ p.role \in {None, e.role} /\ <<e.role, p.step>> \notin a.seen
  <2>1. known = WithFaults([a EXCEPT !.seen = @ \cup {<<e.role, p.step>>}], TargetFaults(e), e)
    BY DEF Knowing, Seeing
  <2>2. post.error => AuditRecord(a, e) = Fault(known, "position", e)
    BY <1>4, <2>1 DEF AuditRecord
  <2>3. ~post.error =>
          AuditRecord(a, e) =
            IF post.cell = None THEN [known EXCEPT !.position[e.role] = None]
            ELSE Replayed(WithFaults(known, PlacementFaults(e, a.position[e.role], post.cell), e),
                          e, post.cell)
    BY <1>4, <2>1 DEF AuditRecord
  <2>4. Announced(e, a.seen)
    BY <1>4 DEF Announced
  <2> HIDE DEF known, post
  <2>5. IF post.error THEN AuditRecord(a, e) = Fault(known, "position", e)
        ELSE IF post.cell = None THEN AuditRecord(a, e) = [known EXCEPT !.position[e.role] = None]
        ELSE AuditRecord(a, e) = Replayed(WithFaults(known, PlacementFaults(e, a.position[e.role], post.cell), e),
                     e, post.cell)
    BY <2>2, <2>3
  <2> QED BY <2>4, <2>5 DEF known, post
<1> QED BY <1>1, <1>2, <1>3, <1>4

LEMMA KnowingFields ==
    ASSUME NEW a, IsState(a), NEW e
    PROVE  LET b == Knowing(a, e) IN
           /\ IsState(b) /\ b.seen = a.seen \cup {<<e.role, e.payload.step>>}
           /\ b.position = a.position /\ a.errors \subseteq b.errors
           /\ TargetFaults(e) = {} => b = Seeing(a, e)
           /\ \A k \in TargetFaults(e) : <<k, e.role, e.payload.step>> \in b.errors
<1>1. PICK s : s = Seeing(a, e)
  OBVIOUS
<1>2. /\ IsState(s) /\ s.seen = a.seen \cup {<<e.role, e.payload.step>>}
      /\ s.position = a.position /\ s.errors = a.errors
  BY <1>1, SeeingFields
<1>3. PICK K : K = TargetFaults(e)
  OBVIOUS
<1>4. PICK b : b = WithFaults(s, K, e)
  OBVIOUS
<1>5. /\ IsState(b) /\ b.position = s.position /\ b.seen = s.seen
      /\ b.errors = s.errors \cup {<<k, e.role, e.payload.step>> : k \in K}
      /\ K = {} => b = s
  BY <1>2, <1>4, WithFaultsFields
<1>6. b = Knowing(a, e)
  BY <1>1, <1>3, <1>4 DEF Knowing
<1> QED BY <1>1, <1>2, <1>3, <1>5, <1>6

\* A lawful record is replayed, and leaves no fault in the turns.
LEMMA LawfulRecord ==
    ASSUME NEW a, IsState(a), NEW e, e.role \in Roles, a.position[e.role] \in Cell,
           e.payload.position # None, Lawful(e, a.position[e.role], a.seen)
    PROVE  AuditRecord(a, e) = Replayed(Seeing(a, e), e, e.payload.position)
<1>1. PICK from \in Cell : from = a.position[e.role]
  OBVIOUS
<1>2. PICK p : p = e.payload
  OBVIOUS
<1>3. Announced(e, a.seen) /\ MovesWell(p, from) /\ BuildsWell(e, from)
  BY <1>1, <1>2 DEF Lawful
<1>4. RevealedPost(p, from) = Found(p.position)
  BY <1>1, <1>2, <1>3, PostFound
<1>5. TargetFaults(e) = {} /\ PlacementFaults(e, from, p.position) = {}
  BY <1>1, <1>2, <1>3, BarrierFaults
<1>6. PICK s : s = Seeing(a, e)
  OBVIOUS
<1>7. IsState(s)
  BY <1>6, SeeingFields
<1>8. Knowing(a, e) = s
  BY <1>5, <1>6, KnowingFields
<1>9. WithFaults(s, {}, e) = s
  BY <1>7, WithFaultsFields
<1>10. ~RevealedPost(p, from).error /\ RevealedPost(p, from).cell = p.position
  BY <1>4 DEF Found
<1>11. AuditRecord(a, e) = Replayed(WithFaults(Knowing(a, e), PlacementFaults(e, from, p.position), e), e, p.position)
  BY <1>1, <1>2, <1>3, <1>10, RecordCases
<1> QED BY <1>2, <1>5, <1>6, <1>8, <1>9, <1>11

\* Whatever a record is, what was known stays known.
LEMMA RecordGrows ==
    ASSUME NEW a, IsState(a), NEW e, e.role \in Roles
    PROVE  IsState(AuditRecord(a, e)) /\ a.errors \subseteq AuditRecord(a, e).errors
<1>1. PICK known : known = Knowing(a, e)
  OBVIOUS
<1>2. IsState(known) /\ a.errors \subseteq known.errors
  BY <1>1, KnowingFields
<1>3. PICK post : post = RevealedPost(e.payload, a.position[e.role])
  OBVIOUS
<1>4. PICK r \in Roles : r = e.role
  OBVIOUS
<1>5. PICK placed : placed = WithFaults(known, PlacementFaults(e, a.position[e.role], post.cell), e)
  OBVIOUS
<1>6. IsState(placed) /\ a.errors \subseteq placed.errors
  BY <1>2, <1>5, WithFaultsFields
<1>7. \/ \E kind : AuditRecord(a, e) = Fault(a, kind, e)
      \/ AuditRecord(a, e) = Fault(known, "position", e)
      \/ AuditRecord(a, e) = Put(known, r, None)
      \/ AuditRecord(a, e) = Replayed(placed, e, post.cell)
  <2>1. CASE ~Announced(e, a.seen)
    BY <2>1, RecordCases
  <2>2. CASE Announced(e, a.seen)
    BY <1>1, <1>3, <1>4, <1>5, <2>2, RecordCases DEF Put
  <2> QED BY <2>1, <2>2
<1>8. ASSUME NEW kind, AuditRecord(a, e) = Fault(a, kind, e)
      PROVE  IsState(AuditRecord(a, e)) /\ a.errors \subseteq AuditRecord(a, e).errors
  BY <1>8, FaultFields
<1>9. CASE AuditRecord(a, e) = Fault(known, "position", e)
  BY <1>2, <1>9, FaultFields
<1>10. CASE AuditRecord(a, e) = Put(known, r, None)
  <2>1. PutAt(Put(known, r, None), known, r, None)
    BY <1>2, PositionSet
  <2> QED BY <1>2, <1>10, <2>1 DEF PutAt
<1>11. CASE AuditRecord(a, e) = Replayed(placed, e, post.cell)
  <2>1. ReplayedOf(Replayed(placed, e, post.cell), placed, e, post.cell)
    BY <1>6, ReplayedFields
  <2> QED BY <1>6, <1>11, <2>1 DEF ReplayedOf
<1> QED BY <1>7, <1>8, <1>9, <1>10, <1>11

Bad(errors) == \E f \in errors : f[1] # "response_cell"

\* Any other leaves one.
LEMMA UnlawfulRecord ==
    ASSUME NEW a, IsState(a), NEW e, e.role \in Roles, a.position[e.role] \in Cell,
           e.payload.position # None, ~Lawful(e, a.position[e.role], a.seen)
    PROVE  Bad(AuditRecord(a, e).errors)
<1>1. PICK from \in Cell : from = a.position[e.role]
  OBVIOUS
<1>2. PICK p : p = e.payload
  OBVIOUS
<1>3. PICK known : known = Knowing(a, e)
  OBVIOUS
<1>4. IsState(known) /\ (\A k \in TargetFaults(e) : <<k, e.role, p.step>> \in known.errors)
  BY <1>2, <1>3, KnowingFields
<1>5. CASE ~Announced(e, a.seen)
  <2>1. PICK kind \in {"step", "role", "duplicate"} : AuditRecord(a, e) = Fault(a, kind, e)
    BY <1>5, RecordCases
  <2>2. <<kind, e.role, e.payload.step>> \in AuditRecord(a, e).errors
    BY <2>1, FaultFields
  <2> QED BY <2>1, <2>2 DEF Bad
<1>6. CASE Announced(e, a.seen) /\ ~MovesWell(p, from)
  <2>1. RevealedPost(p, from).error
    BY <1>1, <1>2, <1>6, PostFound DEF Broken
  <2>2. AuditRecord(a, e) = Fault(known, "position", e)
    BY <1>1, <1>2, <1>3, <1>6, <2>1, RecordCases
  <2>3. <<"position", e.role, e.payload.step>> \in AuditRecord(a, e).errors
    BY <1>4, <2>2, FaultFields
  <2> QED BY <2>3 DEF Bad
<1>7. CASE Announced(e, a.seen) /\ MovesWell(p, from) /\ ~BuildsWell(e, from)
  <2>1. PICK K : K = PlacementFaults(e, from, p.position)
    OBVIOUS
  <2>2. PICK placed : placed = WithFaults(known, K, e)
    OBVIOUS
  <2>3. /\ IsState(placed)
        /\ placed.errors = known.errors \cup {<<k, e.role, e.payload.step>> : k \in K}
    BY <1>4, <2>2, WithFaultsFields
  <2>4. RevealedPost(p, from) = Found(p.position) /\ p.position # None
    BY <1>1, <1>2, <1>7, PostFound
  <2>5. ~RevealedPost(p, from).error /\ RevealedPost(p, from).cell = p.position
    BY <2>4 DEF Found
  <2>6. AuditRecord(a, e) = Replayed(placed, e, p.position)
    BY <1>1, <1>2, <1>3, <1>7, <2>1, <2>2, <2>4, <2>5, RecordCases
  <2>7. placed.errors \subseteq AuditRecord(a, e).errors
    <3>1. ReplayedOf(Replayed(placed, e, p.position), placed, e, p.position)
      BY <2>3, ReplayedFields
    <3> QED BY <2>6, <3>1 DEF ReplayedOf
  <2>8. TargetFaults(e) # {} \/ K # {}
    BY <1>1, <1>2, <1>7, <2>1, BarrierFaults
  <2>9. PICK k \in TargetFaults(e) \cup K : <<k, e.role, p.step>> \in placed.errors
    BY <1>2, <1>4, <2>3, <2>8
  <2>10. k # "response_cell"
    BY <2>1, <2>9 DEF TargetFaults, PlacementFaults
  <2> QED BY <2>7, <2>9, <2>10 DEF Bad
<1> QED BY <1>1, <1>2, <1>5, <1>6, <1>7 DEF Lawful

-----------------------------------------------------------------------------
(* The faults in the turns of any two logs.                                *)

\* The record breaks none of the rules the replay judges by.
Unbroken(i) == Breaks(i) \subseteq OfTheBoard

AllLegal(k) == \A i \in 1 .. k : Unbroken(i)

SeenUntil(k) == {<<Story[i].role, Story[i].payload.step>> : i \in 1 .. k}

\* The audit knows where both are, and has found no fault in the turns.
Follows(a, k) ==
    /\ \A r \in Roles : a.position[r] = Where(r, k) /\ Where(r, k) \in Cell
    /\ a.seen = SeenUntil(k) /\ ~Bad(a.errors)

Tracks(a, k) == IsState(a) /\ (AllLegal(k) => Follows(a, k)) /\ (~AllLegal(k) => Bad(a.errors))

LEMMA TurnIsLawful ==
    ASSUME NEW k \in Nat
    PROVE  Unbroken(k + 1) <=> Lawful(Story[k + 1], Where(Story[k + 1].role, k), SeenUntil(k))
<1>1. PICK e : e = Story[k + 1]
  OBVIOUS
<1>2. PICK p : p = e.payload
  OBVIOUS
<1>3. PICK from : from = Where(e.role, k)
  OBVIOUS
<1>4. PICK j : j = k + 1 /\ j - 1 = k
  OBVIOUS
<1>5. <<e.role, p.step>> \notin SeenUntil(k)
        <=> \A i \in 1 .. k : Story[i].role # e.role \/ Story[i].payload.step # p.step
  BY DEF SeenUntil
<1>6. Where(Story[j].role, j - 1) = from
  BY <1>1, <1>3, <1>4
<1>7. Unbroken(j) <=> SealedOnce(j) /\ MovesWell(p, from) /\ BuildsWell(e, from)
  <2>1. Breaks(j) \subseteq {"seal", "move", "barrier"} \cup OfTheBoard
    BY DEF Breaks, OfTheBoard
  <2>2. /\ "seal" \in Breaks(j) <=> ~SealedOnce(j)
        /\ "move" \in Breaks(j) <=> ~MovesWell(p, from)
        /\ "barrier" \in Breaks(j) <=> ~BuildsWell(e, from)
    BY <1>1, <1>2, <1>4, <1>6 DEF Breaks
  <2>3. Unbroken(j) <=> {"seal", "move", "barrier"} \cap Breaks(j) = {}
    BY <2>1 DEF Unbroken, OfTheBoard
  <2> QED BY <2>2, <2>3
<1>8. SealedOnce(j) <=>
        /\ p.step # None /\ p.role \in {None, e.role}
        /\ \A i \in 1 .. k : Story[i].role # e.role \/ Story[i].payload.step # p.step
  BY <1>1, <1>2, <1>4 DEF SealedOnce
<1> QED BY <1>1, <1>2, <1>3, <1>4, <1>5, <1>7, <1>8 DEF Lawful, Announced

LEMMA TrackedStep ==
    ASSUME StoryOK, Disclosed, NEW k \in 0 .. Len(Story) - 1, NEW a, Tracks(a, k)
    PROVE  Tracks(AuditRecord(a, Story[k + 1]), k + 1)
<1>0. k \in Nat /\ k + 1 \in 1 .. Len(Story) /\ 1 .. k + 1 = 1 .. k \cup {k + 1}
  BY DEF StoryOK
<1>1. PICK e : e = Story[k + 1]
  OBVIOUS
<1>2. e.role \in Roles /\ e.payload.position # None
  BY <1>0, <1>1 DEF StoryOK, Disclosed
<1>3. PICK b : b = AuditRecord(a, e)
  OBVIOUS
<1>4. IsState(a) /\ IsState(b) /\ a.errors \subseteq b.errors
  BY <1>2, <1>3, RecordGrows DEF Tracks
<1>5. AllLegal(k + 1) <=> AllLegal(k) /\ Unbroken(k + 1)
  BY <1>0 DEF AllLegal
<1>6. Unbroken(k + 1) <=> Lawful(e, Where(e.role, k), SeenUntil(k))
  BY <1>0, <1>1, TurnIsLawful
<1>7. CASE ~AllLegal(k)
  <2>1. Bad(a.errors)
    BY <1>7 DEF Tracks
  <2>2. Bad(b.errors)
    BY <1>4, <2>1 DEF Bad
  <2> QED BY <1>1, <1>3, <1>4, <1>5, <1>7, <2>2 DEF Tracks
<1>8. CASE AllLegal(k) /\ ~Unbroken(k + 1)
  <2>1. a.position[e.role] = Where(e.role, k) /\ Where(e.role, k) \in Cell /\ a.seen = SeenUntil(k)
    BY <1>2, <1>8 DEF Tracks, Follows
  <2>2. ~Lawful(e, a.position[e.role], a.seen)
    BY <1>6, <1>8, <2>1
  <2>3. Bad(b.errors)
    BY <1>2, <1>3, <1>4, <2>1, <2>2, UnlawfulRecord
  <2> QED BY <1>1, <1>3, <1>4, <1>5, <1>8, <2>3 DEF Tracks
<1>9. CASE AllLegal(k) /\ Unbroken(k + 1)
  <2>1. /\ \A r \in Roles : a.position[r] = Where(r, k) /\ Where(r, k) \in Cell
        /\ a.seen = SeenUntil(k) /\ ~Bad(a.errors)
    BY <1>9 DEF Tracks, Follows
  <2>2. Lawful(e, a.position[e.role], a.seen)
    BY <1>2, <1>6, <1>9, <2>1
  <2>3. PICK s : s = Seeing(a, e)
    OBVIOUS
  <2>4. IsState(s) /\ s.seen = a.seen \cup {<<e.role, e.payload.step>>}
        /\ s.position = a.position /\ s.errors = a.errors
    BY <1>4, <2>3, SeeingFields
  <2>5. b = Replayed(s, e, e.payload.position)
    BY <1>2, <1>3, <1>4, <2>1, <2>2, <2>3, LawfulRecord
  <2>6. ReplayedOf(b, s, e, e.payload.position)
    BY <1>2, <2>4, <2>5, ReplayedFields
  <2>7. ~Bad(b.errors)
    BY <2>1, <2>4, <2>6 DEF ReplayedOf, Bad
  <2>8. b.seen = SeenUntil(k + 1)
    <3>1. b.seen = SeenUntil(k) \cup {<<e.role, e.payload.step>>}
      BY <2>1, <2>4, <2>6 DEF ReplayedOf
    <3> QED BY <1>0, <1>1, <3>1 DEF SeenUntil
  <2>9. e.payload.position \in Cell
    BY <2>2 DEF Lawful, MovesWell
  <2>10. ASSUME NEW r \in Roles
         PROVE  b.position[r] = Where(r, k + 1) /\ Where(r, k + 1) \in Cell
    <3>1. Where(r, k + 1) = IF e.role = r THEN e.payload.position ELSE Where(r, k)
      BY <1>0, <1>1, WhereNext
    <3>2. a.position = [police |-> a.position.police, thief |-> a.position.thief]
      BY <1>4 DEF IsState
    <3>3. b.position = [a.position EXCEPT ![e.role] = e.payload.position]
      BY <2>4, <2>6 DEF ReplayedOf
    <3>4. b.position[r] = IF e.role = r THEN e.payload.position ELSE a.position[r]
      BY <1>2, <3>2, <3>3, RoleFacts
    <3> QED BY <2>1, <2>9, <3>1, <3>4
  <2>11. Follows(b, k + 1)
    BY <2>7, <2>8, <2>10 DEF Follows
  <2> QED BY <1>1, <1>3, <1>4, <1>5, <1>9, <2>11 DEF Tracks
<1> QED BY <1>7, <1>8, <1>9

LEMMA Tracked ==
    ASSUME StoryOK, Disclosed
    PROVE  \A k \in 0 .. Len(Story) : Tracks(Replay(Story)[k], k)
<1> DEFINE after == Replay(Story)
           S == {k \in Nat : k <= Len(Story) => Tracks(after[k], k)}
<1>1. Len(Story) \in Nat
  BY DEF StoryOK
<1>2. after[0] = Beginning /\ \A k \in 1 .. Len(Story) : after[k] = AuditRecord(after[k - 1], Story[k])
  BY <1>1, ReplayFacts
<1> HIDE DEF after
<1>3. 0 \in S
  <2>1. IsState(Beginning) /\ Beginning.errors = {} /\ Beginning.seen = {}
        /\ Beginning.position = [police |-> CopStart, thief |-> ThiefStart]
    BY DEF Beginning, IsState
  <2>2. AllLegal(0) /\ SeenUntil(0) = {}
    BY DEF AllLegal, SeenUntil
  <2>3. \A r \in Roles : Beginning.position[r] = Where(r, 0) /\ Where(r, 0) \in Cell
    BY <2>1, WhereFirst, StartAssumption, RoleFacts
  <2>4. Tracks(Beginning, 0)
    BY <2>1, <2>2, <2>3 DEF Tracks, Follows, Bad
  <2> QED BY <1>2, <2>4
<1>4. ASSUME NEW k \in S PROVE k + 1 \in S
  <2>1. CASE k + 1 > Len(Story)
    BY <1>1, <2>1
  <2>2. CASE k + 1 <= Len(Story)
    <3>1. k \in 0 .. Len(Story) - 1 /\ k + 1 \in 1 .. Len(Story) /\ (k + 1) - 1 = k /\ k <= Len(Story)
      BY <1>1, <2>2
    <3>2. Tracks(after[k], k)
      BY <3>1
    <3>3. after[k + 1] = AuditRecord(after[k], Story[k + 1])
      BY <1>2, <3>1
    <3>4. Tracks(after[k + 1], k + 1)
      BY <3>1, <3>2, <3>3, TrackedStep
    <3> QED BY <3>4
  <2> QED BY <1>1, <2>1, <2>2
<1>5. S = Nat
  BY <1>3, <1>4, SetInduction
<1> HIDE DEF S
<1>6. ASSUME NEW k \in 0 .. Len(Story) PROVE Tracks(after[k], k)
  <2>1. k \in Nat /\ k <= Len(Story)
    BY <1>1
  <2>2. k \in S
    BY <1>5, <2>1
  <2> QED BY <2>1, <2>2 DEF S
<1> QED BY <1>6 DEF after

\* The faults found are those of the turns.
LEMMA FaultsInStory == ASSUME LogsOK PROVE FaultsAreFound
<1>1. StoryOK
  BY StoryType
<1>2. SUFFICES ASSUME Disclosed
      PROVE (\E i \in DOMAIN Story : Breaks(i) \ OfTheBoard # {})
              <=> \E fault \in Findings.errors : fault[1] # "response_cell"
  BY DEF FaultsAreFound
<1>3. Len(Story) \in 0 .. Len(Story) /\ DOMAIN Story = 1 .. Len(Story)
  BY <1>1 DEF StoryOK
<1>4. Findings = Replay(Story)[Len(Story)]
  BY DEF Findings, Audit, Story
<1>5. Tracks(Findings, Len(Story))
  BY <1>1, <1>2, <1>3, <1>4, Tracked
<1>6. AllLegal(Len(Story)) <=> ~Bad(Findings.errors)
  BY <1>5 DEF Tracks, Follows
<1>7. AllLegal(Len(Story)) <=> ~\E i \in DOMAIN Story : Breaks(i) \ OfTheBoard # {}
  BY <1>3 DEF AllLegal, Unbroken
<1> QED BY <1>6, <1>7 DEF Bad

\* In any two logs that disclose their positions the replay finds a fault in
\* the turns if and only if a record breaks a rule that the record and the
\* position before it decide: a game by all the rules is never accused, and what
\* goes unnoticed breaks a rule of the board only (walls, the budget of barriers,
\* the order of the turns; network_match.py:454-513, 565-636).
THEOREM EveryFaultIsFound == RevealSpec => []FaultsAreFound
BY LogsStay, FaultsInStory, PTL

-----------------------------------------------------------------------------
(* The exchange of claims and answers in any two logs without a fault.     *)

\* The claim of the i-th record waits for an answer after k records.
Unanswered(i, k) ==
    /\ i \in 1 .. k /\ RightClaim(i) # None
    /\ \A m \in i + 1 .. k : Story[m].role = "police" /\ RightClaim(m) = None

Grants(j, cell) ==
    /\ Story[j].role = "thief" /\ Story[j].payload.response # None
    /\ Story[j].payload.response.caught /\ Story[j].payload.response.claim = cell

NoneAdmits(k) == \A i, j \in 1 .. k : ~Admits(i, j)

PendingOf(i) == [step |-> Story[i].payload.step, cell |-> RightClaim(i)]

Waits(pending, k) ==
    IF pending = None THEN \A i \in 1 .. k : ~Unanswered(i, k)
    ELSE \E i \in 1 .. k : Unanswered(i, k) /\ pending = PendingOf(i)

FirstCapture(step, k) ==
    \E i, j \in 1 .. k : Admits(i, j) /\ step = Story[i].payload.step /\ NoneAdmits(j - 1)

Understands(a, k) ==
    /\ a.capture = None => NoneAdmits(k) /\ Waits(a.pending, k)
    /\ a.capture # None => FirstCapture(a.capture, k)

LEMMA UnansweredIsOne ==
    ASSUME NEW k \in Nat, NEW i \in 1 .. k, NEW j \in 1 .. k, Unanswered(i, k), Unanswered(j, k)
    PROVE  i = j
<1>1. CASE i < j
  <2>1. j \in i + 1 .. k
    BY <1>1
  <2> QED BY <2>1 DEF Unanswered
<1>2. CASE j < i
  <2>1. i \in j + 1 .. k
    BY <1>2
  <2> QED BY <2>1 DEF Unanswered
<1> QED BY <1>1, <1>2

LEMMA UnansweredNext ==
    ASSUME NEW k \in Nat
    PROVE  /\ \A i \in 1 .. k : Unanswered(i, k + 1) <=>
                Unanswered(i, k) /\ Story[k + 1].role = "police" /\ RightClaim(k + 1) = None
           /\ Unanswered(k + 1, k + 1) <=> RightClaim(k + 1) # None
<1>1. \A i \in 1 .. k : i + 1 .. k + 1 = (i + 1 .. k) \cup {k + 1}
  OBVIOUS
<1>2. (k + 1) + 1 .. k + 1 = {} /\ k + 1 \in 1 .. k + 1
  OBVIOUS
<1>3. \A i \in 1 .. k : i \in 1 .. k + 1
  OBVIOUS
<1>4. Unanswered(k + 1, k + 1) <=> RightClaim(k + 1) # None
  BY <1>2 DEF Unanswered
<1>5. \A i \in 1 .. k : Unanswered(i, k + 1) <=>
        Unanswered(i, k) /\ Story[k + 1].role = "police" /\ RightClaim(k + 1) = None
  BY <1>1, <1>3 DEF Unanswered
<1> QED BY <1>4, <1>5

LEMMA AdmitsUnanswered ==
    ASSUME NEW k \in Nat, NEW i \in 1 .. k + 1
    PROVE  Admits(i, k + 1) <=> i \in 1 .. k /\ Unanswered(i, k) /\ Grants(k + 1, RightClaim(i))
<1>1. (k + 1) - 1 = k /\ (i < k + 1 <=> i \in 1 .. k)
  OBVIOUS
<1>2. PICK j : j = k + 1
  OBVIOUS
<1>3. PICK l : l = j - 1 /\ l = k
  BY <1>1, <1>2
<1>4. Admits(i, j) <=> /\ i < j /\ RightClaim(i) # None /\ Grants(j, RightClaim(i))
                       /\ \A m \in i + 1 .. l : Story[m].role = "police" /\ RightClaim(m) = None
  BY <1>3 DEF Admits, Grants
<1> QED BY <1>1, <1>2, <1>3, <1>4 DEF Unanswered

LEMMA NoneAdmitsNext ==
    ASSUME NEW k \in Nat, NoneAdmits(k),
           \A i \in 1 .. k : Unanswered(i, k) => ~Grants(k + 1, RightClaim(i))
    PROVE  NoneAdmits(k + 1)
<1> SUFFICES ASSUME NEW i \in 1 .. k + 1, NEW j \in 1 .. k + 1, Admits(i, j) PROVE FALSE
  BY DEF NoneAdmits
<1>1. i < j
  BY DEF Admits
<1>2. CASE j = k + 1
  BY <1>2, AdmitsUnanswered
<1>3. CASE j # k + 1
  BY <1>1, <1>3 DEF NoneAdmits
<1> QED BY <1>2, <1>3

LEMMA CaptureStays ==
    ASSUME NEW a, IsState(a), NEW e, e.role \in Roles, NEW post
    PROVE  /\ a.capture # None => Replayed(a, e, post).capture = a.capture
           /\ a.capture = None => Replayed(a, e, post) = Claimed(Answered(Placing(a, e, post), e), e)
<1>0. PICK r \in Roles : r = e.role
  OBVIOUS
<1>1. PICK b : b = Put(a, r, post)
  OBVIOUS
<1>2. PutAt(b, a, r, post)
  BY <1>1, PositionSet
<1>3. PICK d : d = [b EXCEPT !.trailing = @ + 1]
  OBVIOUS
<1>4. d.capture = b.capture /\ b.capture = a.capture
  BY <1>2, <1>3, TrailingSet DEF PutAt
<1>5. a.capture # None => Replayed(a, e, post) \in {b, d}
  BY <1>0, <1>1, <1>3, <1>4 DEF Replayed, Put
<1>6. a.capture = None => Replayed(a, e, post) = Claimed(Answered(Placing(a, e, post), e), e)
  BY <1>0, <1>1, <1>4 DEF Replayed, Exchanged, Placing, Put
<1> QED BY <1>4, <1>5, <1>6

\* What the audit holds for a claim is a right one.
LEMMA ClaimIsRight ==
    ASSUME NEW k \in Nat, NEW c, IsState(c),
           \A r \in Roles : c.position[r] = Where(r, k + 1) /\ Where(r, k + 1) \in Cell
    PROVE  Claimed(c, Story[k + 1]) = IF RightClaim(k + 1) = None THEN c
                                      ELSE [c EXCEPT !.pending = PendingOf(k + 1)]
<1>1. PICK e : e = Story[k + 1]
  OBVIOUS
<1>2. PICK p : p = e.payload
  OBVIOUS
<1>3. PICK w : w = Where("thief", k + 1)
  OBVIOUS
<1>4. w \in Cell /\ w # None /\ c.position.thief = w /\ c.position.police = Where("police", k + 1)
      /\ c.position.police \in Cell /\ c.position.police # None
  BY <1>3, StartAssumption DEF Roles
<1>5. RightClaim(k + 1) = IF e.role = "police" /\ w \in {p.barrier} \cup ({p.claim} \cap {p.position})
                          THEN w ELSE None
  BY <1>1, <1>2, <1>3 DEF RightClaim
<1>6. CASE e.role # "police"
  BY <1>1, <1>5, <1>6 DEF Claimed
<1>7. CASE e.role = "police"
  <2>1. c.position.police = p.position
    BY <1>1, <1>2, <1>4, <1>7, WhereNext
  <2>2. Coincide(c.position) <=> p.position = w
    BY <1>4, <2>1 DEF Coincide
  <2>3. RightClaim(k + 1) # None <=> p.barrier = w \/ (p.claim = w /\ p.position = w)
    BY <1>4, <1>5, <1>7
  <2>4. RightClaim(k + 1) # None => PendingOf(k + 1) = [step |-> p.step, cell |-> w]
    BY <1>1, <1>2, <1>5 DEF PendingOf
  <2>5. Claimed(c, e) =
          IF p.barrier # None /\ w = p.barrier THEN [c EXCEPT !.pending = [step |-> p.step, cell |-> p.barrier]]
          ELSE IF p.claim # None /\ Coincide(c.position) /\ p.claim = c.position.police
          THEN [c EXCEPT !.pending = [step |-> p.step, cell |-> p.claim]] ELSE c
    BY <1>2, <1>4, <1>7 DEF Claimed
  <2>6. CASE p.barrier = w
    BY <1>1, <1>4, <2>3, <2>4, <2>5, <2>6
  <2>7. CASE p.barrier # w
    BY <1>1, <1>4, <2>1, <2>2, <2>3, <2>4, <2>5, <2>7
  <2> QED BY <2>6, <2>7
<1> QED BY <1>6, <1>7

\* The police's record, while no capture is known.
LEMMA PoliceClaims ==
    ASSUME StoryOK, NEW k \in 0 .. Len(Story) - 1, NEW c, IsState(c), c.capture = None,
           Story[k + 1].role = "police", Story[k + 1].payload.step # None,
           \A r \in Roles : c.position[r] = Where(r, k + 1) /\ Where(r, k + 1) \in Cell,
           NoneAdmits(k), Waits(c.pending, k)
    PROVE  Understands(Claimed(Answered(c, Story[k + 1]), Story[k + 1]), k + 1)
<1>0. k \in Nat /\ k + 1 \in 1 .. Len(Story) /\ 1 .. k + 1 = 1 .. k \cup {k + 1}
  BY DEF StoryOK
<1>1. Answered(c, Story[k + 1]) = c
  BY DEF Answered
<1>2. PICK b : b = Claimed(c, Story[k + 1])
  OBVIOUS
<1>3. b = IF RightClaim(k + 1) = None THEN c ELSE [c EXCEPT !.pending = PendingOf(k + 1)]
  BY <1>0, <1>2, ClaimIsRight
<1>4. NoneAdmits(k + 1)
  BY <1>0, NoneAdmitsNext DEF Grants
<1>5. CASE RightClaim(k + 1) = None
  <2>1. \A i \in 1 .. k : Unanswered(i, k + 1) <=> Unanswered(i, k)
    BY <1>0, <1>5, UnansweredNext
  <2>2. ~Unanswered(k + 1, k + 1)
    BY <1>0, <1>5, UnansweredNext
  <2>3. Waits(c.pending, k + 1)
    BY <1>0, <2>1, <2>2 DEF Waits
  <2> QED BY <1>1, <1>2, <1>3, <1>4, <1>5, <2>3 DEF Understands
<1>6. CASE RightClaim(k + 1) # None
  <2>1. b.capture = None /\ b.pending = PendingOf(k + 1)
    BY <1>3, <1>6, PendingSet
  <2>2. Story[k + 1].payload.step \in Int /\ RightClaim(k + 1) \in Cell
    <3>1. RightClaim(k + 1) = Where("thief", k + 1)
      BY <1>6 DEF RightClaim
    <3> QED BY <1>0, <3>1 DEF StoryOK, Roles
  <2>3. PendingOf(k + 1) # None
    BY <2>2, StartAssumption DEF PendingOf
  <2>4. Unanswered(k + 1, k + 1)
    BY <1>0, <1>6, UnansweredNext
  <2>5. Waits(b.pending, k + 1)
    BY <1>0, <2>1, <2>3, <2>4 DEF Waits
  <2> QED BY <1>1, <1>2, <1>4, <2>1, <2>5 DEF Understands
<1> QED BY <1>5, <1>6

\* The thief's record, while no capture is known.
LEMMA ThiefAnswers ==
    ASSUME StoryOK, NEW k \in 0 .. Len(Story) - 1, NEW c, IsState(c), c.capture = None,
           Story[k + 1].role = "thief", NoneAdmits(k), Waits(c.pending, k),
           \A i \in 1 .. k : Story[i].payload.step # None,
           Answered(c, Story[k + 1]).errors = {}
    PROVE  Understands(Claimed(Answered(c, Story[k + 1]), Story[k + 1]), k + 1)
<1>0. k \in Nat /\ k + 1 \in 1 .. Len(Story) /\ 1 .. k + 1 = 1 .. k \cup {k + 1}
  BY DEF StoryOK
<1>1. PICK b : b = Answered(c, Story[k + 1])
  OBVIOUS
<1>2. Claimed(b, Story[k + 1]) = b
  BY DEF Claimed
<1>3. RightClaim(k + 1) = None
  BY DEF RightClaim
<1>4. \A i \in 1 .. k + 1 : ~Unanswered(i, k + 1)
  BY <1>0, <1>3, UnansweredNext
<1>5. PICK r : r = Story[k + 1].payload.response
  OBVIOUS
<1>6. CASE c.pending = None
  <2>1. b = c
    BY <1>1, <1>6 DEF Answered
  <2>2. NoneAdmits(k + 1)
    BY <1>0, <1>6, NoneAdmitsNext DEF Waits
  <2> QED BY <1>1, <1>2, <1>4, <1>6, <2>1, <2>2 DEF Understands, Waits
<1>7. CASE c.pending # None
  <2>1. PICK i \in 1 .. k : Unanswered(i, k) /\ c.pending = PendingOf(i)
    BY <1>7 DEF Waits
  <2>2. c.pending.step = Story[i].payload.step /\ c.pending.cell = RightClaim(i)
    BY <2>1 DEF PendingOf
  <2>3. PICK d : d = [c EXCEPT !.pending = None]
    OBVIOUS
  <2>4. IsState(d) /\ d.capture = c.capture /\ d.pending = None
    BY <2>3 DEF IsState
  <2>5. b = IF r = None \/ ~r.caught THEN d
            ELSE IF r.claim = c.pending.cell THEN [d EXCEPT !.capture = c.pending.step]
            ELSE Fault(d, "response_cell", Story[k + 1])
    BY <1>1, <1>5, <1>7, <2>3 DEF Answered
  <2>6. CASE r = None \/ ~r.caught
    <3>1. NoneAdmits(k + 1)
      BY <1>0, <1>5, <2>6, NoneAdmitsNext DEF Grants
    <3> QED BY <1>1, <1>2, <1>4, <2>4, <2>5, <2>6, <3>1 DEF Understands, Waits
  <2>7. CASE ~(r = None \/ ~r.caught) /\ r.claim = c.pending.cell
    <3>1. b.capture = Story[i].payload.step /\ b.capture # None
      BY <2>2, <2>4, <2>5, <2>7, CaptureSet
    <3>2. Grants(k + 1, RightClaim(i))
      BY <1>5, <2>2, <2>7 DEF Grants
    <3>3. Admits(i, k + 1)
      BY <1>0, <2>1, <3>2, AdmitsUnanswered
    <3>4. (k + 1) - 1 = k /\ k + 1 \in 1 .. k + 1 /\ i \in 1 .. k + 1
      BY <1>0
    <3>5. FirstCapture(b.capture, k + 1)
      <4>1. PICK j : j = k + 1
        OBVIOUS
      <4>2. j - 1 = k /\ j \in 1 .. k + 1 /\ Admits(i, j)
        BY <3>3, <3>4, <4>1
      <4>3. NoneAdmits(j - 1)
        BY <4>2
      <4> QED BY <3>1, <3>4, <4>2, <4>3 DEF FirstCapture
    <3> QED BY <1>1, <1>2, <3>1, <3>5 DEF Understands
  <2>8. CASE ~(r = None \/ ~r.caught) /\ r.claim # c.pending.cell
    <3>1. b = Fault(d, "response_cell", Story[k + 1])
      BY <2>5, <2>8
    <3>2. b.errors = d.errors \cup {<<"response_cell", Story[k + 1].role, Story[k + 1].payload.step>>}
      BY <2>4, <3>1, FaultFields
    <3> QED BY <1>1, <3>2
  <2> QED BY <2>6, <2>7, <2>8
<1> QED BY <1>6, <1>7

\* One more record, and still no fault.
LEMMA UnderstoodStep ==
    ASSUME StoryOK, Disclosed, NEW k \in 0 .. Len(Story) - 1, NEW a, Tracks(a, k),
           a.errors = {} => Understands(a, k),
           AuditRecord(a, Story[k + 1]).errors = {}
    PROVE  Understands(AuditRecord(a, Story[k + 1]), k + 1)
<1>0. k \in Nat /\ k + 1 \in 1 .. Len(Story) /\ 1 .. k + 1 = 1 .. k \cup {k + 1}
  BY DEF StoryOK
<1>1. PICK e : e = Story[k + 1]
  OBVIOUS
<1>2. PICK b : b = AuditRecord(a, e)
  OBVIOUS
<1>3. PICK post : post = e.payload.position
  OBVIOUS
<1>4. e.role \in Roles /\ post # None
  BY <1>0, <1>1, <1>3 DEF StoryOK, Disclosed
<1>5. IsState(a) /\ IsState(b) /\ a.errors \subseteq b.errors
  BY <1>2, <1>4, RecordGrows DEF Tracks
<1>6. b.errors = {} /\ a.errors = {} /\ Understands(a, k)
  BY <1>1, <1>2, <1>5
<1>7. Tracks(b, k + 1)
  BY <1>1, <1>2, TrackedStep
<1>8. AllLegal(k + 1) /\ AllLegal(k) /\ Unbroken(k + 1)
  <2>1. AllLegal(k + 1)
    BY <1>6, <1>7 DEF Tracks, Bad
  <2> QED BY <1>0, <2>1 DEF AllLegal
<1>9. Follows(a, k) /\ Follows(b, k + 1)
  BY <1>7, <1>8 DEF Tracks
<1>10. Lawful(e, a.position[e.role], a.seen) /\ a.position[e.role] \in Cell
  <2>1. Lawful(e, Where(e.role, k), SeenUntil(k))
    BY <1>0, <1>1, <1>8, TurnIsLawful
  <2> QED BY <1>4, <1>9, <2>1 DEF Follows
<1>11. PICK s : s = Seeing(a, e)
  OBVIOUS
<1>12. IsState(s) /\ s.capture = a.capture /\ s.pending = a.pending
  BY <1>5, <1>11, SeeingFields
<1>13. b = Replayed(s, e, post)
  BY <1>2, <1>3, <1>4, <1>5, <1>10, <1>11, LawfulRecord
<1>14. CASE a.capture # None
  <2>1. b.capture = a.capture
    BY <1>4, <1>12, <1>13, <1>14, CaptureStays
  <2>2. PICK i \in 1 .. k, j \in 1 .. k :
          Admits(i, j) /\ a.capture = Story[i].payload.step /\ NoneAdmits(j - 1)
    BY <1>6, <1>14 DEF Understands, FirstCapture
  <2>3. i \in 1 .. k + 1 /\ j \in 1 .. k + 1
    BY <1>0
  <2>4. FirstCapture(b.capture, k + 1)
    BY <2>1, <2>2, <2>3 DEF FirstCapture
  <2> QED BY <1>1, <1>2, <1>14, <2>1, <2>4 DEF Understands
<1>15. CASE a.capture = None
  <2>1. PICK c : c = Placing(s, e, post)
    OBVIOUS
  <2>2. PICK d : d = Answered(c, e)
    OBVIOUS
  <2>3. b = Claimed(d, e)
    BY <1>4, <1>12, <1>13, <1>15, <2>1, <2>2, CaptureStays
  <2>4. IsState(c) /\ c.capture = None /\ c.pending = a.pending
    <3>1. PlacedOf(c, s, e, post)
      BY <1>4, <1>12, <2>1, PlacingFields
    <3> QED BY <1>12, <1>15, <3>1 DEF PlacedOf
  <2>5. Exchanges(c, d)
    BY <2>2, <2>4, AnsweredFields
  <2>6. Exchanges(d, b) /\ b.errors = d.errors
    BY <2>3, <2>5, ClaimedFields DEF Exchanges
  <2>7. d.errors = {} /\ b.position = c.position
    BY <1>6, <2>5, <2>6 DEF Exchanges
  <2>8. \A r \in Roles : c.position[r] = Where(r, k + 1) /\ Where(r, k + 1) \in Cell
    BY <1>9, <2>7 DEF Follows
  <2>9. NoneAdmits(k) /\ Waits(c.pending, k)
    BY <1>6, <1>15, <2>4 DEF Understands
  <2>10. \A i \in 1 .. k + 1 : Story[i].payload.step # None
    <3>1. \A i \in 1 .. k + 1 : "seal" \notin Breaks(i)
      BY <1>8 DEF AllLegal, Unbroken, OfTheBoard
    <3> QED BY <3>1 DEF Breaks, SealedOnce
  <2>11. Understands(b, k + 1)
    <3>1. CASE e.role = "police"
      BY <1>0, <1>1, <2>2, <2>3, <2>4, <2>8, <2>9, <2>10, <3>1, PoliceClaims
    <3>2. CASE e.role = "thief"
      BY <1>0, <1>1, <2>2, <2>3, <2>4, <2>7, <2>9, <2>10, <3>2, ThiefAnswers
    <3> QED BY <1>4, <3>1, <3>2 DEF Roles
  <2> QED BY <1>1, <1>2, <2>11
<1> QED BY <1>14, <1>15

LEMMA Understood ==
    ASSUME StoryOK, Disclosed
    PROVE  \A k \in 0 .. Len(Story) : Replay(Story)[k].errors = {} => Understands(Replay(Story)[k], k)
<1> DEFINE after == Replay(Story)
           S == {k \in Nat : k <= Len(Story) => (after[k].errors = {} => Understands(after[k], k))}
<1>1. Len(Story) \in Nat
  BY DEF StoryOK
<1>2. after[0] = Beginning /\ \A k \in 1 .. Len(Story) : after[k] = AuditRecord(after[k - 1], Story[k])
  BY <1>1, ReplayFacts
<1>3. \A k \in 0 .. Len(Story) : Tracks(after[k], k)
  BY Tracked
<1> HIDE DEF after
<1>4. 0 \in S
  <2>1. Beginning.capture = None /\ Beginning.pending = None
    BY DEF Beginning
  <2>2. Understands(Beginning, 0)
    BY <2>1 DEF Understands, NoneAdmits, Waits
  <2> QED BY <1>2, <2>2
<1>5. ASSUME NEW k \in S PROVE k + 1 \in S
  <2>1. CASE k + 1 > Len(Story)
    BY <1>1, <2>1
  <2>2. CASE k + 1 <= Len(Story)
    <3>1. k \in 0 .. Len(Story) - 1 /\ k \in 0 .. Len(Story) /\ k + 1 \in 1 .. Len(Story)
          /\ (k + 1) - 1 = k /\ k <= Len(Story)
      BY <1>1, <2>2
    <3>2. Tracks(after[k], k) /\ (after[k].errors = {} => Understands(after[k], k))
      BY <1>3, <3>1
    <3>3. after[k + 1] = AuditRecord(after[k], Story[k + 1])
      BY <1>2, <3>1
    <3>4. after[k + 1].errors = {} => Understands(after[k + 1], k + 1)
      BY <3>1, <3>2, <3>3, UnderstoodStep
    <3> QED BY <3>4
  <2> QED BY <1>1, <2>1, <2>2
<1>6. S = Nat
  BY <1>4, <1>5, SetInduction
<1> HIDE DEF S
<1>7. ASSUME NEW k \in 0 .. Len(Story) PROVE after[k].errors = {} => Understands(after[k], k)
  <2>1. k \in Nat /\ k <= Len(Story)
    BY <1>1
  <2>2. k \in S
    BY <1>6, <2>1
  <2> QED BY <2>1, <2>2 DEF S
<1> QED BY <1>7 DEF after

\* The claim first admitted is the first that is ever admitted.
LEMMA FirstIsLeast ==
    ASSUME StoryOK, NEW i \in 1 .. Len(Story), NEW j \in 1 .. Len(Story), Admits(i, j), NoneAdmits(j - 1)
    PROVE  i \in Captures /\ \A x \in Captures : i <= x
<1>1. DOMAIN Story = 1 .. Len(Story) /\ Len(Story) \in Nat
  BY DEF StoryOK
<1>2. i \in Captures
  BY <1>1 DEF Captures
<1>3. ASSUME NEW x \in Captures, x < i PROVE FALSE
  <2>1. x \in 1 .. Len(Story)
    BY <1>1 DEF Captures
  <2>2. PICK y \in 1 .. Len(Story) : Admits(x, y)
    BY <1>1 DEF Captures
  <2>3. i < j /\ RightClaim(i) # None /\ x < y
    BY <2>2 DEF Admits
  <2>4. y >= j
    <3> SUFFICES ASSUME y < j PROVE FALSE
      BY <1>1
    <3>1. x \in 1 .. j - 1 /\ y \in 1 .. j - 1
      BY <1>1, <2>1, <2>3
    <3> QED BY <2>2, <3>1 DEF NoneAdmits
  <2>5. i \in x + 1 .. y - 1
    BY <1>1, <1>3, <2>1, <2>3, <2>4
  <2> QED BY <2>2, <2>3, <2>5 DEF Admits
<1>4. \A x \in Captures : x \in Int /\ i \in Int
  BY <1>1 DEF Captures
<1> QED BY <1>2, <1>3, <1>4

\* A capture is one that the thief admits.
LEMMA CapturesInStory == ASSUME LogsOK PROVE CaptureIsAdmitted
<1>1. StoryOK
  BY StoryType
<1>2. PICK n : n = Len(Story)
  OBVIOUS
<1>3. n \in Nat /\ DOMAIN Story = 1 .. n
  BY <1>1, <1>2 DEF StoryOK
<1>4. PICK a : a = Findings
  OBVIOUS
<1>5. SUFFICES ASSUME Disclosed, a.errors = {}
      PROVE a.capture = IF Captures = {} THEN None
                        ELSE Story[CHOOSE i \in Captures : \A j \in Captures : i <= j].payload.step
  BY <1>4 DEF CaptureIsAdmitted
<1>6. a = Replay(Story)[n] /\ n \in 0 .. n
  BY <1>2, <1>3, <1>4 DEF Findings, Audit, Story
<1>7. Understands(a, n)
  BY <1>1, <1>2, <1>5, <1>6, Understood
<1>8. CASE a.capture = None
  <2>1. NoneAdmits(n)
    BY <1>7, <1>8 DEF Understands
  <2>2. Captures = {}
    BY <1>3, <2>1 DEF Captures, NoneAdmits
  <2> QED BY <1>8, <2>2
<1>9. CASE a.capture # None
  <2>1. PICK i \in 1 .. n, j \in 1 .. n :
          Admits(i, j) /\ a.capture = Story[i].payload.step /\ NoneAdmits(j - 1)
    BY <1>7, <1>9 DEF Understands, FirstCapture
  <2>2. i \in Captures /\ \A x \in Captures : i <= x
    BY <1>1, <1>2, <2>1, FirstIsLeast
  <2> DEFINE least == CHOOSE x \in Captures : \A y \in Captures : x <= y
  <2>3. least \in Captures /\ \A y \in Captures : least <= y
    BY <2>2
  <2>4. Captures \subseteq 1 .. n
    BY <1>3 DEF Captures
  <2>5. least = i
    <3> HIDE DEF least
    <3>1. least <= i /\ i <= least /\ least \in Int
      BY <2>2, <2>3, <2>4
    <3> QED BY <3>1
  <2> QED BY <2>1, <2>2, <2>5
<1> QED BY <1>8, <1>9

\* In any two logs without a fault the capture found is the first right claim
\* whose next answer admits it, and there is none without such an answer
\* (network_match.py:638-666).
THEOREM EveryCaptureIsAdmitted == RevealSpec => []CaptureIsAdmitted
BY LogsStay, CapturesInStory, PTL
===============================================================================
