-------------------------------- MODULE Evasion -------------------------------
(***************************************************************************)
(* How the thief decides: what it makes of the police's public turns       *)
(* (claim, barrier, scent), the tiers of its planner, the advisor's        *)
(* proposal and the filter of _choose_move, against a police that plays    *)
(* any legal action and may keep its cell to itself.                       *)
(*                                                                         *)
(* A move is named by the cell it leads to: the legal moves from a cell    *)
(* lead to different cells, and STAY to the cell itself.  The planner's    *)
(* scores are left out: the moves within its margin are any of those its   *)
(* constraints admit.  The game alternates, so that the police's turn and  *)
(* the thief's reading of it are one action.                               *)
(***************************************************************************)
EXTENDS ScentEvidence, Sequences, FiniteSetsExt

CONSTANTS
    None,
    CopStart, ThiefStart,
    MaxMoves,     \* max_moves: the thief's turns
    MaxBarriers,
    TopPositions, \* bound: the belief's cells the planner looks at, 5 in the code
    Publishes     \* whether the police may publish its cell, may hide it, or either

ASSUME EvasionAssumption ==
    /\ CopStart \in Cell /\ ThiefStart \in Cell /\ None \notin Cell
    /\ MaxBarriers \in Nat /\ Publishes \subseteq BOOLEAN

VARIABLES
    next,        \* "thief" or "police"
    cop, thief,  \* where they are
    walls,       \* Board._blocked, the same at both peers
    scent,       \* the police's field, and its last snapshot
    known,       \* known_cop_position
    candidates,  \* public_cop_candidates
    anchor,      \* last_inferred_opponent_positions
    visited,     \* TacticalPlanner._positions
    guarded,     \* history: at its last turn the thief had evidence, and a move
                 \* out of reach of every cell the police might be on
    verdict      \* how the game ended

vars == <<next, cop, thief, walls, scent, known, candidates, anchor, visited,
          guarded, verdict>>

Init ==
    /\ next = "thief" /\ cop = CopStart /\ thief = ThiefStart
    /\ walls = {} /\ scent = NoScent
    /\ known = CopStart /\ candidates = {} /\ anchor = {CopStart}
    /\ visited = <<>> /\ guarded = FALSE /\ verdict = "open"

-----------------------------------------------------------------------------
(* The board seen by the planner.                                          *)

\* cop_capture_cells
CaptureCells(cell) == Reach(cell, walls)

Mobility(cell) == Cardinality(Neighbors(cell) \ walls)

Clearance(cell) ==
    Min({cell[1], cell[2], Size - 1 - cell[1], Size - 1 - cell[2]})

BoxedIn(cell, blocked) == Neighbors(cell) \subseteq blocked

\* _escape_outlook: after some reply of a police at the cell, no continuation
\* of the thief is out of its reach.
Trapped(cell, police) ==
    \/ cell \in CaptureCells(police)
    \/ \E reply \in Reach(police, walls) :
          reply = cell \/ Reach(cell, walls) \subseteq CaptureCells(reply)

-----------------------------------------------------------------------------
(* TacticalPlanner.evaluate                                                *)

\* The move that led to the i-th cell.
Shift(i) == <<visited[i][1] - visited[i - 1][1], visited[i][2] - visited[i - 1][2]>>

\* _detect_loop: back where it was two moves ago (STAY twice included), the
\* same two moves again, or here for the third time.
LoopDetected ==
    LET n == Len(visited)
    IN  \/ n >= 3 /\ visited[n - 2] = visited[n]
        \/ n >= 5 /\ Shift(n) = Shift(n - 2) /\ Shift(n - 1) = Shift(n - 3)
        \/ Cardinality({i \in 1 .. n : visited[i] = thief}) >= 3

RecentCells == {visited[i] : i \in {j \in 1 .. Len(visited) : j > Len(visited) - 2}}

\* A tier: the cells that pass, if any does.
Prefer(pool, passing) == IF pool \cap passing = {} THEN pool ELSE pool \cap passing

\* The cells no hard constraint excludes, for a police on one of the targets.
SafestTier(targets) ==
    LET legal  == Reach(thief, walls)
        direct == Prefer(legal, legal \ targets)
        near   == Prefer(direct, legal \ UNION {CaptureCells(t) : t \in targets})
        open   == Prefer(near, {c \in legal : \A t \in targets : ~Trapped(c, t)})
        exits  == Max({Mobility(c) : c \in open})
        freer  == IF Mobility(thief) <= 2 /\ exits > Mobility(thief)
                  THEN {c \in open : Mobility(c) = exits} ELSE open
        inner  == Max({Clearance(c) : c \in freer})
    IN  IF LoopDetected THEN freer ELSE {c \in freer : Clearance(c) = inner}

\* The sets of moves the score can leave to the planner: those neither unsafe
\* nor part of a loop or, if there are none, one that is safe.
Plans(targets) ==
    LET safest == SafestTier(targets)
        looping == IF LoopDetected THEN {thief} \cup RecentCells ELSE {}
    IN  IF safest \subseteq looping THEN {{c} : c \in safest}
        ELSE (SUBSET (safest \ looping)) \ {{}}

-----------------------------------------------------------------------------
(* NetworkMatchRunner._choose_move                                         *)

Threats == IF known # None THEN {known} ELSE candidates

\* What the planner plans against: the public evidence or, without any, the
\* best cells of the belief map.
Targets ==
    IF Threats # {} THEN {Threats}
    ELSE UNION {kSubset(n, Cell) : n \in 1 .. TopPositions}

Guaranteed == Reach(thief, walls) \ UNION {CaptureCells(t) : t \in Threats}

\* safe_now: out of reach of every threat or, if nothing is, at least off the
\* cells the police may be on; STAY is the last to go.
SafeNow ==
    LET legal == Reach(thief, walls)
    IN  IF Guaranteed # {} THEN Guaranteed
        ELSE IF legal \subseteq Threats THEN {thief}
        ELSE legal \ Threats

Allowed(plan) == IF plan \cap SafeNow = {} THEN SafeNow ELSE plan \cap SafeNow

\* (Mutant) The advisor's move is checked against the rules of the board only.
AdvisedLegally(proposal, fallback, allowed) ==
    IF proposal \in Reach(thief, walls) THEN proposal ELSE fallback

\* GeminiAgentAdvisor.choose_move and the check of its decision: an answer
\* that is no allowed move, or that enters the published cell of the police,
\* gives way to the fallback.
Advised(proposal, fallback, allowed) ==
    IF proposal \in allowed /\ proposal # known THEN proposal ELSE fallback

\* The thief's own turn.  The evidence is about the police before its next
\* turn; the certainty stays until a turn replaces it.
ThiefMoves ==
    /\ next = "thief" /\ verdict = "open"
    /\ \E targets \in Targets, proposal \in Reach(thief, walls) \cup {None} :
          \E plan \in Plans(targets) :
             \E fallback \in Allowed(plan) :
                thief' = Advised(proposal, fallback, Allowed(plan))
    /\ visited' = (IF visited = <<>> THEN <<thief>> ELSE visited) \o <<thief'>>
    /\ guarded' = (Threats # {} /\ Guaranteed # {})
    /\ candidates' = {}
    /\ next' = "police"
    /\ verdict' = IF Len(visited') > MaxMoves THEN "survival" ELSE "open"
    /\ UNCHANGED <<cop, walls, scent, known, anchor>>

-----------------------------------------------------------------------------
(* The police's turn, and what the thief makes of it.                      *)

\* _public_barrier_cop_candidates
BarrierCandidates(barrier) ==
    IF barrier = None THEN {} ELSE {barrier} \cup Neighbors(barrier)

\* (Mutant) A cell published earlier is kept until another one is.
ReadKeepingClaim(claim, barrier) ==
    LET inferred == Candidates(scent, scent', anchor, walls)
        walled   == BarrierCandidates(barrier)
        disputed == Cardinality(inferred) = 1 /\ barrier # None /\ ~(inferred \subseteq walled)
    IN  /\ known' = IF claim # None THEN claim ELSE known
        /\ candidates' = IF claim # None THEN {}
                         ELSE IF Cardinality(inferred) = 1 /\ ~disputed THEN inferred
                         ELSE inferred \cup walled
        /\ anchor' = IF claim # None THEN {claim}
                     ELSE IF disputed THEN {} ELSE inferred

\* The claim is certain.  Without one, the fresh scent counts, together with
\* the cells around a barrier unless both agree on a single cell.
Read(claim, barrier) ==
    LET inferred == Candidates(scent, scent', anchor, walls)
        walled   == BarrierCandidates(barrier)
        disputed == Cardinality(inferred) = 1 /\ barrier # None /\ ~(inferred \subseteq walled)
    IN  /\ known' = claim
        /\ candidates' = IF claim # None THEN {}
                         ELSE IF Cardinality(inferred) = 1 /\ ~disputed THEN inferred
                         ELSE inferred \cup walled
        /\ anchor' = IF claim # None THEN {claim}
                     ELSE IF disputed THEN {} ELSE inferred

\* set_certain_position raises on a blocked cell, unless it is the one that
\* this turn's barrier blocked.
BeliefRefuses(claim, barrier) == claim # None /\ claim # barrier /\ claim \in walls'

\* The police's cell and barrier are known by now: publish, read and judge.
Publish(barrier) ==
    /\ scent' = Emitted(scent, cop')
    /\ \E publish \in Publishes :
          LET claim == IF publish THEN cop' ELSE None
          IN  /\ Read(claim, barrier)
              /\ verdict' = IF BeliefRefuses(claim, barrier) THEN "failed"
                            ELSE IF thief \in {claim, barrier} THEN "caught"
                            ELSE IF BoxedIn(thief, walls') THEN "boxed_in"
                            ELSE "open"
    /\ next' = "thief"
    /\ UNCHANGED <<thief, visited, guarded>>

PoliceMoves ==
    /\ next = "police" /\ verdict = "open"
    /\ cop' \in Reach(cop, walls)
    /\ UNCHANGED walls
    /\ Publish(None)

PoliceWalls ==
    /\ next = "police" /\ verdict = "open"
    /\ Cardinality(walls) < MaxBarriers
    /\ \E cell \in ({cop} \cup Neighbors(cop)) \ walls :
          /\ walls' = walls \cup {cell}
          /\ UNCHANGED cop
          /\ Publish(cell)

Next == ThiefMoves \/ PoliceMoves \/ PoliceWalls

Spec == Init /\ [][Next]_vars

-----------------------------------------------------------------------------
TypeOK ==
    /\ next \in {"thief", "police"}
    /\ cop \in Cell /\ thief \in Cell
    /\ walls \subseteq Cell /\ IsFiniteSet(walls) /\ Cardinality(walls) <= MaxBarriers
    /\ DOMAIN scent = Cell
    /\ known \in Cell \cup {None} /\ candidates \subseteq Cell /\ anchor \subseteq Cell
    /\ guarded \in BOOLEAN
    /\ verdict \in {"open", "survival", "caught", "boxed_in", "failed"}

\* Public evidence never excludes the truth: when the thief decides, the cell
\* it is certain of, the cells it deems plausible and the cells its next
\* inference starts from all allow for where the police is
\* (network_match.py:202-350 and 979-1020; test_public_scent_inference.py
\* tries single walks).
EvidenceHoldsCop ==
    next = "thief" /\ verdict # "failed" =>
        /\ known \in {None, cop}
        /\ candidates = {} \/ cop \in candidates
        /\ anchor = {} \/ cop \in anchor

\* A thief that had evidence and a move out of reach of it is not caught on its
\* cell by the police's next turn, whatever score, advisor and fallback
\* preferred (network_match.py:1250-1400).
GuardedIsNotCaught == ~(guarded /\ verdict = "caught")

\* The filter of _choose_move and the advisor never overrule a hard constraint
\* of the planner: unless the police may be on every cell in reach, the move
\* made is of the safest tier, also when a loop is to be broken
\* (planner_evaluate.py:70-150: "Relax history preferences before safety
\* constraints").
SafestTierIsKept ==
    [][next = "thief" /\ ~(Reach(thief, walls) \subseteq Threats) =>
           \E targets \in Targets : thief' \in SafestTier(targets)]_vars
=============================================================================
