------------------------------ MODULE LocalMatch ------------------------------
(***************************************************************************)
(* Matches played in one process: the interactive match of the play window *)
(* (domain/interactive_match.py) and the simulated match of the command    *)
(* line (domain/simulation.py).  Both put the two roles on one board and   *)
(* let the cop begin.                                                      *)
(*                                                                         *)
(* Scent and belief only suggest a move; the suggestion here is any cell   *)
(* and an advisor may answer with any move.                                *)
(***************************************************************************)
EXTENDS Grid, FiniteSets, FiniteSetsExt

CONSTANTS
    CopStart, ThiefStart,  \* <<0, 0>> and <<3, 3>> in cli/play.py
    MaxMoves,              \* actions of an interactive match (35); turns of a simulated one
    SurvivalThreshold,     \* survival_threshold of the simulated match
    MaxBarriers,           \* max_barriers of the board (14)
    None

ASSUME LocalMatchAssumption ==
    /\ CopStart \in Cell /\ ThiefStart \in Cell \ {CopStart}
    /\ MaxMoves \in Nat \ {0} /\ SurvivalThreshold \in Nat \ {0} /\ MaxBarriers \in Nat

VARIABLES
    positions,    \* the cell of each role
    blocked,      \* the cells with a barrier
    currentRole,
    turnsPlayed,
    outcome       \* None, or a MatchOutcome

matchVars == <<positions, blocked, currentRole, turnsPlayed, outcome>>

Roles == {"cop", "thief"}
Other(role) == IF role = "thief" THEN "cop" ELSE "thief"

MatchTypeOK ==
    /\ positions \in [Roles -> Cell] /\ blocked \subseteq Cell /\ currentRole \in Roles
    /\ turnsPlayed \in 0 .. MaxMoves
    /\ outcome \in {None, "capture", "survival", "technical_loss"}

Own == positions[currentRole]
Opponent == positions[Other(currentRole)]
Finished == outcome # None

Start == [cop |-> CopStart, thief |-> ThiefStart]

FirstMatch ==
    /\ positions = Start /\ blocked = {}
    /\ currentRole = "cop" /\ turnsPlayed = 0 /\ outcome = None

NewMatch ==
    /\ positions' = Start /\ blocked' = {}
    /\ currentRole' = "cop" /\ turnsPlayed' = 0 /\ outcome' = None

Legal(cell, move) == move = "STAY" \/ Destination(cell, move) \in Cell \ blocked
LegalMoves == {move \in Moves : Legal(Own, move)}

\* (Mutant) A thief that is walled in plays on.
CaughtOnlyByCop == positions'["cop"] = positions'["thief"]

CaughtAfter ==
    \/ positions'["cop"] = positions'["thief"]
    \/ Neighbors(positions'["thief"]) \subseteq blocked'

-------------------------------------------------------------------------------
(* The greedy search both matches fall back to: the first of N, S, E, W    *)
(* that is better than staying and than those before it.                   *)

Order == <<"N", "S", "E", "W">>
Score(cell, move, target, chase) ==
    LET d == Distance(Destination(cell, move), target) IN IF chase THEN -d ELSE d

GreedyMove(cell, target, chase) ==
    LET legal == {i \in 1 .. 4 : Legal(cell, Order[i])}
        better == {i \in legal : Score(cell, Order[i], target, chase)
                                    > Score(cell, "STAY", target, chase)}
        best == {i \in better : \A j \in better :
                    Score(cell, Order[j], target, chase) <= Score(cell, Order[i], target, chase)}
    IN  IF best = {} THEN "STAY" ELSE Order[Min(best)]

-------------------------------------------------------------------------------
(* The interactive match.                                                  *)

GameMode == {"agent_vs_agent", "network_agent_vs_agent", "human_cop_vs_agent",
             "agent_vs_human_thief", "human_vs_human"}

ControllerFor(mode, role) ==
    IF \/ mode = "human_vs_human"
       \/ mode = "human_cop_vs_agent" /\ role = "cop"
       \/ mode = "agent_vs_human_thief" /\ role = "thief"
    THEN "human" ELSE "agent"

\* caught: the barrier just placed is on the thief.
RecordMoveAndAdvance(caught) ==
    /\ turnsPlayed' = turnsPlayed + 1
    /\ outcome' = IF caught \/ CaughtAfter THEN "capture"
                  ELSE IF turnsPlayed' >= MaxMoves THEN "survival" ELSE None
    /\ currentRole' = IF outcome' = None THEN Other(currentRole) ELSE currentRole

\* Every caller takes the move from LegalMoves.
ApplyMove(move) ==
    /\ ~Finished
    /\ positions' = [positions EXCEPT ![currentRole] = Destination(Own, move)]
    /\ UNCHANGED blocked
    /\ RecordMoveAndAdvance(FALSE)

MayPlaceBarrier(cell) ==
    /\ ~Finished /\ currentRole = "cop"
    /\ cell \in Neighbors(Own) \cup {Own}
    /\ Cardinality(blocked) < MaxBarriers
    /\ cell \notin blocked

PlaceBarrier(cell) ==
    /\ MayPlaceBarrier(cell)
    /\ blocked' = blocked \cup {cell}
    /\ UNCHANGED positions
    /\ RecordMoveAndAdvance(cell = positions["thief"])

\* What agent_move may return: what the advisor proposes, or the greedy move
\* with respect to the cell the belief points to.
Proposals == Moves
AgentMoves ==
    {IF proposed \in LegalMoves THEN proposed
     ELSE GreedyMove(Own, guess, currentRole = "cop") : proposed \in Proposals, guess \in Cell}

-------------------------------------------------------------------------------
(* The simulated match: one turn is an action of the cop and one of the    *)
(* thief, each chosen by a policy that is told where the other is.         *)

Policies == {"placeholder", "injected"}

PolicyMoves(policy) ==
    IF policy = "placeholder" THEN {GreedyMove(Own, Opponent, currentRole = "cop")} ELSE Moves

Turn == turnsPlayed + 1

SimulatedCop(policy) ==
    /\ ~Finished /\ currentRole = "cop"
    /\ UNCHANGED blocked
    /\ \E move \in PolicyMoves(policy) :
          /\ positions' = [positions EXCEPT !["cop"] =
                              IF Legal(Own, move) THEN Destination(Own, move) ELSE @]
          /\ outcome' = IF ~Legal(Own, move) THEN "technical_loss"
                        ELSE IF CaughtAfter THEN "capture" ELSE None
    /\ turnsPlayed' = IF outcome' = None THEN turnsPlayed ELSE Turn
    /\ currentRole' = IF outcome' = None THEN "thief" ELSE "cop"

\* No policy places a barrier, so that a move that is not legal leaves the board.
SimulatedThief(policy) ==
    /\ ~Finished /\ currentRole = "thief"
    /\ UNCHANGED blocked
    /\ \E move \in PolicyMoves(policy) :
          /\ positions' = [positions EXCEPT !["thief"] =
                              IF Legal(Own, move) THEN Destination(Own, move) ELSE @]
          /\ outcome' = IF ~Legal(Own, move) \/ positions'["thief"] = positions["cop"]
                        THEN "capture"
                        ELSE IF Turn >= SurvivalThreshold \/ Turn = MaxMoves
                        THEN "survival" ELSE None
    /\ turnsPlayed' = Turn
    /\ currentRole' = IF outcome' = None THEN "cop" ELSE "thief"
===============================================================================
