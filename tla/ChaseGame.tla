------------------------------ MODULE ChaseGame ------------------------------
(***************************************************************************)
(* The game two peers are meant to play, as an umpire who sees the whole   *)
(* board would run it.  Thief and police act in turn.  The police moves or *)
(* places a barrier on its cell or next to it, and catches the thief at    *)
(* once when it, or its barrier, is on the thief's cell or the thief is    *)
(* walled in.  A thief that makes its last move uncaught has survived.     *)
(***************************************************************************)
EXTENDS Grid, FiniteSets

CONSTANTS CopStart, ThiefStart, MaxMoves, MaxBarriers

VARIABLES thief, police, walls, actions, verdict

vars == <<thief, police, walls, actions, verdict>>

Init ==
    /\ thief = ThiefStart /\ police = CopStart /\ walls = {}
    /\ actions = 0 /\ verdict = "open"

Reach(cell) ==
    {cell} \cup {c \in Cell \ walls : \E move \in Moves : c = Destination(cell, move)}

ThiefMoves ==
    /\ verdict = "open" /\ actions % 2 = 0
    /\ thief' \in Reach(thief)
    /\ actions' = actions + 1
    /\ verdict' = IF actions' = 2 * MaxMoves - 1 THEN "survival" ELSE "open"
    /\ UNCHANGED <<police, walls>>

PoliceActs ==
    /\ verdict = "open" /\ actions % 2 = 1
    /\ \/ police' \in Reach(police) /\ UNCHANGED walls
       \/ /\ Cardinality(walls) < MaxBarriers
          /\ \E cell \in (Neighbors(police) \cup {police}) \ walls : walls' = walls \cup {cell}
          /\ UNCHANGED police
    /\ actions' = actions + 1
    /\ verdict' = IF \/ thief = police' \/ thief \in walls' \ walls
                     \/ Neighbors(thief) \subseteq walls'
                  THEN "capture" ELSE "open"
    /\ UNCHANGED thief

Next == ThiefMoves \/ PoliceActs

Spec == Init /\ [][Next]_vars
=============================================================================
