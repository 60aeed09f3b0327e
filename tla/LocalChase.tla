------------------------------ MODULE LocalChase ------------------------------
(***************************************************************************)
(* The chase a single process plays, as an umpire sees it.  Cop and thief  *)
(* act in turn, the cop first; who steps onto the other has ended it, and  *)
(* so has a cop whose barrier is on the thief or leaves it no way out.  A  *)
(* thief that is still free after the last action has survived.  A new     *)
(* chase may begin at any time.                                            *)
(***************************************************************************)
EXTENDS Grid, FiniteSets

CONSTANTS CopStart, ThiefStart, MaxBarriers, Lengths

VARIABLES cop, thief, walls, actions, length, lawful, verdict

vars == <<cop, thief, walls, actions, length, lawful, verdict>>

Init ==
    /\ cop = CopStart /\ thief = ThiefStart /\ walls = {}
    /\ actions = 0 /\ length \in Lengths /\ lawful \in BOOLEAN /\ verdict = "open"

Reach(cell) == {cell} \cup {c \in Neighbors(cell) : c \notin walls}

Ends(caught) ==
    /\ actions' = actions + 1
    /\ verdict' = IF caught THEN "capture"
                  ELSE IF actions' = length THEN "survival" ELSE "open"

CopActs ==
    /\ verdict = "open" /\ actions % 2 = 0
    /\ \/ cop' \in Reach(cop) /\ UNCHANGED walls
       \/ /\ Cardinality(walls) < MaxBarriers
          /\ \E cell \in (Neighbors(cop) \cup {cop}) \ walls : walls' = walls \cup {cell}
          /\ UNCHANGED cop
    /\ Ends(thief = cop' \/ thief \in walls' \/ Neighbors(thief) \subseteq walls')
    /\ UNCHANGED <<thief, length, lawful>>

ThiefMoves ==
    /\ verdict = "open" /\ actions % 2 = 1
    /\ thief' \in Reach(thief)
    /\ Ends(thief' = cop)
    /\ UNCHANGED <<cop, walls, length, lawful>>

\* An action no rule allows: a thief that leaves the board is caught, and a cop
\* that cannot do what it chose has lost.  Lawful players never do that.
Forfeits ==
    /\ verdict = "open" /\ ~lawful
    /\ actions' = actions + 1
    /\ verdict' = IF actions % 2 = 1 THEN "capture" ELSE "technical_loss"
    /\ UNCHANGED <<cop, thief, walls, length, lawful>>

NewChase ==
    /\ cop' = CopStart /\ thief' = ThiefStart /\ walls' = {}
    /\ actions' = 0 /\ verdict' = "open"
    /\ UNCHANGED <<length, lawful>>

Next == CopActs \/ ThiefMoves \/ Forfeits \/ NewChase

Spec == Init /\ [][Next]_vars
===============================================================================
