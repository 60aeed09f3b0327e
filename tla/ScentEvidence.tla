---------------------------- MODULE ScentEvidence -----------------------------
(***************************************************************************)
(* The scent an agent leaves on the board (domain/scent.py), and what the  *)
(* opponent infers from two successive public snapshots of it              *)
(* (_infer_public_scent_center and _infer_public_scent_candidates).        *)
(*                                                                         *)
(* Intensities are whole numbers of millionths, the six decimals of a      *)
(* snapshot.  A tenth is lost in each turn, so five turns are exact.       *)
(***************************************************************************)
EXTENDS Grid, FiniteSets

CONSTANTS
    EmitterCap,    \* what the emitter caps its field at; this program does not
    MaxAmbiguity   \* max_ambiguity: the most candidates worth having

CenterIntensity == 900000  \* center_intensity, also emission_cap
MinCenter       == 500000  \* min_center_intensity
Tolerance       == 20      \* rounding_tolerance
MinimumGap      == 50000   \* minimum_gap
Radius          == 2       \* half of field_size

NoScent == [c \in Cell |-> 0]

\* A tenth is forgotten in every turn: decay_rate.
Retained(v) == (9 * v) \div 10

Emission(center, cell) ==
    LET d == Distance(center, cell)
    IN  IF d > Radius THEN 0 ELSE (CenterIntensity * (Radius + 1 - d)) \div (Radius + 1)

Capped(v) == IF v > EmitterCap THEN EmitterCap ELSE v

\* decay and emit: the field after a turn that ends at the cell.
Emitted(field, cell) == [c \in Cell |-> Capped(Retained(field[c]) + Emission(cell, c))]

\* Board.legal_moves, by where they lead: staying never enters a cell.
Reach(cell, walls) == {cell} \cup (Neighbors(cell) \ walls)

ReachOf(cells, walls) == UNION {Reach(c, walls) : c \in cells}

Innovation(old, new, cell) == new[cell] - Retained(old[cell])

\* The one cell whose innovation stands out, if there is one.
FreshCenter(old, new) ==
    {c \in Cell :
        LET peak == Innovation(old, new, c)
        IN  /\ peak >= MinCenter - Tolerance
            /\ \A x \in Cell \ {c} : peak - Innovation(old, new, x) >= MinimumGap}

\* Cells at the cap that the retained trail alone does not explain.
Refreshed(old, new, cells) ==
    {c \in cells : /\ new[c] >= CenterIntensity - Tolerance
                   /\ Innovation(old, new, c) > Tolerance}

\* (Mutant) The anchor itself is not among the cells within one step.
CandidatesAfterMove(old, new, anchor, walls) ==
    LET near   == UNION {Neighbors(c) \ walls : c \in anchor}
        center == FreshCenter(old, new)
        capped == Refreshed(old, new, near)
    IN  IF center # {} /\ (anchor = {} \/ center \subseteq near) THEN center
        ELSE IF Cardinality(capped) > MaxAmbiguity THEN {}
        ELSE capped

\* Where the emitter can be: the fresh center if a step from the anchor leads
\* there, else the refreshed cells a step away, unless they are too many.
Candidates(old, new, anchor, walls) ==
    LET near   == ReachOf(anchor, walls)
        center == FreshCenter(old, new)
        capped == Refreshed(old, new, near)
    IN  IF center # {} /\ (anchor = {} \/ center \subseteq near) THEN center
        ELSE IF Cardinality(capped) > MaxAmbiguity THEN {}
        ELSE capped
=============================================================================
