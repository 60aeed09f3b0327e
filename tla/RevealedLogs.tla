----------------------------- MODULE RevealedLogs ----------------------------
(***************************************************************************)
(* Any two logs two peers may reveal, record by record, the rules of the   *)
(* game a record may break, and what the replay of TrajectoryAudit finds   *)
(* of that, told without a replay.  The replay keeps no board: the rules   *)
(* that need one are named here, and are not among those it judges by.     *)
(***************************************************************************)
EXTENDS TrajectoryAudit

CONSTANTS
    ThiefPayloads,   \* the payloads each role may reveal
    PolicePayloads,
    Budget,          \* barriers the police may place
    MaxRecords       \* bound: records in both logs

ASSUME PayloadsAssumption ==
    \A p \in ThiefPayloads \cup PolicePayloads : p.step \in Int \cup {None}

VARIABLES thiefLog, policeLog

logs == <<thiefLog, policeLog>>

NothingRevealed == thiefLog = <<>> /\ policeLog = <<>>

Room == Len(thiefLog) + Len(policeLog) < MaxRecords

RevealThief(p)  == Room /\ thiefLog' = Append(thiefLog, p) /\ UNCHANGED policeLog
RevealPolice(p) == Room /\ policeLog' = Append(policeLog, p) /\ UNCHANGED thiefLog

Reveal ==
    \/ \E p \in ThiefPayloads : RevealThief(p)
    \/ \E p \in PolicePayloads : RevealPolice(p)

RevealSpec == NothingRevealed /\ [][Reveal]_logs

-----------------------------------------------------------------------------
Story    == Decorated("thief", thiefLog, policeLog)
Findings == Audit("thief", thiefLog, policeLog)

\* The index of the last record of a role among the first n, or 0.
LastOf(role, n) ==
    LET own == {i \in 1 .. n : Story[i].role = role}
    IN IF own = {} THEN 0 ELSE CHOOSE i \in own : \A j \in own : j <= i

\* The position a role last disclosed.
Where(role, n) ==
    LET i == LastOf(role, n) IN
    IF i # 0 THEN Story[i].payload.position
    ELSE IF role = "thief" THEN ThiefStart ELSE CopStart

\* Without a position the replay has nothing to check a move against.
Disclosed == \A i \in DOMAIN Story : Story[i].payload.position # None

\* The cells walled before the i-th record.
WallsBefore(i) ==
    {Story[j].payload.barrier : j \in {k \in 1 .. i - 1 : Story[k].role = "police"}} \ {None}

\* The barriers placed before the i-th record.
PlacedBefore(i) ==
    {j \in 1 .. i - 1 : Story[j].role = "police" /\ Story[j].payload.barrier # None}

\* The i-th record is the only one of its role with that step.
SealedOnce(i) ==
    LET p == Story[i].payload  role == Story[i].role IN
    /\ p.step # None /\ p.role \in {None, role}
    /\ \A j \in 1 .. i - 1 : Story[j].role # role \/ Story[j].payload.step # p.step

\* A known move leads to the cell disclosed, an unknown one to no cell beyond the
\* neighbours, and the state is that before or after.
MovesWell(p, from) ==
    /\ p.position \in Cell
    /\ IF ReadMove(p) \in Moves THEN p.position = Destination(from, ReadMove(p))
       ELSE Distance(p.position, from) <= 1
    /\ p.state \in {None, from, p.position}

\* Only the police places a barrier, on its cell or beside it, instead of a move.
BuildsWell(e, from) ==
    LET p == e.payload IN
    p.barrier # None => /\ e.role = "police" /\ p.position = from
                        /\ p.barrier \in Neighbors(from) \cup {from}

\* The rules of the game the i-th record breaks (board.py:96-113, 151-164; the
\* players take turns, and the thief begins: network_match.py:763).
Breaks(i) ==
    LET p    == Story[i].payload
        from == Where(Story[i].role, i - 1)
    IN {rule \in {"seal", "move", "barrier", "wall", "rebuilt", "budget", "turn"} :
          \/ rule = "seal"    /\ ~SealedOnce(i)
          \/ rule = "move"    /\ ~MovesWell(p, from)
          \/ rule = "barrier" /\ ~BuildsWell(Story[i], from)
          \/ rule = "wall"    /\ p.position \in WallsBefore(i) \ {from}
          \/ rule = "rebuilt" /\ p.barrier \in WallsBefore(i)
          \/ rule = "budget"  /\ p.barrier # None /\ Cardinality(PlacedBefore(i)) >= Budget
          \/ rule = "turn"    /\ \/ Story[i].role # IF i % 2 = 1 THEN "thief" ELSE "police"
                                 \/ p.step # (i + 1) \div 2}

\* The rules that take a board and a count of the turns, which the replay has not.
OfTheBoard == {"wall", "rebuilt", "budget", "turn"}

\* The replay finds a fault in the turns exactly when a record breaks a rule
\* that this record and the position before it decide.  So a game by all the
\* rules is never accused; what goes unnoticed is a step into a walled cell, a
\* barrier on another or beyond the budget, and a turn out of order, unless such
\* a record breaks one of the other rules too (network_match.py:454-513, 565-636).
FaultsAreFound ==
    Disclosed =>
        ((\E i \in DOMAIN Story : Breaks(i) \ OfTheBoard # {})
            <=> \E fault \in Findings.errors : fault[1] # "response_cell")

\* The cell on which the i-th record, of the police, rightly claims the thief.
RightClaim(i) ==
    LET p == Story[i].payload  cell == Where("thief", i) IN
    IF Story[i].role = "police" /\ cell \in {p.barrier} \cup ({p.claim} \cap {p.position})
    THEN cell ELSE None

\* The j-th record is the thief's first answer to the claim of the i-th.
Admits(i, j) ==
    /\ i < j /\ RightClaim(i) # None
    /\ Story[j].role = "thief"
    /\ Story[j].payload.response # None
    /\ Story[j].payload.response.caught
    /\ Story[j].payload.response.claim = RightClaim(i)
    /\ \A k \in i + 1 .. j - 1 : Story[k].role = "police" /\ RightClaim(k) = None

Captures == {i \in DOMAIN Story : \E j \in DOMAIN Story : Admits(i, j)}

\* The replay finds a capture if and only if the police rightly claimed the
\* thief and the thief's next answer admitted it; a coincidence of positions
\* alone is none (OPPONENT_MATCH_GUIDE.md:72, network_match.py:638-666).
CaptureIsAdmitted ==
    Disclosed /\ Findings.errors = {} =>
        Findings.capture = IF Captures = {} THEN None
                           ELSE Story[CHOOSE i \in Captures : \A j \in Captures : i <= j].payload.step

=============================================================================
