--------------------------- MODULE TrajectoryAudit ---------------------------
(***************************************************************************)
(* The replay of the revealed records at the end of a network match        *)
(* (network_match.py: _revealed_post_position and                          *)
(* _audit_revealed_trajectory) and, beside it, what the replay is meant to *)
(* find: the capture exchange, stated without a replay.                    *)
(*                                                                         *)
(* A record is revealed by a role and carries a payload; a field the peer  *)
(* does not disclose is None.  A cell is a pair <<row, column>>.           *)
(***************************************************************************)
EXTENDS Grid, SequencesExt

CONSTANTS
    None,        \* an absent field
    CopStart,    \* start cells, signed in the negotiation
    ThiefStart

ASSUME StartAssumption ==
    /\ CopStart \in Cell /\ ThiefStart \in Cell
    /\ None \notin Cell /\ None \notin Int /\ None \notin [step : Int, cell : Cell]

-----------------------------------------------------------------------------
(* _revealed_post_position                                                 *)

\* _revealed_move reads a missing move as the text "None", an alias of STAY.
ReadMove(p) == IF p.move = "absent" THEN "STAY" ELSE p.move

Broken == [cell |-> None, error |-> TRUE]
Found(cell) == [cell |-> cell, error |-> FALSE]

\* Only the position tells where the agent is: no known move links it to
\* the position before.
Located(p, previous) ==
    LET candidate == IF p.position # None THEN p.position ELSE p.state IN
    CASE candidate = None -> Found(None)
      [] candidate \notin Cell \cup {None} -> Broken
      [] OTHER ->
           IF /\ previous # None
              /\ \/ p.position # None /\ p.state \notin {None, previous, p.position}
                 \/ Distance(candidate, previous) > 1
           THEN Broken ELSE Found(candidate)

\* (Mutant) The state disclosed is taken for the cell after the move.
MovedByState(p, previous) ==
    LET target == Destination(previous, ReadMove(p)) IN
    IF target \in Cell /\ p.state = target THEN Found(target) ELSE Broken

\* The move must lead from the position before to the position disclosed.
Moved(p, previous) ==
    LET target == Destination(previous, ReadMove(p)) IN
    IF /\ target \in Cell
       /\ IF p.position # None
          THEN p.position = target /\ p.state \in {None, previous, target}
          ELSE p.state \in {target, previous}
    THEN Found(target) ELSE Broken

RevealedPost(p, previous) ==
    IF previous = None \/ ReadMove(p) \notin Moves
    THEN Located(p, previous) ELSE Moved(p, previous)

-----------------------------------------------------------------------------
(* _audit_revealed_trajectory                                              *)

\* A record takes part when its payload has one of the fields of a turn.
Audited(p) ==
    p.move # "absent" \/ p.terminal_ack \/ p.claim # None \/ p.response # None

SortStep(p) == IF p.step = None THEN -1 ELSE p.step

Precedes(d, e) ==
    \/ SortStep(d.payload) < SortStep(e.payload)
    \/ /\ SortStep(d.payload) = SortStep(e.payload)
       /\ d.role = "thief" /\ e.role # "thief"

Entries(role, records) ==
    [i \in 1 .. Len(records) |-> [role |-> role, payload |-> records[i]]]

\* The records that take part, in the order of a stable sort: the place of one
\* is the number of those that do not come after it.
Sorted(all) ==
    LET kept  == {i \in DOMAIN all : Audited(all[i].payload)}
        Upto(i) == {j \in kept : \/ Precedes(all[j], all[i])
                                 \/ j <= i /\ ~Precedes(all[i], all[j])}
    IN [k \in 1 .. Cardinality(kept) |-> all[CHOOSE i \in kept : Cardinality(Upto(i)) = k]]

Decorated(role, own, peer) ==
    LET other == IF role = "thief" THEN "police" ELSE "thief"
    IN Sorted(Entries(role, own) \o Entries(other, peer))

Beginning ==
    [position |-> [police |-> CopStart, thief |-> ThiefStart],
     seen |-> {}, errors |-> {},
     coincidence |-> None, capture |-> None, trailing |-> 0, pending |-> None]

Fault(a, kind, e) == [a EXCEPT !.errors = @ \cup {<<kind, e.role, e.payload.step>>}]

\* What is wrong with a declared barrier, whatever the position.
TargetFaults(e) ==
    {k \in {"thief_barrier", "barrier_target"} :
        /\ e.payload.barrier # None
        /\ \/ k = "thief_barrier" /\ e.role = "thief"
           \/ k = "barrier_target" /\ e.payload.barrier \notin Cell}

\* (Mutant) The police may move and place a barrier in one turn.
PlacementFaultsOfReach(e, previous, post) ==
    {k \in {"barrier_far"} :
        /\ e.payload.barrier # None /\ e.role = "police" /\ previous # None
        /\ Distance(e.payload.barrier, previous) > 1}

\* A barrier takes the whole turn of the police, and reaches one cell.
PlacementFaults(e, previous, post) ==
    {k \in {"barrier_and_move", "barrier_far"} :
        /\ e.payload.barrier # None /\ e.role = "police" /\ previous # None
        /\ \/ k = "barrier_and_move" /\ post # previous
           \/ k = "barrier_far" /\ Distance(e.payload.barrier, previous) > 1}

WithFaults(a, kinds, e) ==
    [a EXCEPT !.errors = @ \cup {<<k, e.role, e.payload.step>> : k \in kinds}]

Coincide(position) == position.police # None /\ position.police = position.thief

\* The thief's record answers the claim that is pending.
Answered(a, e) ==
    LET r == e.payload.response IN
    IF e.role # "thief" \/ a.pending = None THEN a
    ELSE LET b == [a EXCEPT !.pending = None] IN
         IF r = None \/ ~r.caught THEN b
         ELSE IF r.claim = a.pending.cell THEN [b EXCEPT !.capture = a.pending.step]
         ELSE Fault(b, "response_cell", e)

\* (Mutant) Any claim on the thief's cell is pending, wherever the police is.
ClaimedAnywhere(a, e) ==
    IF e.role = "police" /\ a.position.thief \in {e.payload.claim, e.payload.barrier}
    THEN [a EXCEPT !.pending = [step |-> e.payload.step, cell |-> a.position.thief]]
    ELSE a

\* A claim of the police is pending when the replay proves it.
Claimed(a, e) ==
    LET p == e.payload IN
    IF e.role # "police" THEN a
    ELSE IF p.barrier # None /\ a.position.thief = p.barrier
         THEN [a EXCEPT !.pending = [step |-> p.step, cell |-> p.barrier]]
    ELSE IF p.claim # None /\ Coincide(a.position) /\ p.claim = a.position.police
         THEN [a EXCEPT !.pending = [step |-> p.step, cell |-> p.claim]]
    ELSE a

\* The exchange of claims and answers, once the position is known.
Exchanged(a, e) == Claimed(Answered(a, e), e)

\* The record's position is known.
Replayed(a, e, post) ==
    LET b == [a EXCEPT !.position[e.role] = post] IN
    IF b.capture # None
    THEN IF e.payload.move # "absent" THEN [b EXCEPT !.trailing = @ + 1] ELSE b
    ELSE Exchanged(IF Coincide(b.position) /\ b.coincidence = None
                   THEN [b EXCEPT !.coincidence = <<e.payload.step, e.role>>] ELSE b, e)

AuditRecord(a, e) ==
    LET p        == e.payload
        previous == a.position[e.role]
        post     == RevealedPost(p, previous)
        known    == WithFaults([a EXCEPT !.seen = @ \cup {<<e.role, p.step>>}],
                               TargetFaults(e), e)
    IN CASE p.step = None -> Fault(a, "step", e)
         [] p.step # None /\ p.role \notin {None, e.role} -> Fault(a, "role", e)
         [] p.step # None /\ p.role \in {None, e.role} ->
              CASE <<e.role, p.step>> \in a.seen -> Fault(a, "duplicate", e)
                [] <<e.role, p.step>> \notin a.seen /\ post.error ->
                     Fault(known, "position", e)
                [] OTHER ->
                     IF post.cell = None
                     THEN [known EXCEPT !.position[e.role] = None]
                     ELSE Replayed(WithFaults(known,
                                     PlacementFaults(e, previous, post.cell), e),
                                   e, post.cell)

\* What the audit knows after each record.
Replay(entries) ==
    LET after[k \in 0 .. Len(entries)] ==
            IF k = 0 THEN Beginning ELSE AuditRecord(after[k - 1], entries[k])
    IN after

\* The audit of the records of two peers, called by the peer of that role.
Audit(role, own, peer) ==
    LET entries == Decorated(role, own, peer) IN Replay(entries)[Len(entries)]
=============================================================================
