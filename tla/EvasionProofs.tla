----------------------------- MODULE EvasionProofs ----------------------------
(***************************************************************************)
(* For every board, barrier budget and length of the game: the evidence of *)
(* the thief allows for where the police is, a thief with a move out of    *)
(* reach of that evidence is not caught on its cell by the next turn, and  *)
(* no filter leaves the safest tier of the planner.                        *)
(***************************************************************************)
EXTENDS Evasion, FiniteSetTheorems, TLAPS

\* The emitter adds at most a tenth of the bound that it loses, so that a cap
\* of that bound is none.
FullScent == 9000000
UncappedEmitter == EmitterCap \in Nat /\ EmitterCap >= FullScent

-----------------------------------------------------------------------------
(* The scent tells where the emitter is.                                   *)

LEMMA DistanceFacts ==
    ASSUME NEW a \in Cell, NEW b \in Cell
    PROVE  /\ Distance(a, b) \in Nat
           /\ Distance(a, b) = 0 <=> a = b
<1>1. Size \in Nat
  BY SizeAssumption
<1>2. /\ a = <<a[1], a[2]>> /\ a[1] \in Int /\ a[2] \in Int
      /\ b = <<b[1], b[2]>> /\ b[1] \in Int /\ b[2] \in Int
  BY <1>1 DEF Cell
<1>3. Gap(a[1], b[1]) \in Nat /\ (Gap(a[1], b[1]) = 0 <=> a[1] = b[1])
  BY <1>2 DEF Gap
<1>4. Gap(a[2], b[2]) \in Nat /\ (Gap(a[2], b[2]) = 0 <=> a[2] = b[2])
  BY <1>2 DEF Gap
<1>5. Distance(a, b) \in Nat /\ (Distance(a, b) = 0 <=> a[1] = b[1] /\ a[2] = b[2])
  BY <1>3, <1>4 DEF Distance
<1> QED BY <1>2, <1>5

\* At the emitter's cell the emission is full, elsewhere two thirds at most.
LEMMA EmissionFacts ==
    ASSUME NEW c \in Cell, NEW x \in Cell
    PROVE  /\ Emission(c, x) \in Nat /\ Emission(c, x) <= CenterIntensity
           /\ x = c => Emission(c, x) = CenterIntensity
           /\ x # c => Emission(c, x) <= 600000
<1> DEFINE d == Distance(c, x)
<1>1. d \in Nat /\ (d = 0 <=> c = x)
  BY DistanceFacts
<1>2. CASE d > 2
  BY SMT, <1>1, <1>2 DEF Emission, Radius, CenterIntensity
<1>3. CASE d = 0
  BY SMT, <1>1, <1>3 DEF Emission, Radius, CenterIntensity
<1>4. CASE d = 1
  BY SMT, <1>1, <1>4 DEF Emission, Radius, CenterIntensity
<1>5. CASE d = 2
  BY SMT, <1>1, <1>5 DEF Emission, Radius, CenterIntensity
<1> QED BY SMT, <1>1, <1>2, <1>3, <1>4, <1>5

\* What a field holds.
Amount == {v \in Nat : v <= FullScent}
Field == [Cell -> Amount]

\* What a turn of an uncapped emitter adds to a cell is the emission.
LEMMA EmittedFacts ==
    ASSUME UncappedEmitter, NEW field \in Field, NEW c \in Cell
    PROVE  /\ Emitted(field, c) \in Field
           /\ \A x \in Cell : Innovation(field, Emitted(field, c), x) = Emission(c, x)
<1> SUFFICES ASSUME NEW x \in Cell
             PROVE  /\ Emitted(field, c)[x] \in Amount
                    /\ Innovation(field, Emitted(field, c), x) = Emission(c, x)
  <2>1. Emitted(field, c) = [x \in Cell |-> Emitted(field, c)[x]]
    BY DEF Emitted
  <2> QED BY <2>1 DEF Field
<1> DEFINE r == Retained(field[x])
           e == Emission(c, x)
<1>1. e \in Nat /\ e <= CenterIntensity
  BY SMT, EmissionFacts
<1>2. field[x] \in Amount
  BY DEF Field
<1>3. r \in Nat /\ r <= 8100000
  BY SMT, <1>2 DEF Retained, Amount, FullScent
<1>4. Emitted(field, c)[x] = Capped(r + e)
  BY SMT DEF Emitted
<1> HIDE DEF r, e
<1>5. Capped(r + e) = r + e
  BY SMT, <1>1, <1>3 DEF Capped, UncappedEmitter, FullScent, CenterIntensity
<1>6. Innovation(field, Emitted(field, c), x) = e
  BY SMT, <1>1, <1>3, <1>4, <1>5 DEF Innovation, r
<1> QED BY SMT, <1>1, <1>3, <1>4, <1>5, <1>6 DEF FullScent, Amount, CenterIntensity, e

\* The cell that stands out is the emitter's.
LEMMA FreshCenterIsEmitter ==
    ASSUME UncappedEmitter, NEW field \in Field, NEW c \in Cell
    PROVE  FreshCenter(field, Emitted(field, c)) = {c}
<1> DEFINE I(x) == Innovation(field, Emitted(field, c), x)
<1>1. \A x \in Cell : I(x) = Emission(c, x)
  BY SMT, EmittedFacts
<1>2. /\ I(c) = CenterIntensity
      /\ \A x \in Cell : x # c => I(x) \in Nat /\ I(x) <= 600000
  BY SMT, <1>1, EmissionFacts
<1>3. FreshCenter(field, Emitted(field, c)) =
        {x \in Cell : /\ I(x) >= MinCenter - Tolerance
                      /\ \A y \in Cell \ {x} : I(x) - I(y) >= MinimumGap}
  BY SMT DEF FreshCenter
<1> HIDE DEF I
<1>4. \A x \in Cell \ {c} : ~(I(x) - I(c) >= MinimumGap)
  BY SMT, <1>2 DEF MinimumGap, CenterIntensity
<1>5. I(c) >= MinCenter - Tolerance /\ \A y \in Cell \ {c} : I(c) - I(y) >= MinimumGap
  BY SMT, <1>2 DEF MinCenter, Tolerance, MinimumGap, CenterIntensity
<1> QED BY SMT, <1>3, <1>4, <1>5

-----------------------------------------------------------------------------
(* Reading a turn of the police.                                           *)

\* The evidence is about the police's last turn, and the anchor stays that
\* while the thief moves.
EvidenceInv ==
    /\ next \in {"thief", "police"} /\ cop \in Cell
    /\ scent \in Field
    /\ anchor = {} \/ cop \in anchor
    /\ next = "thief" =>
          /\ known \in {None, cop}
          /\ candidates = {} \/ cop \in candidates

\* From a true anchor, the scent of an uncapped emitter leaves no choice.
LEMMA CandidatesAreEmitter ==
    ASSUME UncappedEmitter, NEW field \in Field, NEW c \in Cell,
           NEW start, NEW blocked, NEW from \in Cell,
           c \in Reach(from, blocked), start = {} \/ from \in start
    PROVE  Candidates(field, Emitted(field, c), start, blocked) = {c}
<1>1. FreshCenter(field, Emitted(field, c)) = {c}
  BY FreshCenterIsEmitter
<1>2. start = {} \/ {c} \subseteq ReachOf(start, blocked)
  BY DEF ReachOf
<1> QED BY <1>1, <1>2 DEF Candidates

\* Whatever the police publishes, and with whatever barrier, the reading
\* allows for its cell.
LEMMA ReadHoldsCop ==
    ASSUME UncappedEmitter, EvidenceInv, cop' \in Cell, cop' \in Reach(cop, walls),
           NEW barrier, Publish(barrier)
    PROVE  EvidenceInv'
<1>1. PICK publish \in Publishes : Read(IF publish THEN cop' ELSE None, barrier)
  BY DEF Publish
<1>2. scent' = Emitted(scent, cop') /\ scent' \in Field /\ next' = "thief"
  BY EmittedFacts DEF Publish, EvidenceInv
<1> DEFINE claim == IF publish THEN cop' ELSE None
           inferred == Candidates(scent, scent', anchor, walls)
           walled == BarrierCandidates(barrier)
           disputed == Cardinality(inferred) = 1 /\ barrier # None /\ ~(inferred \subseteq walled)
<1>3. inferred = {cop'}
  BY <1>2, CandidatesAreEmitter DEF EvidenceInv
<1>4. /\ known' = claim
      /\ candidates' = IF claim # None THEN {}
                       ELSE IF Cardinality(inferred) = 1 /\ ~disputed THEN inferred
                       ELSE inferred \cup walled
      /\ anchor' = IF claim # None THEN {claim}
                   ELSE IF disputed THEN {} ELSE inferred
  BY <1>1 DEF Read
<1>5. claim \in {None, cop'}
  OBVIOUS
<1> HIDE DEF claim, inferred, walled, disputed
<1>6. known' \in {None, cop'} /\ (candidates' = {} \/ cop' \in candidates')
  BY <1>3, <1>4, <1>5
<1>7. anchor' = {} \/ cop' \in anchor'
  BY <1>3, <1>4, <1>5
<1> QED BY <1>2, <1>6, <1>7 DEF EvidenceInv

LEMMA ReachFacts ==
    ASSUME NEW c \in Cell, NEW blocked
    PROVE  Reach(c, blocked) \subseteq Cell /\ c \in Reach(c, blocked)
BY DEF Reach, Neighbors

LEMMA EvidenceInit == UncappedEmitter /\ Init => EvidenceInv
<1> SUFFICES ASSUME UncappedEmitter, Init PROVE EvidenceInv
  OBVIOUS
<1>1. 0 \in Amount
  BY SMT DEF Amount, FullScent
<1>2. scent \in Field
  BY <1>1 DEF Init, NoScent, Field
<1> QED BY <1>2, EvasionAssumption DEF Init, EvidenceInv

LEMMA EvidenceStep == UncappedEmitter /\ EvidenceInv /\ [Next]_vars => EvidenceInv'
<1> SUFFICES ASSUME UncappedEmitter, EvidenceInv, [Next]_vars
             PROVE  EvidenceInv'
  OBVIOUS
<1>1. CASE ThiefMoves
  BY <1>1 DEF ThiefMoves, EvidenceInv
<1>2. CASE PoliceMoves
  <2>1. cop \in Cell
    BY DEF EvidenceInv
  <2>2. cop' \in Reach(cop, walls) /\ cop' \in Cell /\ Publish(None)
    BY <1>2, <2>1, ReachFacts DEF PoliceMoves
  <2> QED BY <2>2, ReadHoldsCop
<1>3. CASE PoliceWalls
  <2>1. PICK cell : cop' = cop /\ Publish(cell)
    BY <1>3 DEF PoliceWalls
  <2>2. cop' \in Reach(cop, walls) /\ cop' \in Cell
    BY <2>1, ReachFacts DEF EvidenceInv
  <2> QED BY <2>1, <2>2, ReadHoldsCop
<1>4. CASE UNCHANGED vars
  BY <1>4 DEF vars, EvidenceInv
<1> QED BY <1>1, <1>2, <1>3, <1>4 DEF Next

LEMMA EvidenceAlways == ASSUME UncappedEmitter PROVE Spec => []EvidenceInv
<1>1. Init => EvidenceInv
  BY EvidenceInit
<1>2. EvidenceInv /\ [Next]_vars => EvidenceInv'
  BY EvidenceStep
<1> QED BY <1>1, <1>2, PTL DEF Spec

\* Public evidence never excludes the truth, on any board and with any
\* barriers, as long as the police's scent is not capped below what it can
\* reach (_infer_public_scent_candidates and the reading of a police turn).
THEOREM EvidenceIsTrue == ASSUME UncappedEmitter PROVE Spec => []EvidenceHoldsCop
<1>1. EvidenceInv => EvidenceHoldsCop
  BY DEF EvidenceInv, EvidenceHoldsCop
<1> QED BY <1>1, EvidenceAlways, PTL

-----------------------------------------------------------------------------
(* The move that is made.                                                  *)

\* The tiers narrow the legal moves down: within reach, and out of reach of the
\* targets as soon as one legal move is, else at least off them.
LEMMA TierFacts ==
    ASSUME NEW targets
    PROVE  LET legal == Reach(thief, walls)
               guarded_ == legal \ UNION {CaptureCells(t) : t \in targets}
           IN  /\ SafestTier(targets) \subseteq legal
               /\ guarded_ # {} => SafestTier(targets) \subseteq guarded_
               /\ legal \ targets # {} => SafestTier(targets) \subseteq legal \ targets
<1> DEFINE legal  == Reach(thief, walls)
           away   == legal \ UNION {CaptureCells(t) : t \in targets}
           direct == Prefer(legal, legal \ targets)
           near   == Prefer(direct, away)
           open   == Prefer(near, {c \in legal : \A t \in targets : ~Trapped(c, t)})
           exits  == Max({Mobility(c) : c \in open})
           freer  == IF Mobility(thief) <= 2 /\ exits > Mobility(thief)
                     THEN {c \in open : Mobility(c) = exits} ELSE open
           inner  == Max({Clearance(c) : c \in freer})
<1>1. SafestTier(targets) = IF LoopDetected THEN freer ELSE {c \in freer : Clearance(c) = inner}
  BY DEF SafestTier
<1> HIDE DEF inner
<1>2. SafestTier(targets) \subseteq freer
  BY <1>1
<1>3. freer \subseteq open
  OBVIOUS
<1> HIDE DEF freer, exits
<1>4. open \subseteq near
  BY DEF Prefer
<1> HIDE DEF open
<1>5. near \subseteq direct /\ (direct \cap away # {} => near \subseteq away)
  BY DEF Prefer
<1>6. /\ direct \subseteq legal
      /\ legal \ targets # {} => direct = legal \ targets
  BY DEF Prefer
<1>7. away \subseteq legal \ targets
  BY DEF CaptureCells, Reach
<1> HIDE DEF near, direct
<1>8. away # {} => near \subseteq away
  BY <1>5, <1>6, <1>7
<1> HIDE DEF away, legal
<1> QED BY <1>2, <1>3, <1>4, <1>5, <1>6, <1>8 DEF away, legal

LEMMA PlanFacts ==
    ASSUME NEW targets, NEW plan \in Plans(targets)
    PROVE  plan \subseteq SafestTier(targets) /\ plan # {}
BY DEF Plans

\* The advisor answers with an allowed move, and what is allowed is safe now.
LEMMA AllowedFacts ==
    ASSUME NEW plan, NEW fallback \in Allowed(plan), NEW proposal
    PROVE  LET move == Advised(proposal, fallback, Allowed(plan))
           IN  move \in Allowed(plan) /\ move \in SafeNow
BY DEF Advised, Allowed

\* What is safe now is within reach.
LEMMA SafeNowFacts ==
    /\ SafeNow \subseteq Reach(thief, walls)
    /\ Guaranteed # {} => SafeNow = Guaranteed
BY DEF SafeNow, Guaranteed, Reach

\* Unless the police may be on every legal move, the tier of its targets keeps
\* to the moves that are safe now.
LEMMA PlansAreSafeNow ==
    ASSUME ~(Reach(thief, walls) \subseteq Threats), NEW targets \in Targets
    PROVE  SafestTier(targets) \subseteq SafeNow
<1>1. CASE Threats = {}
  <2>1. Guaranteed = Reach(thief, walls)
    BY <1>1 DEF Guaranteed
  <2>2. Guaranteed # {}
    BY <2>1 DEF Reach
  <2> QED BY <2>1, <2>2, SafeNowFacts, TierFacts
<1>2. CASE Threats # {}
  <2>1. targets = Threats
    BY <1>2 DEF Targets
  <2>2. CASE Guaranteed # {}
    BY <2>1, <2>2, SafeNowFacts, TierFacts DEF Guaranteed
  <2>3. CASE Guaranteed = {}
    <3>1. SafeNow = Reach(thief, walls) \ Threats
      BY <2>3 DEF SafeNow
    <3> QED BY <2>1, <3>1, TierFacts
  <2> QED BY <2>2, <2>3
<1> QED BY <1>1, <1>2

\* In every turn in which the police cannot be on all cells in reach, the move
\* that is made belongs to the safest tier: neither the filter of _choose_move
\* nor the advisor overrules a hard constraint of the planner.
THEOREM SafestTierIsAlwaysKept == Spec => SafestTierIsKept
<1> DEFINE Kept == next = "thief" /\ ~(Reach(thief, walls) \subseteq Threats) =>
                       \E targets \in Targets : thief' \in SafestTier(targets)
<1>1. [Next]_vars => [Kept]_vars
  <2> SUFFICES ASSUME Next, next = "thief", ~(Reach(thief, walls) \subseteq Threats)
               PROVE  \E targets \in Targets : thief' \in SafestTier(targets)
    OBVIOUS
  <2>1. ThiefMoves
    BY DEF Next, PoliceMoves, PoliceWalls
  <2>2. PICK targets \in Targets, proposal \in Reach(thief, walls) \cup {None} :
           \E plan \in Plans(targets) :
              \E fallback \in Allowed(plan) :
                 thief' = Advised(proposal, fallback, Allowed(plan))
    BY <2>1 DEF ThiefMoves
  <2>3. PICK plan \in Plans(targets) :
           \E fallback \in Allowed(plan) :
              thief' = Advised(proposal, fallback, Allowed(plan))
    BY <2>2
  <2>4. plan \subseteq SafestTier(targets) /\ plan # {} /\ plan \subseteq SafeNow
    BY PlanFacts, PlansAreSafeNow
  <2>5. Allowed(plan) = plan
    BY <2>4 DEF Allowed
  <2>6. thief' \in Allowed(plan)
    BY <2>3, AllowedFacts
  <2> QED BY <2>4, <2>5, <2>6
<1> QED BY <1>1, PTL DEF Spec, SafestTierIsKept

-----------------------------------------------------------------------------
(* Types.                                                                  *)

LEMMA CandidatesInCell ==
    ASSUME NEW old, NEW new, NEW start \in SUBSET Cell, NEW blocked
    PROVE  Candidates(old, new, start, blocked) \subseteq Cell
<1>1. ReachOf(start, blocked) \subseteq Cell
  BY ReachFacts DEF ReachOf
<1>2. FreshCenter(old, new) \subseteq Cell
  BY DEF FreshCenter
<1>3. Refreshed(old, new, ReachOf(start, blocked)) \subseteq Cell
  BY <1>1 DEF Refreshed
<1> QED BY <1>2, <1>3 DEF Candidates

LEMMA TypePublish ==
    ASSUME TypeOK, cop' \in Cell, NEW barrier \in Cell \cup {None}, Publish(barrier),
           walls' \subseteq Cell, IsFiniteSet(walls'), Cardinality(walls') <= MaxBarriers
    PROVE  TypeOK'
<1>1. PICK publish \in Publishes : Read(IF publish THEN cop' ELSE None, barrier)
  BY DEF Publish
<1> DEFINE claim == IF publish THEN cop' ELSE None
           inferred == Candidates(scent, scent', anchor, walls)
           walled == BarrierCandidates(barrier)
           disputed == Cardinality(inferred) = 1 /\ barrier # None /\ ~(inferred \subseteq walled)
<1>2. inferred \subseteq Cell
  BY CandidatesInCell DEF TypeOK
<1>3. walled \subseteq Cell
  BY DEF BarrierCandidates, Neighbors
<1>4. /\ known' = claim
      /\ candidates' = IF claim # None THEN {}
                       ELSE IF Cardinality(inferred) = 1 /\ ~disputed THEN inferred
                       ELSE inferred \cup walled
      /\ anchor' = IF claim # None THEN {claim}
                   ELSE IF disputed THEN {} ELSE inferred
  BY <1>1 DEF Read
<1>5. claim \in {None, cop'}
  OBVIOUS
<1> HIDE DEF claim, inferred, walled, disputed
<1>6. known' \in Cell \cup {None} /\ candidates' \subseteq Cell /\ anchor' \subseteq Cell
  BY <1>2, <1>3, <1>4, <1>5
<1>7. DOMAIN scent' = Cell
  BY DEF Publish, Emitted
<1>8. /\ next' = "thief" /\ thief' = thief /\ guarded' = guarded
      /\ verdict' \in {"failed", "caught", "boxed_in", "open"}
  BY DEF Publish
<1> QED BY <1>6, <1>7, <1>8 DEF TypeOK

\* The move made is a legal one.
LEMMA MoveIsLegal == ThiefMoves => thief' \in Reach(thief, walls)
<1> SUFFICES ASSUME ThiefMoves PROVE thief' \in Reach(thief, walls)
  OBVIOUS
<1>1. \E plan, proposal : \E fallback \in Allowed(plan) :
         thief' = Advised(proposal, fallback, Allowed(plan))
  BY DEF ThiefMoves
<1> QED BY <1>1, AllowedFacts, SafeNowFacts

LEMMA TypeStep == TypeOK /\ [Next]_vars => TypeOK'
<1> SUFFICES ASSUME TypeOK, [Next]_vars PROVE TypeOK'
  OBVIOUS
<1>1. CASE ThiefMoves
  <2>1. thief' \in Cell
    BY <1>1, MoveIsLegal, ReachFacts DEF TypeOK
  <2>2. /\ guarded' \in BOOLEAN /\ candidates' = {} /\ next' = "police"
        /\ verdict' \in {"survival", "open"}
    BY <1>1 DEF ThiefMoves
  <2> QED BY <1>1, <2>1, <2>2 DEF ThiefMoves, TypeOK
<1>2. CASE PoliceMoves
  <2>1. cop' \in Cell /\ walls' = walls /\ Publish(None)
    BY <1>2, ReachFacts DEF PoliceMoves, TypeOK
  <2> QED BY <2>1, TypePublish DEF TypeOK
<1>3. CASE PoliceWalls
  <2>1. PICK cell \in ({cop} \cup Neighbors(cop)) \ walls :
           walls' = walls \cup {cell} /\ cop' = cop /\ Publish(cell)
    BY <1>3 DEF PoliceWalls
  <2>2. cell \in Cell
    BY <2>1 DEF Neighbors, TypeOK
  <2>3. /\ IsFiniteSet(walls') /\ Cardinality(walls') = Cardinality(walls) + 1
    BY <2>1, FS_AddElement DEF TypeOK
  <2>4. Cardinality(walls) \in Nat /\ Cardinality(walls) < MaxBarriers
    BY <1>3, FS_CardinalityType DEF PoliceWalls, TypeOK
  <2>5. Cardinality(walls') <= MaxBarriers
    BY <2>3, <2>4, EvasionAssumption
  <2> QED BY <2>1, <2>2, <2>3, <2>5, TypePublish DEF TypeOK
<1>4. CASE UNCHANGED vars
  BY <1>4 DEF vars, TypeOK
<1> QED BY <1>1, <1>2, <1>3, <1>4 DEF Next

LEMMA InitTypeOK == Init => TypeOK
<1> SUFFICES ASSUME Init PROVE TypeOK
  OBVIOUS
<1>1. IsFiniteSet(walls) /\ Cardinality(walls) = 0
  BY FS_EmptySet DEF Init
<1>2. Cardinality(walls) <= MaxBarriers
  BY <1>1, EvasionAssumption
<1>3. DOMAIN scent = Cell
  BY DEF Init, NoScent
<1> QED BY <1>1, <1>2, <1>3, EvasionAssumption DEF Init, TypeOK

\* Every variable has its type, and the police never has more barriers on the
\* board than its budget.
THEOREM TypeCorrect == Spec => []TypeOK
<1>1. Init => TypeOK
  BY InitTypeOK
<1>2. TypeOK /\ [Next]_vars => TypeOK'
  BY TypeStep
<1> QED BY <1>1, <1>2, PTL DEF Spec

-----------------------------------------------------------------------------
(* The police's answer.                                                    *)

\* While the police is to move, a guarded thief is out of its reach.
GuardInv ==
    /\ TypeOK /\ EvidenceInv
    /\ guarded => next = "thief" \/ thief \notin Reach(cop, walls)
    /\ GuardedIsNotCaught

LEMMA GuardStep == UncappedEmitter /\ GuardInv /\ [Next]_vars => GuardInv'
<1> SUFFICES ASSUME UncappedEmitter, GuardInv, [Next]_vars
             PROVE  GuardInv'
  OBVIOUS
<1>1. TypeOK' /\ EvidenceInv'
  BY EvidenceStep, TypeStep DEF GuardInv
<1>0. thief # None
  BY EvasionAssumption DEF GuardInv, TypeOK
<1>2. CASE ThiefMoves
  <2>1. /\ next = "thief" /\ next' = "police" /\ UNCHANGED <<cop, walls>>
        /\ guarded' = (Threats # {} /\ Guaranteed # {}) /\ verdict' # "caught"
    BY <1>2 DEF ThiefMoves
  <2>2. \E plan, proposal : \E fallback \in Allowed(plan) :
           thief' = Advised(proposal, fallback, Allowed(plan))
    BY <1>2 DEF ThiefMoves
  <2>3. thief' \in SafeNow
    BY <2>2, AllowedFacts
  <2>4. Threats # {} => cop \in Threats
    BY <2>1 DEF Threats, GuardInv, EvidenceInv
  <2>5. guarded' => thief' \notin Reach(cop, walls)
    BY <2>1, <2>3, <2>4, SafeNowFacts DEF Guaranteed, CaptureCells
  <2>6. guarded' => thief' \notin Reach(cop', walls')
    BY <2>1, <2>5
  <2> QED BY <1>1, <2>1, <2>6 DEF GuardInv, GuardedIsNotCaught
<1>3. CASE PoliceMoves
  <2>1. /\ next = "police" /\ next' = "thief" /\ UNCHANGED <<thief, guarded>>
        /\ cop' \in Reach(cop, walls)
    BY <1>3 DEF PoliceMoves, Publish
  <2>2. PICK claim \in {None, cop'} :
           verdict' = IF BeliefRefuses(claim, None) THEN "failed"
                      ELSE IF thief \in {claim, None} THEN "caught"
                      ELSE IF BoxedIn(thief, walls') THEN "boxed_in"
                      ELSE "open"
    BY <1>3 DEF PoliceMoves, Publish
  <2>3. guarded /\ thief \in {claim, None} => FALSE
    BY <1>0, <2>1, <2>2 DEF GuardInv
  <2> QED BY <1>1, <2>1, <2>2, <2>3 DEF GuardInv, GuardedIsNotCaught
<1>4. CASE PoliceWalls
  <2>1. PICK cell \in ({cop} \cup Neighbors(cop)) \ walls : cop' = cop /\ Publish(cell)
    BY <1>4 DEF PoliceWalls
  <2>2. next = "police" /\ next' = "thief" /\ UNCHANGED <<thief, guarded>>
    BY <1>4, <2>1 DEF PoliceWalls, Publish
  <2>3. cell \in Reach(cop, walls) /\ cop \in Reach(cop, walls)
    BY <2>1 DEF Reach
  <2>4. PICK claim \in {None, cop} :
           verdict' = IF BeliefRefuses(claim, cell) THEN "failed"
                      ELSE IF thief \in {claim, cell} THEN "caught"
                      ELSE IF BoxedIn(thief, walls') THEN "boxed_in"
                      ELSE "open"
    BY <2>1 DEF Publish
  <2>5. guarded /\ thief \in {claim, cell} => FALSE
    BY <1>0, <2>2, <2>3, <2>4 DEF GuardInv
  <2> QED BY <1>1, <2>2, <2>4, <2>5 DEF GuardInv, GuardedIsNotCaught
<1>5. CASE UNCHANGED vars
  BY <1>1, <1>5 DEF vars, GuardInv, GuardedIsNotCaught
<1> QED BY <1>2, <1>3, <1>4, <1>5 DEF Next

\* On every board, a thief that had evidence and a move out of reach of it is
\* not caught on its cell by the police's next turn, whatever score, advisor and
\* fallback preferred.
THEOREM GuardedIsSafe == ASSUME UncappedEmitter PROVE Spec => []GuardedIsNotCaught
<1>1. Init => GuardInv
  <2>1. Init => TypeOK
    BY InitTypeOK
  <2> QED BY <2>1, EvidenceInit DEF Init, GuardInv, GuardedIsNotCaught
<1>2. GuardInv /\ [Next]_vars => GuardInv'
  BY GuardStep
<1>3. GuardInv => GuardedIsNotCaught
  BY DEF GuardInv
<1> QED BY <1>1, <1>2, <1>3, PTL DEF Spec
=============================================================================
