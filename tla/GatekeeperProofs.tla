--------------------------- MODULE GatekeeperProofs ---------------------------
(***************************************************************************)
(* What holds of the gates for every threshold, capacity, rate and window: *)
(* no day is charged more than its quota, whatever processes start, stop   *)
(* and fail, no process sends faster than its bucket allows, and the       *)
(* breaker locks exactly after a burst.                                    *)
(***************************************************************************)
EXTENDS Gatekeeper, SequenceTheorems, WellFoundedInduction, TLAPS

\* The counter of an earlier day counts for nothing.
CountOf(q) == RolledOver(q).count

\* What is charged to the day is known to the process that runs, and to the
\* next one: the file is written before the report is sent.
QuotaInv ==
    /\ now \in Nat /\ today \in Days
    /\ process \in {"down", "idle", "sending"}
    /\ quota \in QuotaStates /\ file \in QuotaStates \cup {Torn, None}
    /\ charged \in [Days -> Nat]
    /\ \A d \in Days : charged[d] <= Threshold
    /\ \A d \in Days : d > today => charged[d] = 0
    /\ process # "down" => charged[today] <= CountOf(quota)
    /\ file \in QuotaStates => charged[today] <= CountOf(file)
    /\ file = None => charged[today] = 0

LEMMA CountOfType ==
    ASSUME NEW q \in QuotaStates, today \in Days
    PROVE  RolledOver(q) \in QuotaStates /\ CountOf(q) \in Nat
BY GatekeeperAssumption DEF CountOf, RolledOver, FullQuota, QuotaStates, Days

LEMMA QuotaInit == Init => QuotaInv
BY GatekeeperAssumption
   DEF Init, QuotaInv, CountOf, RolledOver, FullQuota, QuotaStates, Days

\* A refusal or an attempt that is not granted leaves the count of the day.
LEMMA QuotaRolls ==
    ASSUME QuotaInv, quota' = RolledOver(quota),
           UNCHANGED <<now, today, process, file, charged>>
    PROVE  QuotaInv'
<1>1. RolledOver(quota) \in QuotaStates
  BY CountOfType DEF QuotaInv
<1>2. CountOf(quota)' = CountOf(quota)
  BY DEF CountOf, RolledOver, FullQuota
<1>3. CountOf(file)' = CountOf(file)
  BY DEF CountOf, RolledOver, FullQuota
<1> QED BY <1>1, <1>2, <1>3 DEF QuotaInv

LEMMA QuotaStep == QuotaInv /\ [Next]_vars => QuotaInv'
<1> SUFFICES ASSUME QuotaInv, [Next]_vars PROVE QuotaInv'
  OBVIOUS
<1>1. CASE Open
  <2>1. CASE file = Torn
    BY <1>1, <2>1 DEF Open, gates, QuotaInv, CountOf, RolledOver, FullQuota
  <2>2. CASE file # Torn
    <3> DEFINE q == IF file = None THEN FullQuota ELSE file
    <3>1. /\ quota' = RolledOver(q) /\ process' = "idle"
          /\ UNCHANGED <<now, today, file, charged>>
      BY <1>1, <2>2 DEF Open
    <3>2. q \in QuotaStates
      BY <2>2, GatekeeperAssumption DEF QuotaInv, FullQuota, QuotaStates, Days
    <3>3. charged[today] <= CountOf(q)
      BY <2>2 DEF QuotaInv, CountOf, RolledOver, FullQuota, Days
    <3>4. CountOf(quota)' = CountOf(q)
      BY <3>1 DEF CountOf, RolledOver, FullQuota
    <3>5. CountOf(file)' = CountOf(file)
      BY <3>1 DEF CountOf, RolledOver, FullQuota
    <3>6. quota' \in QuotaStates
      BY <3>1, <3>2, CountOfType DEF QuotaInv
    <3> QED BY <3>1, <3>3, <3>4, <3>5, <3>6 DEF QuotaInv
  <2> QED BY <2>1, <2>2
<1>2. CASE RefuseByCheck
  BY <1>2, QuotaRolls DEF RefuseByCheck, history
<1>3. CASE Trip
  BY <1>3, QuotaRolls DEF Trip
<1>4. CASE RefuseByPace
  BY <1>4, QuotaRolls DEF RefuseByPace
<1>5. CASE Grant
  <2> DEFINE q == RolledOver(quota)
  <2>1. /\ q \in QuotaStates /\ q.day = today /\ q.count < Threshold
        /\ charged[today] <= q.count
    BY <1>5, CountOfType
       DEF Grant, Attempt, QuotaAllows, QuotaInv, CountOf, RolledOver, FullQuota, Submitting
  <2>2. /\ quota' = [day |-> today, count |-> q.count + 1] /\ file' = quota'
        /\ process' = "sending" /\ UNCHANGED <<now, today>>
        /\ charged' = [charged EXCEPT ![today] = @ + 1]
    BY <1>5, <2>1 DEF Grant, Charge, QuotaStates
  <2>3. quota' \in QuotaStates /\ CountOf(quota)' = q.count + 1 /\ CountOf(file)' = q.count + 1
    BY <2>1, <2>2 DEF CountOf, RolledOver, FullQuota, QuotaStates, QuotaInv, Days
  <2>4. charged' \in [Days -> Nat] /\ charged'[today] = charged[today] + 1
    BY <2>2 DEF QuotaInv
  <2>5. \A d \in Days : charged'[d] <= Threshold
    BY <2>1, <2>2, <2>4, GatekeeperAssumption DEF QuotaInv, QuotaStates
  <2>6. \A d \in Days : d > today => charged'[d] = 0
    BY <2>2 DEF QuotaInv, Days
  <2>7. quota' # None
    BY <2>3, GatekeeperAssumption
  <2> QED BY <2>1, <2>2, <2>3, <2>4, <2>5, <2>6, <2>7 DEF QuotaInv, QuotaStates
<1>6. CASE Finish \/ BackOff \/ Tick \/ UNCHANGED vars
  <2>1. /\ UNCHANGED <<today, quota, file, charged>>
        /\ now' \in Nat /\ process' \in {"down", "idle", "sending"}
        /\ process' # "down" => process # "down"
    BY <1>6, GatekeeperAssumption DEF Finish, BackOff, Tick, vars, gates, history, QuotaInv
  <2> QED BY <2>1 DEF QuotaInv, CountOf, RolledOver, FullQuota
<1>7. CASE Stop
  <2>1. /\ UNCHANGED <<now, today, quota, charged>> /\ process' = "down"
        /\ file' \in {file, Torn}
    BY <1>7 DEF Stop, history
  <2>2. CASE file' = Torn
    BY <2>1, <2>2, GatekeeperAssumption DEF QuotaInv
  <2>3. CASE file' = file
    BY <2>1, <2>3 DEF QuotaInv, CountOf, RolledOver, FullQuota
  <2> QED BY <2>1, <2>2, <2>3
<1>8. CASE Midnight
  <2>1. /\ UNCHANGED <<now, process, quota, file, charged>>
        /\ today' = today + 1 /\ today' \in Days
    BY <1>8, GatekeeperAssumption DEF Midnight, gates, history, QuotaInv, Days
  <2>2. charged[today'] = 0 /\ \A d \in Days : d > today' => charged[d] = 0
    BY <2>1 DEF QuotaInv, Days
  <2>3. CountOf(quota)' \in Nat
    BY <2>1 DEF QuotaInv, CountOf, RolledOver, FullQuota, QuotaStates, Days
  <2>4. file \in QuotaStates => CountOf(file)' \in Nat
    BY <2>1 DEF QuotaInv, CountOf, RolledOver, FullQuota, QuotaStates, Days
  <2> QED BY <2>1, <2>2, <2>3, <2>4 DEF QuotaInv
<1> QED BY <1>1, <1>2, <1>3, <1>4, <1>5, <1>6, <1>7, <1>8 DEF Next, Submit

\* No day is charged with more reports than its quota: the file outlives every
\* process, and a process that finds it torn has no gates to pass.
THEOREM QuotaHolds == Spec => []ChargedWithinQuota
<1>1. QuotaInv => ChargedWithinQuota
  BY DEF QuotaInv, ChargedWithinQuota
<1> QED BY QuotaInit, QuotaStep, <1>1, PTL DEF Spec

-----------------------------------------------------------------------------
(* The pace.                                                               *)

\* What was taken by the i-th grant and those after it.
Taken(i) == (Len(granted) - i + 1) * Scale

\* What the bucket holds and what was taken since a grant is no more than
\* its capacity and what flowed in since that grant.
Budget(i) == Taken(i) + tokens <= Capacity * Scale + Rate * (updated - granted[i])

PaceInv ==
    /\ now \in Nat /\ updated \in Nat /\ updated <= now
    /\ tokens \in Nat /\ tokens <= Capacity * Scale
    /\ granted \in Seq(Nat)
    /\ \A i \in DOMAIN granted : granted[i] <= updated /\ Budget(i)
    /\ PaceHolds

\* What flows in over two stretches of time.
LEMMA Flow ==
    ASSUME NEW r \in Nat, NEW a \in Nat, NEW b \in Nat, NEW c \in Nat, c <= b, b <= a
    PROVE  r * (a - c) = r * (a - b) + r * (b - c) /\ r * (a - b) \in Nat
<1>1. a - c = (a - b) + (b - c) /\ a - b \in Nat /\ b - c \in Nat
  OBVIOUS
<1>2. \A x, y \in Nat : r * (x + y) = r * x + r * y /\ r * x \in Nat
  OBVIOUS
<1> QED BY <1>1, <1>2

LEMMA Products ==
    /\ Capacity * Scale \in Nat /\ Scale <= Capacity * Scale
    /\ \A n \in Nat : n * Scale \in Nat /\ (n + 1) * Scale = n * Scale + Scale
<1>1. Capacity \in Nat /\ Capacity >= 1 /\ Scale \in Nat /\ Scale >= 1
  BY GatekeeperAssumption
<1>2. \A n \in Nat : n * Scale \in Nat /\ (n + 1) * Scale = n * Scale + Scale
  BY <1>1
<1>3. PICK n \in Nat : Capacity = n + 1
  <2>1. Capacity - 1 \in Nat /\ Capacity = (Capacity - 1) + 1
    BY <1>1
  <2> QED BY <2>1
<1>4. Capacity * Scale = n * Scale + Scale
  BY <1>2, <1>3
<1> QED BY <1>1, <1>2, <1>4

LEMMA LesserBounds ==
    ASSUME NEW x \in Nat, NEW y \in Nat
    PROVE  Lesser(x, y) \in Nat /\ Lesser(x, y) <= x /\ Lesser(x, y) <= y
BY DEF Lesser

LEMMA PaceInit == Init => PaceInv
<1> SUFFICES ASSUME Init PROVE PaceInv
  OBVIOUS
<1>1. granted = <<>> /\ DOMAIN granted = {}
  BY DEF Init
<1> QED BY <1>1, Products DEF Init, PaceInv, PaceHolds

\* What a bucket that is filled now holds, up to its rim.
LEMMA Filled ==
    ASSUME PaceInv
    PROVE  /\ Refilled \in Nat /\ Refilled <= Capacity * Scale
           /\ \A i \in DOMAIN granted :
                /\ granted[i] \in Nat /\ granted[i] <= now /\ Taken(i) \in Nat
                /\ Rate * (now - granted[i]) \in Nat
                /\ Taken(i) + Refilled <= Capacity * Scale + Rate * (now - granted[i])
<1> DEFINE flow == Rate * (now - updated)
<1>1. Rate \in Nat /\ flow \in Nat
  BY GatekeeperAssumption, Flow DEF PaceInv
<1>2. Refilled \in Nat /\ Refilled <= Capacity * Scale /\ Refilled <= tokens + flow
  <2>1. Refilled = Lesser(Capacity * Scale, tokens + flow)
    BY DEF Refilled
  <2> HIDE DEF flow
  <2>2. tokens + flow \in Nat
    BY <1>1 DEF PaceInv
  <2> QED BY <2>1, <2>2, LesserBounds, Products
<1>3. ASSUME NEW i \in DOMAIN granted
      PROVE  /\ granted[i] \in Nat /\ granted[i] <= now /\ Taken(i) \in Nat
             /\ Rate * (now - granted[i]) \in Nat
             /\ Taken(i) + Refilled <= Capacity * Scale + Rate * (now - granted[i])
  <2> DEFINE older == Rate * (updated - granted[i])
  <2>1. granted[i] \in Nat /\ granted[i] <= updated /\ granted[i] <= now
    BY DEF PaceInv
  <2>2. Rate * (now - granted[i]) = flow + older /\ older \in Nat
    BY <1>1, <2>1, Flow DEF PaceInv
  <2>3. Taken(i) \in Nat
    <3>1. Len(granted) - i + 1 \in Nat
      BY DEF PaceInv
    <3> QED BY <3>1, Products DEF Taken
  <2>4. Taken(i) + tokens <= Capacity * Scale + older
    BY DEF PaceInv, Budget
  <2>5. ASSUME NEW k \in Nat, NEW t \in Nat, NEW u \in Nat, NEW c \in Nat,
               NEW f \in Nat, NEW g \in Nat, k + t <= c + g, u <= t + f
        PROVE  k + u <= c + (f + g) /\ f + g \in Nat
    BY <2>5
  <2>6. tokens \in Nat /\ Capacity * Scale \in Nat
    BY Products DEF PaceInv
  <2> HIDE DEF flow, older
  <2>7. Taken(i) + Refilled <= Capacity * Scale + (flow + older) /\ flow + older \in Nat
    BY <1>1, <1>2, <2>2, <2>3, <2>4, <2>5, <2>6
  <2> QED BY <2>1, <2>2, <2>3, <2>7
<1> QED BY <1>2, <1>3

\* Filled, and nothing taken: RefuseByPace.
LEMMA PaceFills ==
    ASSUME PaceInv, UNCHANGED <<now, granted>>, tokens' = Refilled, updated' = now
    PROVE  PaceInv'
<1>1. \A i \in DOMAIN granted : Taken(i)' = Taken(i)
  BY DEF Taken
<1>2. \A i \in DOMAIN granted : granted[i] <= now /\ Budget(i)'
  BY <1>1, Filled DEF Budget
<1>3. PaceHolds'
  BY DEF PaceHolds, PaceInv
<1> QED BY <1>2, <1>3, Filled DEF PaceInv

\* Filled, and a token taken: Grant.
LEMMA PaceTakes ==
    ASSUME PaceInv, UNCHANGED now, Scale <= Refilled, updated' = now,
           tokens' = Refilled - Scale, granted' = Append(granted, now)
    PROVE  PaceInv'
<1> DEFINE n == Len(granted) + 1
<1>1. /\ Scale \in Nat /\ tokens' \in Nat /\ tokens' <= Capacity * Scale
      /\ Rate \in Nat /\ Scale + tokens' = Refilled
  BY GatekeeperAssumption, Products, Filled
<1>2. /\ granted' \in Seq(Nat) /\ Len(granted') = n /\ granted'[n] = now
      /\ DOMAIN granted = 1 .. n - 1 /\ DOMAIN granted' = 1 .. n /\ n \in Nat
      /\ \A i \in DOMAIN granted : granted'[i] = granted[i]
  BY DEF PaceInv
<1>3. ASSUME NEW i \in DOMAIN granted'
      PROVE  /\ granted'[i] \in Nat /\ granted'[i] <= now /\ Budget(i)'
             /\ Taken(i)' = (n - i + 1) * Scale /\ Taken(i)' \in Nat
             /\ Rate * (now - granted'[i]) \in Nat
  <2>0. Taken(i)' = (n - i + 1) * Scale
    BY <1>2 DEF Taken
  <2>1. CASE i = n
    <3>1. Taken(i)' = Scale
      <4>1. n - i + 1 = 1 /\ 1 * Scale = Scale
        BY <1>1, <1>2, <2>1
      <4> QED BY <2>0, <4>1
    <3>2. now - granted'[i] = 0 /\ Rate * 0 = 0 /\ now \in Nat
      BY <1>1, <1>2, <2>1 DEF PaceInv
    <3>3. Taken(i)' + tokens' <= Capacity * Scale + Rate * (now - granted'[i])
      BY <1>1, <3>1, <3>2, Filled, Products
    <3> QED BY <1>1, <1>2, <2>0, <2>1, <3>1, <3>2, <3>3 DEF Budget
  <2>2. CASE i \in DOMAIN granted
    <3>1. Taken(i)' = Taken(i) + Scale
      <4>1. Len(granted) - i + 1 \in Nat
        BY <1>2, <2>2
      <4>2. n - i + 1 = (Len(granted) - i + 1) + 1
        BY <1>2, <2>2
      <4> QED BY <2>0, <4>1, <4>2, Products DEF Taken
    <3>2. /\ granted[i] \in Nat /\ granted[i] <= now /\ Taken(i) \in Nat
          /\ Rate * (now - granted[i]) \in Nat
          /\ Taken(i) + Refilled <= Capacity * Scale + Rate * (now - granted[i])
      BY <2>2, Filled
    <3>3. Taken(i)' + tokens' = Taken(i) + Refilled /\ Taken(i)' \in Nat
      BY <1>1, <3>1, <3>2
    <3>4. Taken(i)' + tokens' <= Capacity * Scale + Rate * (now - granted'[i])
      BY <1>2, <2>2, <3>2, <3>3
    <3> QED BY <1>2, <2>0, <2>2, <3>2, <3>3, <3>4 DEF Budget
  <2> QED BY <1>2, <2>1, <2>2
<1>4. PaceHolds'
  <2> SUFFICES ASSUME NEW i \in DOMAIN granted', NEW j \in DOMAIN granted', i <= j
               PROVE  (j - i + 1) * Scale
                        <= Capacity * Scale + Rate * (granted'[j] - granted'[i])
    BY DEF PaceHolds
  <2>1. CASE j = n
    <3>1. Taken(i)' + tokens' <= Capacity * Scale + Rate * (now - granted'[i])
      BY <1>3 DEF Budget
    <3>2. Taken(i)' <= Capacity * Scale + Rate * (now - granted'[i])
      <4>1. ASSUME NEW k \in Nat, NEW t \in Nat, NEW c \in Nat, NEW f \in Nat, k + t <= c + f
            PROVE  k <= c + f
        BY <4>1
      <4> QED BY <1>1, <1>3, <3>1, <4>1, Products
    <3> QED BY <1>2, <1>3, <2>1, <3>2
  <2>2. CASE j \in DOMAIN granted
    BY <1>2, <2>2 DEF PaceInv, PaceHolds
  <2> QED BY <1>2, <2>1, <2>2
<1> QED BY <1>1, <1>2, <1>3, <1>4 DEF PaceInv

LEMMA PaceStep == PaceInv /\ [Next]_vars => PaceInv'
<1> SUFFICES ASSUME PaceInv, [Next]_vars PROVE PaceInv'
  OBVIOUS
<1>1. CASE Open
  <2>1. CASE file = Torn
    BY <1>1, <2>1 DEF Open, gates, PaceInv, PaceHolds, Budget, Taken
  <2>2. CASE file # Torn
    <3>1. tokens' = Capacity * Scale /\ updated' = now /\ now' = now /\ granted' = <<>>
      BY <1>1, <2>2 DEF Open
    <3>2. DOMAIN granted' = {} /\ granted' \in Seq(Nat)
      BY <3>1
    <3> QED BY <3>1, <3>2, Products DEF PaceInv, PaceHolds
  <2> QED BY <2>1, <2>2
<1>2. CASE RefuseByPace
  BY <1>2, PaceFills DEF RefuseByPace
<1>3. CASE Grant
  BY <1>3, PaceTakes DEF Grant
<1>4. CASE RefuseByCheck \/ Trip \/ Finish \/ BackOff \/ Stop \/ Tick \/ Midnight \/ UNCHANGED vars
  <2>1. UNCHANGED <<updated, tokens, granted>> /\ now' \in Nat /\ now <= now'
    BY <1>4, GatekeeperAssumption
       DEF RefuseByCheck, Trip, Finish, BackOff, Stop, Tick, Midnight, vars, gates, history,
           PaceInv
  <2> QED BY <2>1 DEF PaceInv, PaceHolds, Budget, Taken
<1> QED BY <1>1, <1>2, <1>3, <1>4 DEF Next, Submit

\* In no stretch of time does a process get more than its bucket holds and
\* what flowed in since, for every capacity and rate.
THEOREM PaceIsBounded == Spec => []PaceHolds
<1>1. PaceInv => PaceHolds
  BY DEF PaceInv
<1> QED BY PaceInit, PaceStep, <1>1, PTL DEF Spec

-----------------------------------------------------------------------------
(* The breaker.                                                            *)

\* More attempts than the breaker allows, from the i-th on, in one window.
Burst(i) ==
    /\ i + MaxInWindow \in DOMAIN attempts
    /\ attempts[i + MaxInWindow] - attempts[i] <= Window

\* The attempts the breaker no longer knows.
Forgotten == Len(attempts) - Len(recent)

\* What the breaker knows is the end of the history, and exactly the part of
\* it that lies in the window of the last attempt.
BreakerInv ==
    /\ now \in Nat /\ tripped \in BOOLEAN
    /\ attempts \in Seq(Nat) /\ recent \in Seq(Nat)
    /\ \A i \in DOMAIN attempts : attempts[i] <= now
    /\ \A i, j \in DOMAIN attempts : i <= j => attempts[i] <= attempts[j]
    /\ Forgotten \in Nat
    /\ \A i \in DOMAIN recent : recent[i] = attempts[Forgotten + i]
    /\ \A i \in 1 .. Forgotten : attempts[i] < attempts[Len(attempts)] - Window
    /\ BreakerIsExact

\* A set of numbers that is not empty has a least element.
LEMMA LeastIndex ==
    ASSUME NEW S \in SUBSET Nat, S # {}
    PROVE  \E n \in S : \A m \in S : n <= m
<1>1. IsWellFoundedOn(OpToRel(<, Nat), Nat)
  BY NatLessThanWellFounded
<1>2. PICK n \in S : \A m \in S : <<m, n>> \notin OpToRel(<, Nat)
  BY <1>1, WFMin
<1>3. \A m \in S : ~(m < n)
  BY <1>2 DEF OpToRel
<1> QED BY <1>3

\* What the loop drops: a beginning whose attempts are all too old, up to one
\* that is not.
LEMMA DropOlderKeeps ==
    ASSUME NEW sends \in Seq(Nat), NEW cutoff \in Int,
           Len(sends) > 0, sends[Len(sends)] >= cutoff
    PROVE  \E first \in DOMAIN sends :
             /\ DropOlder(sends, cutoff) = SubSeq(sends, first, Len(sends))
             /\ sends[first] >= cutoff
             /\ \A j \in 1 .. first - 1 : sends[j] < cutoff
<1> DEFINE kept == {i \in DOMAIN sends : sends[i] >= cutoff}
<1>1. kept \in SUBSET Nat /\ kept # {}
  BY DOMAIN sends = 1 .. Len(sends), Len(sends) \in Nat
<1>2. PICK n \in kept : \A m \in kept : n <= m
  BY <1>1, LeastIndex, Zenon
<1>3. n \in DOMAIN sends /\ sends[n] >= cutoff
  OBVIOUS
<1>4. \A j \in 1 .. n - 1 : sends[j] < cutoff
  <2> SUFFICES ASSUME NEW j \in 1 .. n - 1 PROVE sends[j] < cutoff
    OBVIOUS
  <2>1. j \in DOMAIN sends /\ sends[j] \in Nat /\ ~(n <= j)
    BY <1>3
  <2>2. j \notin kept
    BY <1>2, <2>1
  <2> QED BY <2>1, <2>2
<1> QED BY <1>3, <1>4, Zenon DEF DropOlder

\* Nothing is attempted yet: Init, and a new process.
LEMMA BreakerEmpty ==
    ASSUME now \in Nat, tripped = FALSE, attempts = <<>>, recent = <<>>
    PROVE  BreakerInv
<1>1. /\ DOMAIN attempts = {} /\ DOMAIN recent = {}
      /\ attempts \in Seq(Nat) /\ recent \in Seq(Nat)
  OBVIOUS
<1>2. Forgotten = 0 /\ 1 .. 0 = {}
  BY DEF Forgotten
<1>3. BreakerIsExact
  BY <1>1 DEF BreakerIsExact
<1> QED BY <1>1, <1>2, <1>3 DEF BreakerInv

\* An attempt is recorded, and what fell out of its window is forgotten.
LEMMA BreakerRecords ==
    ASSUME BreakerInv, Attempt, UNCHANGED now
    PROVE  BreakerInv'
<1>0. attempts \in Seq(Nat) /\ recent \in Seq(Nat) /\ now \in Nat /\ Forgotten \in Nat
  BY Zenon DEF BreakerInv
<1>1. PICK n \in Nat, m \in Nat, k \in Nat :
        /\ n = Len(attempts) /\ DOMAIN attempts = 1 .. n
        /\ m = Len(recent) /\ DOMAIN recent = 1 .. m
        /\ k = Forgotten /\ n = k + m
  <2>1. /\ Len(attempts) \in Nat /\ DOMAIN attempts = 1 .. Len(attempts)
        /\ Len(recent) \in Nat /\ DOMAIN recent = 1 .. Len(recent)
    BY <1>0
  <2>2. Len(attempts) = Forgotten + Len(recent)
    BY <2>1 DEF Forgotten
  <2> QED BY <1>0, <2>1, <2>2
<1>2. /\ now \in Nat /\ Window \in Nat /\ MaxInWindow \in Nat /\ MaxInWindow >= 1
      /\ \A i \in 1 .. n : attempts[i] \in Nat /\ attempts[i] <= now
      /\ \A i, j \in 1 .. n : i <= j => attempts[i] <= attempts[j]
      /\ \A i \in 1 .. m : recent[i] \in Nat /\ recent[i] = attempts[k + i]
      /\ \A i \in 1 .. k : attempts[i] < attempts[n] - Window
  <2>1. DOMAIN attempts = 1 .. n /\ DOMAIN recent = 1 .. m
    BY <1>1
  <2>2. /\ \A i \in DOMAIN attempts : attempts[i] <= now
        /\ \A i, j \in DOMAIN attempts : i <= j => attempts[i] <= attempts[j]
        /\ \A i \in DOMAIN recent : recent[i] = attempts[k + i]
        /\ \A i \in 1 .. k : attempts[i] < attempts[n] - Window
    BY <1>1, Zenon DEF BreakerInv
  <2>3. \A i \in 1 .. n : attempts[i] \in Nat
    BY <1>0, <2>1
  <2>4. \A i \in 1 .. m : recent[i] \in Nat
    BY <1>0, <2>1
  <2>5. Window \in Nat /\ MaxInWindow \in Nat /\ MaxInWindow >= 1
    BY GatekeeperAssumption
  <2> QED BY <1>0, <2>1, <2>2, <2>3, <2>4, <2>5
<1>3. PICK cutoff \in Int : cutoff = now - Window
  BY <1>2
<1>4. PICK sends \in Seq(Nat) :
        /\ sends = Append(recent, now) /\ Len(sends) = m + 1 /\ sends[m + 1] = now
        /\ DOMAIN sends = 1 .. m + 1
        /\ \A i \in 1 .. m : sends[i] = recent[i]
  <2>1. /\ Append(recent, now) \in Seq(Nat) /\ Len(Append(recent, now)) = Len(recent) + 1
        /\ Append(recent, now)[Len(recent) + 1] = now
        /\ \A i \in 1 .. Len(recent) : Append(recent, now)[i] = recent[i]
    BY <1>0, AppendProperties
  <2>2. DOMAIN Append(recent, now) = 1 .. Len(recent) + 1
    BY <2>1, LenProperties
  <2> QED BY <1>1, <2>1, <2>2
<1>5. /\ ~tripped /\ attempts' = Append(attempts, now) /\ now' = now
      /\ recent' = DropOlder(sends, cutoff)
      /\ tripped' = (Len(recent') > MaxInWindow)
  BY <1>3, <1>4 DEF Attempt, Trips, Recent
<1>6. /\ attempts' \in Seq(Nat) /\ Len(attempts') = n + 1 /\ attempts'[n + 1] = now
      /\ DOMAIN attempts' = 1 .. n + 1
      /\ \A i \in 1 .. n : attempts'[i] = attempts[i]
  <2>1. /\ attempts' \in Seq(Nat) /\ Len(attempts') = Len(attempts) + 1
        /\ attempts'[Len(attempts) + 1] = now
        /\ \A i \in 1 .. Len(attempts) : attempts'[i] = attempts[i]
    BY <1>0, <1>5, AppendProperties
  <2>2. DOMAIN attempts' = 1 .. Len(attempts) + 1
    BY <2>1, LenProperties
  <2> QED BY <1>1, <2>1, <2>2
<1>7. \A i \in 1 .. m + 1 : k + i \in 1 .. n + 1 /\ sends[i] = attempts'[k + i]
  <2> SUFFICES ASSUME NEW i \in 1 .. m + 1
               PROVE  k + i \in 1 .. n + 1 /\ sends[i] = attempts'[k + i]
    OBVIOUS
  <2>1. CASE i = m + 1
    BY <1>1, <1>4, <1>6, <2>1
  <2>2. CASE i \in 1 .. m
    <3>1. k + i \in 1 .. n
      BY <1>1, <2>2
    <3> QED BY <1>2, <1>4, <1>6, <2>2, <3>1
  <2> QED BY <2>1, <2>2
<1>8. PICK first \in 1 .. m + 1 :
        /\ recent' = SubSeq(sends, first, m + 1)
        /\ sends[first] >= cutoff
        /\ \A j \in 1 .. first - 1 : sends[j] < cutoff
  <2>1. Len(sends) > 0 /\ sends[Len(sends)] >= cutoff
    BY <1>2, <1>3, <1>4
  <2> QED BY <1>4, <1>5, <2>1, DropOlderKeeps
<1>9. /\ recent' \in Seq(Nat) /\ Len(recent') = m + 2 - first
      /\ DOMAIN recent' = 1 .. m + 2 - first
      /\ \A i \in 1 .. m + 2 - first : recent'[i] = sends[first + i - 1]
  <2>1. first \in 1 .. Len(sends) + 1 /\ m + 1 \in first - 1 .. Len(sends)
    BY <1>4
  <2>2. m + 1 - first + 1 = m + 2 - first /\ ~(m + 1 < first)
    OBVIOUS
  <2>3. recent' \in Seq(Nat) /\ Len(recent') = m + 2 - first
    BY <1>8, <2>1, <2>2, SubSeqProperties
  <2>4. \A i \in 1 .. m + 2 - first : recent'[i] = sends[first + i - 1]
    BY <1>8, <2>1, <2>2, SubSeqProperties
  <2> QED BY <2>3, <2>4
<1>10. PICK gone \in Nat : gone = k + first - 1 /\ gone <= n /\ Forgotten' = gone
  <2>1. k + first - 1 \in Nat /\ k + first - 1 <= n
    BY <1>1
  <2>2. Forgotten' = n + 1 - (m + 2 - first)
    BY <1>6, <1>9 DEF Forgotten
  <2>3. n + 1 - (m + 2 - first) = k + first - 1
    BY <1>1
  <2> QED BY <2>1, <2>2, <2>3
<1>11. \A i \in 1 .. m + 2 - first : recent'[i] = attempts'[gone + i]
  <2> SUFFICES ASSUME NEW i \in 1 .. m + 2 - first PROVE recent'[i] = attempts'[gone + i]
    OBVIOUS
  <2>1. first + i - 1 \in 1 .. m + 1 /\ k + (first + i - 1) = gone + i
    BY <1>10
  <2> QED BY <1>7, <1>9, <2>1
<1>12. \A i \in 1 .. n + 1 : attempts'[i] \in Nat /\ attempts'[i] <= now
  <2> SUFFICES ASSUME NEW i \in 1 .. n + 1 PROVE attempts'[i] \in Nat /\ attempts'[i] <= now
    OBVIOUS
  <2>1. i = n + 1 \/ i \in 1 .. n
    OBVIOUS
  <2> QED BY <1>2, <1>6, <2>1
<1>13. \A i, j \in 1 .. n + 1 : i <= j => attempts'[i] <= attempts'[j]
  <2> SUFFICES ASSUME NEW i \in 1 .. n + 1, NEW j \in 1 .. n + 1, i <= j
               PROVE  attempts'[i] <= attempts'[j]
    OBVIOUS
  <2>1. CASE j = n + 1
    BY <1>6, <1>12, <2>1
  <2>2. CASE j # n + 1
    <3>1. i \in 1 .. n /\ j \in 1 .. n
      BY <2>2
    <3> QED BY <1>2, <1>6, <3>1
  <2> QED BY <2>1, <2>2
<1>14. \A i \in 1 .. gone : attempts'[i] < cutoff
  <2> SUFFICES ASSUME NEW i \in 1 .. gone PROVE attempts'[i] < cutoff
    OBVIOUS
  <2>1. CASE i <= k
    <3>1. i \in 1 .. n /\ n \in 1 .. n /\ i \in 1 .. k
      BY <1>10, <1>1, <2>1
    <3>2. /\ attempts[i] < attempts[n] - Window /\ attempts[n] <= now
          /\ attempts[i] \in Nat /\ attempts[n] \in Nat
      BY <1>2, <3>1
    <3>3. attempts[i] < now - Window
      BY <1>2, <3>2
    <3> QED BY <1>3, <1>6, <3>1, <3>3
  <2>2. CASE i > k
    <3>1. i - k \in 1 .. first - 1 /\ i - k \in 1 .. m + 1 /\ k + (i - k) = i
      BY <1>10, <2>2
    <3> QED BY <1>7, <1>8, <3>1
  <2> QED BY <2>1, <2>2
<1>15. \A i \in gone + 1 .. n + 1 : attempts'[i] >= cutoff
  <2> SUFFICES ASSUME NEW i \in gone + 1 .. n + 1 PROVE attempts'[i] >= cutoff
    OBVIOUS
  <2>1. gone + 1 = k + first /\ gone + 1 \in 1 .. n + 1 /\ i \in 1 .. n + 1 /\ gone + 1 <= i
    BY <1>10
  <2>2. attempts'[gone + 1] >= cutoff
    BY <1>7, <1>8, <2>1
  <2>3. attempts'[gone + 1] <= attempts'[i]
    BY <1>13, <2>1
  <2>4. attempts'[gone + 1] \in Nat /\ attempts'[i] \in Nat
    BY <1>12, <2>1
  <2> QED BY <2>2, <2>3, <2>4
<1>16. tripped' <=> n + 1 - MaxInWindow >= gone + 1
  <2>1. m + 2 - first = n - gone + 1
    BY <1>1, <1>10
  <2>2. n - gone + 1 > MaxInWindow <=> n + 1 - MaxInWindow >= gone + 1
    BY <1>2
  <2> QED BY <1>5, <1>9, <2>1, <2>2
<1>17. BreakerIsExact'
  <2>1. \A i \in 1 .. n : i + MaxInWindow \in 1 .. n
                            => ~(attempts[i + MaxInWindow] - attempts[i] <= Window)
    <3>1. DOMAIN attempts = 1 .. n
      BY <1>1
    <3>2. BreakerIsExact
      BY Zenon DEF BreakerInv
    <3> QED BY <1>5, <3>1, <3>2 DEF BreakerIsExact
  <2>2. ASSUME NEW i \in 1 .. n + 1, i + MaxInWindow \in 1 .. n + 1,
               attempts'[i + MaxInWindow] - attempts'[i] <= Window
        PROVE  tripped'
    <3>1. i \in 1 .. n
      BY <1>2, <2>2
    <3>2. i + MaxInWindow = n + 1
      <4> SUFFICES ASSUME i + MaxInWindow # n + 1 PROVE FALSE
        OBVIOUS
      <4>1. i + MaxInWindow \in 1 .. n
        BY <1>2, <2>2
      <4> QED BY <1>6, <2>1, <2>2, <3>1, <4>1
    <3>3. ~(attempts'[i] < cutoff)
      <4>1. attempts'[i] \in Nat
        BY <1>12
      <4>2. now - attempts'[i] <= Window
        BY <1>6, <2>2, <3>2
      <4> QED BY <1>2, <1>3, <4>1, <4>2
    <3>4. ~(i \in 1 .. gone)
      BY <1>14, <3>3
    <3> QED BY <1>2, <1>16, <3>1, <3>2, <3>4
  <2>3. ASSUME tripped'
        PROVE  \E i \in 1 .. n + 1 :
                 /\ i + MaxInWindow \in 1 .. n + 1
                 /\ attempts'[i + MaxInWindow] - attempts'[i] <= Window
    <3>1. PICK i \in gone + 1 .. n + 1 : i + MaxInWindow = n + 1
      BY <1>2, <1>16, <2>3
    <3>2. i \in 1 .. n + 1 /\ n + 1 \in 1 .. n + 1
      OBVIOUS
    <3>3. attempts'[i] >= cutoff /\ attempts'[i] \in Nat
      BY <1>12, <1>15, <3>2
    <3>4. now - attempts'[i] <= Window
      BY <1>2, <1>3, <3>3
    <3> QED BY <1>6, <3>1, <3>2, <3>4
  <2> QED BY <1>6, <2>2, <2>3 DEF BreakerIsExact
<1>18. \A i \in 1 .. gone : attempts'[i] < attempts'[Len(attempts')] - Window
  BY <1>3, <1>6, <1>14
<1>19. tripped' \in BOOLEAN
  BY <1>5
<1> QED BY <1>2, <1>5, <1>6, <1>9, <1>10, <1>11, <1>12, <1>13, <1>17, <1>18, <1>19
        DEF BreakerInv

LEMMA BreakerStep == BreakerInv /\ [Next]_vars => BreakerInv'
<1> SUFFICES ASSUME BreakerInv, [Next]_vars PROVE BreakerInv'
  OBVIOUS
<1>1. CASE Open
  <2>1. CASE file = Torn
    BY <1>1, <2>1 DEF Open, gates, BreakerInv, BreakerIsExact, Forgotten
  <2>2. CASE file # Torn
    <3>1. attempts' = <<>> /\ recent' = <<>> /\ tripped' = FALSE /\ now' \in Nat
      BY <1>1, <2>2 DEF Open, BreakerInv
    <3>2. DOMAIN attempts' = {} /\ DOMAIN recent' = {}
      BY <3>1
    <3>3. Forgotten' = 0 /\ 1 .. 0 = {}
      BY <3>1 DEF Forgotten
    <3>4. BreakerIsExact'
      BY <3>1, <3>2 DEF BreakerIsExact
    <3>5. attempts' \in Seq(Nat) /\ recent' \in Seq(Nat)
      BY <3>1
    <3> QED BY <3>1, <3>2, <3>3, <3>4, <3>5 DEF BreakerInv
  <2> QED BY <2>1, <2>2
<1>2. CASE Trip \/ RefuseByPace \/ Grant
  BY <1>2, BreakerRecords DEF Trip, RefuseByPace, Grant
<1>3. CASE RefuseByCheck \/ Finish \/ BackOff \/ Stop \/ Tick \/ Midnight \/ UNCHANGED vars
  <2>1. UNCHANGED <<recent, tripped, attempts>> /\ now' \in Nat /\ now <= now'
    BY <1>3, GatekeeperAssumption
       DEF RefuseByCheck, Finish, BackOff, Stop, Tick, Midnight, vars, gates, history, BreakerInv
  <2>2. \A i \in DOMAIN attempts : attempts[i] <= now'
    BY <2>1 DEF BreakerInv
  <2> QED BY <2>1, <2>2 DEF BreakerInv, BreakerIsExact, Forgotten
<1> QED BY <1>1, <1>2, <1>3 DEF Next, Submit

\* The breaker is locked if and only if a process made more attempts in one
\* window than it allows, for every window and every number, although it keeps
\* only the attempts of the last window.
THEOREM BreakerTripsExactly == Spec => []BreakerIsExact
<1>1. BreakerInv => BreakerIsExact
  BY DEF BreakerInv
<1>2. Init => BreakerInv
  <2>1. Init => now \in Nat /\ tripped = FALSE /\ attempts = <<>> /\ recent = <<>>
    BY DEF Init
  <2> QED BY <2>1, BreakerEmpty
<1> QED BY BreakerStep, <1>1, <1>2, PTL DEF Spec
===============================================================================
