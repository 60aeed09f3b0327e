-------------------------- MODULE OrchestratorProofs --------------------------
(***************************************************************************)
(* For every number of retries and every timeout, the log of run_turn is   *)
(* what the peer holds, but for the turn under way or the one that failed. *)
(***************************************************************************)
EXTENDS Orchestrator, SequenceTheorems, TLAPS

Inv == TypeOK /\ DeliveryInv

\* The peer's list of commitments is a list of numbers without a gap.
LEMMA UpToSeq ==
    ASSUME NEW n \in Nat
    PROVE  /\ UpTo(n) \in Seq(1 .. n) /\ Len(UpTo(n)) = n
           /\ Append(UpTo(n), n + 1) = UpTo(n + 1)
<1>1. UpTo(n) \in Seq(1 .. n) /\ Len(UpTo(n)) = n
  BY DEF UpTo
<1>2. UpTo(n + 1) \in Seq(1 .. n + 1) /\ Len(UpTo(n + 1)) = n + 1
  BY DEF UpTo
<1>3. Append(UpTo(n), n + 1) \in Seq(1 .. n + 1) /\ Len(Append(UpTo(n), n + 1)) = n + 1
  BY <1>1
<1>4. ASSUME NEW i \in 1 .. n + 1
      PROVE  Append(UpTo(n), n + 1)[i] = UpTo(n + 1)[i]
  BY <1>1 DEF UpTo
<1> QED BY <1>1, <1>2, <1>3, <1>4, SeqEqual

LEMMA InitInv == Init => Inv
<1> SUFFICES ASSUME Init PROVE Inv
  OBVIOUS
<1>1. log = <<>> /\ Len(log) = 0 /\ log \in Seq(1 .. MaxTurns)
  BY DEF Init
<1>2. UpTo(0) = log
  <2>1. UpTo(0) \in Seq(1 .. 0) /\ Len(UpTo(0)) = 0
    BY UpToSeq
  <2>2. \A s \in Seq(1 .. 0) : s # <<>> => Len(s) \in Nat \ {0}
    BY EmptySeq
  <2> QED BY <1>1, <2>1, <2>2
<1>3. TypeOK
  <2>1. /\ MaxRetries \in Nat /\ ThinkingTime \in Nat /\ MaxTurns \in Nat
        /\ Timeout \in Nat /\ WatchdogTimeout \in Nat
    BY OrchestratorAssumption
  <2>2. state \in DOMAIN Legal
    BY DEF Init, Legal
  <2>3. received \in Seq(1 .. MaxTurns)
    BY <1>1 DEF Init
  <2>4. wire \subseteq Request /\ replies \subseteq Request
    BY DEF Init
  <2>5. /\ turn \in 0 .. MaxTurns /\ attempt \in 1 .. MaxRetries + 1
        /\ elapsed \in 0 .. Timeout /\ thought \in 0 .. ThinkingTime + 1
        /\ silence \in 0 .. WatchdogTimeout + 1
    BY <2>1 DEF Init
  <2> QED BY <1>1, <2>2, <2>3, <2>4, <2>5 DEF Init, TypeOK
<1>4. LogIsWhatPeerHolds
  BY <1>1, <1>2 DEF Init, LogIsWhatPeerHolds
<1> QED BY <1>1, <1>3, <1>4 DEF Init, Inv, DeliveryInv

\* The log or one more.
LEMMA ReceivedShape ==
    ASSUME Inv
    PROVE  /\ log = UpTo(Len(log)) /\ Len(log) \in Nat
           /\ \/ received = UpTo(Len(log)) /\ Len(received) = Len(log)
              \/ received = UpTo(Len(log) + 1) /\ Len(received) = Len(log) + 1
<1>1. log = UpTo(Len(log)) /\ Len(log) \in Nat
  BY DEF Inv, TypeOK, DeliveryInv, LogIsWhatPeerHolds
<1>2. CASE received = log
  BY <1>1, <1>2
<1>3. CASE received = UpTo(Len(log) + 1)
  <2>1. Len(log) + 1 \in Nat
    BY <1>1
  <2>2. Len(UpTo(Len(log) + 1)) = Len(log) + 1
    BY <2>1, UpToSeq
  <2> QED BY <1>1, <1>3, <2>2
<1> QED
  BY <1>1, <1>2, <1>3 DEF Inv, DeliveryInv, LogIsWhatPeerHolds

LEMMA NextInv == Inv /\ [Next]_vars => Inv'
<1> SUFFICES ASSUME Inv, [Next]_vars PROVE Inv'
  OBVIOUS
<1> USE OrchestratorAssumption
<1>1. CASE BeginTurn
  BY <1>1 DEF BeginTurn, Inv, TypeOK, DeliveryInv, LogIsWhatPeerHolds, Legal, peerVars
<1>2. CASE RefuseTurn
  BY <1>2 DEF RefuseTurn, Inv, TypeOK, DeliveryInv, LogIsWhatPeerHolds, peerVars
<1>3. CASE BrainRaises
  BY <1>3 DEF BrainRaises, Inv, TypeOK, DeliveryInv, LogIsWhatPeerHolds, peerVars, clockVars
<1>4. CASE BrainDecides
  BY <1>4 DEF BrainDecides, SendAttempt, Inv, TypeOK, DeliveryInv, LogIsWhatPeerHolds,
              Legal, Request
<1>5. CASE Retry
  BY <1>5 DEF Retry, SendAttempt, Inv, TypeOK, DeliveryInv, LogIsWhatPeerHolds, Request
<1>6. CASE GiveUp
  BY <1>6 DEF GiveUp, Inv, TypeOK, DeliveryInv, LogIsWhatPeerHolds, Legal, peerVars, clockVars
<1>7. CASE Finish
  <2>1. received = UpTo(Len(log) + 1) /\ turn = Len(log) + 1 /\ Len(received) = turn
    BY <1>7, ReceivedShape DEF Finish, Inv, DeliveryInv
  <2>2. log' = UpTo(turn) /\ Len(log') = turn /\ log' = received
    BY <1>7, <2>1, ReceivedShape, UpToSeq DEF Finish
  <2>3. TypeOK'
    BY <1>7, <2>2 DEF Finish, Inv, TypeOK, Legal
  <2> QED BY <1>7, <2>1, <2>2, <2>3 DEF Finish, Inv, DeliveryInv, LogIsWhatPeerHolds
<1>8. ASSUME NEW m \in Request, Deliver(m) PROVE Inv'
  <2>1. m.commit \in 1 .. turn /\ m.commit \in 1 .. MaxTurns
    BY <1>8 DEF Deliver, Inv, DeliveryInv, Request
  <2>2. CASE Contains(received, m.commit)
    <3>1. m.commit <= Len(received)
      BY <2>2, ReceivedShape, <2>1 DEF Contains, UpTo
    <3> QED
      BY <1>8, <2>2, <3>1 DEF Deliver, Inv, TypeOK, DeliveryInv, LogIsWhatPeerHolds, clockVars
  <2>3. CASE ~Contains(received, m.commit)
    <3>1. m.commit > Len(received)
      BY <2>1, <2>3, ReceivedShape DEF Contains, UpTo
    <3>2. /\ received = log /\ Len(received) = Len(log)
          /\ turn = Len(log) + 1 /\ m.commit = turn
      BY <2>1, <3>1, ReceivedShape DEF Inv, TypeOK, DeliveryInv
    <3>3. task = "sending" \/ state = "TECHNICAL_LOSS"
      BY <3>2 DEF Inv, TypeOK, DeliveryInv
    <3>4. received' = UpTo(Len(log) + 1) /\ Len(received') = turn
      <4>1. Len(log) \in Nat /\ Len(log) + 1 \in Nat /\ log = UpTo(Len(log))
        BY ReceivedShape
      <4>2. received' = Append(UpTo(Len(log)), Len(log) + 1)
        BY <1>8, <2>3, <3>2, <4>1 DEF Deliver
      <4>3. received' = UpTo(Len(log) + 1)
        BY <4>1, <4>2, UpToSeq
      <4> QED BY <3>2, <4>1, <4>3, UpToSeq
    <3>5. received' \in Seq(1 .. MaxTurns)
      <4>1. received' = Append(received, m.commit)
        BY <1>8, <2>3 DEF Deliver
      <4> QED BY <2>1, <4>1, AppendProperties DEF Inv, TypeOK
    <3>6. TypeOK'
      BY <1>8, <3>5 DEF Deliver, Inv, TypeOK, clockVars
    <3>7. LogIsWhatPeerHolds'
      BY <1>8, <3>3, <3>4 DEF Deliver, Inv, DeliveryInv, LogIsWhatPeerHolds, clockVars
    <3>8. \A r \in replies' : r.commit <= Len(received')
      BY <1>8, <2>1, <3>2, <3>4 DEF Deliver, Inv, DeliveryInv, TypeOK, Request
    <3> QED
      BY <1>8, <3>4, <3>6, <3>7, <3>8 DEF Deliver, Inv, TypeOK, DeliveryInv, clockVars
  <2> QED BY <2>2, <2>3
<1>9. CASE Lose
  BY <1>9 DEF Lose, Inv, TypeOK, DeliveryInv, LogIsWhatPeerHolds, clockVars
<1>10. CASE Tick
  BY <1>10 DEF Tick, Inv, TypeOK, DeliveryInv, LogIsWhatPeerHolds, peerVars
<1>11. CASE Check
  BY <1>11 DEF Check, Inv, TypeOK, DeliveryInv, LogIsWhatPeerHolds, peerVars
<1>12. CASE UNCHANGED vars
  BY <1>12 DEF vars, clockVars, peerVars, Inv, TypeOK, DeliveryInv, LogIsWhatPeerHolds
<1> QED
  BY <1>1, <1>2, <1>3, <1>4, <1>5, <1>6, <1>7, <1>8, <1>9, <1>10, <1>11, <1>12 DEF Next

-----------------------------------------------------------------------------
(* The clocks.                                                             *)

LEMMA TimesMonotone ==
    ASSUME NEW a \in Nat, NEW b \in Nat, NEW t \in Nat, a <= b
    PROVE  a * t \in Nat /\ b * t \in Nat /\ a * t <= b * t
OBVIOUS

LEMMA OneMore ==
    ASSUME NEW a \in Nat, NEW t \in Nat
    PROVE  a * t \in Nat /\ (a + 1) * t = a * t + t
OBVIOUS

LEMMA InitClock == Init => ClockInv
BY DEF Init, ClockInv

LEMMA NextClock == TypeOK /\ ClockInv /\ [Next]_vars => ClockInv'
<1> SUFFICES ASSUME TypeOK, ClockInv, [Next]_vars PROVE ClockInv'
  OBVIOUS
<1> DEFINE Spent == (attempt - 1) * Timeout
<1>1. /\ attempt - 1 \in Nat /\ attempt \in Nat /\ Timeout \in Nat /\ ThinkingTime \in Nat
      /\ elapsed \in 0 .. Timeout /\ thought \in Nat /\ silence \in Nat
  BY OrchestratorAssumption DEF TypeOK
<1>2. Spent \in Nat /\ attempt * Timeout = Spent + Timeout
  <2>1. (attempt - 1) + 1 = attempt
    BY <1>1
  <2> QED BY <1>1, <2>1, OneMore
<1>3. CASE BeginTurn
  BY <1>3, <1>1 DEF BeginTurn, ClockInv
<1>4. CASE BrainDecides
  <2>1. /\ task' = "sending" /\ task = "thinking" /\ attempt' = 1 /\ elapsed' = 0
        /\ UNCHANGED <<thought, silence>>
    BY <1>4 DEF BrainDecides, SendAttempt
  <2>2. (attempt' - 1) * Timeout = 0
    BY <1>1, <2>1
  <2> QED BY <1>1, <2>1, <2>2 DEF ClockInv
<1>5. CASE Retry
  <2>1. /\ task' = "sending" /\ task = "sending" /\ attempt' = attempt + 1 /\ elapsed' = 0
        /\ UNCHANGED <<thought, silence>>
    BY <1>5 DEF Retry, SendAttempt
  <2>2. (attempt' - 1) * Timeout = Spent + Timeout
    <3>1. attempt' - 1 = attempt
      BY <1>1, <2>1
    <3> QED BY <1>2, <3>1
  <2> HIDE DEF Spent
  <2>3. thought <= ThinkingTime => silence <= ThinkingTime + Spent + elapsed
    BY <2>1 DEF ClockInv, Spent
  <2> QED BY <1>1, <1>2, <2>1, <2>2, <2>3 DEF ClockInv
<1>6. CASE Tick
  <2> HIDE DEF Spent
  <2>1. UNCHANGED <<task, attempt>>
    BY <1>6 DEF Tick
  <2>4. silence' \in Nat /\ silence' <= silence + 1
    BY <1>6, <1>1 DEF Tick
  <2>5. task = "sending" => elapsed' = elapsed + 1 /\ thought' = thought
    BY <1>6 DEF Tick
  <2>6. task = "thinking" =>
          thought' = IF thought <= ThinkingTime THEN thought + 1 ELSE thought
    BY <1>6 DEF Tick
  <2>2. task = "sending" /\ thought' <= ThinkingTime =>
          silence' <= ThinkingTime + Spent + elapsed'
    BY <1>1, <1>2, <2>1, <2>4, <2>5 DEF ClockInv, Spent
  <2>3. task = "thinking" /\ thought' <= ThinkingTime => silence' <= thought'
    BY <1>1, <2>1, <2>4, <2>6 DEF ClockInv
  <2> QED BY <2>1, <2>2, <2>3 DEF ClockInv, Spent
<1>7. CASE RefuseTurn \/ BrainRaises \/ GiveUp \/ Finish
  <2>1. task' = "idle"
    BY <1>7 DEF RefuseTurn, BrainRaises, GiveUp, Finish
  <2> QED BY <2>1 DEF ClockInv
<1>8. CASE Lose \/ Check \/ (\E m \in Request : Deliver(m)) \/ UNCHANGED vars
  <2>1. UNCHANGED <<task, attempt, elapsed, thought, silence>>
    BY <1>8 DEF Lose, Check, Deliver, vars, clockVars
  <2> QED BY <2>1 DEF ClockInv
<1> QED BY <1>3, <1>4, <1>5, <1>6, <1>7, <1>8 DEF Next

\* A turn within its time is not silent for longer than the watchdog waits.
LEMMA SendingIsHeard ==
    ASSUME TypeOK, ClockInv, PatientWatchdog, task = "sending", thought <= ThinkingTime
    PROVE  silence <= WatchdogTimeout
<1> DEFINE Spent == (attempt - 1) * Timeout
           Most  == (MaxRetries + 1) * Timeout
<1>1. /\ attempt - 1 \in Nat /\ attempt \in Nat /\ Timeout \in Nat /\ ThinkingTime \in Nat
      /\ MaxRetries + 1 \in Nat /\ attempt <= MaxRetries + 1
      /\ elapsed \in 0 .. Timeout /\ silence \in Nat
  BY OrchestratorAssumption DEF TypeOK
<1>2. Spent \in Nat /\ attempt * Timeout = Spent + Timeout
  <2>1. (attempt - 1) + 1 = attempt
    BY <1>1
  <2> QED BY <1>1, <2>1, OneMore
<1>3. attempt * Timeout <= Most /\ Most \in Nat
  BY <1>1, TimesMonotone
<1>4. silence <= ThinkingTime + Spent + elapsed
  BY DEF ClockInv
<1>5. WatchdogTimeout >= ThinkingTime + Most /\ WatchdogTimeout \in Nat
  BY OrchestratorAssumption DEF PatientWatchdog
<1> HIDE DEF Spent, Most
<1> QED BY <1>1, <1>2, <1>3, <1>4, <1>5

-----------------------------------------------------------------------------
\* The state of run_turn, its clocks and both ends of the tunnel are of their
\* types, and no attempt goes beyond max_retries (deadline_tracker.py:40-51).
THEOREM TypeCorrect == Spec => []TypeOK
<1>1. Inv => TypeOK
  BY DEF Inv
<1> QED BY InitInv, NextInv, <1>1, PTL DEF Spec

\* Whatever is lost, late or repeated, the log is what the peer holds, but for
\* the turn under way or the one that failed (orchestrator.py:76-106).
THEOREM LogIsShared == Spec => []LogIsWhatPeerHolds
<1>1. Inv => LogIsWhatPeerHolds
  BY DEF Inv, DeliveryInv
<1> QED BY InitInv, NextInv, <1>1, PTL DEF Spec

\* A watchdog that waits for the brain and all attempts never ends a turn that
\* is being sent within its retries, if the brain kept its time (watchdog.py:51-64, orchestrator.py:68-100).
THEOREM TurnsAreLeftAlone == Spec => WatchdogLeavesTurnsAlone
<1>1. Init => Inv /\ ClockInv
  BY InitInv, InitClock
<1>2. Inv /\ ClockInv /\ [Next]_vars => (Inv /\ ClockInv)'
  BY NextInv, NextClock DEF Inv
<1>3. Inv /\ ClockInv /\ [Next]_vars =>
        [PatientWatchdog /\ ~triggered /\ triggered' =>
             task # "sending" \/ thought > ThinkingTime]_vars
  <2> SUFFICES ASSUME Inv, ClockInv, Next, PatientWatchdog, ~triggered, triggered',
                      task = "sending", ~(thought > ThinkingTime)
               PROVE  FALSE
    OBVIOUS
  <2>1. Check
    BY DEF Next, BeginTurn, RefuseTurn, BrainRaises, BrainDecides, SendAttempt, Retry,
           GiveUp, Finish, Deliver, Lose, Tick, clockVars
  <2>2. silence <= WatchdogTimeout
    <3>1. thought <= ThinkingTime
      BY OrchestratorAssumption DEF Inv, TypeOK
    <3> QED BY <3>1, SendingIsHeard DEF Inv
  <2> QED BY <2>1, <2>2, OrchestratorAssumption DEF Check, Inv, TypeOK
<1> QED BY <1>1, <1>2, <1>3, PTL DEF Spec, WatchdogLeavesTurnsAlone
=============================================================================
