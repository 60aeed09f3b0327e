----------------------------- MODULE Orchestrator -----------------------------
(***************************************************************************)
(* Orchestrator.run_turn, called again and again by one task: the brain    *)
(* decides, the commitment is sent under the DeadlineTracker, and the turn *)
(* is logged, while the Watchdog is asked from outside whether the loop    *)
(* still lives.                                                            *)
(*                                                                         *)
(* The n-th commitment is the number n: commit draws a fresh nonce for     *)
(* each turn.  Every attempt of a turn sends the same message, which the   *)
(* peer's inbox takes once.  The clock counts in ticks; thinking may take  *)
(* any number of them, for the brain runs inside the event loop.           *)
(*                                                                         *)
(* The self-verification that follows a response compares a commitment     *)
(* with the values it was made of; it cannot fail and has no action.       *)
(***************************************************************************)
EXTENDS Integers, SequencesExt

CONSTANTS
    MaxRetries,       \* DeadlineTracker.max_retries
    Timeout,          \* DeadlineTracker.timeout_seconds
    WatchdogTimeout,  \* Watchdog.timeout_seconds
    ThinkingTime,     \* what the brain is expected to need
    MaxTurns          \* bound: commitments made

ASSUME OrchestratorAssumption ==
    /\ MaxRetries \in Nat /\ ThinkingTime \in Nat /\ MaxTurns \in Nat
    /\ Timeout \in Nat \ {0}
    /\ WatchdogTimeout \in Nat

VARIABLES
    state,      \* MatchStateMachine._state
    task,       \* where run_turn is
    turn,       \* commitments made so far
    attempt,    \* the attempt DeadlineTracker.call is making
    elapsed,    \* ticks this attempt has taken
    thought,    \* ticks the brain took for this turn, to one more than ThinkingTime
    silence,    \* ticks since the last heartbeat
    triggered,  \* Watchdog._triggered
    log,        \* LogManager._entries
    wire,       \* requests on their way: commitment and attempt
    replies,    \* responses on their way
    received    \* the peer's PeerInboxes.turns

peerVars  == <<wire, replies, received>>
clockVars == <<elapsed, thought, silence, triggered>>
vars == <<state, task, turn, attempt, log, clockVars, peerVars>>

Request == [commit : 1 .. MaxTurns, attempt : 1 .. MaxRetries + 1]

\* _TRANSITIONS
Legal == [
    WAITING_FOR_OPPONENT |-> {"COMPUTING_MOVE"},
    COMPUTING_MOVE       |-> {"COMMITTING", "TECHNICAL_LOSS"},
    COMMITTING           |-> {"AWAITING_REVEAL", "TECHNICAL_LOSS"},
    AWAITING_REVEAL      |-> {"VERIFYING", "TECHNICAL_LOSS"},
    VERIFYING            |-> {"WAITING_FOR_OPPONENT", "TECHNICAL_LOSS"},
    TECHNICAL_LOSS       |-> {}]

Init ==
    /\ state = "WAITING_FOR_OPPONENT" /\ task = "idle"
    /\ turn = 0 /\ attempt = 1
    /\ elapsed = 0 /\ thought = 0 /\ silence = 0 /\ triggered = FALSE
    /\ log = <<>> /\ wire = {} /\ replies = {} /\ received = <<>>

-----------------------------------------------------------------------------
(* run_turn                                                                *)

\* (Mutant) The turn begins without a heartbeat.
BeginQuietly ==
    /\ task = "idle" /\ turn < MaxTurns
    /\ "COMPUTING_MOVE" \in Legal[state]
    /\ state' = "COMPUTING_MOVE" /\ task' = "thinking"
    /\ thought' = 0
    /\ UNCHANGED <<turn, attempt, elapsed, silence, triggered, log, peerVars>>

BeginTurn ==
    /\ task = "idle" /\ turn < MaxTurns
    /\ "COMPUTING_MOVE" \in Legal[state]
    /\ state' = "COMPUTING_MOVE" /\ task' = "thinking"
    /\ silence' = 0 /\ thought' = 0
    /\ UNCHANGED <<turn, attempt, elapsed, triggered, log, peerVars>>

\* The heartbeat comes before the transition that raises
\* IllegalStateTransitionError.
RefuseTurn ==
    /\ task = "idle"
    /\ "COMPUTING_MOVE" \notin Legal[state]
    /\ silence' = 0
    /\ UNCHANGED <<state, task, turn, attempt, elapsed, thought, triggered, log, peerVars>>

\* An exception of the brain is none of those that run_turn catches.
BrainRaises ==
    /\ task = "thinking"
    /\ task' = "idle"
    /\ UNCHANGED <<state, turn, attempt, clockVars, log, peerVars>>

SendAttempt(n, k) ==
    /\ attempt' = k /\ elapsed' = 0
    /\ wire' = wire \cup {[commit |-> n, attempt |-> k]}

BrainDecides ==
    /\ task = "thinking"
    /\ "COMMITTING" \in Legal[state]
    /\ state' = "COMMITTING" /\ task' = "sending"
    /\ turn' = turn + 1
    /\ SendAttempt(turn + 1, 1)
    /\ UNCHANGED <<thought, silence, triggered, log, replies, received>>

\* (Mutant) A retry does not count as an attempt.
RetryUncounted ==
    /\ task = "sending" /\ attempt <= MaxRetries
    /\ SendAttempt(turn, attempt)
    /\ UNCHANGED <<state, task, turn, thought, silence, triggered, log, replies, received>>

\* The attempt fails or its time is up, and another one is left.
Retry ==
    /\ task = "sending" /\ attempt <= MaxRetries
    /\ SendAttempt(turn, attempt + 1)
    /\ UNCHANGED <<state, task, turn, thought, silence, triggered, log, replies, received>>

GiveUp ==
    /\ task = "sending" /\ attempt > MaxRetries
    /\ "TECHNICAL_LOSS" \in Legal[state]
    /\ state' = "TECHNICAL_LOSS" /\ task' = "idle"
    /\ UNCHANGED <<turn, attempt, clockVars, log, peerVars>>

\* The response of this attempt: the turn passes through AWAITING_REVEAL and
\* VERIFYING to the end without another await.
Finish ==
    /\ task = "sending"
    /\ [commit |-> turn, attempt |-> attempt] \in replies
    /\ replies' = replies \ {[commit |-> turn, attempt |-> attempt]}
    /\ "AWAITING_REVEAL" \in Legal[state] /\ "VERIFYING" \in Legal["AWAITING_REVEAL"]
    /\ "WAITING_FOR_OPPONENT" \in Legal["VERIFYING"]
    /\ state' = "WAITING_FOR_OPPONENT" /\ task' = "idle"
    /\ log' = Append(log, turn)
    /\ silence' = 0
    /\ UNCHANGED <<turn, attempt, elapsed, thought, triggered, wire, received>>

-----------------------------------------------------------------------------
(* The peer, the tunnel, the clock and the watchdog.                       *)

\* (Mutant) The inbox takes every copy.
DeliverEveryCopy(m) ==
    /\ m \in wire
    /\ wire' = wire \ {m} /\ replies' = replies \cup {m}
    /\ received' = Append(received, m.commit)
    /\ UNCHANGED <<state, task, turn, attempt, log, clockVars>>

\* An old attempt may arrive long after it was given up.
Deliver(m) ==
    /\ m \in wire
    /\ wire' = wire \ {m} /\ replies' = replies \cup {m}
    /\ received' = IF Contains(received, m.commit) THEN received
                   ELSE Append(received, m.commit)
    /\ UNCHANGED <<state, task, turn, attempt, log, clockVars>>

Lose ==
    /\ \/ \E m \in wire : wire' = wire \ {m} /\ UNCHANGED replies
       \/ \E m \in replies : replies' = replies \ {m} /\ UNCHANGED wire
    /\ UNCHANGED <<state, task, turn, attempt, log, clockVars, received>>

\* asyncio.wait_for ends an attempt at its deadline, before the next tick.
Tick ==
    /\ task = "sending" => elapsed < Timeout
    /\ elapsed' = IF task = "sending" THEN elapsed + 1 ELSE elapsed
    /\ thought' = IF task = "thinking" /\ thought <= ThinkingTime THEN thought + 1 ELSE thought
    /\ silence' = IF silence <= WatchdogTimeout THEN silence + 1 ELSE silence
    /\ UNCHANGED <<state, task, turn, attempt, triggered, log, peerVars>>

\* Watchdog.check, when it has something to report for the first time.
Check ==
    /\ ~triggered /\ silence > WatchdogTimeout
    /\ triggered' = TRUE
    /\ UNCHANGED <<state, task, turn, attempt, elapsed, thought, silence, log, peerVars>>

Next ==
    \/ BeginTurn \/ RefuseTurn \/ BrainRaises \/ BrainDecides
    \/ Retry \/ GiveUp \/ Finish
    \/ \E m \in Request : Deliver(m)
    \/ Lose \/ Tick \/ Check

Spec == Init /\ [][Next]_vars

\* The clock goes on, and an attempt that has used up its time is cancelled.
\* Nothing makes the brain decide, and nothing in the program polls the watchdog.
Fairness ==
    /\ WF_vars(Tick)
    /\ WF_vars(elapsed = Timeout /\ (Retry \/ GiveUp))

FairSpec == Spec /\ Fairness

-----------------------------------------------------------------------------
TypeOK ==
    /\ state \in DOMAIN Legal /\ task \in {"idle", "thinking", "sending"}
    /\ turn \in 0 .. MaxTurns /\ attempt \in 1 .. MaxRetries + 1
    /\ elapsed \in 0 .. Timeout
    /\ thought \in 0 .. ThinkingTime + 1 /\ silence \in 0 .. WatchdogTimeout + 1
    /\ triggered \in BOOLEAN
    /\ wire \subseteq Request /\ replies \subseteq Request
    /\ log \in Seq(1 .. MaxTurns) /\ received \in Seq(1 .. MaxTurns)

\* The commitments 1 to n, in order.
UpTo(n) == [i \in 1 .. n |-> i]

\* The peer holds the commitments of the log, in order and once each, and at
\* most one more: that of the turn under way, or of the turn whose failure was
\* the technical loss.  No retry, late copy or lost response makes the two
\* differ otherwise (orchestrator.py:76-106, deadline_tracker.py:35-51).
LogIsWhatPeerHolds ==
    /\ log = UpTo(Len(log))
    /\ \/ received = log
       \/ /\ task = "sending" \/ state = "TECHNICAL_LOSS"
          /\ received = UpTo(Len(log) + 1)

\* The watchdog waits for the brain and for every attempt of a turn.  The code
\* does not ask for it, and config/game.json (120 s for an attempt, three
\* retries, 180 s for the watchdog) does not give it.
PatientWatchdog == WatchdogTimeout >= ThinkingTime + (MaxRetries + 1) * Timeout

\* A patient watchdog shuts down a brain that takes too long, or a caller that
\* goes silent between turns, and never a turn that is still being sent within
\* its retries (watchdog.py:51-64; orchestrator.py:68 and 100 send the heartbeats).
WatchdogLeavesTurnsAlone ==
    [][PatientWatchdog /\ ~triggered /\ triggered' =>
           task # "sending" \/ thought > ThinkingTime]_vars

\* A turn that is sent ends, whatever the tunnel and the peer do: "a missed
\* deadline is a failure, not patience" (deadline_tracker.py:3-7).
SentTurnEnds == task = "sending" ~> task = "idle"

\* Why LogIsWhatPeerHolds holds: what is on its way is no newer than the turn
\* being sent, and a response vouches for what the peer has taken.
DeliveryInv ==
    /\ task = "sending" => state = "COMMITTING" /\ turn = Len(log) + 1
    /\ task = "thinking" => state = "COMPUTING_MOVE" /\ turn = Len(log) /\ turn < MaxTurns
    /\ task = "idle" /\ state # "TECHNICAL_LOSS" => turn = Len(log)
    /\ task = "idle" /\ state = "TECHNICAL_LOSS" => turn = Len(log) + 1
    /\ task = "idle" => state \in {"WAITING_FOR_OPPONENT", "COMPUTING_MOVE", "TECHNICAL_LOSS"}
    /\ \A m \in wire : m.commit <= turn
    /\ \A m \in replies : m.commit <= Len(received)
    /\ Len(received) <= turn
    /\ LogIsWhatPeerHolds

\* Why WatchdogLeavesTurnsAlone holds: since the heartbeat at its start, a turn
\* has used the time of its brain and of the attempts made so far.
ClockInv ==
    thought <= ThinkingTime =>
        /\ task = "thinking" => silence <= thought
        /\ task = "sending" =>
             silence <= ThinkingTime + (attempt - 1) * Timeout + elapsed
=============================================================================
