---------------------------- MODULE TurnDelivery -----------------------------
(***************************************************************************)
(* The channel that carries one peer's sealed turns to the other:          *)
(*                                                                         *)
(*   McpPeerTransport._send      retries a turn until the peer says ok     *)
(*   the tunnel                  loses, delays, repeats and reorders       *)
(*   PeerInboxes.enqueue_once    queues a commitment once, with an LRU     *)
(*                               cache of the commitments it has seen      *)
(*   _OrderedTurnReceiver        absorbs repeats, buffers early turns and  *)
(*                               refuses everything else                   *)
(*                                                                         *)
(* A sealing gives the commitment of every step.  A peer process seals a   *)
(* game once; a process that is restarted seals it anew.  After a crash    *)
(* both processes are started again and negotiate before they play, but    *)
(* requests of the old processes may still be on their way.                *)
(***************************************************************************)
EXTENDS Naturals, Sequences, FiniteSets

CONSTANTS
    N,             \* turns the peer sends in the game
    Commits,       \* the commitments (hashes)
    NoCommit,      \* stands for a missing dictionary entry
    Seals,         \* the sealings a peer process may use: Steps -> Commits
    PeerRole,      \* the role written in the peer's turns
    ExpectedRole,  \* the role the receiver waits for
    Window,        \* unacknowledged turns the peer sends at once (1: _send)
    CacheSize,     \* entries of the inbox's delivery cache (2048 in the code)
    MaxBuffered,   \* early turns the receiver keeps (8 in the code)
    InboxBound,    \* bound: turns waiting in the inbox
    MaxRestarts,   \* bound: restarts of the two processes
    Deadlines      \* whether a deadline can expire

ASSUME CountsAssumption ==
    /\ N \in Nat \ {0}
    /\ Window \in Nat \ {0}
    /\ CacheSize \in Nat \ {0}
    /\ MaxBuffered \in Nat
    /\ InboxBound \in Nat \ {0}
    /\ MaxRestarts \in Nat

Steps == 1 .. N

ASSUME SealsAssumption ==
    /\ NoCommit \notin Commits
    /\ Seals \subseteq [Steps -> Commits]
    /\ Seals # {}
    /\ Deadlines \in BOOLEAN

VARIABLES
    seal,        \* sealing of the peer's running process
    restarts,    \* process restarts so far
    acked,       \* steps whose _send returned ok in this process
    sender,      \* "sending" | "negotiating" | "timed_out"
    wire,        \* requests in the tunnel
    replies,     \* ok responses on their way back
    delivered,   \* PeerInboxes._delivered["turns"], oldest first
    inbox,       \* PeerInboxes.turns
    slotCommits, \* _OrderedTurnReceiver._slot_commits
    buffered,    \* _OrderedTurnReceiver._buffered
    expected,    \* step the game loop waits for
    accepted,    \* turns receive() has returned
    status       \* "ok", "negotiating", or why the match was given up

senderVars   == <<seal, restarts, acked, sender>>
serverVars   == <<delivered, inbox>>
receiverVars == <<slotCommits, buffered, expected, accepted, status>>
vars == <<senderVars, wire, replies, serverVars, receiverVars>>

Turn       == [step : Steps, commit : Commits]
Slots      == [Steps -> Commits \cup {NoCommit}]
ProtocolErrors == {"equivocated", "reused_commit", "wrong_role", "stale", "buffer_limit"}

SealedTurn(s) == [step |-> s, commit |-> seal[s]]

Init ==
    /\ seal \in Seals /\ restarts = 0 /\ acked = {} /\ sender = "sending"
    /\ wire = {} /\ replies = {}
    /\ delivered = <<>> /\ inbox = <<>>
    /\ slotCommits = [s \in Steps |-> NoCommit]
    /\ buffered    = [s \in Steps |-> NoCommit]
    /\ expected = 1 /\ accepted = <<>> /\ status = "ok"

-----------------------------------------------------------------------------
(* The sending peer.                                                       *)

\* One attempt of _send, the first or a retry after an attempt that failed.
Transmit(s) ==
    /\ sender = "sending"
    /\ s \notin acked
    /\ \A t \in Steps : t + Window <= s => t \in acked
    /\ wire' = wire \cup {SealedTurn(s)}
    /\ UNCHANGED <<senderVars, replies, serverVars, receiverVars>>

\* The ok response reaches the attempt that waits for it: _send returns.
Acknowledge(m) ==
    /\ m \in replies
    /\ sender = "sending"
    /\ m = SealedTurn(m.step)
    /\ replies' = replies \ {m}
    /\ acked' = acked \cup {m.step}
    /\ UNCHANGED <<seal, restarts, sender, wire, serverVars, receiverVars>>

\* The deadline of _send or of exchange_agreement passes: PeerClientError
\* ends the peer's match.
SendTimeout ==
    /\ Deadlines
    /\ \/ sender = "sending" /\ acked # Steps
       \/ sender = "negotiating"
    /\ sender' = "timed_out"
    /\ UNCHANGED <<seal, restarts, acked, wire, replies, serverVars, receiverVars>>

\* The peer's process is started again.  It will seal the game anew, and no
\* attempt of the old process waits for a response any more.
RestartSender ==
    /\ restarts < MaxRestarts
    /\ restarts' = restarts + 1
    /\ seal' \in Seals \ {seal}
    /\ acked' = {} /\ sender' = "negotiating" /\ replies' = {}
    /\ UNCHANGED <<wire, serverVars, receiverVars>>

\* The receiver's process is started again: its server and its receiver are
\* new, and the server takes requests before the game is negotiated.
RestartReceiver ==
    /\ restarts < MaxRestarts
    /\ restarts' = restarts + 1
    /\ delivered' = <<>> /\ inbox' = <<>>
    /\ slotCommits' = [s \in Steps |-> NoCommit]
    /\ buffered'    = [s \in Steps |-> NoCommit]
    /\ expected' = 1 /\ accepted' = <<>> /\ status' = "negotiating"
    /\ UNCHANGED <<seal, acked, sender, wire, replies>>

\* Two new processes agree on a new game.
Negotiate ==
    /\ sender = "negotiating" /\ status = "negotiating"
    /\ sender' = "sending" /\ status' = "ok"
    /\ UNCHANGED <<seal, restarts, acked, wire, replies, serverVars,
                   slotCommits, buffered, expected, accepted>>

-----------------------------------------------------------------------------
(* The tunnel and the receiving peer's server.                             *)

\* A request or a response is lost.  Nothing is lost while the bound InboxBound
\* holds requests back, which the real inbox never does.
Lose ==
    /\ Len(inbox) < InboxBound
    /\ \/ \E m \in wire : wire' = wire \ {m} /\ UNCHANGED replies
       \/ \E m \in replies : replies' = replies \ {m} /\ UNCHANGED wire
    /\ UNCHANGED <<senderVars, serverVars, receiverVars>>

Position(c) == CHOOSE i \in 1 .. Len(delivered) : delivered[i] = c

\* OrderedDict.move_to_end
MovedToEnd(c) ==
    [i \in 1 .. Len(delivered) |->
        IF i < Position(c) THEN delivered[i]
        ELSE IF i < Len(delivered) THEN delivered[i + 1] ELSE c]

\* (Mutant) A full inbox drops the turn, and the tool still answers ok.
EnqueueDroppingWhenFull(m) ==
    /\ \A i \in 1 .. Len(delivered) : delivered[i] # m.commit
    /\ delivered' = <<m.commit>>
    /\ inbox' = IF Len(inbox) < InboxBound THEN Append(inbox, m) ELSE inbox

EnqueueOnce(m) ==
    \/ /\ \E i \in 1 .. Len(delivered) : delivered[i] = m.commit
       /\ delivered' = MovedToEnd(m.commit)
       /\ UNCHANGED inbox
    \/ /\ \A i \in 1 .. Len(delivered) : delivered[i] # m.commit
       /\ Len(inbox) < InboxBound
       /\ delivered' = IF Len(delivered) + 1 > CacheSize
                       THEN Tail(Append(delivered, m.commit))
                       ELSE Append(delivered, m.commit)
       /\ inbox' = Append(inbox, m)

\* (Mutant) Only a turn that is new to the inbox is acknowledged.
DeliverAckingOnlyNew(m) ==
    /\ m \in wire
    /\ EnqueueOnce(m)
    /\ wire' \in {wire, wire \ {m}}
    /\ replies' = IF inbox' = inbox THEN replies ELSE replies \cup {m}
    /\ UNCHANGED <<senderVars, receiverVars>>

\* The receive_turn tool answers ok whatever enqueue_once found.  The tunnel
\* may keep a copy of the request and deliver it again later.
Deliver(m) ==
    /\ m \in wire
    /\ EnqueueOnce(m)
    /\ wire' \in {wire, wire \ {m}}
    /\ replies' = replies \cup {m}
    /\ UNCHANGED <<senderVars, receiverVars>>

-----------------------------------------------------------------------------
(* _OrderedTurnReceiver.receive, called by the game loop for each step.    *)

Receiving == status = "ok" /\ expected \in Steps

HandOver(m) ==
    /\ accepted' = Append(accepted, m)
    /\ expected' = expected + 1

\* A turn that came early is returned without a look at the inbox.
ReplayBuffered ==
    /\ Receiving
    /\ buffered[expected] # NoCommit
    /\ HandOver([step |-> expected, commit |-> buffered[expected]])
    /\ buffered' = [buffered EXCEPT ![expected] = NoCommit]
    /\ UNCHANGED <<senderVars, wire, replies, serverVars, slotCommits, status>>

Early == {s \in Steps : buffered[s] # NoCommit}

\* (Mutant) receive() does not look for the commitment in other slots.
ReuseUnnoticed(m) == FALSE

\* The commitment was recorded for another slot.
Reused(m) == \E s \in Steps : slotCommits[s] = m.commit

\* (Mutant) receive() takes the first turn that is not too old.
NotYetPlayed(m) == m.step >= expected

IsExpected(m) == m.step = expected

\* (Mutant) Off by one: the last step that may be buffered is refused.
BeyondBufferEarly(m) ==
    m.step - expected >= MaxBuffered \/ Cardinality(Early) >= MaxBuffered

BeyondBuffer(m) ==
    m.step - expected > MaxBuffered \/ Cardinality(Early) >= MaxBuffered

\* What receive() makes of a message, its tests in the order of the code.
Verdict(m) ==
    CASE slotCommits[m.step] = m.commit  -> "duplicate"
      [] slotCommits[m.step] \notin {NoCommit, m.commit} -> "equivocated"
      [] slotCommits[m.step] = NoCommit ->
           IF Reused(m) THEN "reused_commit"
           ELSE IF PeerRole # ExpectedRole THEN "wrong_role"
           ELSE IF m.step < expected THEN "stale"
           ELSE IF IsExpected(m) THEN "expected"
           ELSE IF BeyondBuffer(m) THEN "buffer_limit" ELSE "early"

\* The slot is recorded before the role and the step are looked at.
Recorded(m) == [slotCommits EXCEPT ![m.step] = m.commit]

NextMessage ==
    /\ Receiving
    /\ buffered[expected] = NoCommit
    /\ inbox # <<>>
    /\ inbox' = Tail(inbox)
    /\ UNCHANGED <<senderVars, wire, replies, delivered>>

AbsorbDuplicate ==
    /\ NextMessage
    /\ Verdict(Head(inbox)) = "duplicate"
    /\ UNCHANGED receiverVars

AcceptExpected ==
    /\ NextMessage
    /\ Verdict(Head(inbox)) = "expected"
    /\ slotCommits' = Recorded(Head(inbox))
    /\ HandOver(Head(inbox))
    /\ UNCHANGED <<buffered, status>>

BufferEarly ==
    /\ NextMessage
    /\ Verdict(Head(inbox)) = "early"
    /\ slotCommits' = Recorded(Head(inbox))
    /\ buffered' = [buffered EXCEPT ![Head(inbox).step] = Head(inbox).commit]
    /\ UNCHANGED <<expected, accepted, status>>

\* A NetworkProtocolError ends the receiver's match.
Refuse ==
    /\ NextMessage
    /\ Verdict(Head(inbox)) \in ProtocolErrors
    /\ status' = Verdict(Head(inbox))
    /\ slotCommits' = IF status' \in {"equivocated", "reused_commit"}
                      THEN slotCommits ELSE Recorded(Head(inbox))
    /\ UNCHANGED <<buffered, expected, accepted>>

\* (Mutant) The wait for the peer's agreement has no deadline.
TurnTimeoutOnly ==
    /\ Deadlines
    /\ Receiving /\ buffered[expected] = NoCommit
    /\ status' = "timed_out"
    /\ UNCHANGED <<senderVars, wire, replies, serverVars,
                   slotCommits, buffered, expected, accepted>>

\* The deadline of this turn, or of the negotiation, passes.  Absorbed and
\* buffered messages use it up, so it can pass while others wait in the inbox.
ReceiveTimeout ==
    /\ Deadlines
    /\ \/ Receiving /\ buffered[expected] = NoCommit
       \/ status = "negotiating"
    /\ status' = "timed_out"
    /\ UNCHANGED <<senderVars, wire, replies, serverVars,
                   slotCommits, buffered, expected, accepted>>

Receive == ReplayBuffered \/ AbsorbDuplicate \/ AcceptExpected \/ BufferEarly \/ Refuse

-----------------------------------------------------------------------------
SenderEnded   == acked = Steps \/ sender = "timed_out"
ReceiverEnded == ~Receiving /\ status # "negotiating"

\* Nothing is left to do: both peers have ended this game.
Ended == SenderEnded /\ ReceiverEnded /\ UNCHANGED vars

Next ==
    \/ \E s \in Steps : Transmit(s)
    \/ \E m \in Turn : Acknowledge(m) \/ Deliver(m)
    \/ SendTimeout \/ RestartSender \/ RestartReceiver \/ Negotiate \/ Lose
    \/ Receive \/ ReceiveTimeout
    \/ Ended

Spec == Init /\ [][Next]_vars

\* A process that runs takes its next step, and its clock goes on.
RunFairness ==
    /\ \A s \in Steps : WF_vars(Transmit(s))
    /\ WF_vars(Receive)
    /\ WF_vars(SendTimeout) /\ WF_vars(ReceiveTimeout)

\* A request that is repeated for ever is delivered at last, and so is a
\* response: the tunnel recovers before the deadline.
TunnelFairness ==
    \A s \in Steps :
        /\ SF_vars(\E m \in Turn : m.step = s /\ Deliver(m))
        /\ SF_vars(\E m \in Turn : m.step = s /\ Acknowledge(m))

RunSpec  == Spec /\ RunFairness
FairSpec == RunSpec /\ TunnelFairness

-----------------------------------------------------------------------------
TypeOK ==
    /\ seal \in Seals /\ restarts \in 0 .. MaxRestarts
    /\ acked \subseteq Steps /\ sender \in {"sending", "negotiating", "timed_out"}
    /\ wire \subseteq Turn /\ replies \subseteq Turn
    /\ delivered \in Seq(Commits) /\ Len(delivered) <= CacheSize
    /\ inbox \in Seq(Turn)
    /\ slotCommits \in Slots /\ buffered \in Slots
    /\ expected \in 1 .. N + 1 /\ accepted \in Seq(Turn)
    /\ status \in {"ok", "negotiating", "timed_out"} \cup ProtocolErrors

\* A peer that gives each step of each sealing a commitment of its own, plays
\* the right role and keeps its pipeline within the buffer.
HonestPeer ==
    /\ \A s, t \in Seals : \A i, j \in Steps : s[i] = t[j] => s = t /\ i = j
    /\ PeerRole = ExpectedRole
    /\ Window <= MaxBuffered + 1

\* Loss, delay, repetition, reordering and an evicted cache entry never make
\* the receiver accuse an honest peer (network_match.py:163-194).
NoFalseAlarm == HonestPeer /\ restarts = 0 => status \notin ProtocolErrors

\* The buffer never fills up: the second half of the test at
\* network_match.py:186-189 cannot be what refuses a turn, because every
\* buffered step lies within MaxBuffered of the step that is missing.
BufferBounded ==
    \A s \in Early : expected <= s /\ s <= expected + MaxBuffered

\* The turn of step s is recorded, or waits in the first n places of the inbox.
HeldWithin(s, n) ==
    \/ slotCommits[s] = seal[s]
    \/ \E i \in 1 .. n : inbox[i] = SealedTurn(s)

Held(s) == HeldWithin(s, Len(inbox))

\* What _send reported as delivered is never lost: it waits in the inbox, or
\* the receiver has recorded it, even after the cache forgot the commitment.
AckedTurnIsHeld ==
    HonestPeer /\ restarts = 0 => \A s \in acked : Held(s)

\* No commitment is played in two slots, whatever the peer seals.
CommitPlayedOnce ==
    \A i, j \in 1 .. Len(accepted) : accepted[i].commit = accepted[j].commit => i = j

\* The channel implements in-order, exactly-once delivery of one sealing.
\* A restarted receiver starts over, so this is about one process.
Abstract == INSTANCE OrderedDelivery WITH over <- (status # "ok")
DeliversInOrder == Abstract!Spec

\* Why NoFalseAlarm holds: everything on its way is as it was sealed and was
\* sent in pipeline order, what the cache or a response vouches for is held,
\* and the recorded slots are those handed over and those buffered.
HonestInv ==
    /\ \A m \in wire :
          /\ m.commit = seal[m.step]
          /\ \A t \in Steps : t + Window <= m.step => t \in acked
    /\ \A i \in 1 .. Len(inbox) :
          /\ inbox[i].commit = seal[inbox[i].step]
          /\ \A t \in Steps : t + Window <= inbox[i].step => HeldWithin(t, i - 1)
    /\ \A m \in replies : m.commit = seal[m.step] /\ Held(m.step)
    /\ \A s \in acked : Held(s)
    /\ \A i \in 1 .. Len(delivered), s \in Steps : delivered[i] = seal[s] => Held(s)
    /\ \A s \in Steps : slotCommits[s] \in {NoCommit, seal[s]}
    /\ \A s \in Steps : s < expected => slotCommits[s] = seal[s]
    /\ \A s \in Steps : slotCommits[s] # NoCommit /\ expected <= s => s \in Early
    /\ \A s \in Early : slotCommits[s] # NoCommit
    /\ status \in {"ok", "timed_out"}

NoFalseAlarmInv == HonestPeer /\ restarts = 0 => HonestInv

\* With deadlines, neither side of the channel waits for ever.
NobodyHangs == <>[](SenderEnded /\ ReceiverEnded)

\* Without deadlines and restarts, a tunnel that recovers lets every turn be
\* handed over, whatever it loses, repeats and reorders on the way
\* (mcp_client.py:80-101, mcp_server.py:75-79).
EveryTurnArrives == <>(Len(accepted) = N)
=============================================================================
