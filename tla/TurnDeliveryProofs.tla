-------------------------- MODULE TurnDeliveryProofs -------------------------
(***************************************************************************)
(* Theorems about TurnDelivery for every number of turns, every pipeline   *)
(* window, cache size and buffer size, and every sealing.                  *)
(***************************************************************************)
EXTENDS TurnDelivery, FiniteSetTheorems, TLAPS

USE CountsAssumption, SealsAssumption

-----------------------------------------------------------------------------
(* What receive() may conclude from a message.                             *)

\* The tests of receive() cover every message, and each answer tells what
\* the receiver knew of the slot (network_match.py:149-195).
LEMMA VerdictMeaning ==
    ASSUME TypeOK, NEW m \in Turn
    PROVE  /\ Verdict(m) \in {"duplicate", "expected", "early"} \cup ProtocolErrors
           /\ Verdict(m) = "duplicate" => slotCommits[m.step] = m.commit
           /\ Verdict(m) \in {"expected", "early"} => slotCommits[m.step] = NoCommit
           /\ Verdict(m) = "expected" => m.step = expected
           /\ Verdict(m) = "early" => /\ expected < m.step
                                      /\ m.step <= expected + MaxBuffered
<1>1. /\ m.step \in Nat /\ expected \in Nat /\ m.step \in Steps
      /\ m.commit \in Commits /\ m.commit # NoCommit
  BY DEF TypeOK, Turn, Steps
<1>2. CASE slotCommits[m.step] = m.commit
  BY <1>1, <1>2 DEF Verdict, Reused, IsExpected, BeyondBuffer, ProtocolErrors
<1>3. CASE slotCommits[m.step] \notin {NoCommit, m.commit}
  BY <1>1, <1>3 DEF Verdict, Reused, IsExpected, BeyondBuffer, ProtocolErrors
<1>4. CASE slotCommits[m.step] = NoCommit
  BY <1>1, <1>4 DEF Verdict, Reused, IsExpected, BeyondBuffer, ProtocolErrors
<1> QED BY <1>2, <1>3, <1>4

-----------------------------------------------------------------------------
(* Type correctness.                                                       *)

LEMMA EnqueueType ==
    ASSUME TypeOK, NEW m \in Turn, EnqueueOnce(m)
    PROVE  /\ delivered' \in Seq(Commits) /\ Len(delivered') <= CacheSize
           /\ inbox' \in Seq(Turn)
<1>1. m.commit \in Commits
  BY DEF Turn
<1>2. CASE delivered' = MovedToEnd(m.commit) /\ UNCHANGED inbox
  <2>1. \A i \in 1 .. Len(delivered) : MovedToEnd(m.commit)[i] \in Commits
    BY <1>1 DEF TypeOK, MovedToEnd
  <2>2. /\ MovedToEnd(m.commit) \in Seq(Commits)
        /\ Len(MovedToEnd(m.commit)) = Len(delivered)
    BY <2>1 DEF TypeOK, MovedToEnd
  <2> QED BY <1>2, <2>2 DEF TypeOK
<1>3. CASE /\ delivered' = IF Len(delivered) + 1 > CacheSize
                           THEN Tail(Append(delivered, m.commit))
                           ELSE Append(delivered, m.commit)
           /\ inbox' = Append(inbox, m)
  BY <1>1, <1>3 DEF TypeOK
<1> QED BY <1>2, <1>3 DEF EnqueueOnce

LEMMA TypeStep == TypeOK /\ [Next]_vars => TypeOK'
<1> SUFFICES ASSUME TypeOK, [Next]_vars PROVE TypeOK'
  OBVIOUS
<1> USE DEF Slots
<1>1. ASSUME NEW s \in Steps, Transmit(s) PROVE TypeOK'
  BY <1>1 DEF TypeOK, Transmit, SealedTurn, Turn, senderVars, serverVars, receiverVars
<1>2. ASSUME NEW m \in Turn, Acknowledge(m) PROVE TypeOK'
  BY <1>2 DEF TypeOK, Acknowledge, Turn, serverVars, receiverVars
<1>3. ASSUME NEW m \in Turn, Deliver(m) PROVE TypeOK'
  <2>1. EnqueueOnce(m)
    BY <1>3 DEF Deliver
  <2> QED BY <1>3, <2>1, EnqueueType DEF TypeOK, Deliver, senderVars, receiverVars
<1>4. ASSUME SendTimeout PROVE TypeOK'
  BY <1>4 DEF TypeOK, SendTimeout, serverVars, receiverVars
<1>5. ASSUME RestartSender PROVE TypeOK'
  BY <1>5 DEF TypeOK, RestartSender, serverVars, receiverVars
<1>6. ASSUME RestartReceiver PROVE TypeOK'
  BY <1>6 DEF TypeOK, RestartReceiver
<1>7. ASSUME Negotiate PROVE TypeOK'
  BY <1>7 DEF TypeOK, Negotiate, serverVars
<1>8. ASSUME Lose PROVE TypeOK'
  BY <1>8 DEF TypeOK, Lose, senderVars, serverVars, receiverVars
<1>9. ASSUME ReplayBuffered PROVE TypeOK'
  <2>1. /\ expected \in Steps
        /\ [step |-> expected, commit |-> buffered[expected]] \in Turn
    BY <1>9 DEF TypeOK, ReplayBuffered, Receiving, Turn, Steps
  <2> QED BY <1>9, <2>1 DEF TypeOK, ReplayBuffered, HandOver, Steps, senderVars, serverVars
<1>10. ASSUME NextMessage
       PROVE  Head(inbox) \in Turn /\ inbox' \in Seq(Turn) /\ expected \in Steps
  BY <1>10 DEF TypeOK, NextMessage, Receiving
<1>11. ASSUME AbsorbDuplicate PROVE TypeOK'
  BY <1>10, <1>11 DEF TypeOK, AbsorbDuplicate, NextMessage, senderVars, receiverVars
<1>12. ASSUME NextMessage PROVE Recorded(Head(inbox)) \in Slots
  BY <1>10, <1>12 DEF TypeOK, Recorded, Turn
<1>13. ASSUME AcceptExpected PROVE TypeOK'
  <2>1. NextMessage
    BY <1>13 DEF AcceptExpected
  <2> QED BY <1>10, <1>12, <1>13, <2>1
          DEF TypeOK, AcceptExpected, NextMessage, HandOver, senderVars, Steps
<1>14. ASSUME BufferEarly PROVE TypeOK'
  <2>1. NextMessage
    BY <1>14 DEF BufferEarly
  <2>2. buffered' \in Slots
    BY <1>10, <1>14, <2>1 DEF TypeOK, BufferEarly, Turn
  <2> QED BY <1>10, <1>12, <1>14, <2>1, <2>2
          DEF TypeOK, BufferEarly, NextMessage, senderVars
<1>15. ASSUME Refuse PROVE TypeOK'
  <2>1. NextMessage
    BY <1>15 DEF Refuse
  <2>2. slotCommits' \in Slots
    BY <1>12, <1>15, <2>1 DEF TypeOK, Refuse
  <2> QED BY <1>10, <1>15, <2>1, <2>2 DEF TypeOK, Refuse, NextMessage, senderVars
<1>16. ASSUME ReceiveTimeout PROVE TypeOK'
  BY <1>16 DEF TypeOK, ReceiveTimeout, senderVars, serverVars
<1>17. CASE UNCHANGED vars
  BY <1>17 DEF TypeOK, vars, senderVars, serverVars, receiverVars
<1> QED BY <1>1, <1>2, <1>3, <1>4, <1>5, <1>6, <1>7, <1>8, <1>9, <1>11, <1>13,
           <1>14, <1>15, <1>16, <1>17 DEF Next, Receive, Ended

LEMMA TypeInit == Init => TypeOK
BY DEF Init, TypeOK, Slots, Steps

\* Every variable of the channel keeps its type, and the delivery cache never
\* holds more than CacheSize commitments (mcp_server.py:58-60).
THEOREM TypeCorrect == Spec => []TypeOK
BY TypeInit, TypeStep, PTL DEF Spec

-----------------------------------------------------------------------------
(* The buffer.                                                             *)

BufferInv == TypeOK /\ BufferBounded

LEMMA BufferStep == BufferInv /\ [Next]_vars => BufferInv'
<1> SUFFICES ASSUME BufferInv, [Next]_vars PROVE BufferBounded'
  BY TypeStep DEF BufferInv
<1> USE DEF BufferInv
<1>1. CASE UNCHANGED <<buffered, expected>>
  BY <1>1 DEF BufferBounded, Early
<1>2. CASE RestartReceiver
  BY <1>2 DEF RestartReceiver, BufferBounded, Early
<1>3. CASE ReplayBuffered
  <2>1. expected' = expected + 1 /\ buffered' = [buffered EXCEPT ![expected] = NoCommit]
    BY <1>3 DEF ReplayBuffered, HandOver
  <2>2. expected \in Steps /\ buffered \in [Steps -> Commits \cup {NoCommit}]
    BY <1>3 DEF ReplayBuffered, Receiving, TypeOK, Slots
  <2>3. Early' = Early \ {expected}
    BY <2>1, <2>2 DEF Early
  <2> QED BY <2>1, <2>2, <2>3 DEF BufferBounded, Steps, Early
<1>4. CASE AcceptExpected
  <2>1. /\ expected' = expected + 1 /\ buffered' = buffered
        /\ buffered[expected] = NoCommit /\ expected \in Steps
    BY <1>4 DEF AcceptExpected, NextMessage, Receiving, HandOver
  <2> QED BY <2>1 DEF BufferBounded, Early, Steps
<1>5. CASE BufferEarly
  <2> DEFINE m == Head(inbox)
  <2>1. m \in Turn /\ Verdict(m) = "early"
    BY <1>5 DEF BufferEarly, NextMessage, TypeOK
  <2>2. expected < m.step /\ m.step <= expected + MaxBuffered
    BY <2>1, VerdictMeaning
  <2>3. expected' = expected /\ buffered' = [buffered EXCEPT ![m.step] = m.commit]
    BY <1>5 DEF BufferEarly
  <2>4. Early' \subseteq Early \cup {m.step}
    BY <2>1, <2>3 DEF Early, TypeOK, Slots
  <2>5. m.step \in Nat /\ expected \in Nat
    BY <2>1 DEF TypeOK, Turn, Steps
  <2> HIDE DEF m
  <2> QED BY <2>2, <2>3, <2>4, <2>5 DEF BufferBounded
<1>6. Next => \/ UNCHANGED <<buffered, expected>>
              \/ RestartReceiver \/ ReplayBuffered \/ AcceptExpected \/ BufferEarly
  BY DEF Next, Receive, Transmit, Acknowledge, Deliver, SendTimeout, RestartSender,
      Negotiate, Lose, AbsorbDuplicate, Refuse, ReceiveTimeout, Ended,
      vars, receiverVars
<1> QED BY <1>1, <1>2, <1>3, <1>4, <1>5, <1>6 DEF vars, receiverVars

\* Every buffered turn lies within MaxBuffered of the awaited step, whatever
\* the peer sends and however often the processes restart.
THEOREM BufferStaysBounded == Spec => []BufferBounded
<1>1. Init => BufferInv
  BY TypeInit DEF BufferInv, Init, BufferBounded, Early
<1> QED BY <1>1, BufferStep, PTL DEF Spec, BufferInv

-----------------------------------------------------------------------------
(* No false alarm: the inductive invariant is IInv.                        *)

IInv == TypeOK /\ BufferBounded /\ NoFalseAlarmInv

\* Turns that are buffered next to a turn that is neither awaited nor known
\* leave room for it.
LEMMA RoomForEarlyTurn ==
    ASSUME TypeOK, BufferBounded, expected \in Steps, buffered[expected] = NoCommit,
           NEW n \in Steps, n \notin Early, expected < n, n <= expected + MaxBuffered
    PROVE  ~ (Cardinality(Early) >= MaxBuffered)
<1> DEFINE W == expected + 1 .. expected + MaxBuffered
<1>1. expected \in Nat /\ n \in Nat /\ expected + 1 \in Int /\ expected + MaxBuffered \in Int
  BY DEF Steps
<1>2. IsFiniteSet(W) /\ Cardinality(W) = MaxBuffered
  <2>1. /\ IsFiniteSet(W)
        /\ Cardinality(W) = IF expected + 1 > expected + MaxBuffered THEN 0
                            ELSE (expected + MaxBuffered) - (expected + 1) + 1
    BY ONLY <1>1, FS_Interval
  <2> HIDE DEF W
  <2> QED BY <1>1, <2>1
<1>3. n \in W
  BY <1>1
<1>4. /\ IsFiniteSet(W \ {n})
      /\ Cardinality(W \ {n}) = MaxBuffered - 1
  <2> HIDE DEF W
  <2>1. /\ IsFiniteSet(W \ {n})
        /\ Cardinality(W \ {n}) = IF n \in W THEN Cardinality(W) - 1 ELSE Cardinality(W)
    BY ONLY <1>2, FS_RemoveElement
  <2> QED BY <1>2, <1>3, <2>1
<1>5. Early \subseteq W \ {n}
  BY <1>1 DEF BufferBounded, Early, Steps
<1>6. Cardinality(Early) <= MaxBuffered - 1 /\ Cardinality(Early) \in Nat
  BY <1>4, <1>5, FS_Subset, FS_CardinalityType
<1> QED BY <1>6

\* The head of an honest inbox is a repetition, the awaited turn or an early
\* turn that fits.
LEMMA HonestVerdict ==
    ASSUME IInv, HonestPeer, restarts = 0, NextMessage
    PROVE  Verdict(Head(inbox)) \in {"duplicate", "expected", "early"}
<1> DEFINE m == Head(inbox)
<1>1. HonestInv
  BY DEF IInv, NoFalseAlarmInv
<1>2. /\ m \in Turn /\ m = inbox[1] /\ 1 \in 1 .. Len(inbox)
      /\ expected \in Steps /\ buffered[expected] = NoCommit
  BY DEF IInv, TypeOK, NextMessage, Receiving
<1>3. /\ m.step \in Steps /\ m.commit \in Commits /\ m.commit = seal[m.step]
      /\ m.commit # NoCommit /\ seal \in Seals
  BY <1>1, <1>2 DEF HonestInv, Turn, IInv, TypeOK
<1> HIDE DEF m
<1>4. CASE slotCommits[m.step] = m.commit
  BY <1>3, <1>4 DEF Verdict, Reused, IsExpected, BeyondBuffer, m
<1>5. CASE slotCommits[m.step] = NoCommit
  <2>1. ~ \E s \in Steps : slotCommits[s] = m.commit
    BY <1>1, <1>3, <1>5 DEF HonestInv, HonestPeer
  <2>2. m.step \in Nat /\ expected \in Nat
    BY <1>2, <1>3 DEF Steps
  <2>3. ~ (m.step < expected)
    BY <1>1, <1>3, <1>5 DEF HonestInv
  <2>4. CASE m.step = expected
    BY <1>5, <2>1, <2>3, <2>4, <1>3 DEF Verdict, Reused, IsExpected, BeyondBuffer, m, HonestPeer
  <2>5. CASE m.step # expected
    <3>1. expected < m.step
      BY <2>2, <2>3, <2>5
    <3>2. m.step <= expected + MaxBuffered
      <4> SUFFICES ASSUME ~ (m.step <= expected + MaxBuffered) PROVE FALSE
        OBVIOUS
      <4>1. expected + Window <= m.step
        BY <2>2 DEF HonestPeer
      <4>2. HeldWithin(expected, 1 - 1)
        BY <1>1, <1>2, <4>1 DEF HonestInv
      <4>3. slotCommits[expected] = seal[expected]
        BY <4>2 DEF HeldWithin
      <4>4. slotCommits[expected] # NoCommit /\ expected <= expected
        BY <1>2, <1>3, <2>2, <4>3
      <4>5. expected \in Early
        BY <1>1, <1>2, <4>4 DEF HonestInv
      <4> QED BY <1>2, <4>5 DEF Early
    <3>3. m.step \notin Early
      BY <1>1, <1>5 DEF HonestInv
    <3>4. ~ (Cardinality(Early) >= MaxBuffered)
      BY <1>2, <1>3, <3>1, <3>2, <3>3, RoomForEarlyTurn DEF IInv
    <3>5. ~ (m.step - expected > MaxBuffered)
      BY <2>2, <3>2
    <3> QED BY <1>3, <1>5, <2>1, <2>3, <2>5, <3>4, <3>5 DEF Verdict, Reused, IsExpected, BeyondBuffer, m, HonestPeer
  <2> QED BY <2>4, <2>5
<1> QED BY <1>1, <1>3, <1>4, <1>5 DEF HonestInv, m

\* Taking the head off the inbox loses nothing once its slot is recorded.
LEMMA PopKeepsHeld ==
    ASSUME TypeOK, TypeOK', HonestInv, NextMessage, UNCHANGED <<seal, restarts>>,
           slotCommits'[Head(inbox).step] = seal[Head(inbox).step],
           \A s \in Steps : slotCommits[s] = seal[s] => slotCommits'[s] = seal[s],
           NEW t \in Steps
    PROVE  /\ \A n \in 1 .. Len(inbox) : HeldWithin(t, n) => HeldWithin(t, n - 1)'
           /\ Held(t) => Held(t)'
           /\ Len(inbox') = Len(inbox) - 1
           /\ \A i \in 1 .. Len(inbox') : inbox'[i] = inbox[i + 1] /\ i + 1 \in 1 .. Len(inbox)
<1>1. /\ inbox # <<>> /\ inbox \in Seq(Turn) /\ inbox' = Tail(inbox)
  BY DEF TypeOK, NextMessage
<1>2. /\ Len(inbox) \in Nat \ {0} /\ Len(inbox') = Len(inbox) - 1
      /\ Head(inbox) = inbox[1]
      /\ \A i \in 1 .. Len(inbox') : inbox'[i] = inbox[i + 1] /\ i + 1 \in 1 .. Len(inbox)
  BY <1>1
<1>3. ASSUME NEW n \in 1 .. Len(inbox), HeldWithin(t, n)
      PROVE  HeldWithin(t, n - 1)'
  <2>1. CASE slotCommits[t] = seal[t]
    BY <2>1 DEF HeldWithin
  <2>2. CASE \E i \in 1 .. n : inbox[i] = SealedTurn(t)
    <3>1. PICK i \in 1 .. n : inbox[i] = SealedTurn(t)
      BY <2>2
    <3>2. CASE i = 1
      <4>1. Head(inbox).step = t
        BY <1>2, <3>1, <3>2 DEF SealedTurn
      <4> QED BY <4>1 DEF HeldWithin
    <3>3. CASE i # 1
      <4>1. i - 1 \in 1 .. n - 1 /\ i - 1 \in 1 .. Len(inbox')
        BY <1>2, <3>3
      <4>2. inbox'[i - 1] = SealedTurn(t)
        BY <1>2, <3>1, <4>1
      <4>3. SealedTurn(t)' = SealedTurn(t)
        BY DEF SealedTurn
      <4> QED BY <4>1, <4>2, <4>3 DEF HeldWithin
    <3> QED BY <3>2, <3>3
  <2> QED BY <1>3, <2>1, <2>2 DEF HeldWithin
<1>4. Held(t) => Held(t)'
  BY <1>2, <1>3 DEF Held
<1> QED BY <1>2, <1>3, <1>4

\* What the three honest outcomes of a message have in common.
LEMMA PopStep ==
    ASSUME IInv, TypeOK', HonestInv, NextMessage, UNCHANGED <<seal, restarts, status>>,
           slotCommits'[Head(inbox).step] = seal[Head(inbox).step],
           \A s \in Steps : slotCommits[s] = seal[s] => slotCommits'[s] = seal[s],
           \A s \in Steps : slotCommits'[s] \in {NoCommit, seal[s]},
           \A s \in Steps : s < expected' => slotCommits'[s] = seal[s],
           \A s \in Steps : slotCommits'[s] # NoCommit /\ expected' <= s => s \in Early',
           \A s \in Early' : slotCommits'[s] # NoCommit
    PROVE  HonestInv'
<1>1. TypeOK
  BY DEF IInv
<1>2. UNCHANGED <<wire, replies, acked, delivered>>
  BY DEF NextMessage, senderVars
<1>3. \A t \in Steps : Held(t) => Held(t)'
  BY <1>1, PopKeepsHeld
<1>4. \A m \in wire' : /\ m.commit = seal'[m.step]
                      /\ \A t \in Steps : t + Window <= m.step => t \in acked'
  BY <1>2 DEF HonestInv
<1>5. ASSUME NEW i \in 1 .. Len(inbox')
      PROVE  /\ inbox'[i].commit = seal'[inbox'[i].step]
             /\ \A t \in Steps : t + Window <= inbox'[i].step => HeldWithin(t, i - 1)'
  <2>1. 1 \in Steps
    BY DEF Steps
  <2>2. inbox'[i] = inbox[i + 1] /\ i + 1 \in 1 .. Len(inbox)
    BY <1>1, <1>5, <2>1, PopKeepsHeld
  <2>3. i \in 1 .. Len(inbox) /\ (i + 1) - 1 = i
    BY <1>1, <2>2 DEF TypeOK
  <2>4. inbox[i + 1].commit = seal[inbox[i + 1].step]
    BY <2>2 DEF HonestInv
  <2>5. ASSUME NEW t \in Steps, t + Window <= inbox'[i].step
        PROVE  HeldWithin(t, i - 1)'
    <3>1. HeldWithin(t, (i + 1) - 1)
      BY <2>2, <2>5 DEF HonestInv
    <3> QED BY <1>1, <2>3, <3>1, PopKeepsHeld
  <2> QED BY <2>2, <2>4, <2>5
<1>6. \A m \in replies' : m.commit = seal'[m.step] /\ Held(m.step)'
  BY <1>1, <1>2, <1>3 DEF HonestInv, TypeOK, Turn
<1>7. \A s \in acked' : Held(s)'
  BY <1>1, <1>2, <1>3 DEF HonestInv, TypeOK
<1>8. \A i \in 1 .. Len(delivered'), s \in Steps : delivered'[i] = seal'[s] => Held(s)'
  BY <1>2, <1>3 DEF HonestInv
<1> QED BY <1>4, <1>5, <1>6, <1>7, <1>8 DEF HonestInv

\* The server keeps the inbox in pipeline order and vouches for what it holds.
LEMMA DeliverStep ==
    ASSUME IInv, TypeOK', HonestPeer, HonestInv, NEW m \in Turn, Deliver(m)
    PROVE  HonestInv'
<1>1. TypeOK /\ TypeOK'
  BY DEF IInv
<1>2. /\ UNCHANGED <<seal, acked, slotCommits, buffered, expected, status>>
      /\ wire' \subseteq wire /\ replies' = replies \cup {m} /\ m \in wire
      /\ EnqueueOnce(m)
  BY DEF Deliver, senderVars, receiverVars
<1>3. /\ m.step \in Steps /\ m.commit = seal[m.step] /\ m = SealedTurn(m.step)
      /\ \A t \in Steps : t + Window <= m.step => Held(t)
  <2>1. m.commit = seal[m.step] /\ m.step \in Steps
    BY <1>2 DEF HonestInv, Turn
  <2>2. \A t \in Steps : t + Window <= m.step => Held(t)
    BY <1>2 DEF HonestInv
  <2> QED BY <2>1, <2>2 DEF SealedTurn, Turn
<1>4. /\ Len(inbox) \in Nat /\ Len(inbox') \in Nat /\ Len(inbox) <= Len(inbox')
      /\ \A i \in 1 .. Len(inbox) : inbox'[i] = inbox[i]
      /\ \/ inbox' = inbox
         \/ Len(inbox') = Len(inbox) + 1 /\ inbox'[Len(inbox) + 1] = m
  <2>1. inbox \in Seq(Turn) /\ Len(inbox) \in Nat /\ inbox' \in Seq(Turn)
    BY <1>1 DEF TypeOK
  <2>2. inbox' = inbox \/ inbox' = Append(inbox, m)
    BY <1>2 DEF EnqueueOnce
  <2> QED BY <2>1, <2>2
<1>5. \A s \in Steps : SealedTurn(s)' = SealedTurn(s)
  BY <1>2 DEF SealedTurn
<1>6. \A t \in Steps, n \in 0 .. Len(inbox) : HeldWithin(t, n) => HeldWithin(t, n)'
  BY <1>2, <1>4, <1>5 DEF HeldWithin
<1>7. \A t \in Steps : Held(t) => Held(t)'
  BY <1>2, <1>4, <1>5 DEF Held, HeldWithin
<1>8. Held(m.step)' /\ \A i \in 1 .. Len(delivered'), s \in Steps : delivered'[i] = seal'[s] => Held(s)'
  <2>1. CASE /\ \E i \in 1 .. Len(delivered) : delivered[i] = m.commit
             /\ delivered' = MovedToEnd(m.commit)
    <3>1. PICK p \in 1 .. Len(delivered) : delivered[p] = m.commit
      BY <2>1
    <3>2. \A i \in 1 .. Len(delivered') : \E j \in 1 .. Len(delivered) : delivered'[i] = delivered[j]
      <4>1. Len(delivered) \in Nat /\ Len(delivered') = Len(delivered)
        BY <1>1, <2>1 DEF MovedToEnd, TypeOK
      <4>2. TAKE i \in 1 .. Len(delivered')
      <4>3. CASE i < Position(m.commit)
        BY <2>1, <4>1, <4>3 DEF MovedToEnd
      <4>4. CASE ~ (i < Position(m.commit)) /\ i < Len(delivered)
        <5>1. delivered'[i] = delivered[i + 1] /\ i + 1 \in 1 .. Len(delivered)
          BY <2>1, <4>1, <4>4 DEF MovedToEnd
        <5> QED BY <5>1
      <4>5. CASE ~ (i < Position(m.commit)) /\ ~ (i < Len(delivered))
        BY <2>1, <3>1, <4>1, <4>5 DEF MovedToEnd
      <4> QED BY <4>3, <4>4, <4>5
    <3>3. Held(m.step)
      BY <1>3, <3>1 DEF HonestInv
    <3> QED BY <1>2, <1>3, <1>7, <3>2, <3>3 DEF HonestInv
  <2>2. CASE /\ delivered' = IF Len(delivered) + 1 > CacheSize
                             THEN Tail(Append(delivered, m.commit))
                             ELSE Append(delivered, m.commit)
             /\ inbox' = Append(inbox, m)
    <3>1. Held(m.step)'
      <4>1. Len(inbox') \in 1 .. Len(inbox') /\ inbox'[Len(inbox')] = m
        BY <1>1, <2>2 DEF TypeOK
      <4> QED BY <1>3, <1>5, <4>1 DEF Held, HeldWithin
    <3>2. \A i \in 1 .. Len(delivered') :
             \/ \E j \in 1 .. Len(delivered) : delivered'[i] = delivered[j]
             \/ delivered'[i] = m.commit
      <4>1. m.commit \in Commits /\ delivered \in Seq(Commits)
        BY <1>1 DEF Turn, TypeOK
      <4> QED BY <2>2, <4>1
    <3>3. \A s \in Steps : m.commit = seal[s] => s = m.step
      BY <1>1, <1>3 DEF HonestPeer, TypeOK
    <3> QED BY <1>2, <1>7, <3>1, <3>2, <3>3 DEF HonestInv
  <2> QED BY <1>2, <2>1, <2>2 DEF EnqueueOnce
<1>9. \A w \in wire' : /\ w.commit = seal'[w.step]
                      /\ \A t \in Steps : t + Window <= w.step => t \in acked'
  BY <1>2 DEF HonestInv
<1>10. ASSUME NEW i \in 1 .. Len(inbox')
       PROVE  /\ inbox'[i].commit = seal'[inbox'[i].step]
              /\ \A t \in Steps : t + Window <= inbox'[i].step => HeldWithin(t, i - 1)'
  <2>1. CASE i \in 1 .. Len(inbox)
    <3>1. inbox'[i] = inbox[i] /\ i - 1 \in 0 .. Len(inbox)
      BY <1>4, <2>1
    <3>2. /\ inbox[i].commit = seal[inbox[i].step]
          /\ \A t \in Steps : t + Window <= inbox[i].step => HeldWithin(t, i - 1)
      BY <2>1 DEF HonestInv
    <3> QED BY <1>2, <1>6, <3>1, <3>2
  <2>2. CASE i \notin 1 .. Len(inbox)
    <3>1. i - 1 = Len(inbox) /\ inbox'[i] = m
      BY <1>4, <2>2
    <3>2. \A t \in Steps : t + Window <= m.step => HeldWithin(t, i - 1)
      BY <1>3, <3>1 DEF Held
    <3>3. \A t \in Steps : t + Window <= m.step => HeldWithin(t, i - 1)'
      BY <1>4, <1>6, <3>1, <3>2
    <3> QED BY <1>2, <1>3, <3>1, <3>3
  <2> QED BY <2>1, <2>2
<1>11. \A r \in replies' : r.commit = seal'[r.step] /\ Held(r.step)'
  BY <1>1, <1>2, <1>3, <1>7, <1>8 DEF HonestInv, TypeOK, Turn
<1>12. \A s \in acked' : Held(s)'
  BY <1>1, <1>2, <1>7 DEF HonestInv, TypeOK
<1>13. Early' = Early
  BY <1>2 DEF Early
<1> QED BY <1>2, <1>8, <1>9, <1>10, <1>11, <1>12, <1>13 DEF HonestInv

\* Steps that leave the inbox and the receiver alone.
LEMMA QuietStep ==
    ASSUME IInv, HonestInv, UNCHANGED <<seal, serverVars, slotCommits, buffered, expected>>,
           \A m \in wire' : /\ m.commit = seal[m.step]
                          /\ \A t \in Steps : t + Window <= m.step => t \in acked',
           replies' \subseteq replies,
           \A s \in acked' : s \in Steps /\ Held(s),
           status' \in {"ok", "timed_out"}
    PROVE  HonestInv'
<1>1. /\ \A s, n : HeldWithin(s, n)' <=> HeldWithin(s, n)
      /\ \A s : Held(s)' <=> Held(s)
      /\ Early' = Early
  BY DEF HeldWithin, Held, SealedTurn, Early, serverVars
<1> QED BY <1>1 DEF HonestInv, serverVars

LEMMA IInvStep == IInv /\ [Next]_vars => IInv'
<1> SUFFICES ASSUME IInv, [Next]_vars, HonestPeer, restarts' = 0
             PROVE  HonestInv'
  BY TypeStep, BufferStep DEF IInv, BufferInv, NoFalseAlarmInv, HonestPeer
<1>1. TypeOK /\ TypeOK'
  BY TypeStep DEF IInv
<1>2. restarts = 0 /\ ~RestartSender /\ ~RestartReceiver
  <2>1. \/ UNCHANGED restarts \/ RestartSender \/ RestartReceiver
    BY DEF Next, Receive, Transmit, Acknowledge, Deliver, SendTimeout, Negotiate, Lose,
           ReplayBuffered, AbsorbDuplicate, AcceptExpected, BufferEarly, Refuse,
           NextMessage, ReceiveTimeout, Ended, vars, senderVars
  <2>2. restarts \in Nat
    BY <1>1 DEF TypeOK
  <2> QED BY <2>1, <2>2 DEF RestartSender, RestartReceiver
<1>3. HonestInv
  BY <1>2 DEF IInv, NoFalseAlarmInv
<1>4. ASSUME NEW s \in Steps, Transmit(s) PROVE HonestInv'
  <2>1. SealedTurn(s).commit = seal[SealedTurn(s).step]
    BY DEF SealedTurn
  <2> QED BY <1>1, <1>3, <1>4, <2>1, QuietStep
          DEF Transmit, senderVars, serverVars, receiverVars, HonestInv, SealedTurn, TypeOK
<1>5. ASSUME NEW m \in Turn, Acknowledge(m) PROVE HonestInv'
  <2>1. m.step \in Steps /\ Held(m.step)
    BY <1>3, <1>5 DEF Acknowledge, HonestInv, Turn
  <2> QED BY <1>1, <1>3, <1>5, <2>1, QuietStep
          DEF Acknowledge, senderVars, serverVars, receiverVars, HonestInv, TypeOK
<1>6. ASSUME NEW m \in Turn, Deliver(m) PROVE HonestInv'
  BY <1>1, <1>3, <1>6, DeliverStep
<1>7. CASE SendTimeout
  BY <1>1, <1>3, <1>7, QuietStep DEF SendTimeout, serverVars, receiverVars, HonestInv, TypeOK
<1>8. CASE Negotiate
  BY <1>3, <1>8 DEF Negotiate, HonestInv
<1>9. CASE Lose
  BY <1>1, <1>3, <1>9, QuietStep DEF Lose, senderVars, serverVars, receiverVars, HonestInv, TypeOK
<1>10. CASE ReceiveTimeout
  BY <1>1, <1>3, <1>10, QuietStep DEF ReceiveTimeout, senderVars, serverVars, HonestInv, TypeOK
<1>11. CASE ReplayBuffered
  <2>1. /\ expected \in Steps /\ expected' = expected + 1
        /\ buffered' = [buffered EXCEPT ![expected] = NoCommit]
        /\ buffered[expected] # NoCommit
        /\ UNCHANGED <<seal, acked, wire, replies, delivered, inbox, slotCommits, status>>
    BY <1>11 DEF ReplayBuffered, Receiving, HandOver, senderVars, serverVars
  <2>2. Early' = Early \ {expected}
    BY <1>1, <2>1 DEF Early, TypeOK, Slots
  <2>3. /\ \A s, n : HeldWithin(s, n)' <=> HeldWithin(s, n)
        /\ \A s : Held(s)' <=> Held(s)
    BY <2>1 DEF HeldWithin, Held, SealedTurn
  <2>4. slotCommits[expected] = seal[expected]
    BY <1>3, <2>1 DEF HonestInv, Early
  <2>5. \A s \in Steps : s < expected' => slotCommits[s] = seal[s]
    BY <1>3, <2>1, <2>4 DEF HonestInv, Steps
  <2>6. \A s \in Steps : slotCommits[s] # NoCommit /\ expected' <= s => s \in Early'
    BY <1>3, <2>1, <2>2 DEF HonestInv, Steps
  <2>7. \A s \in Early' : slotCommits[s] # NoCommit
    BY <1>3, <2>2 DEF HonestInv
  <2> QED BY <1>3, <2>1, <2>3, <2>5, <2>6, <2>7 DEF HonestInv
<1>12. ASSUME NextMessage
       PROVE  /\ Head(inbox) \in Turn /\ Head(inbox).step \in Steps
              /\ Head(inbox).commit = seal[Head(inbox).step]
              /\ seal[Head(inbox).step] # NoCommit
              /\ expected \in Steps /\ UNCHANGED <<seal, restarts>>
  <2>1. /\ Head(inbox) = inbox[1] /\ 1 \in 1 .. Len(inbox) /\ Head(inbox) \in Turn
        /\ expected \in Steps /\ UNCHANGED <<seal, restarts>>
    BY <1>1, <1>12 DEF NextMessage, Receiving, TypeOK, senderVars
  <2>2. Head(inbox).commit = seal[Head(inbox).step]
    BY <1>3, <2>1 DEF HonestInv
  <2> QED BY <1>1, <2>1, <2>2 DEF Turn
<1>13. CASE AbsorbDuplicate
  <2>1. NextMessage /\ Verdict(Head(inbox)) = "duplicate"
        /\ UNCHANGED <<slotCommits, buffered, expected, status>>
    BY <1>13 DEF AbsorbDuplicate, receiverVars
  <2>2. slotCommits[Head(inbox).step] = seal[Head(inbox).step]
    BY <1>1, <1>12, <2>1, VerdictMeaning
  <2> QED BY <1>1, <1>3, <1>12, <2>1, <2>2, PopStep DEF HonestInv, Early
<1>14. CASE AcceptExpected
  <2> DEFINE m == Head(inbox)
  <2>1. /\ NextMessage /\ Verdict(m) = "expected"
        /\ slotCommits' = [slotCommits EXCEPT ![m.step] = m.commit]
        /\ expected' = expected + 1 /\ UNCHANGED <<buffered, status>>
    BY <1>14 DEF AcceptExpected, Recorded, HandOver
  <2>2. m.step = expected /\ slotCommits[m.step] = NoCommit
    BY <1>1, <1>12, <2>1, VerdictMeaning
  <2>3. Early' = Early
    BY <2>1 DEF Early
  <2>4. slotCommits \in [Steps -> Commits \cup {NoCommit}]
    BY <1>1 DEF TypeOK, Slots
  <2>5. \A s \in Steps : slotCommits'[s] = IF s = m.step THEN seal[s] ELSE slotCommits[s]
    BY <1>12, <2>1, <2>4
  <2> HIDE DEF m
  <2>6. \A s \in Steps : s < expected' => slotCommits'[s] = seal[s]
    BY <1>3, <1>12, <2>1, <2>2, <2>5 DEF HonestInv, Steps
  <2>7. \A s \in Steps : slotCommits'[s] # NoCommit /\ expected' <= s => s \in Early'
    BY <1>3, <1>12, <2>1, <2>2, <2>3, <2>5 DEF HonestInv, Steps
  <2>8. \A s \in Early' : slotCommits'[s] # NoCommit
    BY <1>3, <1>12, <2>1, <2>3, <2>5 DEF HonestInv, Early, m
  <2>9. \A s \in Steps : slotCommits'[s] \in {NoCommit, seal[s]}
    BY <1>3, <2>5 DEF HonestInv
  <2>10. \A s \in Steps : slotCommits[s] = seal[s] => slotCommits'[s] = seal[s]
    BY <2>5
  <2>11. slotCommits'[Head(inbox).step] = seal[Head(inbox).step]
    BY <1>12, <2>1, <2>5 DEF m
  <2> QED BY <1>1, <1>3, <1>12, <2>1, <2>6, <2>7, <2>8, <2>9, <2>10, <2>11, PopStep
<1>15. CASE BufferEarly
  <2> DEFINE m == Head(inbox)
  <2>1. /\ NextMessage /\ Verdict(m) = "early"
        /\ slotCommits' = [slotCommits EXCEPT ![m.step] = m.commit]
        /\ buffered' = [buffered EXCEPT ![m.step] = m.commit]
        /\ UNCHANGED <<expected, status>>
    BY <1>15 DEF BufferEarly, Recorded
  <2>2. expected < m.step /\ slotCommits[m.step] = NoCommit
    BY <1>1, <1>12, <2>1, VerdictMeaning
  <2>3. /\ slotCommits \in [Steps -> Commits \cup {NoCommit}]
        /\ buffered \in [Steps -> Commits \cup {NoCommit}]
    BY <1>1 DEF TypeOK, Slots
  <2>4. \A s \in Steps : slotCommits'[s] = IF s = m.step THEN seal[s] ELSE slotCommits[s]
    BY <1>12, <2>1, <2>3
  <2>5. Early' = Early \cup {m.step}
    BY <1>12, <2>1, <2>3 DEF Early
  <2>6. m.step \in Steps /\ seal[m.step] # NoCommit
    BY <1>12, <2>1
  <2> HIDE DEF m
  <2>7. \A s \in Steps : s < expected' => slotCommits'[s] = seal[s]
    BY <1>3, <2>1, <2>4 DEF HonestInv
  <2>8. \A s \in Steps : slotCommits'[s] # NoCommit /\ expected' <= s => s \in Early'
    BY <1>3, <2>1, <2>4, <2>5 DEF HonestInv
  <2>9. \A s \in Early' : slotCommits'[s] # NoCommit
    BY <1>3, <2>4, <2>5, <2>6 DEF HonestInv, Early
  <2>10. \A s \in Steps : slotCommits'[s] \in {NoCommit, seal[s]}
    BY <1>3, <2>4 DEF HonestInv
  <2>11. \A s \in Steps : slotCommits[s] = seal[s] => slotCommits'[s] = seal[s]
    BY <2>4
  <2>12. slotCommits'[Head(inbox).step] = seal[Head(inbox).step]
    BY <2>4, <2>6 DEF m
  <2> QED BY <1>1, <1>3, <1>12, <2>1, <2>7, <2>8, <2>9, <2>10, <2>11, <2>12, PopStep
<1>16. ~Refuse
  BY <1>2, HonestVerdict DEF Refuse, ProtocolErrors
<1>17. CASE UNCHANGED vars
  BY <1>1, <1>3, <1>17, QuietStep
  DEF vars, senderVars, serverVars, receiverVars, HonestInv, TypeOK
<1> QED BY <1>2, <1>4, <1>5, <1>6, <1>7, <1>8, <1>9, <1>10, <1>11, <1>13, <1>14, <1>15,
           <1>16, <1>17 DEF Next, Receive, Ended

LEMMA IInvInit == Init => IInv
<1> SUFFICES ASSUME Init PROVE IInv
  OBVIOUS
<1>1. \A s \in Steps : ~ (s < expected)
  BY DEF Init, Steps
<1> QED BY <1>1, TypeInit
        DEF Init, IInv, BufferBounded, Early, NoFalseAlarmInv, HonestInv

\* An honest peer is never accused, however the tunnel loses, repeats and
\* reorders its turns and however small the delivery cache is, as long as it
\* sends no more than MaxBuffered + 1 turns at once.
THEOREM HonestPeerIsNotAccused == Spec => []NoFalseAlarm
<1>1. IInv => NoFalseAlarm
  BY DEF IInv, NoFalseAlarmInv, NoFalseAlarm, HonestInv, ProtocolErrors
<1> QED BY IInvInit, IInvStep, <1>1, PTL DEF Spec

\* An acknowledged turn of an honest peer is never lost.
THEOREM AckedTurnIsNotLost == Spec => []AckedTurnIsHeld
<1>1. IInv => AckedTurnIsHeld
  BY DEF IInv, NoFalseAlarmInv, AckedTurnIsHeld, HonestInv
<1> QED BY IInvInit, IInvStep, <1>1, PTL DEF Spec

-----------------------------------------------------------------------------
(* No commitment is played twice: the slots tell what was handed over and  *)
(* what is buffered, and no two of them hold the same commitment.          *)

SlotsInv ==
    /\ Len(accepted) = expected - 1
    /\ \A i \in 1 .. Len(accepted) : accepted[i] = [step |-> i, commit |-> slotCommits[i]]
    /\ \A s \in Early : slotCommits[s] = buffered[s]
    /\ \A s, t \in Steps : slotCommits[s] = slotCommits[t] => s = t \/ slotCommits[s] = NoCommit

PlayedInv == TypeOK /\ SlotsInv

\* Recording a commitment that no slot holds in a slot that is free.
LEMMA RecordFacts ==
    ASSUME TypeOK, SlotsInv, NEW m \in Turn, slotCommits[m.step] = NoCommit, ~Reused(m),
           slotCommits' = Recorded(m)
    PROVE  /\ slotCommits'[m.step] = m.commit
           /\ \A s \in Steps : slotCommits[s] # NoCommit => slotCommits'[s] = slotCommits[s]
           /\ \A s, t \in Steps :
                 slotCommits'[s] = slotCommits'[t] => s = t \/ slotCommits'[s] = NoCommit
<1>1. m.step \in Steps /\ m.commit \in Commits
  BY DEF Turn
<1>2. \A s \in Steps : slotCommits'[s] = IF s = m.step THEN m.commit ELSE slotCommits[s]
  BY <1>1 DEF TypeOK, Slots, Recorded
<1>3. \A s \in Steps : slotCommits[s] # m.commit
  BY DEF Reused
<1> QED BY <1>1, <1>2, <1>3 DEF SlotsInv

\* Handing over the turn whose commitment the awaited slot holds.
LEMMA HandOverFacts ==
    ASSUME TypeOK, SlotsInv, NEW m \in Turn, m.step = expected, expected \in Steps, HandOver(m),
           slotCommits'[expected] = m.commit,
           \A s \in Steps : slotCommits[s] # NoCommit => slotCommits'[s] = slotCommits[s]
    PROVE  /\ Len(accepted') = expected' - 1
           /\ \A i \in 1 .. Len(accepted') : accepted'[i] = [step |-> i, commit |-> slotCommits'[i]]
<1>1. /\ accepted \in Seq(Turn) /\ Len(accepted) = expected - 1 /\ expected \in 1 .. N
      /\ accepted' = Append(accepted, m) /\ expected' = expected + 1
  BY DEF TypeOK, SlotsInv, HandOver, Steps
<1>2. Len(accepted') = expected /\ accepted'[expected] = m
      /\ \A i \in 1 .. expected - 1 : accepted'[i] = accepted[i] /\ i \in Steps
  BY <1>1 DEF Steps
<1>3. m = [step |-> expected, commit |-> slotCommits'[expected]]
  BY DEF Turn
<1>4. ASSUME NEW i \in 1 .. expected - 1
      PROVE  accepted'[i] = [step |-> i, commit |-> slotCommits'[i]]
  <2>1. accepted[i] = [step |-> i, commit |-> slotCommits[i]] /\ accepted[i] \in Turn
    BY <1>1, <1>4 DEF SlotsInv
  <2>2. slotCommits[i] # NoCommit
    BY <2>1 DEF Turn
  <2> QED BY <1>2, <2>1, <2>2
<1> QED BY <1>1, <1>2, <1>3, <1>4

LEMMA PlayedStep == PlayedInv /\ [Next]_vars => PlayedInv'
<1> SUFFICES ASSUME PlayedInv, [Next]_vars PROVE SlotsInv'
  BY TypeStep DEF PlayedInv
<1>0. TypeOK /\ SlotsInv
  BY DEF PlayedInv
<1>1. CASE UNCHANGED <<slotCommits, buffered, expected, accepted>>
  BY <1>0, <1>1 DEF SlotsInv, Early
<1>2. CASE RestartReceiver
  BY <1>2 DEF RestartReceiver, SlotsInv, Early
<1>3. CASE ReplayBuffered
  <2> DEFINE m == [step |-> expected, commit |-> buffered[expected]]
  <2>1. /\ expected \in Steps /\ buffered[expected] # NoCommit /\ HandOver(m)
        /\ buffered' = [buffered EXCEPT ![expected] = NoCommit] /\ slotCommits' = slotCommits
    BY <1>3 DEF ReplayBuffered, Receiving
  <2>2. m \in Turn /\ m.step = expected /\ m.commit = buffered[expected]
    BY <1>0, <2>1 DEF TypeOK, Slots, Turn
  <2>3. slotCommits[expected] = buffered[expected]
    BY <1>0, <2>1 DEF SlotsInv, Early
  <2>4. \A s \in Early' : s \in Early /\ buffered'[s] = buffered[s]
    BY <1>0, <2>1 DEF Early, TypeOK, Slots
  <2> HIDE DEF m
  <2>5. /\ Len(accepted') = expected' - 1
        /\ \A i \in 1 .. Len(accepted') : accepted'[i] = [step |-> i, commit |-> slotCommits'[i]]
    BY <1>0, <2>1, <2>2, <2>3, HandOverFacts
  <2> QED BY <1>0, <2>1, <2>4, <2>5 DEF SlotsInv
<1>r. ASSUME NextMessage, Verdict(Head(inbox)) \notin {"duplicate", "equivocated", "reused_commit"}
      PROVE  /\ Head(inbox) \in Turn /\ slotCommits[Head(inbox).step] = NoCommit
             /\ ~Reused(Head(inbox))
  <2>1. Head(inbox) \in Turn
    BY <1>0, <1>r DEF NextMessage, TypeOK
  <2> QED BY <1>r, <2>1 DEF Verdict, Turn
<1>4. CASE AcceptExpected
  <2> DEFINE m == Head(inbox)
  <2>1. /\ NextMessage /\ Verdict(m) = "expected" /\ slotCommits' = Recorded(m) /\ HandOver(m)
        /\ buffered' = buffered /\ expected \in Steps
    BY <1>4 DEF AcceptExpected, NextMessage, Receiving
  <2>2. m \in Turn /\ slotCommits[m.step] = NoCommit /\ ~Reused(m) /\ m.step = expected
    BY <1>0, <1>r, <2>1, VerdictMeaning
  <2> HIDE DEF m
  <2>3. /\ slotCommits'[m.step] = m.commit
        /\ \A s \in Steps : slotCommits[s] # NoCommit => slotCommits'[s] = slotCommits[s]
        /\ \A s, t \in Steps :
              slotCommits'[s] = slotCommits'[t] => s = t \/ slotCommits'[s] = NoCommit
    BY <1>0, <2>1, <2>2, RecordFacts
  <2>4. /\ Len(accepted') = expected' - 1
        /\ \A i \in 1 .. Len(accepted') : accepted'[i] = [step |-> i, commit |-> slotCommits'[i]]
    BY <1>0, <2>1, <2>2, <2>3, HandOverFacts
  <2>5. \A s \in Early' : slotCommits'[s] = buffered'[s]
    BY <1>0, <2>1, <2>3 DEF SlotsInv, Early
  <2> QED BY <2>3, <2>4, <2>5 DEF SlotsInv
<1>5. CASE BufferEarly
  <2> DEFINE m == Head(inbox)
  <2>1. /\ NextMessage /\ Verdict(m) = "early" /\ slotCommits' = Recorded(m)
        /\ buffered' = [buffered EXCEPT ![m.step] = m.commit] /\ UNCHANGED <<expected, accepted>>
    BY <1>5 DEF BufferEarly
  <2>2. m \in Turn /\ slotCommits[m.step] = NoCommit /\ ~Reused(m)
    BY <1>r, <2>1
  <2> HIDE DEF m
  <2>3. /\ slotCommits'[m.step] = m.commit
        /\ \A s \in Steps : slotCommits[s] # NoCommit => slotCommits'[s] = slotCommits[s]
        /\ \A s, t \in Steps :
              slotCommits'[s] = slotCommits'[t] => s = t \/ slotCommits'[s] = NoCommit
    BY <1>0, <2>1, <2>2, RecordFacts
  <2>4. \A s \in Early' : s = m.step \/ (s \in Early /\ buffered'[s] = buffered[s])
    BY <1>0, <2>1 DEF Early, TypeOK, Slots
  <2>5. buffered'[m.step] = m.commit
    BY <1>0, <2>1, <2>2 DEF TypeOK, Slots, Turn
  <2>6. \A s \in Early' : slotCommits'[s] = buffered'[s]
    BY <1>0, <2>3, <2>4, <2>5 DEF SlotsInv, Early
  <2>7. ASSUME NEW i \in 1 .. Len(accepted)
        PROVE  accepted[i] = [step |-> i, commit |-> slotCommits'[i]]
    <3>1. accepted[i] \in Turn /\ accepted[i] = [step |-> i, commit |-> slotCommits[i]]
      BY <1>0, <2>7 DEF SlotsInv, TypeOK
    <3>2. i \in Steps /\ slotCommits[i] # NoCommit
      BY <3>1 DEF Turn
    <3> QED BY <2>3, <3>1, <3>2
  <2> QED BY <1>0, <2>1, <2>3, <2>6, <2>7 DEF SlotsInv
<1>6. CASE Refuse
  <2> DEFINE m == Head(inbox)
  <2>1. NextMessage /\ status' = Verdict(m) /\ UNCHANGED <<buffered, expected, accepted>>
    BY <1>6 DEF Refuse
  <2>2. CASE Verdict(m) \in {"equivocated", "reused_commit"}
    <3>1. slotCommits' = slotCommits
      BY <1>6, <2>2 DEF Refuse
    <3> QED BY <1>1, <2>1, <3>1
  <2>3. CASE Verdict(m) \notin {"equivocated", "reused_commit"}
    <3>1. slotCommits' = Recorded(m) /\ Verdict(m) # "duplicate"
      BY <1>6, <2>3 DEF Refuse, ProtocolErrors
    <3>2. m \in Turn /\ slotCommits[m.step] = NoCommit /\ ~Reused(m)
      BY <1>r, <2>1, <2>3, <3>1
    <3> HIDE DEF m
    <3>3. /\ \A s \in Steps : slotCommits[s] # NoCommit => slotCommits'[s] = slotCommits[s]
          /\ \A s, t \in Steps :
                slotCommits'[s] = slotCommits'[t] => s = t \/ slotCommits'[s] = NoCommit
      BY <1>0, <3>1, <3>2, RecordFacts
    <3>4. \A s \in Early' : slotCommits'[s] = buffered'[s]
      BY <1>0, <2>1, <3>3 DEF SlotsInv, Early
    <3>5. ASSUME NEW i \in 1 .. Len(accepted)
          PROVE  accepted[i] = [step |-> i, commit |-> slotCommits'[i]]
      <4>1. accepted[i] \in Turn /\ accepted[i] = [step |-> i, commit |-> slotCommits[i]]
        BY <1>0, <3>5 DEF SlotsInv, TypeOK
      <4>2. i \in Steps /\ slotCommits[i] # NoCommit
        BY <4>1 DEF Turn
      <4> QED BY <3>3, <4>1, <4>2
    <3> QED BY <1>0, <2>1, <3>3, <3>4, <3>5 DEF SlotsInv
  <2> QED BY <2>2, <2>3
<1>7. Next => \/ UNCHANGED <<slotCommits, buffered, expected, accepted>>
              \/ RestartReceiver \/ ReplayBuffered \/ AcceptExpected \/ BufferEarly \/ Refuse
  BY DEF Next, Receive, Transmit, Acknowledge, Deliver, SendTimeout, RestartSender,
      Negotiate, Lose, AbsorbDuplicate, ReceiveTimeout, Ended, vars, receiverVars
<1> QED BY <1>1, <1>2, <1>3, <1>4, <1>5, <1>6, <1>7 DEF vars, receiverVars

\* No commitment is played in two slots, whatever the peer seals, however the
\* tunnel treats its turns and however often the processes restart
\* (network_match.py:163-172).
THEOREM NoCommitIsPlayedTwice == Spec => []CommitPlayedOnce
<1>1. Init => PlayedInv
  BY TypeInit DEF Init, PlayedInv, SlotsInv, Early
<1>2. PlayedInv => CommitPlayedOnce
  <2> SUFFICES ASSUME PlayedInv, NEW i \in 1 .. Len(accepted), NEW j \in 1 .. Len(accepted),
                      accepted[i].commit = accepted[j].commit
               PROVE  i = j
    BY DEF CommitPlayedOnce
  <2>1. /\ accepted[i] = [step |-> i, commit |-> slotCommits[i]] /\ accepted[i] \in Turn
        /\ accepted[j] = [step |-> j, commit |-> slotCommits[j]] /\ accepted[j] \in Turn
    BY DEF PlayedInv, SlotsInv, TypeOK
  <2>2. i \in Steps /\ j \in Steps /\ slotCommits[i] = slotCommits[j] /\ slotCommits[i] # NoCommit
    BY <2>1 DEF Turn
  <2> QED BY <2>2 DEF PlayedInv, SlotsInv
<1> QED BY <1>1, <1>2, PlayedStep, PTL DEF Spec

-----------------------------------------------------------------------------
(* In order, exactly once, and one sealing: a process that is not started  *)
(* again implements OrderedDelivery, whatever it seals.                    *)

\* Every turn on its way, in the inbox or in a slot is one of the sealing.
SealedInv ==
    /\ \A m \in wire : m = SealedTurn(m.step)
    /\ \A i \in 1 .. Len(inbox) : inbox[i] = SealedTurn(inbox[i].step)
    /\ \A s \in Steps : slotCommits[s] \in {NoCommit, seal[s]}
    /\ status # "negotiating"

OrderInv == PlayedInv /\ (restarts = 0 => SealedInv)

\* The head of the inbox is recorded, or nothing is.
LEMMA SealedPop ==
    ASSUME TypeOK, SealedInv, NextMessage,
           slotCommits' = slotCommits \/ slotCommits' = Recorded(Head(inbox)),
           status' # "negotiating"
    PROVE  SealedInv'
<1>1. inbox \in Seq(Turn) /\ inbox # <<>> /\ inbox' = Tail(inbox) /\ UNCHANGED <<wire, seal>>
  BY DEF NextMessage, TypeOK, senderVars
<1>2. Head(inbox) = inbox[1] /\ 1 \in 1 .. Len(inbox) /\ Head(inbox) \in Turn
      /\ \A i \in 1 .. Len(inbox') : inbox'[i] = inbox[i + 1] /\ i + 1 \in 1 .. Len(inbox)
  BY <1>1
<1>3. Head(inbox).step \in Steps /\ Head(inbox).commit = seal[Head(inbox).step]
  <2>1. inbox[1] = SealedTurn(inbox[1].step) /\ inbox[1].step \in Steps
    BY <1>2 DEF SealedInv, Turn
  <2>2. inbox[1].commit = seal[inbox[1].step]
    BY <2>1 DEF SealedTurn
  <2> QED BY <1>2, <2>1, <2>2
<1>4. \A s \in Steps : slotCommits'[s] \in {NoCommit, seal[s]}
  BY <1>3 DEF SealedInv, Recorded, TypeOK, Slots
<1>5. \A i \in 1 .. Len(inbox') : inbox'[i] = SealedTurn(inbox'[i].step)
  BY <1>2 DEF SealedInv
<1> QED BY <1>1, <1>4, <1>5 DEF SealedInv, SealedTurn

LEMMA SealedStep ==
    ASSUME TypeOK, SealedInv, [Next]_vars, UNCHANGED restarts, restarts = 0
    PROVE  SealedInv'
<1>k. ASSUME UNCHANGED <<seal, inbox, slotCommits>>, status' # "negotiating",
             \A m \in wire' : m = SealedTurn(m.step)
      PROVE  SealedInv'
  BY <1>k DEF SealedInv, SealedTurn
<1>1. ASSUME NEW s \in Steps, Transmit(s) PROVE SealedInv'
  <2>1. SealedTurn(s).step = s
    BY DEF SealedTurn
  <2> QED BY <1>1, <1>k, <2>1 DEF Transmit, SealedInv, senderVars, serverVars, receiverVars
<1>2. ASSUME NEW m \in Turn, Acknowledge(m) PROVE SealedInv'
  BY <1>2, <1>k DEF Acknowledge, SealedInv, serverVars, receiverVars
<1>3. ASSUME NEW m \in Turn, Deliver(m) PROVE SealedInv'
  <2>1. /\ m = SealedTurn(m.step) /\ EnqueueOnce(m) /\ wire' \subseteq wire
        /\ UNCHANGED <<seal, slotCommits, status>>
    BY <1>3 DEF Deliver, SealedInv, senderVars, receiverVars
  <2>2. inbox' = inbox \/ inbox' = Append(inbox, m)
    BY <2>1 DEF EnqueueOnce
  <2>3. \A i \in 1 .. Len(inbox') : (i \in 1 .. Len(inbox) /\ inbox'[i] = inbox[i]) \/ inbox'[i] = m
    <3>1. inbox \in Seq(Turn)
      BY DEF TypeOK
    <3> QED BY <2>2, <3>1
  <2>4. \A i \in 1 .. Len(inbox') : inbox'[i] = SealedTurn(inbox'[i].step)
    BY <2>1, <2>3 DEF SealedInv
  <2> QED BY <2>1, <2>4 DEF SealedInv, SealedTurn
<1>4. CASE SendTimeout
  BY <1>4, <1>k DEF SendTimeout, SealedInv, serverVars, receiverVars
<1>5. CASE Lose
  BY <1>5, <1>k DEF Lose, SealedInv, senderVars, serverVars, receiverVars
<1>6. CASE ReplayBuffered
  BY <1>6, <1>k DEF ReplayBuffered, SealedInv, senderVars, serverVars
<1>7. CASE AbsorbDuplicate
  BY <1>7, SealedPop DEF AbsorbDuplicate, SealedInv, receiverVars
<1>8. CASE AcceptExpected
  BY <1>8, SealedPop DEF AcceptExpected, SealedInv
<1>9. CASE BufferEarly
  BY <1>9, SealedPop DEF BufferEarly, SealedInv
<1>10. CASE Refuse
  BY <1>10, SealedPop DEF Refuse, SealedInv, ProtocolErrors
<1>11. CASE ReceiveTimeout
  BY <1>11, <1>k DEF ReceiveTimeout, SealedInv, senderVars, serverVars
<1>12. CASE Negotiate
  BY <1>12 DEF Negotiate, SealedInv
<1>13. CASE UNCHANGED vars
  BY <1>13, <1>k DEF vars, SealedInv, senderVars, serverVars, receiverVars
<1>14. ~RestartSender /\ ~RestartReceiver
  BY DEF RestartSender, RestartReceiver
<1> QED BY <1>1, <1>2, <1>3, <1>4, <1>5, <1>6, <1>7, <1>8, <1>9, <1>10, <1>11, <1>12, <1>13, <1>14
        DEF Next, Receive, Ended

LEMMA OrderStep == OrderInv /\ [Next]_vars => OrderInv'
<1> SUFFICES ASSUME OrderInv, [Next]_vars, restarts' = 0 PROVE SealedInv'
  BY PlayedStep DEF OrderInv
<1>1. TypeOK
  BY DEF OrderInv, PlayedInv
<1>2. UNCHANGED restarts \/ restarts' = restarts + 1
  BY DEF Next, Receive, Transmit, Acknowledge, Deliver, SendTimeout, Negotiate, Lose, RestartSender,
         RestartReceiver, ReplayBuffered, AbsorbDuplicate, AcceptExpected, BufferEarly, Refuse,
         NextMessage, ReceiveTimeout, Ended, vars, senderVars
<1>3. UNCHANGED restarts /\ restarts = 0
  BY <1>1, <1>2 DEF TypeOK
<1> QED BY <1>1, <1>3, SealedStep DEF OrderInv

\* Handing over the awaited turn is the abstract step.
LEMMA HandOverStep ==
    ASSUME TypeOK, SlotsInv, SealedInv, SlotsInv', SealedInv', TypeOK', UNCHANGED seal,
           Receiving, NEW m \in Turn, HandOver(m), UNCHANGED status
    PROVE  Abstract!HandOver
<1>1. /\ accepted \in Seq(Turn) /\ Len(accepted) = expected - 1 /\ expected \in Steps
      /\ accepted' = Append(accepted, m) /\ seal \in Seals
  BY DEF TypeOK, SlotsInv, HandOver, Receiving
<1>2. ASSUME NEW i \in 1 .. Len(accepted') PROVE accepted'[i] = Abstract!Turn(seal, i)
  <2>1. accepted'[i] = [step |-> i, commit |-> slotCommits'[i]] /\ accepted'[i] \in Turn
    BY <1>2 DEF SlotsInv, TypeOK
  <2>2. i \in Steps /\ slotCommits'[i] # NoCommit
    BY <2>1 DEF Turn
  <2>3. slotCommits'[i] = seal[i]
    BY <2>2 DEF SealedInv
  <2> QED BY <2>1, <2>3 DEF Abstract!Turn
<1>3. \A i \in 1 .. Len(accepted) : accepted'[i] = accepted[i] /\ i \in 1 .. Len(accepted')
  BY <1>1
<1>4. Len(accepted) + 1 = expected /\ expected \in 1 .. Len(accepted') /\ accepted'[expected] = m
  BY <1>1 DEF Steps
<1>5. \A i \in 1 .. Len(accepted) : accepted[i] = Abstract!Turn(seal, i)
  BY <1>2, <1>3
<1>6. accepted' = Append(accepted, Abstract!Turn(seal, Len(accepted) + 1))
  BY <1>1, <1>2, <1>4
<1> QED BY <1>1, <1>4, <1>5, <1>6 DEF Abstract!HandOver, Receiving

LEMMA OrderRefines ==
    ASSUME OrderInv, OrderInv', restarts = 0, restarts' = 0, [Next]_vars
    PROVE  [Abstract!Next]_(Abstract!vars)
<1>1. /\ TypeOK /\ SlotsInv /\ SealedInv /\ TypeOK' /\ SlotsInv' /\ SealedInv'
  BY DEF OrderInv, PlayedInv
<1>2. CASE UNCHANGED <<accepted, status>>
  BY <1>2 DEF Abstract!vars
<1>3. CASE ReplayBuffered
  <2> DEFINE m == [step |-> expected, commit |-> buffered[expected]]
  <2>1. Receiving /\ HandOver(m) /\ UNCHANGED <<seal, status>> /\ m \in Turn
    BY <1>1, <1>3 DEF ReplayBuffered, Receiving, senderVars, TypeOK, Slots, Turn
  <2> HIDE DEF m
  <2> QED BY <1>1, <2>1, HandOverStep DEF Abstract!Next
<1>4. CASE AcceptExpected
  <2>1. Receiving /\ HandOver(Head(inbox)) /\ UNCHANGED <<seal, status>> /\ Head(inbox) \in Turn
    BY <1>1, <1>4 DEF AcceptExpected, NextMessage, senderVars, TypeOK
  <2> QED BY <1>1, <2>1, HandOverStep DEF Abstract!Next
<1>5. CASE Refuse \/ ReceiveTimeout
  <2>1. status = "ok" /\ status' # "ok" /\ accepted' = accepted
    BY <1>1, <1>5 DEF Refuse, ReceiveTimeout, NextMessage, Receiving, ProtocolErrors, SealedInv
  <2> QED BY <2>1 DEF Abstract!Next, Abstract!GiveUp
<1>6. ~RestartReceiver /\ ~RestartSender /\ ~Negotiate
  BY <1>1 DEF RestartReceiver, RestartSender, Negotiate, SealedInv
<1>7. Next => \/ UNCHANGED <<accepted, status>> \/ ReplayBuffered \/ AcceptExpected
              \/ Refuse \/ ReceiveTimeout
  BY <1>6 DEF Next, Receive, Transmit, Acknowledge, Deliver, SendTimeout, Lose, AbsorbDuplicate,
      BufferEarly, Ended, vars, receiverVars
<1> QED BY <1>2, <1>3, <1>4, <1>5, <1>7 DEF vars, receiverVars

\* A receiver that is not started again hands over the turns of one sealing,
\* one by one, in step order and each once, and nothing after it has given
\* up: it implements OrderedDelivery, whatever the sealing is
\* (network_match.py:137-195).
THEOREM TurnsAreHandedOverInOrder ==
    ASSUME MaxRestarts = 0
    PROVE  Spec => DeliversInOrder
<1>1. Init => OrderInv
  BY TypeInit DEF Init, OrderInv, PlayedInv, SlotsInv, SealedInv, Early
<1>2. Init => Abstract!Init
  BY DEF Init, Abstract!Init
<1>3. OrderInv => restarts = 0
  BY DEF OrderInv, PlayedInv, TypeOK
<1>4. OrderInv /\ OrderInv' /\ [Next]_vars => [Abstract!Next]_(Abstract!vars)
  <2>1. OrderInv' => restarts' = 0
    BY DEF OrderInv, PlayedInv, TypeOK
  <2> QED BY <1>3, <2>1, OrderRefines
<1> QED BY <1>1, <1>2, <1>4, OrderStep, PTL DEF Spec, DeliversInOrder, Abstract!Spec
=============================================================================
