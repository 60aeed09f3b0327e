----------------------------- MODULE SeriesProofs -----------------------------
(***************************************************************************)
(* Theorems about Series for every number of sub-games, whatever fails or  *)
(* crashes and however often the coordinators are launched: the last child *)
(* finds all it needs, no signed result is lost, and what a confirmed      *)
(* aggregate tells is what the files of the peer tell.                     *)
(***************************************************************************)
EXTENDS Series, SequenceTheorems, FiniteSetTheorems, WellFoundedInduction, TLAPS

-----------------------------------------------------------------------------
(* The inductive invariant.                                                *)

TypeOK ==
    /\ coordinator \in [Teams -> {"idle", "between", "waiting"}] /\ number \in [Teams -> Numbers]
    /\ child \in [Teams -> Process \cup {None}]
    /\ log \in [Teams -> [Numbers -> LogFile \cup {None}]]
    /\ result \in [Teams -> [Numbers -> ResultFile \cup {None}]]
    /\ state \in [Teams -> [readable : BOOLEAN, rows : Rows]]
    /\ final \in [Teams -> FinalFile \cup {None}]
    /\ archive \in [Teams -> SUBSET ResultFile] /\ games \in Seq(Game)

\* The phases of a child, in the order it goes through them.
Playing   == {"playing", "auditing", "audited", "logged"}
Unwritten == {"negotiating"} \cup Playing
Written   == {"written", "marked", "aggregated", "awaiting"}
Closing   == {"aggregated", "awaiting", "concluded"}
Marked    == {"marked"} \cup Closing

InPhases(t, phases) == child[t] # None /\ child[t].phase \in phases

\* A sub-game that is behind the coordinator: its result can be read and its
\* row has both time stamps.
Behind(t, k) ==
    /\ result[t][k] # None /\ result[t][k].outcome # "torn"
    /\ state[t].rows[k] = "ended"

\* The files of a team, as its processes left them.
FilesInv(t) ==
    /\ child[t] # None <=> coordinator[t] = "waiting"
    /\ coordinator[t] # "idle" =>
         state[t].readable /\ \A k \in 1 .. number[t] - 1 : Behind(t, k)
    /\ InPhases(t, Marked) => Behind(t, number[t])
    /\ InPhases(t, Closing) => number[t] = NumGames
    /\ InPhases(t, {"logged"}) => log[t][number[t]] # None
    /\ InPhases(t, {"audited", "logged"} \cup Written) => child[t].outcome \in Verdicts \ {"torn"}
    /\ InPhases(t, Written) =>
         result[t][number[t]] =
           [game |-> child[t].game, outcome |-> child[t].outcome, signed |-> child[t].signed]
    /\ \A n \in Numbers : result[t][n] # None =>
         log[t][n] # None /\ (result[t][n].signed => result[t][n].outcome # "torn")

\* Until a child writes its result, the one it replaces is in the archive.
EvidenceInv(t) ==
    InPhases(t, Unwritten) => result[t][number[t]] \in archive[t] \cup {None}

\* No process knows of a game that was not played.
PastInv(t) ==
    child[t] # None =>
        /\ \A i \in 1 .. Len(child[t].mail) : child[t].mail[i].game <= Len(games)
        /\ child[t].phase # "negotiating" => child[t].game \in 1 .. Len(games)

\* The results of t's peer are what rows tells, and the peer is not in a game.
Shared(t, rows) ==
    /\ \A n \in Numbers : result[Other(t)][n] # None /\ result[Other(t)][n].outcome = rows[n]
    /\ ~InPhases(Other(t), Playing)

\* A message that is a digest is of the peer's results as they are.
Tells(t, message) == message.kind = "digest" => Shared(t, message.rows)

\* The first message is the audit of t's game.
Genuine(t) ==
    child[t].mail # <<>> /\ Head(child[t].mail).kind = "audit"
    /\ Head(child[t].mail).game = child[t].game

\* A digest behind the audit of this game, or left when that audit has been
\* read, is of the peer's results as they are.
DigestInv(t) ==
    /\ InPhases(t, {"playing", "auditing"}) /\ Genuine(t) =>
         \A i \in 2 .. Len(child[t].mail) : Tells(t, child[t].mail[i])
    /\ InPhases(t, {"audited", "logged"} \cup Written) /\ child[t].signed =>
         \A i \in 1 .. Len(child[t].mail) : Tells(t, child[t].mail[i])

\* A confirmed aggregate, when it is decided and when it is written.
Settled(t, rows) == Shared(t, rows) /\ \A n \in Numbers : Completed(t, n)

ConfirmedInv(t) ==
    /\ InPhases(t, {"concluded"}) /\ child[t].signed => Settled(t, Outcomes(t))
    /\ final[t] # None /\ final[t].confirmed =>
         coordinator[t] = "idle" /\ Settled(t, final[t].rows)

TeamInv(t) ==
    FilesInv(t) /\ EvidenceInv(t) /\ PastInv(t) /\ DigestInv(t) /\ ConfirmedInv(t)

IInv == TypeOK /\ \A t \in Teams : TeamInv(t)

-----------------------------------------------------------------------------
(* Two teams, and where a coordinator resumes.                             *)

LEMMA TwoTeams ==
    ASSUME NEW t \in Teams
    PROVE  /\ Other(t) \in Teams /\ Other(t) # t
           /\ \A u \in Teams : u = t \/ u = Other(t)
           /\ Other(Other(t)) = t
<1>1. IsFiniteSet(Teams \ {t}) /\ Cardinality(Teams \ {t}) = 1
  BY FS_RemoveElement, SeriesAssumption
<1>2. PICK u : Teams \ {t} = {u}
  BY <1>1, FS_Singleton
<1>3. u \in Teams /\ u # t /\ \A v \in Teams : v = t \/ v = u
  BY <1>2
<1>4. Other(t) = u
  BY <1>3 DEF Other
<1>5. Other(u) = t
  BY <1>3 DEF Other
<1> QED BY <1>3, <1>4, <1>5

\* A set of numbers that is not empty has a least element.
LEMMA LeastNumber ==
    ASSUME NEW S \in SUBSET Nat, S # {}
    PROVE  \E n \in S : \A m \in S : n <= m
<1>1. IsWellFoundedOn(OpToRel(<, Nat), Nat)
  BY NatLessThanWellFounded
<1>2. PICK n \in S : \A m \in S : <<m, n>> \notin OpToRel(<, Nat)
  BY <1>1, WFMin
<1>3. \A m \in S : ~(m < n)
  BY <1>2 DEF OpToRel
<1> QED BY <1>3

\* Every sub-game before the one to resume at is completed, and that one is not.
LEMMA ResumeFacts ==
    ASSUME NEW t \in Teams
    PROVE  /\ ResumeAt(t) \in 1 .. NumGames + 1
           /\ \A k \in 1 .. ResumeAt(t) - 1 : Completed(t, k)
           /\ ResumeAt(t) = NumGames + 1 \/ ~Completed(t, ResumeAt(t))
<1> DEFINE open == {n \in Numbers : ~Completed(t, n)} \cup {NumGames + 1}
<1>1. open \in SUBSET Nat /\ open # {}
  BY SeriesAssumption DEF Numbers
<1>2. PICK n \in open : \A m \in open : n <= m
  BY <1>1, LeastNumber, Zenon
<1>3. n \in 1 .. NumGames + 1
  BY SeriesAssumption DEF Numbers
<1>4. \A k \in 1 .. n - 1 : Completed(t, k)
  BY <1>2, <1>3, SeriesAssumption DEF Numbers
<1>5. n = NumGames + 1 \/ ~Completed(t, n)
  OBVIOUS
<1> QED BY <1>3, <1>4, <1>5 DEF ResumeAt

-----------------------------------------------------------------------------
(* Types.                                                                  *)

LEMMA TypeStart == Init => TypeOK
BY SeriesAssumption, TwoTeams, EmptySeq DEF Init, TypeOK, NoRow, Rows, Numbers, Game

\* What a process becomes when one field of it changes.
LEMMA ProcessField ==
    ASSUME NEW p \in Process
    PROVE  /\ \A ph \in Phases : [p EXCEPT !.phase = ph] \in Process
           /\ \A m \in Message : [p EXCEPT !.mail = Append(@, m)] \in Process
           /\ \A ph \in Phases, g \in Nat : [p EXCEPT !.phase = ph, !.game = g] \in Process
           /\ \A ph \in Phases, b \in BOOLEAN : [p EXCEPT !.phase = ph, !.signed = b] \in Process
           /\ p # None
<1>1. \A m \in Message : Append(p.mail, m) \in Seq(Message)
  BY AppendProperties DEF Process
<1> QED BY <1>1, SeriesAssumption DEF Process

\* Any choice of rows can be saved.
LEMMA RowsTyped ==
    ASSUME TypeOK, NEW t \in Teams
    PROVE  /\ LoadedRows(t) \in Rows
           /\ \A k \in Numbers : [LoadedRows(t) EXCEPT ![k] = "started"] \in Rows
           /\ \A k \in Numbers : [LoadedRows(t) EXCEPT ![k] = "ended"] \in Rows
           /\ [n \in Numbers |-> IF n < ResumeAt(t) THEN "ended" ELSE LoadedRows(t)[n]] \in Rows
BY DEF TypeOK, LoadedRows, NoRow, Rows

LEMMA SavedRowsTyped ==
    ASSUME TypeOK, NEW t \in Teams, NEW rows \in Rows, SaveRows(t, rows)
    PROVE  state' \in [Teams -> [readable : BOOLEAN, rows : Rows]]
BY DEF TypeOK, SaveRows

\* In the last phases of the last child every sub-game is behind it.
LEMMA LastChildFacts ==
    ASSUME TypeOK, NEW t \in Teams, FilesInv(t), InPhases(t, Marked), number[t] = NumGames
    PROVE  /\ \A n \in Numbers : Behind(t, n)
           /\ Outcomes(t) \in Summary
<1>1. coordinator[t] # "idle" /\ Behind(t, NumGames)
  BY DEF FilesInv, InPhases
<1>2. \A n \in Numbers : n \in 1 .. NumGames - 1 \/ n = NumGames
  BY SeriesAssumption DEF Numbers
<1>3. \A n \in Numbers : Behind(t, n)
  BY <1>1, <1>2 DEF FilesInv
<1>4. \A n \in Numbers : result[t][n] \in ResultFile
  BY <1>3 DEF Behind, TypeOK
<1>5. Outcomes(t) \in [Numbers -> Verdicts]
  BY <1>4 DEF Outcomes, ResultFile
<1> QED BY <1>3, <1>5 DEF Summary

LEMMA TypeStep ==
    ASSUME IInv, [Next]_vars
    PROVE  TypeOK'
<1> TypeOK /\ \A t \in Teams : PastInv(t) /\ FilesInv(t)
  BY DEF IInv, TeamInv
<1>1. CASE Meet
  <2>1. \A t \in Teams : child[t] \in Process
    BY <1>1 DEF Meet, InPhase, TypeOK
  <2>2. Len(games) + 1 \in Nat
    BY DEF TypeOK
  <2>3. child' \in [Teams -> Process \cup {None}]
    BY <1>1, <2>1, <2>2, ProcessField DEF Meet, Phases
  <2>4. PICK outcome \in {"capture", "survival"}, signed \in Signatures :
          games' = Append(games, [outcome |-> outcome, signed |-> signed, numbers |-> number])
    BY <1>1 DEF Meet
  <2>5. [outcome |-> outcome, signed |-> signed, numbers |-> number] \in Game
    BY SeriesAssumption DEF Game, TypeOK
  <2>6. games' \in Seq(Game)
    BY <2>4, <2>5, AppendProperties DEF TypeOK
  <2> QED BY <1>1, <2>3, <2>6 DEF Meet, files, TypeOK
<1>2. ASSUME NEW t \in Teams, Launch(t) PROVE TypeOK'
  <2>1. state' \in [Teams -> [readable : BOOLEAN, rows : Rows]]
    BY <1>2, RowsTyped, SavedRowsTyped DEF Launch
  <2>2. coordinator' \in [Teams -> {"idle", "between", "waiting"}]
    BY <1>2 DEF Launch, TypeOK
  <2> DEFINE n == ResumeAt(t)
  <2>n. n \in 1 .. NumGames + 1 /\ NumGames \in Nat \ {0}
    BY ResumeFacts, SeriesAssumption
  <2>m. number' = number \/ number' = [number EXCEPT ![t] = IF n > NumGames THEN NumGames ELSE n]
    <3>1. CASE n > NumGames /\ final[t] # None
      BY <1>2, <3>1 DEF Launch
    <3>2. CASE ~(n > NumGames /\ final[t] # None)
      BY <1>2, <3>2 DEF Launch
    <3> QED BY <3>1, <3>2
  <2> HIDE DEF n
  <2>k. (IF n > NumGames THEN NumGames ELSE n) \in Numbers
    BY <2>n DEF Numbers
  <2>3. number' \in [Teams -> Numbers]
    BY <2>k, <2>m DEF TypeOK
  <2> QED BY <1>2, <2>1, <2>2, <2>3 DEF Launch, TypeOK
<1>3. ASSUME NEW t \in Teams, Start(t) PROVE TypeOK'
  <2>1. state' \in [Teams -> [readable : BOOLEAN, rows : Rows]]
    BY <1>3, RowsTyped, SavedRowsTyped DEF Start, TypeOK
  <2>2. [phase |-> "negotiating", game |-> 0, mail |-> <<>>, outcome |-> None, signed |-> FALSE]
          \in Process
    BY EmptySeq DEF Process, Phases
  <2>3. child' \in [Teams -> Process \cup {None}]
    BY <1>3, <2>2 DEF Start, TypeOK
  <2>4. archive' \in [Teams -> SUBSET ResultFile]
    BY <1>3 DEF Start, TypeOK
  <2>5. coordinator' \in [Teams -> {"idle", "between", "waiting"}]
    BY <1>3 DEF Start, TypeOK
  <2> QED BY <1>3, <2>1, <2>3, <2>4, <2>5 DEF Start, TypeOK
<1>4. ASSUME NEW t \in Teams, child[t] # None, NEW ph \in Phases, Enter(t, ph)
      PROVE  child' \in [Teams -> Process \cup {None}]
  BY <1>4, ProcessField DEF Enter, TypeOK
<1>5. ASSUME NEW t \in Teams, child[t] # None, child[Other(t)] # None,
             NEW ph \in Phases, NEW m \in Message,
             child' = [child EXCEPT ![t].phase = ph, ![Other(t)].mail = Append(@, m)]
      PROVE  child' \in [Teams -> Process \cup {None}]
  <2>0. child[t] \in Process /\ child[Other(t)] \in Process
    BY <1>5, TwoTeams DEF TypeOK
  <2>1. [child[t] EXCEPT !.phase = ph] \in Process
        /\ [child[Other(t)] EXCEPT !.mail = Append(@, m)] \in Process
    BY <2>0, ProcessField
  <2>2. child' = [[child EXCEPT ![t] = [child[t] EXCEPT !.phase = ph]]
                    EXCEPT ![Other(t)] = [child[Other(t)] EXCEPT !.mail = Append(@, m)]]
    BY <1>5, TwoTeams DEF TypeOK
  <2> QED BY <2>1, <2>2, TwoTeams DEF TypeOK
<1>6. ASSUME NEW t \in Teams, SendAudit(t) PROVE TypeOK'
  <2>1. [kind |-> "audit", game |-> child[t].game, rows |-> <<>>] \in Message
    BY <1>6 DEF SendAudit, InPhase, TypeOK, Process, Message, Summary
  <2>2. child' \in [Teams -> Process \cup {None}]
    BY <1>5, <1>6, <2>1 DEF SendAudit, InPhase, Phases
  <2> QED BY <1>6, <2>2 DEF SendAudit, files, TypeOK
<1>7. ASSUME NEW t \in Teams, ReadAudit(t) PROVE TypeOK'
  <2>1. /\ child[t] \in Process /\ child[t].mail \in Seq(Message) /\ child[t].mail # <<>>
        /\ child[t].game \in Nat
    BY <1>7 DEF ReadAudit, InPhase, TypeOK, Process
  <2>2. Tail(child[t].mail) \in Seq(Message)
    BY <2>1, HeadTailProperties
  <2>g. child[t].game \in 1 .. Len(games)
    BY <1>7 DEF ReadAudit, InPhase, PastInv
  <2>3. games[child[t].game] \in Game
    BY <2>g, ElementOfSeq DEF TypeOK
  <2> DEFINE genuine == Head(child[t].mail).kind = "audit" /\ Head(child[t].mail).game = child[t].game
             outcome == IF genuine THEN games[child[t].game].outcome ELSE "technical_loss"
             signed  == genuine /\ games[child[t].game].signed
  <2>4. outcome \in Verdicts /\ signed \in BOOLEAN
    BY <2>3 DEF Game, Verdicts
  <2> DEFINE next == [child[t] EXCEPT !.phase = "audited", !.mail = Tail(child[t].mail),
                                      !.outcome = outcome, !.signed = signed]
  <2>5. child' = [child EXCEPT ![t] = next]
    BY <1>7 DEF ReadAudit
  <2> HIDE DEF outcome, signed
  <2>6. next \in Process
    BY <2>1, <2>2, <2>4 DEF Process, Phases
  <2> HIDE DEF next
  <2>7. child' \in [Teams -> Process \cup {None}]
    BY <2>5, <2>6 DEF TypeOK
  <2> QED BY <1>7, <2>7 DEF ReadAudit, files, TypeOK
<1>8. ASSUME NEW t \in Teams, WriteLog(t) PROVE TypeOK'
  <2>1. child' \in [Teams -> Process \cup {None}]
    BY <1>4, <1>8 DEF WriteLog, InPhase, Phases
  <2>2. [game |-> child[t].game, torn |-> FALSE] \in LogFile
    BY <1>8 DEF WriteLog, InPhase, TypeOK, Process, LogFile
  <2>3. log' \in [Teams -> [Numbers -> LogFile \cup {None}]]
    BY <1>8, <2>2 DEF WriteLog, TypeOK
  <2> QED BY <1>8, <2>1, <2>3 DEF WriteLog, TypeOK
<1>9. ASSUME NEW t \in Teams, WriteResult(t), child[t].outcome \in Verdicts PROVE TypeOK'
  <2>1. child' \in [Teams -> Process \cup {None}]
    BY <1>4, <1>9 DEF WriteResult, InPhase, Phases
  <2>2. [game |-> child[t].game, outcome |-> child[t].outcome, signed |-> child[t].signed]
          \in ResultFile
    BY <1>9 DEF WriteResult, InPhase, TypeOK, Process, ResultFile
  <2>3. result' \in [Teams -> [Numbers -> ResultFile \cup {None}]]
    BY <1>9, <2>2 DEF WriteResult, TypeOK
  <2> QED BY <1>9, <2>1, <2>3 DEF WriteResult, TypeOK
<1>10. ASSUME NEW t \in Teams, Mark(t) PROVE TypeOK'
  <2>1. child' \in [Teams -> Process \cup {None}]
    BY <1>4, <1>10 DEF Mark, InPhase, Phases
  <2>2. state' \in [Teams -> [readable : BOOLEAN, rows : Rows]]
    BY <1>10, RowsTyped, SavedRowsTyped DEF Mark, TypeOK
  <2> QED BY <1>10, <2>1, <2>2 DEF Mark, TypeOK
<1>11. ASSUME NEW t \in Teams, Exit(t) PROVE TypeOK'
  BY <1>11, SeriesAssumption DEF Exit, TypeOK, files, Numbers
<1>12. ASSUME NEW t \in Teams, Fail(t) PROVE TypeOK'
  BY <1>12 DEF Fail, TypeOK, files
<1>13. ASSUME NEW t \in Teams, Aggregate(t) PROVE TypeOK'
  <2>1. child' \in [Teams -> Process \cup {None}]
    BY <1>4, <1>13 DEF Aggregate, InPhase, Phases
  <2> QED BY <1>13, <2>1 DEF Aggregate, TypeOK, files
<1>14. ASSUME NEW t \in Teams, SendDigest(t), Outcomes(t) \in Summary PROVE TypeOK'
  <2>1. [kind |-> "digest", game |-> 0, rows |-> Outcomes(t)] \in Message
    BY <1>14 DEF Message
  <2>2. child' \in [Teams -> Process \cup {None}]
    BY <1>5, <1>14, <2>1 DEF SendDigest, InPhase, Phases
  <2> QED BY <1>14, <2>2 DEF SendDigest, files, TypeOK
<1>15. ASSUME NEW t \in Teams, NEW b \in BOOLEAN, child[t] # None, Conclude(t, b)
       PROVE  child' \in [Teams -> Process \cup {None}]
  BY <1>15, ProcessField DEF Conclude, TypeOK, Phases
<1>16. ASSUME NEW t \in Teams, ReadDigest(t) PROVE TypeOK'
  <2>1. child' \in [Teams -> Process \cup {None}]
    BY <1>15, <1>16 DEF ReadDigest, InPhase
  <2> QED BY <1>16, <2>1 DEF ReadDigest, files, TypeOK
<1>17. ASSUME NEW t \in Teams, GiveUp(t) PROVE TypeOK'
  <2>1. child' \in [Teams -> Process \cup {None}]
    BY <1>15, <1>17 DEF GiveUp, InPhase
  <2> QED BY <1>17, <2>1 DEF GiveUp, files, TypeOK
<1>18. ASSUME NEW t \in Teams, WriteFinal(t), Outcomes(t) \in Summary PROVE TypeOK'
  <2>1. [rows |-> Outcomes(t), confirmed |-> child[t].signed] \in FinalFile
    BY <1>18 DEF WriteFinal, InPhase, TypeOK, Process, FinalFile
  <2> QED BY <1>18, <2>1 DEF WriteFinal, TypeOK
<1>19. ASSUME NEW t \in Teams, Crash(t) PROVE TypeOK'
  <2>1. /\ coordinator' \in [Teams -> {"idle", "between", "waiting"}]
        /\ child' \in [Teams -> Process \cup {None}]
        /\ number' = number /\ archive' = archive /\ games' = games
    BY <1>19 DEF Crash, TypeOK
  <2>t. state[t] \in [readable : BOOLEAN, rows : Rows]
    BY DEF TypeOK
  <2>s. state' = state \/ state' = [state EXCEPT ![t] = [state[t] EXCEPT !.readable = FALSE]]
    BY <1>19 DEF Crash, TypeOK
  <2>2. state' \in [Teams -> [readable : BOOLEAN, rows : Rows]]
    <3>1. [state[t] EXCEPT !.readable = FALSE] \in [readable : BOOLEAN, rows : Rows]
      BY <2>t
    <3> QED BY <2>s, <3>1 DEF TypeOK
  <2>3. log' \in [Teams -> [Numbers -> LogFile \cup {None}]]
    <3>1. CASE InPhase(t, "audited")
      <4>1. [game |-> child[t].game, torn |-> TRUE] \in LogFile
        BY <3>1 DEF InPhase, TypeOK, Process, LogFile
      <4> QED BY <1>19, <4>1 DEF Crash, TypeOK
    <3>2. CASE ~InPhase(t, "audited")
      BY <1>19, <3>2 DEF Crash, TypeOK
    <3> QED BY <3>1, <3>2
  <2>4. result' \in [Teams -> [Numbers -> ResultFile \cup {None}]]
    <3>1. TornResult \in ResultFile
      BY DEF TornResult, ResultFile, Verdicts
    <3> QED BY <1>19, <3>1 DEF Crash, TypeOK
  <2>5. final' \in [Teams -> FinalFile \cup {None}]
    <3>1. [rows |-> <<>>, confirmed |-> FALSE] \in FinalFile
      BY DEF FinalFile, Summary
    <3> QED BY <1>19, <3>1 DEF Crash, TypeOK
  <2> QED BY <2>1, <2>2, <2>3, <2>4, <2>5 DEF TypeOK
<1>20. ASSUME NEW t \in Teams, InPhases(t, Closing) PROVE Outcomes(t) \in Summary
  BY <1>20, LastChildFacts DEF FilesInv, InPhases, Marked
<1>21. ASSUME NEW t \in Teams, GameStep(t) PROVE TypeOK'
  <2>1. InPhase(t, "logged") => child[t].outcome \in Verdicts
    BY DEF FilesInv, InPhases, InPhase
  <2>2. WriteResult(t) => child[t].outcome \in Verdicts
    BY <2>1 DEF WriteResult
  <2> QED BY <1>21, <2>2, <1>6, <1>7, <1>8, <1>9, <1>10, <1>11 DEF GameStep
<1>22. ASSUME NEW t \in Teams, FinalStep(t) PROVE TypeOK'
  <2>1. InPhase(t, "aggregated") \/ InPhase(t, "concluded") => InPhases(t, Closing)
    BY DEF InPhase, InPhases, Closing
  <2>2. SendDigest(t) \/ WriteFinal(t) => InPhases(t, Closing)
    BY <2>1 DEF SendDigest, WriteFinal
  <2> QED BY <1>22, <2>2, <1>20, <1>13, <1>14, <1>16, <1>18 DEF FinalStep
<1>23. CASE UNCHANGED vars
  BY <1>23 DEF vars, files, TypeOK
<1> QED BY <1>1, <1>2, <1>3, <1>12, <1>17, <1>19, <1>21, <1>22, <1>23 DEF Next

-----------------------------------------------------------------------------
(* What a step of a team does to the team and to its peer.                 *)

OwnStep(t) ==
    Launch(t) \/ Start(t) \/ GameStep(t) \/ FinalStep(t) \/ Fail(t) \/ GiveUp(t) \/ Crash(t)

KeepsFiles(t) ==
    /\ coordinator'[t] = coordinator[t] /\ number'[t] = number[t]
    /\ log'[t] = log[t] /\ result'[t] = result[t] /\ state'[t] = state[t]
    /\ final'[t] = final[t] /\ archive'[t] = archive[t]

\* The process of t is what it was, except for the phase.
Moves(t, phase) ==
    /\ child'[t] \in Process /\ child'[t].phase = phase
    /\ child'[t].game = child[t].game /\ child'[t].mail = child[t].mail
    /\ child'[t].outcome = child[t].outcome /\ child'[t].signed = child[t].signed

\* The process of t is what it was, except for a message that arrives.
Receives(t, message) ==
    /\ child[t] \in Process /\ child'[t] \in Process
    /\ child'[t].phase = child[t].phase /\ child'[t].game = child[t].game
    /\ child'[t].mail = Append(child[t].mail, message)
    /\ child'[t].outcome = child[t].outcome /\ child'[t].signed = child[t].signed

AuditOf(t)  == [kind |-> "audit", game |-> child[t].game, rows |-> <<>>]
DigestOf(t) == [kind |-> "digest", game |-> 0, rows |-> Outcomes(t)]

LEMMA EnterFacts ==
    ASSUME TypeOK, NEW t \in Teams, child[t] # None, NEW phase \in Phases, Enter(t, phase)
    PROVE  /\ Moves(t, phase)
           /\ \A u \in Teams : u # t => child'[u] = child[u]
<1>1. child[t] \in Process
  BY DEF TypeOK
<1>2. child'[t] = [child[t] EXCEPT !.phase = phase]
  BY DEF Enter, TypeOK
<1>3. child'[t] \in Process
  BY <1>1, <1>2, ProcessField
<1>4. Moves(t, phase)
  BY <1>1, <1>2, <1>3 DEF Moves, Process
<1> QED BY <1>4 DEF Enter, TypeOK

\* A message is sent, and the sender goes on.
LEMMA SendFacts ==
    ASSUME TypeOK, NEW t \in Teams, NEW phase \in Phases, NEW message \in Message,
           child[t] # None, child[Other(t)] # None,
           child' = [child EXCEPT ![t].phase = phase, ![Other(t)].mail = Append(@, message)]
    PROVE  Moves(t, phase) /\ Receives(Other(t), message)
<1> DEFINE u == Other(t)
<1>1. u \in Teams /\ u # t
  BY TwoTeams
<1>2. child[t] \in Process /\ child[u] \in Process
  BY <1>1 DEF TypeOK
<1>3. child'[t] = [child[t] EXCEPT !.phase = phase]
  BY <1>1 DEF TypeOK
<1>4. child'[u] = [child[u] EXCEPT !.mail = Append(child[u].mail, message)]
  BY <1>1 DEF TypeOK
<1>5. child'[t] \in Process /\ child'[u] \in Process
  <2>1. /\ [child[t] EXCEPT !.phase = phase] \in Process
        /\ [child[u] EXCEPT !.mail = Append(child[u].mail, message)] \in Process
    BY <1>2, ProcessField
  <2> QED BY <1>3, <1>4, <2>1
<1>6. Moves(t, phase)
  BY <1>2, <1>3, <1>5 DEF Moves, Process
<1>7. Receives(u, message)
  BY <1>2, <1>4, <1>5 DEF Receives, Process
<1> QED BY <1>6, <1>7

LEMMA SendAuditFacts ==
    ASSUME TypeOK, NEW t \in Teams, SendAudit(t)
    PROVE  Moves(t, "auditing") /\ Receives(Other(t), AuditOf(t))
<1>1. AuditOf(t) \in Message
  BY DEF SendAudit, InPhase, TypeOK, Process, Message, Summary, AuditOf
<1> QED BY <1>1, SendFacts DEF SendAudit, InPhase, AuditOf, Phases

LEMMA SendDigestFacts ==
    ASSUME TypeOK, NEW t \in Teams, FilesInv(t), SendDigest(t)
    PROVE  Moves(t, "awaiting") /\ Receives(Other(t), DigestOf(t))
<1>1. Outcomes(t) \in Summary
  BY LastChildFacts DEF SendDigest, InPhase, InPhases, Closing, Marked, FilesInv
<1>2. DigestOf(t) \in Message
  BY <1>1 DEF DigestOf, Message
<1> QED BY <1>2, SendFacts DEF SendDigest, InPhase, DigestOf, Phases

\* What arrives first decides the outcome of a game.
LEMMA ReadAuditFacts ==
    ASSUME TypeOK, NEW t \in Teams, PastInv(t), ReadAudit(t)
    PROVE  /\ child[t] \in Process /\ child'[t] \in Process /\ child[t].mail # <<>>
           /\ child'[t].phase = "audited" /\ child'[t].game = child[t].game
           /\ child'[t].mail = Tail(child[t].mail)
           /\ child'[t].outcome \in Verdicts \ {"torn"}
           /\ child'[t].signed => Genuine(t)
<1>1. child[t] \in Process /\ child[t].mail \in Seq(Message) /\ child[t].mail # <<>>
  BY DEF ReadAudit, InPhase, TypeOK, Process
<1>2. child[t].game \in 1 .. Len(games)
  BY DEF ReadAudit, InPhase, PastInv
<1>3. games[child[t].game] \in Game
  BY <1>2, ElementOfSeq DEF TypeOK
<1> DEFINE outcome == IF Genuine(t) THEN games[child[t].game].outcome ELSE "technical_loss"
           signed  == Genuine(t) /\ games[child[t].game].signed
           next == [child[t] EXCEPT !.phase = "audited", !.mail = Tail(child[t].mail),
                                    !.outcome = outcome, !.signed = signed]
<1>4. Genuine(t) <=> Head(child[t].mail).kind = "audit" /\ Head(child[t].mail).game = child[t].game
  BY <1>1 DEF Genuine
<1>5. child'[t] = next
  BY <1>4 DEF ReadAudit, TypeOK
<1>6. outcome \in Verdicts \ {"torn"} /\ signed \in BOOLEAN /\ (signed => Genuine(t))
  BY <1>3, <1>4 DEF Game, Verdicts
<1>7. Tail(child[t].mail) \in Seq(Message)
  BY <1>1, HeadTailProperties
<1> HIDE DEF outcome, signed
<1>8. next \in Process
  BY <1>1, <1>6, <1>7 DEF Process, Phases
<1> QED BY <1>1, <1>5, <1>6, <1>8 DEF Process

LEMMA ConcludeFacts ==
    ASSUME TypeOK, NEW t \in Teams, child[t] # None, NEW b \in BOOLEAN, Conclude(t, b)
    PROVE  /\ child'[t] \in Process
           /\ child'[t].phase = "concluded" /\ child'[t].signed = b
           /\ child'[t].game = child[t].game /\ child'[t].mail = child[t].mail
<1>1. child[t] \in Process
  BY DEF TypeOK
<1>2. child'[t] = [child[t] EXCEPT !.phase = "concluded", !.signed = b]
  BY DEF Conclude, TypeOK
<1>3. child'[t] \in Process
  <2>1. [child[t] EXCEPT !.phase = "concluded", !.signed = b] \in Process
    BY <1>1, ProcessField DEF Phases
  <2> QED BY <1>2, <2>1
<1> QED BY <1>1, <1>2, <1>3 DEF Process

LEMMA MeetFacts ==
    ASSUME TypeOK, NEW t \in Teams, Meet
    PROVE  /\ KeepsFiles(t) /\ InPhases(t, {"negotiating"})
           /\ child'[t] \in Process /\ child'[t].phase = "playing"
           /\ child'[t].game = Len(games) + 1 /\ child'[t].mail = child[t].mail
           /\ Len(games') = Len(games) + 1
<1>1. child[t] \in Process /\ InPhases(t, {"negotiating"})
  BY DEF Meet, InPhase, InPhases, TypeOK
<1>2. child'[t] = [child[t] EXCEPT !.phase = "playing", !.game = Len(games) + 1]
  BY DEF Meet
<1>3. [child[t] EXCEPT !.phase = "playing", !.game = Len(games) + 1] \in Process
  <2>1. Len(games) + 1 \in Nat
    BY DEF TypeOK
  <2> QED BY <1>1, <2>1, ProcessField DEF Phases
<1>4. KeepsFiles(t)
  BY DEF Meet, KeepsFiles, files
<1>5. Len(games') = Len(games) + 1
  <2>1. PICK outcome \in {"capture", "survival"}, signed \in Signatures :
          games' = Append(games, [outcome |-> outcome, signed |-> signed, numbers |-> number])
    BY DEF Meet
  <2>2. [outcome |-> outcome, signed |-> signed, numbers |-> number] \in Game
    BY SeriesAssumption DEF Game, TypeOK
  <2> QED BY <2>1, <2>2, AppendProperties DEF TypeOK
<1> QED BY <1>1, <1>2, <1>3, <1>4, <1>5 DEF Process

\* A step of one team leaves the files of the other alone, and its process
\* too unless it sends it a message.
LEMMA PeerFacts ==
    ASSUME TypeOK, NEW t \in Teams, FilesInv(t), OwnStep(t)
    PROVE  /\ KeepsFiles(Other(t)) /\ games' = games
           /\ \/ child'[Other(t)] = child[Other(t)]
              \/ SendAudit(t) /\ Receives(Other(t), AuditOf(t))
              \/ SendDigest(t) /\ Receives(Other(t), DigestOf(t))
<1> DEFINE u == Other(t)
<1>0. u \in Teams /\ u # t
  BY TwoTeams
<1>1. CASE Launch(t)
  BY <1>0, <1>1 DEF Launch, SaveRows, KeepsFiles, TypeOK
<1>2. CASE Start(t)
  BY <1>0, <1>2 DEF Start, SaveRows, KeepsFiles, TypeOK
<1>3. CASE SendAudit(t)
  BY <1>0, <1>3, SendAuditFacts DEF SendAudit, KeepsFiles, files
<1>4. CASE ReadAudit(t)
  BY <1>0, <1>4 DEF ReadAudit, KeepsFiles, files, TypeOK
<1>5. CASE WriteLog(t)
  BY <1>0, <1>5 DEF WriteLog, Enter, KeepsFiles, TypeOK
<1>6. CASE WriteResult(t)
  BY <1>0, <1>6 DEF WriteResult, Enter, KeepsFiles, TypeOK
<1>7. CASE Mark(t)
  BY <1>0, <1>7 DEF Mark, SaveRows, Enter, KeepsFiles, TypeOK
<1>8. CASE Exit(t)
  BY <1>0, <1>8 DEF Exit, KeepsFiles, files, TypeOK
<1>9. CASE Aggregate(t)
  BY <1>0, <1>9 DEF Aggregate, Enter, KeepsFiles, files, TypeOK
<1>10. CASE SendDigest(t)
  BY <1>0, <1>10, SendDigestFacts DEF SendDigest, KeepsFiles, files
<1>11. CASE ReadDigest(t)
  BY <1>0, <1>11 DEF ReadDigest, Conclude, KeepsFiles, files, TypeOK
<1>12. CASE WriteFinal(t)
  BY <1>0, <1>12 DEF WriteFinal, KeepsFiles, TypeOK
<1>13. CASE Fail(t)
  BY <1>0, <1>13 DEF Fail, KeepsFiles, files, TypeOK
<1>14. CASE GiveUp(t)
  BY <1>0, <1>14 DEF GiveUp, Conclude, KeepsFiles, files, TypeOK
<1>15. CASE Crash(t)
  BY <1>0, <1>15 DEF Crash, KeepsFiles, TypeOK
<1> QED BY <1>1, <1>2, <1>3, <1>4, <1>5, <1>6, <1>7, <1>8, <1>9, <1>10, <1>11, <1>12, <1>13,
           <1>14, <1>15 DEF OwnStep, GameStep, FinalStep

\* A step is one of a team, of its peer, or of both.
LEMMA StepOf ==
    ASSUME [Next]_vars, NEW t \in Teams
    PROVE  Meet \/ OwnStep(t) \/ OwnStep(Other(t)) \/ UNCHANGED vars
BY TwoTeams DEF Next, OwnStep

-----------------------------------------------------------------------------
(* The files of a team.                                                    *)

\* Messages that arrive do not matter to the files.
LEMMA FilesAside ==
    ASSUME TypeOK, NEW t \in Teams, FilesInv(t), KeepsFiles(t),
           \/ child'[t] = child[t]
           \/ \E message : Receives(t, message)
           \/ child[t] \in Process /\ child[t].phase = "negotiating"
              /\ child'[t] \in Process /\ child'[t].phase = "playing"
    PROVE  FilesInv(t)'
<1>1. child'[t] # None <=> child[t] # None
  BY ProcessField DEF Receives
<1>2. \/ child'[t] = child[t]
      \/ /\ child'[t].phase = child[t].phase /\ child'[t].outcome = child[t].outcome
         /\ child'[t].game = child[t].game /\ child'[t].signed = child[t].signed
      \/ child[t].phase = "negotiating" /\ child'[t].phase = "playing"
  BY DEF Receives
<1> QED BY <1>1, <1>2 DEF FilesInv, KeepsFiles, InPhases, Behind, Marked, Closing, Written

LEMMA FilesOwn ==
    ASSUME TypeOK, TypeOK', NEW t \in Teams, FilesInv(t), PastInv(t), OwnStep(t)
    PROVE  FilesInv(t)'
<1> USE DEF FilesInv, InPhases, InPhase, Marked, Closing, Written, Behind
<1>0. NumGames \in Nat \ {0} /\ number[t] \in 1 .. NumGames
  BY SeriesAssumption DEF TypeOK, Numbers
<1>1. CASE Launch(t)
  <2> DEFINE n == ResumeAt(t)
             rows == [m \in Numbers |-> IF m < n THEN "ended" ELSE LoadedRows(t)[m]]
  <2>1. n \in 1 .. NumGames + 1 /\ \A k \in 1 .. n - 1 : Completed(t, k)
    BY ResumeFacts
  <2>2. /\ state'[t] = [readable |-> TRUE, rows |-> rows]
        /\ log' = log /\ result' = result /\ child' = child /\ coordinator[t] = "idle"
    BY <1>1 DEF Launch, SaveRows, TypeOK
  <2>3. \/ coordinator'[t] = "idle"
        \/ /\ coordinator'[t] = "between"
           /\ number'[t] = IF n > NumGames THEN NumGames ELSE n
    <3>1. CASE n > NumGames /\ final[t] # None
      BY <1>1, <3>1 DEF Launch
    <3>2. CASE ~(n > NumGames /\ final[t] # None)
      BY <1>1, <3>2 DEF Launch, TypeOK
    <3> QED BY <3>1, <3>2
  <2> HIDE DEF n
  <2>4. coordinator'[t] = "between" => \A k \in 1 .. number'[t] - 1 : k \in 1 .. n - 1 /\ k \in Numbers
    BY <1>0, <2>1, <2>3 DEF Numbers
  <2>5. coordinator'[t] # "idle" => \A k \in 1 .. number'[t] - 1 : Behind(t, k)'
    BY <2>1, <2>2, <2>3, <2>4 DEF Completed
  <2> QED BY <2>2, <2>3, <2>5
<1>s. ASSUME NEW mark \in {"started", "ended"}, coordinator[t] # "idle",
             SaveRows(t, [LoadedRows(t) EXCEPT ![number[t]] = mark])
      PROVE  /\ state'[t].readable /\ state'[t].rows[number[t]] = mark
             /\ \A k \in 1 .. number[t] - 1 : state'[t].rows[k] = state[t].rows[k]
  <2>1. state[t].readable /\ state[t].rows \in Rows
    BY <1>s DEF TypeOK
  <2>2. state'[t] = [readable |-> TRUE, rows |-> [state[t].rows EXCEPT ![number[t]] = mark]]
    BY <1>s, <2>1 DEF SaveRows, LoadedRows, TypeOK
  <2>3. \A k \in 1 .. number[t] - 1 : k \in Numbers /\ k # number[t]
    BY <1>0 DEF Numbers
  <2> QED BY <1>0, <2>1, <2>2, <2>3 DEF Rows, Numbers
<1>2. CASE Start(t)
  <2>1. /\ state'[t].readable
        /\ \A k \in 1 .. number[t] - 1 : state'[t].rows[k] = state[t].rows[k]
    BY <1>2, <1>s DEF Start
  <2>2. /\ number' = number /\ log' = log /\ result' = result
        /\ coordinator[t] = "between" /\ coordinator'[t] = "waiting"
    BY <1>2 DEF Start, TypeOK
  <2>3. child'[t] # None /\ child'[t].phase = "negotiating"
    <3> DEFINE new == [phase |-> "negotiating", game |-> 0, mail |-> <<>>, outcome |-> None,
                       signed |-> FALSE]
    <3>1. child'[t] = new
      BY <1>2 DEF Start, TypeOK
    <3>2. new \in Process
      BY EmptySeq DEF Process, Phases
    <3>3. new.phase = "negotiating"
      OBVIOUS
    <3> HIDE DEF new
    <3>4. new # None
      BY <3>2, ProcessField
    <3> QED BY <3>1, <3>3, <3>4
  <2> QED BY <2>1, <2>2, <2>3
<1>p. ASSUME NEW phase, Moves(t, phase)
      PROVE  child'[t] # None /\ child'[t].phase = phase
  BY <1>p, ProcessField DEF Moves
<1>3. CASE SendAudit(t)
  <2>1. Moves(t, "auditing")
    BY <1>3, SendAuditFacts
  <2>2. child'[t] # None /\ child'[t].phase = "auditing"
    BY <1>p, <2>1
  <2>3. child[t] # None /\ UNCHANGED <<coordinator, number, log, result, state>>
    BY <1>3 DEF SendAudit, files
  <2> QED BY <2>2, <2>3
<1>4. CASE ReadAudit(t)
  <2>1. /\ child'[t] # None /\ child'[t].phase = "audited"
        /\ child'[t].outcome \in Verdicts \ {"torn"}
    BY <1>4, ReadAuditFacts, ProcessField
  <2> QED BY <1>4, <2>1 DEF ReadAudit, files
<1>5. CASE WriteLog(t)
  <2>1. Moves(t, "logged")
    BY <1>5, EnterFacts DEF WriteLog, Phases
  <2>2. log'[t][number[t]] # None /\ \A n \in Numbers : log[t][n] # None => log'[t][n] # None
    <3>1. [game |-> child[t].game, torn |-> FALSE] \in LogFile
      BY <1>5 DEF WriteLog, TypeOK, Process, LogFile
    <3> QED BY <1>5, <3>1, SeriesAssumption DEF WriteLog, TypeOK
  <2> QED BY <1>5, <1>p, <2>1, <2>2 DEF WriteLog, Moves
<1>6. CASE WriteResult(t)
  <2>1. Moves(t, "written")
    BY <1>6, EnterFacts DEF WriteResult, Phases
  <2> DEFINE new == [game |-> child[t].game, outcome |-> child[t].outcome, signed |-> child[t].signed]
  <2>2. result'[t][number[t]] = new /\ \A n \in Numbers \ {number[t]} : result'[t][n] = result[t][n]
    BY <1>6 DEF WriteResult, TypeOK
  <2>3. \A k \in 1 .. number[t] - 1 : k \in Numbers \ {number[t]}
    BY <1>0 DEF Numbers
  <2>4. child[t].outcome # "torn" /\ log[t][number[t]] # None /\ number[t] \in Numbers
    BY <1>6 DEF WriteResult, TypeOK
  <2> QED BY <1>6, <1>p, <2>1, <2>2, <2>3, <2>4 DEF WriteResult, Moves
<1>7. CASE Mark(t)
  <2>1. Moves(t, "marked")
    BY <1>7, EnterFacts DEF Mark, Phases
  <2>2. /\ state'[t].readable /\ state'[t].rows[number[t]] = "ended"
        /\ \A k \in 1 .. number[t] - 1 : state'[t].rows[k] = state[t].rows[k]
    BY <1>7, <1>s DEF Mark
  <2>3. result[t][number[t]] # None /\ result[t][number[t]].outcome # "torn"
    <3>1. result[t][number[t]] \in ResultFile
      BY <1>7 DEF Mark, TypeOK, Process, ResultFile
    <3> QED BY <1>7, <3>1, SeriesAssumption DEF Mark
  <2> QED BY <1>7, <1>p, <2>1, <2>2, <2>3 DEF Mark, Moves
<1>8. CASE Exit(t)
  <2>1. /\ child'[t] = None /\ coordinator'[t] = "between" /\ number'[t] = number[t] + 1
        /\ log' = log /\ result' = result /\ state' = state
    BY <1>8 DEF Exit, TypeOK, files
  <2>2. \A k \in 1 .. number'[t] - 1 : k \in 1 .. number[t] - 1 \/ k = number[t]
    BY <1>0, <2>1
  <2>3. state[t].readable /\ \A k \in 1 .. number'[t] - 1 : Behind(t, k)
    BY <1>8, <2>2 DEF Exit
  <2> QED BY <2>1, <2>3
<1>9. CASE Aggregate(t)
  <2>1. Moves(t, "aggregated")
    BY <1>9, EnterFacts DEF Aggregate, Phases
  <2> QED BY <1>9, <1>p, <2>1 DEF Aggregate, Moves, files
<1>10. CASE SendDigest(t)
  <2>1. Moves(t, "awaiting")
    BY <1>10, SendDigestFacts
  <2> QED BY <1>10, <1>p, <2>1 DEF SendDigest, Moves, files
<1>11. CASE ReadDigest(t)
  <2>1. child'[t] # None /\ child'[t].phase = "concluded"
    BY <1>11, ConcludeFacts, ProcessField DEF ReadDigest
  <2> QED BY <1>11, <2>1 DEF ReadDigest, files
<1>12. CASE WriteFinal(t)
  BY <1>12 DEF WriteFinal, TypeOK
<1>13. CASE Fail(t)
  BY <1>13 DEF Fail, TypeOK, files
<1>14. CASE GiveUp(t)
  <2>1. child'[t] # None /\ child'[t].phase = "concluded"
    BY <1>14, ConcludeFacts, ProcessField DEF GiveUp
  <2> QED BY <1>14, <2>1 DEF GiveUp, files
<1>15. CASE Crash(t)
  <2>1. child'[t] = None /\ coordinator'[t] = "idle"
    BY <1>15 DEF Crash, TypeOK
  <2>2. \A n \in Numbers : log[t][n] # None => log'[t][n] # None
    <3>1. CASE InPhase(t, "audited")
      <4> DEFINE new == [game |-> child[t].game, torn |-> TRUE]
      <4>1. new # None
        <5>1. new \in LogFile
          BY <3>1 DEF TypeOK, Process, LogFile
        <5> QED BY <5>1, SeriesAssumption
      <4>2. log' = log \/ log' = [log EXCEPT ![t][number[t]] = new]
        BY <1>15 DEF Crash
      <4> HIDE DEF new
      <4> QED BY <4>1, <4>2 DEF TypeOK
    <3>2. CASE ~InPhase(t, "audited")
      BY <1>15, <3>2 DEF Crash
    <3> QED BY <3>1, <3>2
  <2>3. \A n \in Numbers : result'[t][n] # None =>
           \/ result'[t][n] = result[t][n]
           \/ result'[t][n] = TornResult /\ log[t][n] # None
    BY <1>15 DEF Crash, TypeOK
  <2> QED BY <2>1, <2>2, <2>3 DEF TornResult
<1> QED BY <1>1, <1>2, <1>3, <1>4, <1>5, <1>6, <1>7, <1>8, <1>9, <1>10, <1>11, <1>12, <1>13,
           <1>14, <1>15 DEF OwnStep, GameStep, FinalStep

LEMMA FilesStep ==
    ASSUME IInv, TypeOK', NEW t \in Teams, [Next]_vars
    PROVE  FilesInv(t)'
<1>1. TypeOK /\ FilesInv(t) /\ FilesInv(Other(t)) /\ PastInv(t) /\ Other(t) \in Teams
      /\ Other(Other(t)) = t
  BY TwoTeams DEF IInv, TeamInv
<1>2. CASE Meet
  <2>1. child[t] \in Process /\ child[t].phase = "negotiating"
    BY <1>1, <1>2, MeetFacts DEF InPhases, TypeOK
  <2>2. KeepsFiles(t) /\ child'[t] \in Process /\ child'[t].phase = "playing"
    BY <1>1, <1>2, MeetFacts
  <2> QED BY <1>1, <2>1, <2>2, FilesAside
<1>3. CASE OwnStep(t)
  BY <1>1, <1>3, FilesOwn
<1>4. CASE OwnStep(Other(t))
  BY <1>1, <1>4, PeerFacts, FilesAside
<1>5. CASE UNCHANGED vars
  BY <1>1, <1>5, FilesAside DEF vars, files, KeepsFiles
<1> QED BY <1>2, <1>3, <1>4, <1>5, StepOf

-----------------------------------------------------------------------------
(* What is replaced is in the archive.                                     *)

LEMMA EvidenceAside ==
    ASSUME TypeOK, NEW t \in Teams, EvidenceInv(t), KeepsFiles(t),
           \/ child'[t] = child[t]
           \/ \E message : Receives(t, message)
           \/ child[t] \in Process /\ child[t].phase = "negotiating"
              /\ child'[t] \in Process /\ child'[t].phase = "playing"
    PROVE  EvidenceInv(t)'
<1>1. child'[t] # None <=> child[t] # None
  BY ProcessField DEF Receives
<1>2. \/ child'[t] = child[t]
      \/ child'[t].phase = child[t].phase
      \/ child[t].phase = "negotiating" /\ child'[t].phase = "playing"
  BY DEF Receives
<1> QED BY <1>1, <1>2 DEF EvidenceInv, KeepsFiles, InPhases, Unwritten, Playing

LEMMA EvidenceOwn ==
    ASSUME TypeOK, NEW t \in Teams, FilesInv(t), PastInv(t), EvidenceInv(t), OwnStep(t)
    PROVE  EvidenceInv(t)'
<1> USE DEF EvidenceInv, InPhases, InPhase, Unwritten, Playing
<1>p. ASSUME NEW phase, Moves(t, phase)
      PROVE  child'[t] # None /\ child'[t].phase = phase
  BY <1>p, ProcessField DEF Moves
<1>1. CASE Launch(t)
  <2>1. child[t] = None /\ child' = child
    BY <1>1 DEF Launch, FilesInv
  <2> QED BY <2>1
<1>2. CASE Start(t)
  <2>1. result'[t][number'[t]] = result[t][number[t]]
    BY <1>2 DEF Start
  <2>2. archive'[t] = archive[t] \cup ({result[t][number[t]]} \ {None})
    BY <1>2 DEF Start, TypeOK
  <2> QED BY <2>1, <2>2
<1>3. CASE SendAudit(t)
  <2>1. Moves(t, "auditing")
    BY <1>3, SendAuditFacts
  <2>2. child[t] # None /\ child[t].phase = "playing" /\ UNCHANGED <<number, result, archive>>
    BY <1>3 DEF SendAudit, files
  <2> QED BY <2>2
<1>4. CASE ReadAudit(t)
  BY <1>4 DEF ReadAudit, files
<1>5. CASE WriteLog(t)
  BY <1>5 DEF WriteLog
<1>6. CASE WriteResult(t)
  <2>1. Moves(t, "written")
    BY <1>6, EnterFacts DEF WriteResult, Phases
  <2> QED BY <1>p, <2>1
<1>7. CASE Mark(t)
  <2>1. Moves(t, "marked")
    BY <1>7, EnterFacts DEF Mark, Phases
  <2> QED BY <1>p, <2>1
<1>8. CASE Exit(t)
  BY <1>8 DEF Exit, TypeOK
<1>9. CASE Aggregate(t)
  <2>1. Moves(t, "aggregated")
    BY <1>9, EnterFacts DEF Aggregate, Phases
  <2> QED BY <1>p, <2>1
<1>10. CASE SendDigest(t)
  <2>1. Moves(t, "awaiting")
    BY <1>10, SendDigestFacts
  <2> QED BY <1>p, <2>1
<1>11. CASE ReadDigest(t)
  BY <1>11, ConcludeFacts DEF ReadDigest
<1>12. CASE WriteFinal(t)
  BY <1>12 DEF WriteFinal, TypeOK
<1>13. CASE Fail(t)
  BY <1>13 DEF Fail, TypeOK
<1>14. CASE GiveUp(t)
  BY <1>14, ConcludeFacts DEF GiveUp
<1>15. CASE Crash(t)
  BY <1>15 DEF Crash, TypeOK
<1> QED BY <1>1, <1>2, <1>3, <1>4, <1>5, <1>6, <1>7, <1>8, <1>9, <1>10, <1>11, <1>12, <1>13,
           <1>14, <1>15 DEF OwnStep, GameStep, FinalStep

LEMMA EvidenceStep ==
    ASSUME IInv, NEW t \in Teams, [Next]_vars
    PROVE  EvidenceInv(t)'
<1>1. TypeOK /\ EvidenceInv(t) /\ FilesInv(t) /\ FilesInv(Other(t)) /\ PastInv(t)
      /\ Other(t) \in Teams /\ Other(Other(t)) = t
  BY TwoTeams DEF IInv, TeamInv
<1>2. CASE Meet
  <2>1. child[t] \in Process /\ child[t].phase = "negotiating"
    BY <1>1, <1>2, MeetFacts DEF InPhases, TypeOK
  <2>2. KeepsFiles(t) /\ child'[t] \in Process /\ child'[t].phase = "playing"
    BY <1>1, <1>2, MeetFacts
  <2> QED BY <1>1, <2>1, <2>2, EvidenceAside
<1>3. CASE OwnStep(t)
  BY <1>1, <1>3, EvidenceOwn
<1>4. CASE OwnStep(Other(t))
  BY <1>1, <1>4, PeerFacts, EvidenceAside
<1>5. CASE UNCHANGED vars
  BY <1>1, <1>5, EvidenceAside DEF vars, files, KeepsFiles
<1> QED BY <1>2, <1>3, <1>4, <1>5, StepOf

-----------------------------------------------------------------------------
(* What a process knows of games.                                          *)

\* A message that arrives is the last of the mail.
LEMMA ReceiveFacts ==
    ASSUME NEW t \in Teams, NEW message, Receives(t, message)
    PROVE  /\ child[t] # None /\ child'[t] # None
           /\ child[t].mail \in Seq(Message)
           /\ child[t].mail # <<>> => child'[t].mail # <<>> /\ Head(child'[t].mail) = Head(child[t].mail)
           /\ child[t].mail = <<>> => Len(child'[t].mail) = 1 /\ child'[t].mail[1] = message
           /\ \A i \in 1 .. Len(child'[t].mail) :
                \/ i \in 1 .. Len(child[t].mail) /\ child'[t].mail[i] = child[t].mail[i]
                \/ child'[t].mail[i] = message
<1>1. child[t] \in Process /\ child'[t] \in Process
  BY DEF Receives
<1>2. child[t].mail \in Seq(Message) /\ child'[t].mail = Append(child[t].mail, message)
  BY <1>1 DEF Receives, Process
<1> DEFINE m == child[t].mail
           k == child'[t].mail
<1>3. m \in Seq(Message) /\ k = Append(m, message)
  BY <1>2
<1> HIDE DEF m, k
<1>4. /\ m # <<>> => k # <<>> /\ Head(k) = Head(m)
      /\ m = <<>> => Len(k) = 1 /\ k[1] = message
      /\ \A i \in 1 .. Len(k) : (i \in 1 .. Len(m) /\ k[i] = m[i]) \/ k[i] = message
  BY <1>3
<1> QED BY <1>1, <1>2, <1>4, ProcessField DEF m, k

LEMMA PastOwn ==
    ASSUME TypeOK, NEW t \in Teams, FilesInv(t), PastInv(t), OwnStep(t), games' = games
    PROVE  PastInv(t)'
<1> USE DEF PastInv, InPhase
<1>k. ASSUME child'[t] # None => /\ child[t] # None /\ child[t].phase # "negotiating"
                                /\ child'[t].game = child[t].game /\ child'[t].mail = child[t].mail
      PROVE  PastInv(t)'
  BY <1>k
<1>m. ASSUME NEW phase, Moves(t, phase), child[t] # None /\ child[t].phase # "negotiating"
      PROVE  PastInv(t)'
  BY <1>m, <1>k DEF Moves
<1>1. CASE Launch(t)
  BY <1>1 DEF Launch, FilesInv
<1>2. CASE Start(t)
  <2>1. child'[t].mail = <<>> /\ child'[t].phase = "negotiating"
    BY <1>2 DEF Start, TypeOK
  <2>2. Len(child'[t].mail) = 0
    BY <2>1
  <2> QED BY <2>1, <2>2
<1>3. CASE SendAudit(t)
  <2>1. child[t] # None /\ child[t].phase = "playing"
    BY <1>3 DEF SendAudit
  <2> QED BY <1>3, <1>m, <2>1, SendAuditFacts
<1>4. CASE ReadAudit(t)
  <2>1. /\ child[t] # None /\ child[t].phase = "auditing" /\ child[t] \in Process
        /\ child'[t].game = child[t].game
        /\ child'[t].mail = Tail(child[t].mail) /\ child[t].mail # <<>>
    BY <1>4, ReadAuditFacts DEF ReadAudit
  <2> DEFINE m == child[t].mail
  <2>2. m \in Seq(Message) /\ m # <<>>
    BY <2>1 DEF Process
  <2>3. Len(Tail(m)) = Len(m) - 1 /\ \A i \in 1 .. Len(m) - 1 : Tail(m)[i] = m[i + 1]
    <3> HIDE DEF m
    <3> QED BY <2>2
  <2>4. \A i \in 1 .. Len(Tail(m)) : Tail(m)[i].game <= Len(games)
    <3>1. \A i \in 1 .. Len(m) : m[i].game <= Len(games)
      BY <2>1
    <3>2. Len(m) \in Nat
      BY <2>2, LenProperties
    <3> HIDE DEF m
    <3> QED BY <2>3, <3>1, <3>2
  <2> QED BY <2>1, <2>4
<1>5. CASE WriteLog(t)
  BY <1>5, <1>m, EnterFacts DEF WriteLog, Phases
<1>6. CASE WriteResult(t)
  BY <1>6, <1>m, EnterFacts DEF WriteResult, Phases
<1>7. CASE Mark(t)
  BY <1>7, <1>m, EnterFacts DEF Mark, Phases
<1>8. CASE Exit(t)
  BY <1>8 DEF Exit, TypeOK
<1>9. CASE Aggregate(t)
  BY <1>9, <1>m, EnterFacts DEF Aggregate, Phases
<1>10. CASE SendDigest(t)
  <2>1. child[t] # None /\ child[t].phase = "aggregated"
    BY <1>10 DEF SendDigest
  <2> QED BY <1>10, <1>m, <2>1, SendDigestFacts
<1>11. CASE ReadDigest(t)
  <2>1. child[t] # None /\ child[t].phase = "awaiting"
    BY <1>11 DEF ReadDigest
  <2>2. child'[t].game = child[t].game /\ child'[t].mail = child[t].mail
    BY <1>11, ConcludeFacts DEF ReadDigest
  <2> QED BY <1>k, <2>1, <2>2
<1>12. CASE WriteFinal(t)
  BY <1>12 DEF WriteFinal, TypeOK
<1>13. CASE Fail(t)
  BY <1>13 DEF Fail, TypeOK
<1>14. CASE GiveUp(t)
  <2>1. child[t] # None /\ child[t].phase # "negotiating"
    BY <1>14 DEF GiveUp
  <2>2. child'[t].game = child[t].game /\ child'[t].mail = child[t].mail
    BY <1>14, ConcludeFacts DEF GiveUp
  <2> QED BY <1>k, <2>1, <2>2
<1>15. CASE Crash(t)
  BY <1>15 DEF Crash, TypeOK
<1> QED BY <1>1, <1>2, <1>3, <1>4, <1>5, <1>6, <1>7, <1>8, <1>9, <1>10, <1>11, <1>12, <1>13,
           <1>14, <1>15 DEF OwnStep, GameStep, FinalStep

LEMMA PastStep ==
    ASSUME IInv, NEW t \in Teams, [Next]_vars
    PROVE  PastInv(t)'
<1> DEFINE u == Other(t)
<1>1. /\ TypeOK /\ FilesInv(t) /\ FilesInv(u) /\ PastInv(t) /\ PastInv(u)
      /\ u \in Teams /\ Other(u) = t
  BY TwoTeams DEF IInv, TeamInv
<1>2. CASE Meet
  <2>1. /\ child[t] \in Process /\ child'[t].mail = child[t].mail /\ child'[t].game = Len(games) + 1
        /\ Len(games') = Len(games) + 1
    BY <1>1, <1>2, MeetFacts DEF InPhases, TypeOK
  <2>2. Len(games) \in Nat
    BY <1>1, LenProperties DEF TypeOK
  <2>3. \A i \in 1 .. Len(child[t].mail) : child[t].mail[i].game <= Len(games) /\ child[t].mail[i].game \in Nat
    <3>1. child[t] # None /\ child[t].mail \in Seq(Message)
      BY <2>1, ProcessField DEF Process
    <3>2. \A i \in 1 .. Len(child[t].mail) : child[t].mail[i] \in Message
      BY <3>1, ElementOfSeq
    <3> QED BY <1>1, <3>1, <3>2 DEF PastInv, Message
  <2>4. \A i \in 1 .. Len(child'[t].mail) : child'[t].mail[i].game <= Len(games')
    BY <2>1, <2>2, <2>3
  <2>5. child'[t].game \in 1 .. Len(games')
    BY <2>1, <2>2
  <2> QED BY <2>4, <2>5 DEF PastInv
<1>3. CASE OwnStep(t)
  BY <1>1, <1>3, PeerFacts, PastOwn
<1>4. CASE OwnStep(u)
  <2>1. games' = games
    BY <1>1, <1>4, PeerFacts
  <2>2. CASE child'[t] = child[t]
    BY <1>1, <2>1, <2>2 DEF PastInv
  <2>3. ASSUME NEW message, Receives(t, message), message.game <= Len(games)
        PROVE  PastInv(t)'
    <3>1. child[t] # None /\ child'[t] # None
      BY <2>3, ReceiveFacts
    <3>2. \A i \in 1 .. Len(child[t].mail) : child[t].mail[i].game <= Len(games)
      BY <1>1, <3>1 DEF PastInv
    <3>4. \A i \in 1 .. Len(child'[t].mail) : child'[t].mail[i].game <= Len(games)
      BY <2>3, <3>2, ReceiveFacts
    <3>5. child'[t].phase = child[t].phase /\ child'[t].game = child[t].game
      BY <2>3 DEF Receives
    <3> QED BY <1>1, <2>1, <3>1, <3>4, <3>5 DEF PastInv
  <2>4. SendAudit(u) => AuditOf(u).game <= Len(games)
    BY <1>1 DEF SendAudit, InPhase, AuditOf, PastInv
  <2>5. DigestOf(u).game <= Len(games)
    BY <1>1 DEF DigestOf, TypeOK
  <2> QED BY <1>1, <1>4, <2>2, <2>3, <2>4, <2>5, PeerFacts
<1>5. CASE UNCHANGED vars
  BY <1>1, <1>5 DEF vars, PastInv
<1> QED BY <1>2, <1>3, <1>4, <1>5, StepOf

-----------------------------------------------------------------------------
(* What the digests tell.                                                  *)

\* Shared and Tells of the next state, of rows and a message of this one.
SharedNext(t, rows) ==
    /\ \A n \in Numbers : result'[Other(t)][n] # None /\ result'[Other(t)][n].outcome = rows[n]
    /\ child'[Other(t)] # None => child'[Other(t)].phase \notin Playing

TellsNext(t, message) == message.kind = "digest" => SharedNext(t, message.rows)

\* The results of a team that is not in a game stay as they are, and it gets
\* into one only when its peer is looking for a game too.
LEMMA ResultsStay ==
    ASSUME TypeOK, NEW t \in Teams, PastInv(t), FilesInv(t), OwnStep(t), ~InPhases(t, Playing)
    PROVE  result'[t] = result[t] /\ (child'[t] # None => child'[t].phase \notin Playing)
<1> USE DEF InPhases, InPhase, Playing
<1>p. ASSUME NEW phase, Moves(t, phase)
      PROVE  child'[t].phase = phase
  BY <1>p DEF Moves
<1>1. CASE Launch(t)
  BY <1>1 DEF Launch, FilesInv
<1>2. CASE Start(t)
  BY <1>2 DEF Start, TypeOK
<1>3. CASE SendAudit(t) \/ ReadAudit(t) \/ WriteLog(t) \/ WriteResult(t)
  BY <1>3 DEF SendAudit, ReadAudit, WriteLog, WriteResult
<1>7. CASE Mark(t)
  <2>1. Moves(t, "marked")
    BY <1>7, EnterFacts DEF Mark, Phases
  <2> QED BY <1>7, <1>p, <2>1 DEF Mark
<1>8. CASE Exit(t)
  BY <1>8 DEF Exit, TypeOK, files
<1>9. CASE Aggregate(t)
  <2>1. Moves(t, "aggregated")
    BY <1>9, EnterFacts DEF Aggregate, Phases
  <2> QED BY <1>9, <1>p, <2>1 DEF Aggregate, files
<1>10. CASE SendDigest(t)
  <2>1. Moves(t, "awaiting")
    BY <1>10, SendDigestFacts
  <2> QED BY <1>10, <1>p, <2>1 DEF SendDigest, files
<1>11. CASE ReadDigest(t)
  <2>1. child'[t].phase = "concluded"
    BY <1>11, ConcludeFacts DEF ReadDigest
  <2> QED BY <1>11, <2>1 DEF ReadDigest, files
<1>12. CASE WriteFinal(t)
  BY <1>12 DEF WriteFinal, TypeOK
<1>13. CASE Fail(t)
  BY <1>13 DEF Fail, TypeOK, files
<1>14. CASE GiveUp(t)
  <2>1. child'[t].phase = "concluded"
    BY <1>14, ConcludeFacts DEF GiveUp
  <2> QED BY <1>14, <2>1 DEF GiveUp, files
<1>15. CASE Crash(t)
  BY <1>15 DEF Crash, TypeOK
<1> QED BY <1>1, <1>2, <1>3, <1>7, <1>8, <1>9, <1>10, <1>11, <1>12, <1>13, <1>14, <1>15
           DEF OwnStep, GameStep, FinalStep

LEMMA SharedKept ==
    ASSUME IInv, NEW t \in Teams, NEW rows, Shared(t, rows),
           OwnStep(t) \/ OwnStep(Other(t)) \/ UNCHANGED vars
    PROVE  SharedNext(t, rows)
<1> DEFINE u == Other(t)
<1>1. /\ TypeOK /\ FilesInv(t) /\ FilesInv(u) /\ PastInv(t) /\ PastInv(u)
      /\ u \in Teams /\ Other(u) = t
  BY TwoTeams DEF IInv, TeamInv
<1>2. CASE OwnStep(t)
  <2>1. result'[u] = result[u]
    BY <1>1, <1>2, PeerFacts DEF KeepsFiles
  <2>2. child'[u] = child[u] \/ (child[u] # None /\ child'[u].phase = child[u].phase)
    <3>1. ASSUME NEW message, Receives(u, message)
          PROVE  child[u] # None /\ child'[u].phase = child[u].phase
      BY <1>1, <3>1, ReceiveFacts DEF Receives
    <3> QED BY <1>1, <1>2, <3>1, PeerFacts
  <2> QED BY <2>1, <2>2 DEF Shared, SharedNext, InPhases
<1>3. CASE OwnStep(u)
  <2>1. result'[u] = result[u] /\ (child'[u] # None => child'[u].phase \notin Playing)
    BY <1>1, <1>3, ResultsStay DEF Shared
  <2> QED BY <2>1 DEF Shared, SharedNext
<1>4. CASE UNCHANGED vars
  BY <1>4 DEF vars, files, Shared, SharedNext, InPhases
<1> QED BY <1>2, <1>3, <1>4

\* How DigestInv looks at the next state.
LEMMA DigestNext ==
    ASSUME NEW t \in Teams, child'[t] # None,
           child'[t].phase \in {"playing", "auditing"} /\ Genuine(t)' =>
             \A i \in 2 .. Len(child'[t].mail) : TellsNext(t, child'[t].mail[i]),
           child'[t].phase \in {"audited", "logged"} \cup Written /\ child'[t].signed =>
             \A i \in 1 .. Len(child'[t].mail) : TellsNext(t, child'[t].mail[i])
    PROVE  DigestInv(t)'
<1>1. \A i : Tells(t, child[t].mail[i])' <=> TellsNext(t, child'[t].mail[i])
  BY DEF Tells, TellsNext, Shared, SharedNext, InPhases
<1> QED BY <1>1 DEF DigestInv, InPhases

\* A step of t that leaves its mail alone.
LEMMA DigestMoves ==
    ASSUME IInv, NEW t \in Teams, OwnStep(t), child[t] # None, child'[t] # None,
           child'[t].mail = child[t].mail, child'[t].game = child[t].game,
           \/ child[t].phase = "playing" /\ child'[t].phase = "auditing"
           \/ /\ child[t].phase \in {"audited", "logged"} \cup Written
              /\ child'[t].phase \in {"audited", "logged"} \cup Written
              /\ child'[t].signed = child[t].signed
    PROVE  DigestInv(t)'
<1>1. \A i : Tells(t, child[t].mail[i]) => TellsNext(t, child'[t].mail[i])
  BY SharedKept DEF Tells, TellsNext
<1>2. Genuine(t)' <=> Genuine(t)
  BY DEF Genuine
<1>3. DigestInv(t)
  BY DEF IInv, TeamInv
<1> QED BY <1>1, <1>2, <1>3, DigestNext DEF DigestInv, InPhases, Written

LEMMA DigestOwn ==
    ASSUME IInv, NEW t \in Teams, OwnStep(t)
    PROVE  DigestInv(t)'
<1> USE DEF InPhase
<1>0. TypeOK /\ FilesInv(t) /\ PastInv(t) /\ DigestInv(t)
  BY DEF IInv, TeamInv
<1>m. ASSUME NEW phase, Moves(t, phase), child[t] # None,
             \/ child[t].phase = "playing" /\ phase = "auditing"
             \/ child[t].phase \in {"audited", "logged"} \cup Written
                /\ phase \in {"audited", "logged"} \cup Written
      PROVE  DigestInv(t)'
  BY <1>m, DigestMoves, ProcessField DEF Moves
<1>n. child'[t] = None => DigestInv(t)'
  BY DEF DigestInv, InPhases
<1>1. CASE Launch(t)
  BY <1>0, <1>1, <1>n DEF Launch, FilesInv
<1>2. CASE Start(t)
  <2>1. child'[t].phase = "negotiating"
    BY <1>0, <1>2 DEF Start, TypeOK
  <2> QED BY <2>1 DEF DigestInv, InPhases, Written
<1>3. CASE SendAudit(t)
  <2>1. child[t] # None /\ child[t].phase = "playing"
    BY <1>3 DEF SendAudit
  <2> QED BY <1>0, <1>3, <1>m, <2>1, SendAuditFacts
<1>4. CASE ReadAudit(t)
  <2>1. /\ child'[t] \in Process /\ child[t].mail \in Seq(Message) /\ child[t].mail # <<>>
        /\ child'[t].phase = "audited" /\ child'[t].mail = Tail(child[t].mail)
        /\ child'[t].signed => Genuine(t)
    BY <1>0, <1>4, ReadAuditFacts DEF Process
  <2>2. child[t] # None /\ child[t].phase = "auditing"
    BY <1>4 DEF ReadAudit
  <2>3. Genuine(t) => \A i \in 2 .. Len(child[t].mail) : TellsNext(t, child[t].mail[i])
    <3>1. \A i : Tells(t, child[t].mail[i]) => TellsNext(t, child[t].mail[i])
      BY SharedKept DEF Tells, TellsNext
    <3> QED BY <1>0, <2>2, <3>1 DEF DigestInv, InPhases
  <2> DEFINE m == child[t].mail
  <2>4. \A i \in 1 .. Len(Tail(m)) : i + 1 \in 2 .. Len(m) /\ Tail(m)[i] = m[i + 1]
    <3>1. m \in Seq(Message) /\ m # <<>>
      BY <2>1
    <3> HIDE DEF m
    <3> QED BY <3>1
  <2>5. child'[t].signed => \A i \in 1 .. Len(child'[t].mail) : TellsNext(t, child'[t].mail[i])
    BY <2>1, <2>3, <2>4
  <2> QED BY <2>1, <2>5, DigestNext, ProcessField
<1>5. CASE WriteLog(t)
  BY <1>0, <1>5, <1>m, EnterFacts DEF WriteLog, Phases
<1>6. CASE WriteResult(t)
  BY <1>0, <1>6, <1>m, EnterFacts DEF WriteResult, Phases, Written
<1>7. CASE Mark(t)
  BY <1>0, <1>7, <1>m, EnterFacts DEF Mark, Phases, Written
<1>8. CASE Exit(t)
  BY <1>0, <1>8, <1>n DEF Exit, TypeOK
<1>9. CASE Aggregate(t)
  BY <1>0, <1>9, <1>m, EnterFacts DEF Aggregate, Phases, Written
<1>10. CASE SendDigest(t)
  <2>1. child[t] # None /\ child[t].phase = "aggregated"
    BY <1>10 DEF SendDigest
  <2> QED BY <1>0, <1>10, <1>m, <2>1, SendDigestFacts DEF Written
<1>11. CASE ReadDigest(t)
  <2>1. child'[t].phase = "concluded"
    BY <1>0, <1>11, ConcludeFacts DEF ReadDigest
  <2> QED BY <2>1 DEF DigestInv, InPhases, Written
<1>12. CASE WriteFinal(t)
  BY <1>0, <1>12, <1>n DEF WriteFinal, TypeOK
<1>13. CASE Fail(t)
  BY <1>0, <1>13, <1>n DEF Fail, TypeOK
<1>14. CASE GiveUp(t)
  <2>1. child'[t].phase = "concluded"
    BY <1>0, <1>14, ConcludeFacts DEF GiveUp
  <2> QED BY <2>1 DEF DigestInv, InPhases, Written
<1>15. CASE Crash(t)
  BY <1>0, <1>15, <1>n DEF Crash, TypeOK
<1> QED BY <1>1, <1>2, <1>3, <1>4, <1>5, <1>6, <1>7, <1>8, <1>9, <1>10, <1>11, <1>12, <1>13,
           <1>14, <1>15 DEF OwnStep, GameStep, FinalStep

\* A message that arrives: an audit, or a digest of the results as they are.
LEMMA DigestReceived ==
    ASSUME IInv, NEW t \in Teams, OwnStep(Other(t)), NEW message, Receives(t, message),
           TellsNext(t, message)
    PROVE  DigestInv(t)'
<1>1. TypeOK /\ PastInv(t) /\ DigestInv(t)
  BY DEF IInv, TeamInv
<1>2. /\ child[t] # None /\ child'[t] # None /\ child'[t].phase = child[t].phase
      /\ child'[t].game = child[t].game /\ child'[t].signed = child[t].signed
  BY ReceiveFacts DEF Receives
<1>3. \A i \in 1 .. Len(child'[t].mail) :
         \/ i \in 1 .. Len(child[t].mail) /\ child'[t].mail[i] = child[t].mail[i]
         \/ child'[t].mail[i] = message
  BY ReceiveFacts
<1>4. \A i : Tells(t, child[t].mail[i]) => TellsNext(t, child[t].mail[i])
  BY SharedKept DEF Tells, TellsNext
<1>5. ASSUME child'[t].phase \in {"playing", "auditing"}, Genuine(t)'
      PROVE  \A i \in 2 .. Len(child'[t].mail) : TellsNext(t, child'[t].mail[i])
  <2>1. CASE child[t].mail = <<>>
    <3>1. Len(child'[t].mail) = 1
      BY <2>1, ReceiveFacts
    <3> QED BY <3>1
  <2>2. CASE child[t].mail # <<>>
    <3>1. Genuine(t)
      BY <1>2, <1>5, <2>2, ReceiveFacts DEF Genuine
    <3>2. \A i \in 2 .. Len(child[t].mail) : Tells(t, child[t].mail[i])
      BY <1>1, <1>2, <1>5, <3>1 DEF DigestInv, InPhases
    <3>3. ASSUME NEW i \in 2 .. Len(child'[t].mail) PROVE TellsNext(t, child'[t].mail[i])
      <4>1. i \in 1 .. Len(child'[t].mail)
        OBVIOUS
      <4>2. CASE child'[t].mail[i] = message
        BY <4>2
      <4>3. CASE i \in 1 .. Len(child[t].mail) /\ child'[t].mail[i] = child[t].mail[i]
        BY <1>4, <3>2, <4>3
      <4> QED BY <1>3, <4>1, <4>2, <4>3
    <3> QED BY <3>3
  <2> QED BY <2>1, <2>2
<1>6. ASSUME child'[t].phase \in {"audited", "logged"} \cup Written, child'[t].signed
      PROVE  \A i \in 1 .. Len(child'[t].mail) : TellsNext(t, child'[t].mail[i])
  <2>1. \A i \in 1 .. Len(child[t].mail) : TellsNext(t, child[t].mail[i])
    BY <1>1, <1>2, <1>4, <1>6 DEF DigestInv, InPhases
  <2> QED BY <1>3, <2>1
<1> QED BY <1>2, <1>5, <1>6, DigestNext

LEMMA DigestStep ==
    ASSUME IInv, NEW t \in Teams, [Next]_vars
    PROVE  DigestInv(t)'
<1> DEFINE u == Other(t)
<1>1. /\ TypeOK /\ FilesInv(t) /\ FilesInv(u) /\ PastInv(t) /\ DigestInv(t)
      /\ u \in Teams /\ Other(u) = t
  BY TwoTeams DEF IInv, TeamInv
<1>2. CASE Meet
  <2>1. /\ child[t] \in Process /\ child'[t].mail = child[t].mail /\ child'[t].game = Len(games) + 1
        /\ child'[t].phase = "playing"
    BY <1>1, <1>2, MeetFacts DEF InPhases, TypeOK
  <2>2. child[t].mail # <<>> => Head(child[t].mail).game <= Len(games) /\ Head(child[t].mail).game \in Nat
    <3> DEFINE m == child[t].mail
    <3>1. child[t] # None /\ m \in Seq(Message)
      BY <2>1, ProcessField DEF Process
    <3>2. \A i \in 1 .. Len(m) : m[i].game <= Len(games)
      BY <1>1, <3>1 DEF PastInv
    <3>3. m # <<>> => 1 \in 1 .. Len(m) /\ Head(m) = m[1] /\ m[1] \in Message
      <4> HIDE DEF m
      <4> QED BY <3>1
    <3>4. m # <<>> => m[1].game \in Nat
      BY <3>3 DEF Message
    <3> QED BY <3>2, <3>3, <3>4
  <2>3. Len(games) \in Nat
    BY <1>1, LenProperties DEF TypeOK
  <2>4. ~Genuine(t)'
    BY <2>1, <2>2, <2>3 DEF Genuine
  <2> QED BY <2>1, <2>4 DEF DigestInv, InPhases, Written
<1>3. CASE OwnStep(t)
  BY <1>1, <1>3, DigestOwn
<1>4. ASSUME child'[t] = child[t], OwnStep(u) \/ UNCHANGED vars
      PROVE  DigestInv(t)'
  <2>1. \A i : Tells(t, child[t].mail[i]) => TellsNext(t, child'[t].mail[i])
    BY <1>4, SharedKept DEF Tells, TellsNext
  <2>2. Genuine(t)' <=> Genuine(t)
    BY <1>4 DEF Genuine
  <2>3. child[t] # None => DigestInv(t)'
    BY <1>1, <1>4, <2>1, <2>2, DigestNext DEF DigestInv, InPhases
  <2> QED BY <1>4, <2>3 DEF DigestInv, InPhases
<1>5. CASE OwnStep(u)
  <2>1. CASE SendAudit(u) /\ Receives(t, AuditOf(u))
    BY <1>5, <2>1, DigestReceived DEF AuditOf, TellsNext
  <2>2. CASE SendDigest(u) /\ Receives(t, DigestOf(u))
    <3>1. InPhases(u, Marked) /\ number[u] = NumGames /\ result' = result
      BY <1>1, <2>2 DEF SendDigest, InPhase, InPhases, Marked, Closing, FilesInv, files
    <3>2. \A n \in Numbers : result[u][n] # None
      BY <1>1, <3>1, LastChildFacts DEF Behind
    <3>3. child'[u].phase \notin Playing
      BY <1>1, <2>2, SendDigestFacts DEF Moves, Playing
    <3>4. SharedNext(t, Outcomes(u))
      BY <3>1, <3>2, <3>3 DEF SharedNext, Outcomes
    <3>5. TellsNext(t, DigestOf(u))
      BY <3>4 DEF TellsNext, DigestOf
    <3> QED BY <1>5, <2>2, <3>5, DigestReceived
  <2>3. CASE child'[t] = child[t]
    BY <1>4, <1>5, <2>3
  <2> QED BY <1>1, <1>5, <2>1, <2>2, <2>3, PeerFacts
<1>6. CASE UNCHANGED vars
  BY <1>4, <1>6 DEF vars
<1> QED BY <1>2, <1>3, <1>5, <1>6, StepOf

-----------------------------------------------------------------------------
(* What is confirmed.                                                      *)

\* A step that leaves the results and the logs of t leaves what is settled.
LEMMA SettledKept ==
    ASSUME IInv, NEW t \in Teams, NEW rows, Settled(t, rows),
           OwnStep(t) \/ OwnStep(Other(t)) \/ UNCHANGED vars,
           result'[t] = result[t] /\ log'[t] = log[t]
    PROVE  SharedNext(t, rows) /\ \A n \in Numbers : Completed(t, n)'
<1>1. SharedNext(t, rows)
  BY SharedKept DEF Settled
<1>2. \A n \in Numbers : Completed(t, n)'
  BY DEF Settled, Completed
<1> QED BY <1>1, <1>2

\* How ConfirmedInv looks at the next state.
LEMMA ConfirmedNext ==
    ASSUME NEW t \in Teams,
           child'[t] # None /\ child'[t].phase = "concluded" /\ child'[t].signed =>
             SharedNext(t, Outcomes(t)') /\ \A n \in Numbers : Completed(t, n)',
           final'[t] # None /\ final'[t].confirmed =>
             /\ coordinator'[t] = "idle"
             /\ SharedNext(t, final'[t].rows) /\ \A n \in Numbers : Completed(t, n)'
    PROVE  ConfirmedInv(t)'
<1>1. Shared(t, Outcomes(t))' <=> SharedNext(t, Outcomes(t)')
  BY DEF Shared, SharedNext, InPhases
<1>2. Shared(t, final[t].rows)' <=> SharedNext(t, final'[t].rows)
  BY DEF Shared, SharedNext, InPhases
<1> QED BY <1>1, <1>2 DEF ConfirmedInv, InPhases, Settled

\* The last child confirms what the digest of its peer tells, if every game
\* was signed.
LEMMA ReadDigestSettles ==
    ASSUME IInv, NEW t \in Teams, ReadDigest(t)
    PROVE  child'[t].signed => Settled(t, Outcomes(t))
<1>1. TypeOK /\ FilesInv(t) /\ DigestInv(t)
  BY DEF IInv, TeamInv
<1>2. child[t] \in Process /\ child[t].phase = "awaiting" /\ InPhases(t, Closing) /\ InPhases(t, Written)
  BY <1>1 DEF ReadDigest, InPhase, InPhases, Closing, Written, TypeOK
<1> DEFINE message == Head(child[t].mail)
           b == AllSigned(t) /\ message.kind = "digest" /\ message.rows = Outcomes(t)
<1>3. child[t].mail # <<>> /\ Conclude(t, b)
  BY DEF ReadDigest
<1>4. child'[t].signed = b
  BY <1>1, <1>2, <1>3, ConcludeFacts, ProcessField
<1>5. ASSUME b PROVE Settled(t, Outcomes(t))
  <2>1. number[t] = NumGames /\ NumGames \in Numbers
    BY <1>1, <1>2, SeriesAssumption DEF FilesInv, Numbers
  <2>2. result[t][NumGames].signed = child[t].signed
    BY <1>1, <1>2, <2>1 DEF FilesInv
  <2>3. child[t].signed
    BY <1>5, <2>1, <2>2 DEF AllSigned
  <2>4. child[t].mail \in Seq(Message) /\ Len(child[t].mail) >= 1 /\ message = child[t].mail[1]
    <3>1. child[t].mail \in Seq(Message)
      BY <1>2 DEF Process
    <3> DEFINE m == child[t].mail
    <3>2. m \in Seq(Message) /\ m # <<>>
      BY <1>3, <3>1
    <3>3. Len(m) >= 1 /\ Head(m) = m[1]
      <4> HIDE DEF m
      <4> QED BY <3>2
    <3> QED BY <3>1, <3>3
  <2>5. Tells(t, message)
    BY <1>1, <1>2, <2>3, <2>4 DEF DigestInv, InPhases
  <2>6. Shared(t, Outcomes(t))
    BY <1>5, <2>5 DEF Tells
  <2>7. \A n \in Numbers : Behind(t, n)
    BY <1>1, <1>2, <2>1, LastChildFacts DEF InPhases, Marked
  <2>8. \A n \in Numbers : Completed(t, n)
    BY <1>1, <1>5, <2>7 DEF Completed, Behind, FilesInv, AllSigned
  <2> QED BY <2>6, <2>8 DEF Settled
<1> QED BY <1>4, <1>5

\* What a coordinator with a confirmed aggregate does when it is launched.
LEMMA ConfirmedStays ==
    ASSUME IInv, NEW t \in Teams, OwnStep(t), final[t] # None, final[t].confirmed
    PROVE  UNCHANGED <<coordinator, child, final, log, result>>
<1>1. TypeOK /\ FilesInv(t) /\ ConfirmedInv(t)
  BY DEF IInv, TeamInv
<1>2. coordinator[t] = "idle" /\ child[t] = None /\ \A n \in Numbers : Completed(t, n)
  BY <1>1 DEF ConfirmedInv, FilesInv, Settled
<1>3. ResumeAt(t) > NumGames
  <2> DEFINE n == ResumeAt(t)
  <2>1. n \in 1 .. NumGames + 1 /\ (n = NumGames + 1 \/ ~Completed(t, n))
    BY ResumeFacts
  <2>2. n \in Numbers => Completed(t, n)
    BY <1>2
  <2> HIDE DEF n
  <2>3. n > NumGames
    BY <2>1, <2>2, SeriesAssumption DEF Numbers
  <2> QED BY <2>3 DEF n
<1>4. Launch(t)
  BY <1>2 DEF OwnStep, GameStep, FinalStep, Start, SendAudit, ReadAudit, WriteLog, WriteResult, Mark,
     Exit, Aggregate, SendDigest, ReadDigest, WriteFinal, Fail, GiveUp, Crash, InPhase
<1> QED BY <1>3, <1>4 DEF Launch

\* A child concludes by reading a digest or by giving up, and a confirmed
\* aggregate is written by a child that concluded with a confirmation.
LEMMA Confirms ==
    ASSUME TypeOK, NEW t \in Teams, FilesInv(t), PastInv(t), OwnStep(t)
    PROVE  /\ child'[t] # None /\ child'[t].phase = "concluded" /\ child'[t].signed => ReadDigest(t)
           /\ final'[t] # None /\ final'[t].confirmed /\ final'[t] # final[t] =>
                /\ WriteFinal(t) /\ InPhases(t, {"concluded"}) /\ child[t].signed
                /\ final'[t].rows = Outcomes(t)
<1> USE DEF InPhase
<1>p. ASSUME NEW phase, Moves(t, phase)
      PROVE  child'[t].phase = phase
  BY <1>p DEF Moves
<1>1. CASE Launch(t)
  BY <1>1 DEF Launch, FilesInv
<1>2. CASE Start(t)
  BY <1>2 DEF Start, TypeOK
<1>3. CASE SendAudit(t)
  <2>1. child'[t].phase = "auditing"
    BY <1>3, <1>p, SendAuditFacts
  <2> QED BY <1>3, <2>1 DEF SendAudit, files
<1>4. CASE ReadAudit(t)
  BY <1>4, ReadAuditFacts DEF ReadAudit, files
<1>5. CASE WriteLog(t)
  BY <1>5, <1>p, EnterFacts DEF WriteLog, Phases
<1>6. CASE WriteResult(t)
  BY <1>6, <1>p, EnterFacts DEF WriteResult, Phases
<1>7. CASE Mark(t)
  BY <1>7, <1>p, EnterFacts DEF Mark, Phases
<1>8. CASE Exit(t)
  BY <1>8 DEF Exit, TypeOK, files
<1>9. CASE Aggregate(t)
  BY <1>9, <1>p, EnterFacts DEF Aggregate, Phases, files
<1>10. CASE SendDigest(t)
  <2>1. child'[t].phase = "awaiting"
    BY <1>10, <1>p, SendDigestFacts
  <2> QED BY <1>10, <2>1 DEF SendDigest, files
<1>11. CASE ReadDigest(t)
  BY <1>11 DEF ReadDigest, files
<1>12. CASE WriteFinal(t)
  <2>1. final'[t] = [rows |-> Outcomes(t), confirmed |-> child[t].signed]
    BY <1>12 DEF WriteFinal, TypeOK
  <2>2. child'[t] = None /\ InPhases(t, {"concluded"})
    BY <1>12 DEF WriteFinal, TypeOK, InPhases
  <2> QED BY <1>12, <2>1, <2>2
<1>13. CASE Fail(t)
  BY <1>13 DEF Fail, TypeOK, files
<1>14. CASE GiveUp(t)
  <2>1. ~child'[t].signed
    BY <1>14, ConcludeFacts DEF GiveUp
  <2> QED BY <1>14, <2>1 DEF GiveUp, files
<1>15. CASE Crash(t)
  <2>1. child'[t] = None
    BY <1>15 DEF Crash, TypeOK
  <2>2. final'[t] = final[t] \/ final'[t] = [rows |-> <<>>, confirmed |-> FALSE]
    BY <1>15 DEF Crash, TypeOK
  <2> QED BY <2>1, <2>2
<1> QED BY <1>1, <1>2, <1>3, <1>4, <1>5, <1>6, <1>7, <1>8, <1>9, <1>10, <1>11, <1>12, <1>13,
           <1>14, <1>15 DEF OwnStep, GameStep, FinalStep

LEMMA ConfirmedOwn ==
    ASSUME IInv, NEW t \in Teams, OwnStep(t)
    PROVE  ConfirmedInv(t)'
<1>1. TypeOK /\ FilesInv(t) /\ PastInv(t) /\ ConfirmedInv(t)
  BY DEF IInv, TeamInv
<1>2. ASSUME child'[t] # None, child'[t].phase = "concluded", child'[t].signed
      PROVE  SharedNext(t, Outcomes(t)') /\ \A n \in Numbers : Completed(t, n)'
  <2>1. ReadDigest(t)
    BY <1>1, <1>2, Confirms
  <2>2. Settled(t, Outcomes(t))
    BY <1>2, <2>1, ReadDigestSettles
  <2>3. result' = result /\ log' = log
    BY <2>1 DEF ReadDigest, files
  <2>4. Outcomes(t)' = Outcomes(t)
    BY <2>3 DEF Outcomes
  <2> QED BY <2>2, <2>3, <2>4, SettledKept
<1>3. ASSUME final'[t] # None, final'[t].confirmed
      PROVE  /\ coordinator'[t] = "idle"
             /\ SharedNext(t, final'[t].rows) /\ \A n \in Numbers : Completed(t, n)'
  <2>1. CASE final'[t] # final[t]
    <3>1. WriteFinal(t) /\ final'[t].rows = Outcomes(t) /\ Settled(t, Outcomes(t))
      BY <1>1, <1>3, <2>1, Confirms DEF ConfirmedInv
    <3>2. coordinator'[t] = "idle" /\ result' = result /\ log' = log
      BY <1>1, <3>1 DEF WriteFinal, TypeOK
    <3> QED BY <3>1, <3>2, SettledKept
  <2>2. CASE final'[t] = final[t]
    <3>1. UNCHANGED <<coordinator, log, result>>
      BY <1>3, <2>2, ConfirmedStays
    <3>2. coordinator[t] = "idle" /\ Settled(t, final[t].rows)
      BY <1>1, <1>3, <2>2 DEF ConfirmedInv
    <3> QED BY <2>2, <3>1, <3>2, SettledKept
  <2> QED BY <2>1, <2>2
<1> QED BY <1>2, <1>3, ConfirmedNext

LEMMA ConfirmedStep ==
    ASSUME IInv, NEW t \in Teams, [Next]_vars
    PROVE  ConfirmedInv(t)'
<1> DEFINE u == Other(t)
<1>1. /\ TypeOK /\ FilesInv(t) /\ FilesInv(u) /\ ConfirmedInv(t) /\ u \in Teams /\ Other(u) = t
  BY TwoTeams DEF IInv, TeamInv
<1>2. CASE Meet
  <2>1. /\ KeepsFiles(t) /\ child[t] # None /\ child'[t].phase = "playing"
    BY <1>1, <1>2, MeetFacts DEF InPhases
  <2>2. coordinator[t] = "waiting"
    BY <1>1, <2>1 DEF FilesInv
  <2> QED BY <1>1, <2>1, <2>2 DEF ConfirmedInv, InPhases, KeepsFiles
<1>3. CASE OwnStep(t)
  BY <1>3, ConfirmedOwn
<1>4. ASSUME OwnStep(u) \/ UNCHANGED vars, KeepsFiles(t),
             child'[t] # None =>
               child[t] # None /\ child'[t].phase = child[t].phase /\ child'[t].signed = child[t].signed
      PROVE  ConfirmedInv(t)'
  <2>1. \A rows : Settled(t, rows) => SharedNext(t, rows) /\ \A n \in Numbers : Completed(t, n)'
    BY <1>4, SettledKept DEF KeepsFiles
  <2>2. Outcomes(t)' = Outcomes(t)
    BY <1>4 DEF Outcomes, KeepsFiles
  <2> QED BY <1>1, <1>4, <2>1, <2>2, ConfirmedNext DEF ConfirmedInv, InPhases, KeepsFiles
<1>5. CASE OwnStep(u)
  <2>1. ASSUME NEW message, Receives(t, message)
        PROVE  /\ child[t] # None /\ child'[t].phase = child[t].phase
               /\ child'[t].signed = child[t].signed
    BY <2>1, ReceiveFacts DEF Receives
  <2> QED BY <1>1, <1>4, <1>5, <2>1, PeerFacts
<1>6. CASE UNCHANGED vars
  BY <1>4, <1>6 DEF vars, files, KeepsFiles
<1> QED BY <1>2, <1>3, <1>5, <1>6, StepOf

-----------------------------------------------------------------------------
(* The theorems.                                                           *)

LEMMA IInvHolds == Init => IInv
<1> SUFFICES ASSUME Init PROVE IInv
  OBVIOUS
<1>1. TypeOK
  BY TypeStart
<1>2. \A t \in Teams : child[t] = None /\ coordinator[t] = "idle" /\ final[t] = None
                     /\ \A n \in Numbers : result[t][n] = None
  BY DEF Init
<1>3. \A t \in Teams : TeamInv(t)
  BY <1>2 DEF TeamInv, FilesInv, EvidenceInv, PastInv, DigestInv, ConfirmedInv, InPhases
<1> QED BY <1>1, <1>3 DEF IInv

LEMMA IInvIsKept == IInv /\ [Next]_vars => IInv'
<1> SUFFICES ASSUME IInv, [Next]_vars PROVE IInv'
  OBVIOUS
<1>1. TypeOK'
  BY TypeStep
<1>2. \A t \in Teams : TeamInv(t)'
  BY <1>1, FilesStep, EvidenceStep, PastStep, DigestStep, ConfirmedStep DEF TeamInv
<1> QED BY <1>1, <1>2 DEF IInv

LEMMA Invariance == Spec => []IInv
BY IInvHolds, IInvIsKept, PTL DEF Spec

\* Whatever crashed and however often it was launched again, the last child
\* finds every result it aggregates, and the time stamps of every sub-game
\* (network_match.py:1785-1855).
THEOREM LastChildFindsAll == Spec => []FinalizationFindsAll
<1>1. IInv => FinalizationFindsAll
  <2> SUFFICES ASSUME IInv, NEW t \in Teams, InPhase(t, "marked"), number[t] = NumGames
               PROVE  Readable(t) /\ \A n \in Numbers : state[t].rows[n] = "ended"
    BY DEF FinalizationFindsAll
  <2>1. TypeOK /\ FilesInv(t) /\ InPhases(t, Marked)
    BY DEF IInv, TeamInv, InPhase, InPhases, Marked
  <2>2. \A n \in Numbers : Behind(t, n)
    BY <2>1, LastChildFacts
  <2>3. state[t].readable
    BY <2>1 DEF FilesInv, InPhases
  <2> QED BY <2>2, <2>3 DEF Behind, Readable
<1> QED BY <1>1, Invariance, PTL

\* What a confirmed aggregate tells is what the files of the peer tell, now
\* and from then on (RUNNING.md:146, network_match.py:1895-1912).
THEOREM ConfirmationIsShared == Spec => []ConfirmedIsShared
<1>1. IInv => ConfirmedIsShared
  BY DEF IInv, TeamInv, ConfirmedInv, Settled, Shared, ConfirmedIsShared
<1> QED BY <1>1, Invariance, PTL

\* No step replaces or tears a signed result that is not in the archive
\* (series_state.py:64-78).
THEOREM SignedResultsAreKept == Spec => EvidenceIsKept
<1> DEFINE kept == \A t \in Teams, n \in Numbers :
             result[t][n] # None /\ result[t][n].signed /\ result'[t][n] # result[t][n]
               => result[t][n] \in archive[t]
<1>1. IInv /\ [Next]_vars => [kept]_vars
  <2> SUFFICES ASSUME IInv, [Next]_vars, NEW t \in Teams, NEW n \in Numbers,
                      result[t][n] # None, result'[t][n] # result[t][n]
               PROVE  result[t][n] \in archive[t]
    OBVIOUS
  <2>1. TypeOK /\ EvidenceInv(t) /\ FilesInv(Other(t)) /\ Other(t) \in Teams /\ Other(Other(t)) = t
    BY TwoTeams DEF IInv, TeamInv
  <2>2. n = number[t] /\ InPhase(t, "logged")
    <3>1. CASE Meet \/ UNCHANGED vars
      BY <3>1 DEF Meet, vars, files
    <3>2. CASE OwnStep(Other(t))
      BY <2>1, <3>2, PeerFacts DEF KeepsFiles
    <3>3. CASE OwnStep(t)
      <4>1. WriteResult(t) \/ Crash(t) \/ UNCHANGED result
        BY <3>3 DEF OwnStep, GameStep, FinalStep, Launch, Start, SendAudit, ReadAudit, WriteLog,
           Mark, Exit, Aggregate, SendDigest, ReadDigest, WriteFinal, Fail, GiveUp, files
      <4>2. CASE WriteResult(t)
        BY <2>1, <4>2 DEF WriteResult, TypeOK
      <4>3. CASE Crash(t)
        BY <2>1, <4>3 DEF Crash, TypeOK
      <4> QED BY <4>1, <4>2, <4>3
    <3> QED BY <3>1, <3>2, <3>3, StepOf
  <2> QED BY <2>1, <2>2 DEF EvidenceInv, InPhase, InPhases, Unwritten, Playing
<1> QED BY <1>1, Invariance, PTL DEF Spec, EvidenceIsKept

===============================================================================
