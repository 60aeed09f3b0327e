-------------------------------- MODULE Series --------------------------------
(***************************************************************************)
(* A series of sub-games between two teams.  Each team runs a coordinator  *)
(* (series_coordinator.py: run_series) that starts one child process       *)
(* (cli/serve.py: _serve) for each sub-game and keeps a directory of       *)
(* files: a log and a result for each sub-game, the series state, and the  *)
(* aggregate result.  The last child aggregates the results and exchanges  *)
(* their digest with the peer's last child (finalize_completed_series).    *)
(* A coordinator that fails is launched again and resumes from the files.  *)
(*                                                                         *)
(* One game between two children is what PeerMatch shows of it: the peers  *)
(* that end it agree on the outcome and the signature, and either may fail *)
(* at any point before.  No file is replaced atomically: a crash may leave *)
(* the one being written torn.                                             *)
(***************************************************************************)
EXTENDS Integers, Sequences, FiniteSets

CONSTANTS
    Teams,        \* the two teams
    FirstThief,   \* the thief of the first sub-game
    None,
    NumGames,     \* num_games of config/game.json (6)
    Signatures,   \* whether an audit may sign (TRUE) or refuse to (FALSE)
    MaxFaults,    \* bound: children that fail or give up on their peer, and crashes
    MaxLaunches,  \* bound: launches of each coordinator
    MaxGames      \* bound: games played in all

Numbers == 1 .. NumGames

\* What the files and the messages say of a game: a torn result is unreadable.
Verdicts   == {"capture", "survival", "technical_loss", "torn"}
Summary    == {<<>>} \cup [Numbers -> Verdicts]
LogFile    == [game : Nat, torn : BOOLEAN]
ResultFile == [game : Nat, outcome : Verdicts, signed : BOOLEAN]
FinalFile  == [rows : Summary, confirmed : BOOLEAN]
Message    == [kind : {"audit", "digest"}, game : Nat, rows : Summary]
Game       == [outcome : {"capture", "survival"}, signed : BOOLEAN, numbers : [Teams -> Numbers]]

Phases ==
    {"negotiating", "playing", "auditing", "audited", "logged", "written", "marked",
     "aggregated", "awaiting", "concluded"}
Process ==
    [phase : Phases, game : Nat, mail : Seq(Message), outcome : Verdicts \cup {None},
     signed : BOOLEAN]

ASSUME SeriesAssumption ==
    /\ IsFiniteSet(Teams) /\ Cardinality(Teams) = 2 /\ FirstThief \in Teams
    /\ NumGames \in Nat \ {0} /\ Signatures \in (SUBSET BOOLEAN) \ {{}}
    /\ MaxFaults \in Nat
    /\ MaxLaunches \in Nat /\ MaxGames \in Nat
    /\ None \notin LogFile /\ None \notin ResultFile /\ None \notin FinalFile
    /\ None \notin Process

Other(t) == CHOOSE u \in Teams : u # t

VARIABLES
    coordinator,  \* run_series: "idle", "between" two children, "waiting" for one
    number,       \* the sub-game of the loop
    child,        \* the child process, or None
    log,          \* log_<game>_gNN.json: the game it tells of, or None
    result,       \* result_<game>_gNN.json, or None
    state,        \* series_<game>_state.json
    final,        \* result_<game>.json, or None
    archive,      \* results copied under attempts/
    games,        \* outcome and signature of every game played
    launches, faults

files == <<log, result, state, final, archive>>
vars  == <<coordinator, number, child, files, games, launches, faults>>

\* A row of the series state has the time stamps of a started or ended game.
Rows  == [Numbers -> {"absent", "started", "ended"}]
NoRow == [n \in Numbers |-> "absent"]

Init ==
    /\ coordinator = [t \in Teams |-> "idle"] /\ number = [t \in Teams |-> 1]
    /\ child  = [t \in Teams |-> None]
    /\ log    = [t \in Teams |-> [n \in Numbers |-> None]]
    /\ result = [t \in Teams |-> [n \in Numbers |-> None]]
    /\ state  = [t \in Teams |-> [readable |-> FALSE, rows |-> NoRow]]
    /\ final  = [t \in Teams |-> None] /\ archive = [t \in Teams |-> {}]
    /\ games  = <<>> /\ launches = [t \in Teams |-> 0] /\ faults = 0

-----------------------------------------------------------------------------
(* The coordinator.                                                        *)

\* role_for_series_game
RoleOf(t, n) == IF (t = FirstThief) = (n % 2 = 1) THEN "thief" ELSE "police"

\* (Mutant) A result counts whatever it says.
CompletedByFile(t, n) == log[t][n] # None /\ result[t][n] # None

\* _completed_result: a log, and a result that can be read and is signed.
Completed(t, n) ==
    /\ log[t][n] # None /\ result[t][n] # None
    /\ result[t][n].outcome # "torn" /\ result[t][n].signed

\* The first sub-game that is not completed, or NumGames + 1.
ResumeAt(t) ==
    CHOOSE n \in 1 .. NumGames + 1 :
        /\ \A k \in 1 .. n - 1 : Completed(t, k)
        /\ n = NumGames + 1 \/ ~Completed(t, n)

LoadedRows(t) == IF state[t].readable THEN state[t].rows ELSE NoRow

SaveRows(t, rows) == state' = [state EXCEPT ![t] = [readable |-> TRUE, rows |-> rows]]

\* run_series up to the loop.
Launch(t) ==
    /\ coordinator[t] = "idle" /\ launches[t] < MaxLaunches
    /\ launches' = [launches EXCEPT ![t] = @ + 1]
    /\ SaveRows(t, [n \in Numbers |-> IF n < ResumeAt(t) THEN "ended" ELSE LoadedRows(t)[n]])
    /\ IF ResumeAt(t) > NumGames /\ final[t] # None
       THEN UNCHANGED <<coordinator, number>>
       ELSE /\ coordinator' = [coordinator EXCEPT ![t] = "between"]
            /\ number' = [number EXCEPT ![t] =
                            IF ResumeAt(t) > NumGames THEN NumGames ELSE ResumeAt(t)]
    /\ UNCHANGED <<child, log, result, final, archive, games, faults>>

\* (Mutant) The files of an earlier attempt are not copied.
StartWithoutArchive(t) ==
    /\ coordinator[t] = "between"
    /\ SaveRows(t, [LoadedRows(t) EXCEPT ![number[t]] = "started"])
    /\ child' = [child EXCEPT ![t] =
          [phase |-> "negotiating", game |-> 0, mail |-> <<>>, outcome |-> None,
           signed |-> FALSE]]
    /\ coordinator' = [coordinator EXCEPT ![t] = "waiting"]
    /\ UNCHANGED <<number, log, result, final, archive, games, launches, faults>>

\* Copy what an earlier attempt left, note the start, start the child.
Start(t) ==
    /\ coordinator[t] = "between"
    /\ archive' = [archive EXCEPT ![t] = @ \cup ({result[t][number[t]]} \ {None})]
    /\ SaveRows(t, [LoadedRows(t) EXCEPT ![number[t]] = "started"])
    /\ child' = [child EXCEPT ![t] =
          [phase |-> "negotiating", game |-> 0, mail |-> <<>>, outcome |-> None,
           signed |-> FALSE]]
    /\ coordinator' = [coordinator EXCEPT ![t] = "waiting"]
    /\ UNCHANGED <<number, log, result, final, games, launches, faults>>

-----------------------------------------------------------------------------
(* A sub-game.                                                             *)

InPhase(t, phase) == child[t] # None /\ child[t].phase = phase

Enter(t, phase) == child' = [child EXCEPT ![t].phase = phase]

\* Two children meet; nothing they sign says which sub-game it is.  Two of
\* one role cannot play: they fail at the first turn.
Meet ==
    /\ \A t \in Teams : InPhase(t, "negotiating")
    /\ \A t \in Teams : RoleOf(t, number[t]) # RoleOf(Other(t), number[Other(t)])
    /\ Len(games) < MaxGames
    /\ \E outcome \in {"capture", "survival"}, signed \in Signatures :
          games' = Append(games, [outcome |-> outcome, signed |-> signed, numbers |-> number])
    /\ child' = [t \in Teams |-> [child[t] EXCEPT !.phase = "playing", !.game = Len(games) + 1]]
    /\ UNCHANGED <<coordinator, number, files, launches, faults>>

\* The audit goes to the peer of the same game.
SendAudit(t) ==
    /\ InPhase(t, "playing")
    /\ LET u == Other(t) IN
          /\ child[u] # None
          /\ child' = [child EXCEPT
                ![t].phase = "auditing",
                ![u].mail = Append(@, [kind |-> "audit", game |-> child[t].game, rows |-> <<>>])]
    /\ UNCHANGED <<coordinator, number, files, games, launches, faults>>

\* What arrives first in the audit inbox is taken for the audit of the game.
\* An envelope without its records is a forgery: technical loss.
ReadAudit(t) ==
    /\ InPhase(t, "auditing") /\ child[t].mail # <<>>
    /\ LET message == Head(child[t].mail)
           genuine == message.kind = "audit" /\ message.game = child[t].game
           game    == games[child[t].game]
       IN child' = [child EXCEPT ![t] =
             [child[t] EXCEPT !.phase = "audited", !.mail = Tail(@),
                              !.outcome = IF genuine THEN game.outcome ELSE "technical_loss",
                              !.signed = genuine /\ game.signed]]
    /\ UNCHANGED <<coordinator, number, files, games, launches, faults>>

\* _write_result writes the log, then the result.
WriteLog(t) ==
    /\ InPhase(t, "audited")
    /\ log' = [log EXCEPT ![t][number[t]] = [game |-> child[t].game, torn |-> FALSE]]
    /\ Enter(t, "logged")
    /\ UNCHANGED <<coordinator, number, result, state, final, archive, games, launches, faults>>

WriteResult(t) ==
    /\ InPhase(t, "logged")
    /\ result' = [result EXCEPT ![t][number[t]] =
          [game |-> child[t].game, outcome |-> child[t].outcome, signed |-> child[t].signed]]
    /\ Enter(t, "written")
    /\ UNCHANGED <<coordinator, number, log, state, final, archive, games, launches, faults>>

\* mark_subgame_finished
Mark(t) ==
    /\ InPhase(t, "written")
    /\ SaveRows(t, [LoadedRows(t) EXCEPT ![number[t]] = "ended"])
    /\ Enter(t, "marked")
    /\ UNCHANGED <<coordinator, number, log, result, final, archive, games, launches, faults>>

\* The child returns 0, signed or not, and the loop goes on.
Exit(t) ==
    /\ InPhase(t, "marked") /\ number[t] < NumGames
    /\ child' = [child EXCEPT ![t] = None]
    /\ coordinator' = [coordinator EXCEPT ![t] = "between"]
    /\ number' = [number EXCEPT ![t] = @ + 1]
    /\ UNCHANGED <<files, games, launches, faults>>

\* The child ends with an exception, and so does run_series.
Fail(t) ==
    /\ faults < MaxFaults /\ faults' = faults + 1
    /\ child[t] # None /\ child[t].phase \in {"negotiating", "playing", "auditing"}
    /\ child' = [child EXCEPT ![t] = None]
    /\ coordinator' = [coordinator EXCEPT ![t] = "idle"]
    /\ UNCHANGED <<number, files, games, launches>>

-----------------------------------------------------------------------------
(* finalize_completed_series, in the last child.                           *)

Readable(t)  == state[t].readable /\ \A n \in Numbers :
                    result[t][n] # None /\ result[t][n].outcome # "torn"
Outcomes(t)  == [n \in Numbers |-> result[t][n].outcome]
AllSigned(t) == \A n \in Numbers : result[t][n].signed

Aggregate(t) ==
    /\ InPhase(t, "marked") /\ number[t] = NumGames
    /\ Readable(t)
    /\ Enter(t, "aggregated")
    /\ UNCHANGED <<coordinator, number, files, games, launches, faults>>

SendDigest(t) ==
    /\ InPhase(t, "aggregated")
    /\ LET u == Other(t) IN
          /\ child[u] # None
          /\ child' = [child EXCEPT
                ![t].phase = "awaiting",
                ![u].mail = Append(@, [kind |-> "digest", game |-> 0, rows |-> Outcomes(t)])]
    /\ UNCHANGED <<coordinator, number, files, games, launches, faults>>

Conclude(t, confirmed) ==
    child' = [child EXCEPT ![t] = [@ EXCEPT !.phase = "concluded", !.signed = confirmed]]

\* (Mutant) The peer's digest is not compared.
ReadAnyDigest(t) ==
    /\ InPhase(t, "awaiting") /\ child[t].mail # <<>>
    /\ Conclude(t, AllSigned(t) /\ Head(child[t].mail).kind = "digest")
    /\ UNCHANGED <<coordinator, number, files, games, launches, faults>>

ReadDigest(t) ==
    /\ InPhase(t, "awaiting") /\ child[t].mail # <<>>
    /\ LET message == Head(child[t].mail) IN
          Conclude(t, AllSigned(t) /\ message.kind = "digest" /\ message.rows = Outcomes(t))
    /\ UNCHANGED <<coordinator, number, files, games, launches, faults>>

\* The exchange fails; the exception is caught.
GiveUp(t) ==
    /\ faults < MaxFaults /\ faults' = faults + 1
    /\ InPhase(t, "aggregated") \/ InPhase(t, "awaiting")
    /\ Conclude(t, FALSE)
    /\ UNCHANGED <<coordinator, number, files, games, launches>>

\* (Mutant) Only a confirmed aggregate is written.
WriteConfirmedFinal(t) ==
    /\ InPhase(t, "concluded")
    /\ final' = [final EXCEPT ![t] =
          IF child[t].signed THEN [rows |-> Outcomes(t), confirmed |-> TRUE] ELSE None]
    /\ child' = [child EXCEPT ![t] = None]
    /\ coordinator' = [coordinator EXCEPT ![t] = "idle"]
    /\ UNCHANGED <<number, log, result, state, archive, games, launches, faults>>

\* The aggregate is written, confirmed or not, and the series is complete.
WriteFinal(t) ==
    /\ InPhase(t, "concluded")
    /\ final' = [final EXCEPT ![t] = [rows |-> Outcomes(t), confirmed |-> child[t].signed]]
    /\ child' = [child EXCEPT ![t] = None]
    /\ coordinator' = [coordinator EXCEPT ![t] = "idle"]
    /\ UNCHANGED <<number, log, result, state, archive, games, launches, faults>>

-----------------------------------------------------------------------------
(* Both processes of a team die; the file being written may be torn.       *)

TornResult == [game |-> 0, outcome |-> "torn", signed |-> FALSE]

Crash(t) ==
    /\ coordinator[t] # "idle" /\ faults < MaxFaults
    /\ faults' = faults + 1
    /\ coordinator' = [coordinator EXCEPT ![t] = "idle"]
    /\ child' = [child EXCEPT ![t] = None]
    /\ \E torn \in BOOLEAN :
          /\ state' = IF torn /\ (coordinator[t] = "between" \/ InPhase(t, "written"))
                      THEN [state EXCEPT ![t].readable = FALSE] ELSE state
          /\ log' = IF torn /\ InPhase(t, "audited")
                    THEN [log EXCEPT ![t][number[t]] = [game |-> child[t].game, torn |-> TRUE]]
                    ELSE log
          /\ result' = IF torn /\ InPhase(t, "logged")
                       THEN [result EXCEPT ![t][number[t]] = TornResult] ELSE result
          /\ final' = IF torn /\ InPhase(t, "concluded")
                      THEN [final EXCEPT ![t] = [rows |-> <<>>, confirmed |-> FALSE]] ELSE final
    /\ UNCHANGED <<number, archive, games, launches>>

-----------------------------------------------------------------------------
GameStep(t) ==
    \/ SendAudit(t) \/ ReadAudit(t) \/ WriteLog(t) \/ WriteResult(t) \/ Mark(t) \/ Exit(t)

FinalStep(t) ==
    \/ Aggregate(t) \/ SendDigest(t) \/ ReadDigest(t) \/ WriteFinal(t)

Next ==
    \/ Meet
    \/ \E t \in Teams :
          \/ Launch(t) \/ Start(t) \/ GameStep(t) \/ FinalStep(t)
          \/ Fail(t) \/ GiveUp(t) \/ Crash(t)

Spec == Init /\ [][Next]_vars

\* Every step of a running process is taken; a coordinator need not be
\* launched more than once.
FairSpec ==
    /\ Spec /\ WF_vars(Meet)
    /\ \A t \in Teams :
          /\ WF_vars(Launch(t) /\ launches[t] = 0) /\ WF_vars(Start(t))
          /\ WF_vars(GameStep(t)) /\ WF_vars(FinalStep(t))

-----------------------------------------------------------------------------

\* The last child finds every result, and the time stamps of every sub-game,
\* whatever crashed before (network_match.py:1785-1855).
FinalizationFindsAll ==
    \A t \in Teams : InPhase(t, "marked") /\ number[t] = NumGames =>
        Readable(t) /\ \A n \in Numbers : state[t].rows[n] = "ended"

\* A confirmed aggregate tells the outcomes that the peer has too
\* (RUNNING.md:146, network_match.py:1895-1912).
ConfirmedIsShared ==
    \A t \in Teams : final[t] # None /\ final[t].confirmed =>
        \A n \in Numbers :
            /\ result[Other(t)][n] # None
            /\ result[Other(t)][n].outcome = final[t].rows[n]

\* A signed result is copied before it is replaced (series_state.py:64-78).
EvidenceIsKept ==
    [][\A t \in Teams, n \in Numbers :
          result[t][n] # None /\ result[t][n].signed /\ result'[t][n] # result[t][n]
            => result[t][n] \in archive[t]]_vars

\* Unless something fails, every team ends with an aggregate, confirmed if and
\* only if every game was signed.
SeriesIsSettled ==
    <>(\/ faults > 0
       \/ \A t \in Teams :
             /\ final[t] # None
             /\ final[t].confirmed <=> \A i \in DOMAIN games : games[i].signed)

===============================================================================
