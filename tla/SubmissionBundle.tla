--------------------------- MODULE SubmissionBundle ---------------------------
(***************************************************************************)
(* The directory in which a team keeps the files of a series, and the last *)
(* step of the series: finalize_completed_series writes the aggregate,     *)
(* finalize_submission_bundle replaces the files of the games by the       *)
(* envelopes that are submitted, validate_submission_directory reads them  *)
(* all again, and a valid bundle is mailed.                                *)
(*                                                                         *)
(* A process writes one file after the other, none of them atomically, and *)
(* may die between two of them or within one.  The coordinator is then     *)
(* launched again and decides from the files what is left to do.  Series   *)
(* is about the two teams and their messages; here the peer is what a game *)
(* and the exchange of digests may come to.                                *)
(***************************************************************************)
EXTENDS Integers, Sequences, FiniteSets, Functions

CONSTANTS
    NumGames,     \* num_games of config/game.json (6)
    Plays,        \* what each sub-game may come to
    TieScore,     \* tie_score, and FIXED_TIE_SCORE of the bundle
    Real,         \* email_mode is "real"
    None,
    MaxFaults,    \* bound: children that fail, and crashes
    MaxLaunches,  \* bound: launches of the coordinator
    MaxAttempts   \* bound: times a sub-game is played

Groups == {"own", "peer"}

\* A sub-game as it is recorded: its outcome and signature, the group the peer
\* said it is, whether the identities have every field of a declaration, and
\* the records, sound or not.
Play == [outcome : {"capture", "survival", "technical_loss"}, signed : BOOLEAN,
         peer : STRING, complete : BOOLEAN, records : Seq({"sound", "forged"})]

\* The declaration as it is submitted: of its fields, whether they are complete.
DeclarationFile == [form : {"envelope"}, complete : BOOLEAN]

ASSUME BundleAssumption ==
    /\ NumGames \in Nat /\ NumGames > 1 /\ TieScore \in Nat /\ Real \in BOOLEAN
    /\ DOMAIN Plays = 1 .. NumGames
    /\ \A n \in 1 .. NumGames : \A p \in Plays[n] :
          /\ p \in Play
          /\ p.signed => p.records # <<>> /\ \A i \in DOMAIN p.records : p.records[i] = "sound"
    /\ MaxFaults \in Nat /\ MaxLaunches \in Nat /\ MaxAttempts \in Nat
    /\ None \notin Groups /\ None \notin DeclarationFile

Numbers == 1 .. NumGames

\* The names of the files.  Number 0 is the series.
Declaration == <<"declaration", 0>>
Config(n)   == <<"config", n>>
Log(n)      == <<"log", n>>
Result(n)   == <<"result", n>>
Aggregate   == Result(0)
Report      == <<"submission_validation", 0>>
Required    == {Declaration, Aggregate} \cup {Config(n) : n \in Numbers} \cup {Log(n) : n \in Numbers}
Names       == Required \cup {Report} \cup {Result(n) : n \in Numbers}

VARIABLES
    phase,     \* what the process of the team is at, or "idle"
    number,    \* the sub-game
    todo,      \* the files it is about to write, with their contents
    files,     \* the directory: contents by name, or None
    attempts,  \* how often each sub-game was played
    mail,      \* the contents of the mails handed to the mail service
    launches, faults

vars == <<phase, number, todo, files, attempts, mail, launches, faults>>

Init ==
    /\ phase = "idle" /\ number = 1 /\ todo = <<>>
    /\ files = [f \in Names |-> None] /\ attempts = [n \in Numbers |-> 0]
    /\ mail = <<>> /\ launches = 0 /\ faults = 0

Torn       == [form |-> "torn"]
Readable(f) == files[f] # None /\ files[f] # Torn

-----------------------------------------------------------------------------
(* Scores.                                                                 *)

RoleOf(n) == IF n % 2 = 1 THEN "thief" ELSE "police"

\* score_for
Points(outcome) ==
    CASE outcome = "capture"  -> [police |-> 20, thief |-> 5]
      [] outcome = "survival" -> [police |-> 5, thief |-> 10]
      [] OTHER                -> [police |-> 0, thief |-> 0]

Score(n, outcome) ==
    [g \in Groups |-> IF (g = "own") = (RoleOf(n) = "thief") THEN Points(outcome).thief
                      ELSE Points(outcome).police]

Sum(scores) == [g \in Groups |-> FoldFunction(LAMBDA s, total : s[g] + total, 0, scores)]

\* apply_tie_rule
WithTieRule(totals) ==
    IF totals["own"] = totals["peer"] THEN [g \in Groups |-> totals[g] + TieScore] ELSE totals

Leader(totals) ==
    IF totals["own"] = totals["peer"] THEN None
    ELSE CHOOSE g \in Groups : \A h \in Groups : totals[g] >= totals[h]

\* (Mutant) A tie is not credited.
FinalResultWithoutTie(scores) ==
    [totals |-> Sum(scores), winner |-> Leader(Sum(scores)),
     wins   |-> [g \in Groups |-> Cardinality({n \in Numbers : Leader(scores[n]) = g})]]

\* series_final_result
FinalResult(scores) ==
    [totals |-> WithTieRule(Sum(scores)), winner |-> Leader(Sum(scores)),
     wins   |-> [g \in Groups |-> Cardinality({n \in Numbers : Leader(scores[n]) = g})]]

-----------------------------------------------------------------------------
(* The coordinator and its children.                                       *)

\* _completed_result
Completed(n) == Readable(Result(n)) /\ files[Result(n)].signed /\ files[Log(n)] # None

ResumeAt ==
    CHOOSE n \in 1 .. NumGames + 1 :
        /\ \A k \in 1 .. n - 1 : Completed(k)
        /\ n = NumGames + 1 \/ ~Completed(n)

\* (Mutant) An aggregate on disk is not looked for.
LaunchAlways ==
    /\ phase = "idle" /\ launches < MaxLaunches
    /\ launches' = launches + 1
    /\ phase' = "negotiating"
    /\ number' = IF ResumeAt > NumGames THEN NumGames ELSE ResumeAt
    /\ UNCHANGED <<todo, files, attempts, mail, faults>>

\* run_series: nothing is left to do when every sub-game is signed and there is
\* an aggregate, whatever it says; without one the last sub-game is played again.
Launch ==
    /\ phase = "idle" /\ launches < MaxLaunches
    /\ launches' = launches + 1
    /\ IF ResumeAt > NumGames /\ files[Aggregate] # None
       THEN UNCHANGED <<phase, number>>
       ELSE phase' = "negotiating" /\ number' = IF ResumeAt > NumGames THEN NumGames ELSE ResumeAt
    /\ UNCHANGED <<todo, files, attempts, mail, faults>>

\* Go on with `next` when the files in `writes` are written.
Write(writes, next) == todo' = writes /\ phase' = next

Internal == [form |-> "internal"]

\* _write_pregame_files: what an earlier finalization made of them is lost.
Negotiate ==
    /\ phase = "negotiating" /\ todo = <<>> /\ attempts[number] < MaxAttempts
    /\ attempts' = [attempts EXCEPT ![number] = @ + 1]
    /\ Write(<<[name |-> Declaration, doc |-> Internal],
               [name |-> Config(number), doc |-> Internal]>>, "playing")
    /\ UNCHANGED <<number, files, mail, launches, faults>>

\* _combined_log: the records of both peers, as a list.
LogOf(p) == [form |-> "internal", attempt |-> attempts[number], records |-> p.records]

\* build_match_result
ResultOf(p) == [form |-> "internal", attempt |-> attempts[number], outcome |-> p.outcome,
                signed |-> p.signed, peer |-> p.peer, complete |-> p.complete]

\* _write_result: the log, then the result.
PlayGame ==
    /\ phase = "playing" /\ todo = <<>>
    /\ \E p \in Plays[number] :
          Write(<<[name |-> Log(number), doc |-> LogOf(p)],
                  [name |-> Result(number), doc |-> ResultOf(p)]>>, "played")
    /\ UNCHANGED <<number, files, attempts, mail, launches, faults>>

\* The child returns, signed or not; the last one goes on to the series.
EndGame ==
    /\ phase = "played" /\ todo = <<>>
    /\ IF number < NumGames THEN phase' = "negotiating" /\ number' = number + 1
       ELSE phase' = "finalizing" /\ UNCHANGED number
    /\ UNCHANGED <<todo, files, attempts, mail, launches, faults>>

-----------------------------------------------------------------------------
(* finalize_completed_series.                                              *)

Rows      == [n \in Numbers |-> files[Result(n)]]
Scores    == [n \in Numbers |-> Score(n, Rows[n].outcome)]
AllSigned == \A n \in Numbers : Rows[n].signed

\* Every result is there, and every sub-game was with the same peer.
Collectable ==
    /\ \A n \in Numbers : Readable(Result(n))
    /\ \A n \in Numbers : Rows[n].peer = Rows[1].peer

\* A RuntimeError: the child ends.
Uncollectable ==
    /\ phase = "finalizing" /\ todo = <<>> /\ ~Collectable
    /\ phase' = "idle"
    /\ UNCHANGED <<number, todo, files, attempts, mail, launches, faults>>

\* The aggregate in its first form, with what came of the exchange of digests.
Collect ==
    /\ phase = "finalizing" /\ todo = <<>> /\ Collectable
    /\ \E peerAgrees \in BOOLEAN :
          Write(<<[name |-> Aggregate, doc |->
                     [form |-> "internal", confirmed |-> AllSigned /\ peerAgrees,
                      totals |-> WithTieRule(Sum(Scores))]]>>, "bundling")
    /\ UNCHANGED <<number, files, attempts, mail, launches, faults>>

-----------------------------------------------------------------------------
(* finalize_submission_bundle.                                             *)

\* (Mutant) Only a list of records is read.
RecordsOfList(n) == IF files[Log(n)].form = "internal" THEN files[Log(n)].records ELSE <<>>

\* The records of a log in either form: earlier sub-games may have been
\* rewritten by a finalization that was not confirmed.
Records(n) == files[Log(n)].records

\* The sub-games before the first log that cannot be read.
Bundled == {n \in Numbers : \A k \in 1 .. n : Readable(Log(k))}

LogEnvelope(n) == [form |-> "envelope", attempt |-> files[Log(n)].attempt, records |-> Records(n)]

\* The series result in memory is the aggregate just written.
ResultEnvelope ==
    [form |-> "envelope", rows |-> Rows, final |-> FinalResult(Scores),
     confirmed |-> files[Aggregate].confirmed]

\* The i-th file of the bundle: the declaration, the configuration and the log
\* of each sub-game, the aggregate.
BundleFile(i) ==
    CASE i = 1 -> [name |-> Declaration, doc |-> [form |-> "envelope", complete |-> Rows[1].complete]]
      [] i = 2 * NumGames + 2 -> [name |-> Aggregate, doc |-> ResultEnvelope]
      [] OTHER -> IF i % 2 = 0 THEN [name |-> Config(i \div 2), doc |-> [form |-> "envelope"]]
                  ELSE [name |-> Log(i \div 2), doc |-> LogEnvelope(i \div 2)]

\* The code stops at the first log it cannot read, after the configuration of
\* that sub-game.
Bundle ==
    /\ phase = "bundling" /\ todo = <<>>
    /\ Write([i \in 1 .. 2 * Cardinality(Bundled) + 2 |-> BundleFile(i)],
             IF Bundled = Numbers THEN "bundled" ELSE "broken")
    /\ UNCHANGED <<number, files, attempts, mail, launches, faults>>

-----------------------------------------------------------------------------
(* validate_submission_directory.                                          *)

Envelope(f) == Readable(f) /\ files[f].form = "envelope"

\* A log that is still a list is neither read further nor an error.
Forged(n)    == \E i \in DOMAIN Records(n) : Records(n)[i] # "sound"
LogFaults(n) == Envelope(Log(n)) /\ Forged(n)

RowFaults == \E n \in Numbers : ~files[Aggregate].rows[n].complete

\* The totals are the sum of the rows with the credit of a tie, and the peer
\* has confirmed.
ResultFaults ==
    \/ ~Envelope(Aggregate) \/ RowFaults
    \/ files[Aggregate].final.totals #
          WithTieRule(Sum([n \in Numbers |-> Score(n, files[Aggregate].rows[n].outcome)]))
    \/ ~files[Aggregate].confirmed

\* (Mutant) A file that is there is taken to be readable.
ErrorsOfMissing ==
    IF ~Envelope(Declaration) THEN {Declaration}
    ELSE {f \in Required : files[f] = None}
         \cup {f \in {Config(n) : n \in Numbers} : Readable(f) /\ ~Envelope(f)}
         \cup (IF files[Declaration].complete THEN {} ELSE {Declaration})
         \cup (IF ResultFaults THEN {Aggregate} ELSE {})

\* The files with an error.
Errors ==
    IF ~Envelope(Declaration) THEN {Declaration}
    ELSE {f \in Required : ~Readable(f)}
         \cup {f \in {Config(n) : n \in Numbers} : Readable(f) /\ ~Envelope(f)}
         \cup {Log(n) : n \in {k \in Numbers : LogFaults(k)}}
         \cup (IF files[Declaration].complete THEN {} ELSE {Declaration})
         \cup (IF ResultFaults THEN {Aggregate} ELSE {})

\* SubmissionBundleError: the errors are saved, nothing is sent.
Reject ==
    /\ todo = <<>>
    /\ phase = "broken" \/ (phase = "bundled" /\ Errors # {})
    /\ Write(<<[name |-> Report, doc |-> [form |-> "report", errors |-> Errors]]>>, "rejected")
    /\ UNCHANGED <<number, files, attempts, mail, launches, faults>>

\* A valid bundle: the aggregate is mailed, or only kept.  What the gates and
\* the mail service do with it is in Gatekeeper.
Submit ==
    /\ phase = "bundled" /\ todo = <<>> /\ Errors = {}
    /\ mail' = IF Real THEN Append(mail, files[Aggregate]) ELSE mail
    /\ phase' = "submitted"
    /\ UNCHANGED <<number, todo, files, attempts, launches, faults>>

\* The last child returns, and so does run_series.
Return ==
    /\ phase \in {"rejected", "submitted"} /\ todo = <<>>
    /\ phase' = "idle"
    /\ UNCHANGED <<number, todo, files, attempts, mail, launches, faults>>

-----------------------------------------------------------------------------
WriteNext ==
    /\ todo # <<>>
    /\ files' = [files EXCEPT ![Head(todo).name] = Head(todo).doc]
    /\ todo' = Tail(todo)
    /\ UNCHANGED <<phase, number, attempts, mail, launches, faults>>

\* A game that ends with an exception leaves its pregame files.
Fail ==
    /\ phase = "playing" /\ todo = <<>> /\ faults < MaxFaults
    /\ faults' = faults + 1 /\ phase' = "idle"
    /\ UNCHANGED <<number, todo, files, attempts, mail, launches>>

\* The process dies; the file being written may be torn.
Crash ==
    /\ phase # "idle" /\ faults < MaxFaults
    /\ faults' = faults + 1 /\ phase' = "idle" /\ todo' = <<>>
    /\ \/ UNCHANGED files
       \/ todo # <<>> /\ files' = [files EXCEPT ![Head(todo).name] = Torn]
    /\ UNCHANGED <<number, attempts, mail, launches>>

Finalization == Uncollectable \/ Collect \/ Bundle \/ Reject \/ Submit \/ Return

ProcessStep == Negotiate \/ PlayGame \/ EndGame \/ Finalization \/ WriteNext

Next == Launch \/ ProcessStep \/ Fail \/ Crash

Spec == Init /\ [][Next]_vars

\* A running process goes on; nothing makes the operator launch it.
FairSpec == Spec /\ WF_vars(ProcessStep)

-----------------------------------------------------------------------------
\* What is mailed was valid, and is what the directory holds: every file is an
\* envelope, every sub-game was signed and with its records, and the points are
\* those of the outcomes.  Only a process that died in a replay leaves a log of
\* another game than the result beside it (submission_validate.py:36-151).
MailTellsTheSeries ==
    mail # <<>> =>
        /\ \A f \in Required : Envelope(f)
        /\ files[Aggregate] = mail[Len(mail)] /\ files[Aggregate].confirmed
        /\ \A n \in Numbers :
              /\ Completed(n) /\ files[Aggregate].rows[n] = files[Result(n)]
              /\ \/ files[Log(n)].attempt = files[Result(n)].attempt /\ Records(n) # <<>>
                 \/ faults > 0
        /\ LET won(g) == {n \in Numbers : \A h \in Groups \ {g} :
                              Score(n, Rows[n].outcome)[g] > Score(n, Rows[n].outcome)[h]}
           IN \A g \in Groups : files[Aggregate].final.wins[g] = Cardinality(won(g))

\* A series is mailed once, and nothing of it is written afterwards, however
\* often the coordinator is launched (series_coordinator.py:83-92).
MailIsFinal == [][mail # <<>> => UNCHANGED <<files, mail>>]_vars

\* A bundle that is not submitted leaves a report that names a file, and every
\* file that cannot be read or has a record that does not verify
\* (network_match.py:1945-1953).
RejectionIsExplained ==
    phase = "rejected" /\ todo = <<>> =>
        /\ files[Report].errors # {}
        /\ \A f \in Required : ~Readable(f) => f \in files[Report].errors
        /\ \A n \in Numbers : Envelope(Log(n)) /\ Forged(n) => Log(n) \in files[Report].errors

\* A series the peer has confirmed is submitted unless its process dies, a log
\* is torn or forged, or an identity lacks a field (network_match.py:1935-1960).
ConfirmedIsSubmitted ==
    \A k \in 0 .. MaxFaults :
        (/\ phase = "bundling" /\ todo = <<>> /\ files[Aggregate].confirmed
         /\ \A n \in Numbers : Rows[n].complete /\ Readable(Log(n)) /\ ~Forged(n)
         /\ faults = k)
        ~> (phase = "submitted" \/ faults > k)
===============================================================================
