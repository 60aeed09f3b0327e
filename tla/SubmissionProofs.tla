--------------------------- MODULE SubmissionProofs ---------------------------
(***************************************************************************)
(* Theorems about the directory of a series for every number of sub-games, *)
(* whatever they come to and however often a process fails, dies within a  *)
(* file or is launched again, with the replay viewer opened in between:    *)
(* what is mailed tells the series, nothing is written after it, and what  *)
(* is not mailed is explained.                                             *)
(***************************************************************************)
EXTENDS ReplayViewer, SequenceTheorems, FiniteSetTheorems, WellFoundedInduction, TLAPS

-----------------------------------------------------------------------------
(* The inductive invariant.                                                *)

\* A result as it is recorded.
ResultFile ==
    [form : {"internal"}, attempt : Nat, outcome : {"capture", "survival", "technical_loss"},
     signed : BOOLEAN, peer : STRING, complete : BOOLEAN]

Phases == {"idle", "negotiating", "playing", "played", "finalizing", "bundling", "bundled",
           "broken", "rejected", "submitted"}

\* In these phases a process writes nothing.
Quiet == {"idle", "negotiating", "finalizing", "submitted"}

LastWrite == todo[Len(todo)]

\* The aggregate that is on its way, or else the one on disk.
Newest == IF todo = <<>> THEN files[Aggregate] ELSE LastWrite.doc

\* The sub-games each group won, as the results tell.
Wins == [g \in Groups |-> Cardinality({n \in Numbers : Leader(Scores[n]) = g})]

ToWrite(f) == \E i \in DOMAIN todo : todo[i].name = f

IsList == \E D : todo \in Seq(D)

ShapeInv ==
    /\ phase \in Phases /\ number \in Numbers
    /\ DOMAIN files = Names /\ attempts \in [Numbers -> Nat] /\ faults \in Nat
    /\ phase \in Quiet => todo = <<>>
    /\ \A n \in Numbers : Readable(Result(n)) => files[Result(n)] \in ResultFile

\* A log with a result of the same game.
Belongs(l, r) == l.attempt = r.attempt /\ (r.signed => l.records # <<>>)

\* A game: its pregame files, then the log and the result.
GameInv ==
    /\ phase = "playing" =>
         \A i \in DOMAIN todo : todo[i].name \in {Declaration, Config(number)}
    /\ phase = "played" =>
         /\ Len(todo) <= 2
         /\ \A i \in DOMAIN todo :
               todo[i].name = IF i = Len(todo) THEN Result(number) ELSE Log(number)
         /\ todo # <<>> =>
               /\ LastWrite.doc \in ResultFile
               /\ Belongs(IF Len(todo) = 2 THEN todo[1].doc ELSE files[Log(number)], LastWrite.doc)

\* Without a failure or a crash, the log and the result of a sub-game are of
\* one game, but while the two are being written.
PairInv ==
    faults = 0 =>
        \A n \in Numbers :
            \/ Readable(Result(n)) => Belongs(files[Log(n)], files[Result(n)])
            \/ phase = "played" /\ n = number /\ todo # <<>>

\* An aggregate in its first form, and the results it was made of.
Collected ==
    /\ \A n \in Numbers : Readable(Result(n))
    /\ Newest.confirmed => AllSigned

\* What is left to write of a bundle: a log keeps its records.
BundleWrites ==
    /\ \A i \in DOMAIN todo :
          /\ \/ todo[i].name = Declaration /\ todo[i].doc \in DeclarationFile
             \/ todo[i].name = Aggregate /\ i = Len(todo) /\ phase = "bundled"
             \/ \E n \in Numbers : todo[i].name = Config(n)
             \/ \E n \in Numbers :
                   /\ todo[i].name = Log(n) /\ todo[i].doc.form = "envelope"
                   /\ todo[i].doc.attempt = files[Log(n)].attempt
                   /\ todo[i].doc.records = files[Log(n)].records
    /\ ToWrite(Declaration) \/ files[Declaration] \in DeclarationFile

BundleInv ==
    /\ phase = "bundling" =>
         Collected /\ Len(todo) <= 1 /\ (todo # <<>> => todo[1].name = Aggregate)
    /\ phase \in {"bundled", "broken"} => BundleWrites
    /\ phase = "bundled" =>
         /\ Collected
         /\ todo # <<>> => LastWrite.name = Aggregate
         /\ \A n \in Numbers : ToWrite(Log(n)) \/ files[Log(n)].form = "envelope"
         /\ Newest.rows = Rows /\ Newest.final.wins = Wins
    /\ phase = "broken" => \E n \in Numbers : ~Readable(Log(n)) /\ ~ToWrite(Log(n))

\* What a report has to name.
Explains(errors) ==
    /\ errors # {}
    /\ \A f \in Required : ~Readable(f) => f \in errors
    /\ \A n \in Numbers : Envelope(Log(n)) /\ Forged(n) => Log(n) \in errors

ReportInv ==
    phase = "rejected" =>
        /\ Explains((IF todo = <<>> THEN files[Report] ELSE LastWrite.doc).errors)
        /\ Len(todo) <= 1 /\ (todo # <<>> => LastWrite.name = Report)

\* A series that is mailed is left alone.
MailInv ==
    /\ mail # <<>> => phase \in {"submitted", "idle"} /\ mail = <<files[Aggregate]>>
    /\ MailTellsTheSeries

IInv == IsList /\ ShapeInv /\ GameInv /\ PairInv /\ BundleInv /\ ReportInv /\ MailInv

-----------------------------------------------------------------------------
(* Names, results and writes.                                              *)

LEMMA NameFacts ==
    /\ Declaration \in Required /\ Aggregate \in Required
    /\ \A n \in Numbers : Config(n) \in Required /\ Log(n) \in Required /\ Result(n) \in Names
    /\ Required \subseteq Names /\ Report \in Names /\ Report \notin Required
    /\ \A n \in Numbers : Result(n) \notin Required /\ Result(n) # Report
    /\ \A n, m \in Numbers : Result(n) = Result(m) => n = m
    /\ \A n, m \in Numbers : Log(n) = Log(m) => n = m
    /\ \A n, m \in Numbers : Log(n) # Config(m)
    /\ \A n \in Numbers : Log(n) # Declaration /\ Log(n) # Aggregate
    /\ \A n \in Numbers : Config(n) # Declaration /\ Config(n) # Aggregate
    /\ Declaration # Aggregate
<1>1. \A n \in Numbers : n # 0
  BY BundleAssumption DEF Numbers
<1>2. \A n, m \in Numbers : Log(n) # Config(m) /\ Log(n) # Aggregate /\ Config(n) # Aggregate
  BY DEF Log, Config, Aggregate, Result
<1>3. \A n \in Numbers : Log(n) # Declaration /\ Config(n) # Declaration
  BY DEF Log, Config, Declaration
<1>4. /\ \A n, m \in Numbers : Result(n) = Result(m) => n = m
      /\ \A n, m \in Numbers : Log(n) = Log(m) => n = m
      /\ Declaration # Aggregate
  BY DEF Log, Result, Declaration, Aggregate
<1>5. \A n \in Numbers : /\ Result(n) # Report /\ Result(n) # Declaration /\ Result(n) # Aggregate
                         /\ \A m \in Numbers : Result(n) # Config(m) /\ Result(n) # Log(m)
  BY <1>1 DEF Result, Report, Declaration, Aggregate, Config, Log
<1>6. /\ Report # Declaration /\ Report # Aggregate
      /\ \A m \in Numbers : Report # Config(m) /\ Report # Log(m)
  BY DEF Result, Report, Declaration, Aggregate, Config, Log
<1> QED BY <1>2, <1>3, <1>4, <1>5, <1>6 DEF Required, Names

\* What is told of the results when no result is written.
LEMMA ResultsStay ==
    ASSUME \A n \in Numbers : files'[Result(n)] = files[Result(n)]
    PROVE  /\ Rows' = Rows /\ Wins' = Wins /\ AllSigned' = AllSigned
           /\ \A n \in Numbers : Readable(Result(n))' = Readable(Result(n))
<1>1. Rows' = Rows
  BY DEF Rows
<1>2. Scores' = Scores
  BY <1>1 DEF Scores
<1> QED BY <1>1, <1>2 DEF Wins, AllSigned, Readable

LEMMA ListFacts ==
    ASSUME IsList
    PROVE  /\ Len(todo) \in Nat /\ DOMAIN todo = 1 .. Len(todo)
           /\ todo = <<>> <=> Len(todo) = 0
<1>1. PICK D : todo \in Seq(D)
  BY DEF IsList
<1> QED BY <1>1, LenProperties, EmptySeq

\* A list of one or two files.
LEMMA ListOfOne ==
    ASSUME NEW a, todo' = <<a>>
    PROVE  /\ IsList' /\ Len(todo') = 1 /\ DOMAIN todo' = {1} /\ todo' # <<>>
           /\ todo'[1] = a /\ LastWrite' = a
<1>1. <<a>> \in Seq({a}) /\ Len(<<a>>) = 1 /\ <<a>>[1] = a
  OBVIOUS
<1>2. DOMAIN <<a>> = {1}
  BY <1>1, LenProperties, 1 .. 1 = {1}
<1>3. IsList'
  BY <1>1 DEF IsList
<1> QED BY <1>1, <1>2, <1>3 DEF LastWrite

LEMMA ListOfTwo ==
    ASSUME NEW a, NEW b, todo' = <<a, b>>
    PROVE  /\ IsList' /\ Len(todo') = 2 /\ DOMAIN todo' = {1, 2} /\ todo' # <<>>
           /\ todo'[1] = a /\ todo'[2] = b /\ LastWrite' = b
<1>1. <<a, b>> \in Seq({a, b}) /\ Len(<<a, b>>) = 2 /\ <<a, b>>[1] = a /\ <<a, b>>[2] = b
  OBVIOUS
<1>2. DOMAIN <<a, b>> = {1, 2}
  BY <1>1, LenProperties, 1 .. 2 = {1, 2}
<1>3. IsList'
  BY <1>1 DEF IsList
<1> QED BY <1>1, <1>2, <1>3 DEF LastWrite

LEMMA EmptyList ==
    ASSUME todo' = <<>>
    PROVE  IsList' /\ Len(todo') = 0 /\ DOMAIN todo' = {}
<1>1. <<>> \in Seq({}) /\ Len(<<>>) = 0 /\ DOMAIN <<>> = {}
  BY EmptySeq
<1> QED BY <1>1 DEF IsList

\* The first file of the list is written, and the rest remains.
LEMMA WriteFacts ==
    ASSUME IsList, DOMAIN files = Names, WriteNext
    PROVE  /\ IsList' /\ DOMAIN files' = Names
           /\ Len(todo) \in Nat \ {0} /\ DOMAIN todo = 1 .. Len(todo)
           /\ Len(todo') = Len(todo) - 1 /\ DOMAIN todo' = 1 .. Len(todo) - 1
           /\ \A i \in DOMAIN todo' : i + 1 \in DOMAIN todo /\ todo'[i] = todo[i + 1]
           /\ \A f \in Names : files'[f] = IF f = todo[1].name THEN todo[1].doc ELSE files[f]
           /\ todo' = <<>> => Len(todo) = 1 /\ LastWrite = todo[1]
           /\ todo' # <<>> => LastWrite' = LastWrite /\ Len(todo) > 1
           /\ \A f : ToWrite(f)' => ToWrite(f)
           /\ \A f : f # todo[1].name => (ToWrite(f)' <=> ToWrite(f))
<1>1. PICK D : todo \in Seq(D)
  BY DEF IsList
<1>2. /\ todo # <<>> /\ todo' = Tail(todo)
      /\ files' = [files EXCEPT ![Head(todo).name] = Head(todo).doc]
  BY DEF WriteNext
<1>3. Len(todo) \in Nat \ {0} /\ DOMAIN todo = 1 .. Len(todo) /\ Head(todo) = todo[1]
  BY <1>1, <1>2, LenProperties, EmptySeq
<1>4. /\ todo' \in Seq(D) /\ Len(todo') = Len(todo) - 1
      /\ \A i \in 1 .. Len(todo') : todo'[i] = todo[i + 1]
  BY <1>1, <1>2, HeadTailProperties
<1>5. DOMAIN todo' = 1 .. Len(todo) - 1 /\ (todo' = <<>> <=> Len(todo') = 0)
  BY <1>4, LenProperties, EmptySeq
<1>6. \A i \in DOMAIN todo' : i + 1 \in DOMAIN todo /\ todo'[i] = todo[i + 1]
  BY <1>3, <1>4, <1>5
<1>7. todo' # <<>> => LastWrite' = LastWrite /\ Len(todo) > 1
  BY <1>3, <1>4, <1>5 DEF LastWrite
<1>8. \A f : ToWrite(f)' => ToWrite(f)
  BY <1>6 DEF ToWrite
<1>9. ASSUME NEW f, f # todo[1].name, ToWrite(f) PROVE ToWrite(f)'
  <2>1. PICK i \in 2 .. Len(todo) : todo[i].name = f
    BY <1>3, <1>9 DEF ToWrite
  <2>2. i - 1 \in DOMAIN todo' /\ todo'[i - 1] = todo[i]
    BY <1>3, <1>5, <1>6
  <2> QED BY <2>1, <2>2 DEF ToWrite
<1>10. /\ DOMAIN files' = Names
       /\ \A f \in Names : files'[f] = IF f = todo[1].name THEN todo[1].doc ELSE files[f]
  BY <1>2, <1>3
<1>11. IsList'
  BY <1>4 DEF IsList
<1>12. todo' = <<>> => Len(todo) = 1 /\ LastWrite = todo[1]
  BY <1>3, <1>4, <1>5 DEF LastWrite
<1> QED BY <1>3, <1>4, <1>5, <1>6, <1>7, <1>8, <1>9, <1>10, <1>11, <1>12

-----------------------------------------------------------------------------
(* Steps that write nothing.                                               *)

LEMMA FilesStay ==
    ASSUME UNCHANGED files
    PROVE  /\ \A f : (Readable(f)' <=> Readable(f)) /\ (Envelope(f)' <=> Envelope(f))
           /\ \A n \in Numbers : Records(n)' = Records(n) /\ (Completed(n)' <=> Completed(n))
           /\ \A n \in Numbers : Forged(n)' <=> Forged(n)
           /\ Rows' = Rows /\ Wins' = Wins /\ AllSigned' = AllSigned
BY ResultsStay DEF Readable, Envelope, Records, Completed, Forged

LEMMA MailStays ==
    ASSUME MailTellsTheSeries, UNCHANGED <<mail, files>>, faults > 0 => faults' > 0
    PROVE  MailTellsTheSeries'
BY FilesStay DEF MailTellsTheSeries

LEMMA NoMail == mail' = <<>> => MailInv'
BY DEF MailInv, MailTellsTheSeries

\* A process that ends, starts or goes on without a file to write.
LEMMA RestStep ==
    ASSUME IInv, UNCHANGED <<files, mail>>, todo' = <<>>, phase' \in Quiet,
           number' \in Numbers, attempts' \in [Numbers -> Nat], faults' \in Nat,
           faults <= faults', faults' = 0 => phase # "played" \/ todo = <<>>,
           mail # <<>> => phase' \in {"submitted", "idle"}
    PROVE  IInv'
<1>1. IsList' /\ faults \in Nat
  BY EmptyList DEF IInv, ShapeInv
<1>2. phase' \in Phases /\ phase' \notin {"playing", "played", "bundling", "bundled", "broken", "rejected"}
  BY DEF Quiet, Phases
<1>3. ShapeInv'
  BY <1>1, <1>2, FilesStay DEF IInv, ShapeInv
<1>4. GameInv' /\ BundleInv' /\ ReportInv'
  BY <1>2 DEF GameInv, BundleInv, ReportInv
<1>5. PairInv'
  <2> SUFFICES ASSUME faults' = 0, NEW n \in Numbers
               PROVE  Readable(Result(n))' => Belongs(files[Log(n)], files[Result(n)])'
    BY DEF PairInv
  <2>1. faults = 0 /\ ~(phase = "played" /\ todo # <<>>)
    BY <1>1
  <2> QED BY <2>1, FilesStay DEF IInv, PairInv, Belongs
<1>6. MailInv'
  BY <1>1, MailStays DEF IInv, MailInv
<1> QED BY <1>1, <1>3, <1>4, <1>5, <1>6 DEF IInv

\* A process that is not done yet has mailed nothing.
LEMMA MailIsLast == IInv /\ phase \notin {"submitted", "idle"} => mail = <<>>
BY DEF IInv, MailInv

\* A set of numbers that is not empty has a least element.
LEMMA LeastNumber ==
    ASSUME NEW S \in SUBSET Nat, S # {}
    PROVE  \E n \in S : \A m \in S : n <= m
<1>1. IsWellFoundedOn(OpToRel(<, Nat), Nat)
  BY NatLessThanWellFounded
<1>2. PICK n \in S : \A m \in S : <<m, n>> \notin OpToRel(<, Nat)
  BY <1>1, WFMin
<1>3. \A m \in S : ~(m < n)
  BY <1>2 DEF OpToRel
<1> QED BY <1>3

\* The first sub-game with a property, or the end of the series.
LEMMA FirstNumber ==
    ASSUME NEW S \in SUBSET Numbers
    PROVE  \E n \in 1 .. NumGames + 1 :
             (\A k \in 1 .. n - 1 : k \notin S) /\ (n = NumGames + 1 \/ n \in S)
<1> DEFINE T == S \cup {NumGames + 1}
<1>1. T \in SUBSET Nat /\ T # {}
  BY BundleAssumption DEF Numbers
<1>2. PICK n \in T : \A m \in T : n <= m
  BY <1>1, LeastNumber, Zenon
<1>3. n \in 1 .. NumGames + 1
  BY BundleAssumption DEF Numbers
<1>4. ASSUME NEW k \in 1 .. n - 1 PROVE k \notin S
  BY <1>2, <1>3, <1>4
<1> QED BY <1>3, <1>4

LEMMA ResumeFacts ==
    /\ ResumeAt \in 1 .. NumGames + 1
    /\ (\A n \in Numbers : Completed(n)) => ResumeAt > NumGames
<1> DEFINE Resume(n) == /\ \A k \in 1 .. n - 1 : Completed(k)
                        /\ n = NumGames + 1 \/ ~Completed(n)
           S == {k \in Numbers : ~Completed(k)}
<1>1. PICK n \in 1 .. NumGames + 1 :
        (\A k \in 1 .. n - 1 : k \notin S) /\ (n = NumGames + 1 \/ n \in S)
  BY FirstNumber
<1>2. Resume(n)
  BY <1>1, BundleAssumption DEF Numbers
<1>3. ResumeAt \in 1 .. NumGames + 1 /\ Resume(ResumeAt)
  <2> HIDE DEF Resume
  <2>1. ResumeAt = CHOOSE m \in 1 .. NumGames + 1 : Resume(m)
    BY DEF ResumeAt, Resume
  <2> QED BY <1>2, <2>1
<1> QED BY <1>3, BundleAssumption DEF Numbers

LEMMA LaunchStep == IInv /\ Launch => IInv'
<1> SUFFICES ASSUME IInv, Launch PROVE IInv'
  OBVIOUS
<1>1. /\ phase = "idle" /\ todo = <<>> /\ faults \in Nat /\ number \in Numbers
      /\ attempts \in [Numbers -> Nat]
      /\ UNCHANGED <<todo, files, attempts, mail, faults>>
  BY DEF Launch, IInv, ShapeInv, Quiet
<1>2. number' \in Numbers /\ phase' \in Quiet
  BY <1>1, ResumeFacts, BundleAssumption DEF Launch, Numbers, Quiet
<1>3. mail # <<>> => ResumeAt > NumGames /\ files[Aggregate] # None
  BY ResumeFacts, NameFacts DEF IInv, MailInv, MailTellsTheSeries, Envelope, Readable
<1>4. mail # <<>> => phase' = "idle"
  BY <1>1, <1>3 DEF Launch
<1> QED BY <1>1, <1>2, <1>4, RestStep

LEMMA RestsStep == IInv /\ (EndGame \/ Uncollectable \/ Return \/ Fail) => IInv'
<1> SUFFICES ASSUME IInv, EndGame \/ Uncollectable \/ Return \/ Fail PROVE IInv'
  OBVIOUS
<1>1. /\ faults \in Nat /\ number \in Numbers /\ attempts \in [Numbers -> Nat]
      /\ NumGames \in Nat
  BY BundleAssumption DEF IInv, ShapeInv
<1>2. /\ UNCHANGED <<files, mail, attempts>> /\ todo' = <<>> /\ todo = <<>>
      /\ faults' \in {faults, faults + 1} /\ phase' \in Quiet
  BY <1>1 DEF EndGame, Uncollectable, Return, Fail, Quiet
<1>3. number' \in Numbers
  BY <1>1 DEF EndGame, Uncollectable, Return, Fail, Numbers
<1>4. mail # <<>> => phase' = "idle"
  BY DEF EndGame, Uncollectable, Return, Fail, IInv, MailInv
<1> QED BY <1>1, <1>2, <1>3, <1>4, RestStep

-----------------------------------------------------------------------------
(* Steps that decide what is to be written.                                *)

\* The files are as they were, nothing is mailed, and a list is set up.
LEMMA PlanStep ==
    ASSUME IInv, UNCHANGED <<number, files, mail, faults>>, phase \notin {"idle", "submitted"},
           todo = <<>>, IsList', phase' \in Phases \ Quiet, attempts' \in [Numbers -> Nat],
           GameInv', BundleInv', ReportInv'
    PROVE  IInv'
<1>1. ShapeInv'
  BY FilesStay DEF IInv, ShapeInv
<1>2. PairInv'
  <2> SUFFICES ASSUME faults = 0, NEW n \in Numbers
               PROVE  Readable(Result(n))' => Belongs(files[Log(n)], files[Result(n)])'
    BY DEF PairInv
  <2> QED BY FilesStay DEF IInv, PairInv, Belongs
<1>3. MailInv'
  BY NoMail, MailIsLast
<1> QED BY <1>1, <1>2, <1>3 DEF IInv

LEMMA NegotiateStep == IInv /\ Negotiate => IInv'
<1> SUFFICES ASSUME IInv, Negotiate PROVE IInv'
  OBVIOUS
<1> DEFINE a == [name |-> Declaration, doc |-> Internal]
           b == [name |-> Config(number), doc |-> Internal]
<1>1. /\ todo' = <<a, b>> /\ phase' = "playing" /\ phase = "negotiating" /\ todo = <<>>
      /\ UNCHANGED <<number, files, mail, faults>>
      /\ attempts' = [attempts EXCEPT ![number] = @ + 1]
  BY DEF Negotiate, Write
<1>2. a.name = Declaration /\ b.name = Config(number)
  OBVIOUS
<1> HIDE DEF a, b
<1>3. IsList' /\ DOMAIN todo' = {1, 2} /\ todo'[1] = a /\ todo'[2] = b
  BY <1>1, ListOfTwo
<1>4. \A i \in DOMAIN todo' : todo'[i].name \in {Declaration, Config(number)}
  BY <1>2, <1>3
<1>5. Config(number)' = Config(number)
  BY <1>1 DEF Config
<1>6. GameInv' /\ BundleInv' /\ ReportInv'
  BY <1>1, <1>4, <1>5 DEF GameInv, BundleInv, ReportInv
<1>7. attempts' \in [Numbers -> Nat]
  BY <1>1 DEF IInv, ShapeInv
<1>8. phase' \in Phases \ Quiet
  BY <1>1 DEF Phases, Quiet
<1> QED BY <1>1, <1>3, <1>6, <1>7, <1>8, PlanStep

LEMMA PlayGameStep == IInv /\ PlayGame => IInv'
<1> SUFFICES ASSUME IInv, PlayGame PROVE IInv'
  OBVIOUS
<1>1. PICK p \in Plays[number] :
        /\ todo' = <<[name |-> Log(number), doc |-> LogOf(p)],
                     [name |-> Result(number), doc |-> ResultOf(p)]>>
        /\ phase' = "played"
  BY DEF PlayGame, Write
<1>2. /\ phase = "playing" /\ todo = <<>>
      /\ UNCHANGED <<number, files, attempts, mail, faults>>
  BY DEF PlayGame
<1>3. number \in Numbers /\ attempts \in [Numbers -> Nat] /\ attempts[number] \in Nat
  BY DEF IInv, ShapeInv
<1>4. p \in Play /\ (p.signed => p.records # <<>>)
  BY <1>3, BundleAssumption DEF Numbers
<1>5. /\ ResultOf(p) \in ResultFile /\ ResultOf(p).attempt = attempts[number]
      /\ ResultOf(p).signed = p.signed
  BY <1>3, <1>4 DEF ResultOf, ResultFile, Play
<1>6. LogOf(p).attempt = attempts[number] /\ LogOf(p).records = p.records
  BY DEF LogOf
<1>7. Belongs(LogOf(p), ResultOf(p))
  BY <1>4, <1>5, <1>6 DEF Belongs
<1> DEFINE l == LogOf(p)
           r == ResultOf(p)
           a == [name |-> Log(number), doc |-> l]
           b == [name |-> Result(number), doc |-> r]
<1>8. a.name = Log(number) /\ a.doc = l /\ b.name = Result(number) /\ b.doc = r
  OBVIOUS
<1>9. todo' = <<a, b>>
  BY <1>1
<1> HIDE DEF a, b, l, r
<1>10. /\ IsList' /\ Len(todo') = 2 /\ DOMAIN todo' = {1, 2} /\ todo'[1] = a /\ todo'[2] = b
       /\ LastWrite' = b
  BY <1>9, ListOfTwo
<1>11. /\ Log(number)' = Log(number) /\ Result(number)' = Result(number)
  BY <1>2 DEF Log, Result
<1>12. \A i \in DOMAIN todo' :
         todo'[i].name = IF i = Len(todo') THEN Result(number) ELSE Log(number)
  BY <1>8, <1>10
<1>13. LastWrite'.doc \in ResultFile /\ Belongs(todo'[1].doc, LastWrite'.doc)
  BY <1>5, <1>7, <1>8, <1>10 DEF l, r
<1>14. GameInv'
  BY <1>1, <1>10, <1>11, <1>12, <1>13 DEF GameInv, Belongs
<1>15. BundleInv' /\ ReportInv' /\ phase' \in Phases \ Quiet
  BY <1>1 DEF BundleInv, ReportInv, Phases, Quiet
<1>16. ShapeInv'
  BY <1>2, <1>3, <1>15, FilesStay DEF IInv, ShapeInv
<1>17. PairInv'
  <2> SUFFICES ASSUME faults = 0, NEW n \in Numbers, n # number
               PROVE  Readable(Result(n))' => Belongs(files[Log(n)], files[Result(n)])'
    BY <1>1, <1>2, <1>9, <1>10, ListOfTwo DEF PairInv
  <2> QED BY <1>2, FilesStay DEF IInv, PairInv, Belongs
<1>18. MailInv'
  BY <1>2, NoMail, MailIsLast
<1> QED BY <1>10, <1>14, <1>15, <1>16, <1>17, <1>18 DEF IInv

LEMMA CollectStep == IInv /\ Collect => IInv'
<1> SUFFICES ASSUME IInv, Collect PROVE IInv'
  OBVIOUS
<1>1. PICK peerAgrees \in BOOLEAN :
        /\ todo' = <<[name |-> Aggregate, doc |->
                        [form |-> "internal", confirmed |-> AllSigned /\ peerAgrees,
                         totals |-> WithTieRule(Sum(Scores))]]>>
        /\ phase' = "bundling"
  BY DEF Collect, Write
<1>2. /\ phase = "finalizing" /\ todo = <<>> /\ Collectable
      /\ UNCHANGED <<number, files, attempts, mail, faults>>
  BY DEF Collect
<1> DEFINE a == [name |-> Aggregate, doc |->
                   [form |-> "internal", confirmed |-> AllSigned /\ peerAgrees,
                    totals |-> WithTieRule(Sum(Scores))]]
<1>3. todo' = <<a>> /\ a.name = Aggregate /\ (a.doc.confirmed => AllSigned)
  BY <1>1
<1> HIDE DEF a
<1>4. IsList' /\ Len(todo') = 1 /\ todo' # <<>> /\ todo'[1] = a /\ LastWrite' = a
  BY <1>3, ListOfOne
<1>5. Newest' = a.doc
  BY <1>4 DEF Newest
<1>6. \A n \in Numbers : Readable(Result(n))
  BY <1>2 DEF Collectable
<1>7. Collected'
  BY <1>2, <1>3, <1>5, <1>6, FilesStay DEF Collected
<1>8. GameInv' /\ BundleInv' /\ ReportInv' /\ phase' \in Phases \ Quiet
  BY <1>1, <1>3, <1>4, <1>7 DEF GameInv, BundleInv, ReportInv, Phases, Quiet, Aggregate, Result
<1>9. attempts' \in [Numbers -> Nat]
  BY <1>2 DEF IInv, ShapeInv
<1> QED BY <1>2, <1>4, <1>8, <1>9, PlanStep

\* Half of a number.
LEMMA Halves ==
    ASSUME NEW i \in Nat
    PROVE  \E h \in Nat, m \in {0, 1} : h = i \div 2 /\ m = i % 2 /\ i = 2 * h + m
<1>1. i \div 2 \in Int /\ i \div 2 >= 0
  OBVIOUS
<1>2. PICK h \in Nat : h = i \div 2
  BY <1>1
<1>3. 2 * (i \div 2) <= i /\ i <= 2 * (i \div 2) + 1
  OBVIOUS
<1>4. i = 2 * h \/ i = 2 * h + 1
  BY <1>2, <1>3
<1>5. (2 * h) % 2 = 0 /\ (2 * h + 1) % 2 = 1
  OBVIOUS
<1>6. \E m \in {0, 1} : m = i % 2 /\ i = 2 * h + m
  BY <1>4, <1>5
<1> QED BY <1>2, <1>6

\* The sub-games whose logs are put into envelopes are the first ones.
LEMMA BundledFacts ==
    \E b \in 0 .. NumGames :
        /\ Bundled = 1 .. b /\ Cardinality(Bundled) = b
        /\ \A n \in 1 .. b : Readable(Log(n))
        /\ Bundled = Numbers <=> b = NumGames
        /\ b = NumGames \/ ~Readable(Log(b + 1))
<1> DEFINE S == {n \in Numbers : ~Readable(Log(n))}
<1>0. NumGames \in Nat /\ Numbers = 1 .. NumGames
  BY BundleAssumption DEF Numbers
<1>1. PICK n \in 1 .. NumGames + 1 :
        (\A k \in 1 .. n - 1 : k \notin S) /\ (n = NumGames + 1 \/ n \in S)
  BY FirstNumber
<1>2. PICK b \in 0 .. NumGames : n = b + 1
  <2>1. n - 1 \in 0 .. NumGames /\ n = (n - 1) + 1
    BY <1>0
  <2> QED BY <2>1
<1>3. \A k \in 1 .. b : Readable(Log(k))
  BY <1>0, <1>1, <1>2
<1>4. b = NumGames \/ ~Readable(Log(b + 1))
  BY <1>0, <1>1, <1>2
<1>5. Bundled = 1 .. b
  <2>1. ASSUME NEW k \in 1 .. b PROVE k \in Bundled
    <3>1. k \in Numbers /\ \A j \in 1 .. k : j \in 1 .. b
      BY <1>0, <2>1
    <3> QED BY <1>3, <3>1 DEF Bundled
  <2>2. ASSUME NEW k \in Bundled PROVE k \in 1 .. b
    <3>1. k \in Numbers /\ \A j \in 1 .. k : Readable(Log(j))
      BY DEF Bundled
    <3>2. ~(b + 1 \in 1 .. k)
      BY <1>0, <1>4, <3>1
    <3> QED BY <1>0, <3>1, <3>2
  <2> QED BY <2>1, <2>2
<1>6. Cardinality(1 .. b) = b
  BY <1>0, FS_Interval
<1>7. 1 .. b = Numbers <=> b = NumGames
  <2>1. ASSUME 1 .. b = Numbers, b # NumGames PROVE FALSE
    <3>1. NumGames \in Numbers /\ NumGames \notin 1 .. b
      BY <1>0, <2>1, BundleAssumption
    <3> QED BY <2>1, <3>1
  <2> QED BY <1>0, <2>1
<1> QED BY <1>3, <1>4, <1>5, <1>6, <1>7

\* The files of a bundle, one by one.
LEMMA FileFacts ==
    ASSUME NEW b \in 0 .. NumGames, NEW i \in 1 .. 2 * b + 2
    PROVE  \/ /\ i = 1 /\ BundleFile(i).name = Declaration
              /\ BundleFile(i).doc = [form |-> "envelope", complete |-> Rows[1].complete]
           \/ /\ i = 2 * b + 2 /\ b = NumGames
              /\ BundleFile(i) = [name |-> Aggregate, doc |-> ResultEnvelope]
           \/ \E n \in Numbers : BundleFile(i).name = Config(n)
           \/ \E n \in 1 .. b : n \in Numbers /\ i = 2 * n + 1
                /\ BundleFile(i) = [name |-> Log(n), doc |-> LogEnvelope(n)]
<1>0. NumGames \in Nat /\ Numbers = 1 .. NumGames /\ b \in Nat /\ b <= NumGames /\ i \in Nat
  BY BundleAssumption DEF Numbers
<1>1. CASE i = 1
  BY <1>0, <1>1 DEF BundleFile
<1>2. CASE i # 1 /\ i = 2 * NumGames + 2
  <2>1. b = NumGames
    BY <1>0, <1>2
  <2>2. BundleFile(i) = [name |-> Aggregate, doc |-> ResultEnvelope]
    BY <1>2 DEF BundleFile
  <2> QED BY <1>2, <2>1, <2>2
<1>3. CASE i # 1 /\ i # 2 * NumGames + 2
  <2>1. PICK h \in Nat, m \in {0, 1} : h = i \div 2 /\ m = i % 2 /\ i = 2 * h + m
    BY <1>0, Halves
  <2>2. BundleFile(i) = IF m = 0 THEN [name |-> Config(h), doc |-> [form |-> "envelope"]]
                        ELSE [name |-> Log(h), doc |-> LogEnvelope(h)]
    BY <1>3, <2>1 DEF BundleFile
  <2>3. CASE m = 0
    <3>1. h \in Numbers
      BY <1>0, <1>3, <2>1, <2>3
    <3>2. BundleFile(i).name = Config(h)
      BY <2>2, <2>3
    <3> QED BY <3>1, <3>2
  <2>4. CASE m = 1
    <3>1. h \in 1 .. b /\ h \in Numbers /\ i = 2 * h + 1
      BY <1>0, <1>3, <2>1, <2>4
    <3>2. BundleFile(i) = [name |-> Log(h), doc |-> LogEnvelope(h)]
      BY <2>2, <2>4
    <3> QED BY <3>1, <3>2
  <2> QED BY <2>3, <2>4
<1> QED BY <1>1, <1>2, <1>3

LEMMA BundleStep == IInv /\ Bundle => IInv'
<1> SUFFICES ASSUME IInv, Bundle PROVE IInv'
  OBVIOUS
<1>1. PICK b \in 0 .. NumGames :
        /\ Bundled = 1 .. b /\ Cardinality(Bundled) = b
        /\ \A n \in 1 .. b : Readable(Log(n))
        /\ Bundled = Numbers <=> b = NumGames
        /\ b = NumGames \/ ~Readable(Log(b + 1))
  BY BundledFacts
<1>2. /\ todo' = [i \in 1 .. 2 * b + 2 |-> BundleFile(i)]
      /\ phase' = IF b = NumGames THEN "bundled" ELSE "broken"
      /\ phase = "bundling" /\ todo = <<>>
      /\ UNCHANGED <<number, files, attempts, mail, faults>>
  BY <1>1 DEF Bundle, Write
<1>3. NumGames \in Nat /\ b \in Nat /\ Numbers = 1 .. NumGames /\ 1 \in Numbers
  BY BundleAssumption DEF Numbers
<1>4. /\ IsList' /\ Len(todo') = 2 * b + 2 /\ DOMAIN todo' = 1 .. 2 * b + 2 /\ todo' # <<>>
      /\ \A i \in 1 .. 2 * b + 2 : todo'[i] = BundleFile(i)
  <2> DEFINE D == {BundleFile(i) : i \in 1 .. 2 * b + 2}
  <2>1. 2 * b + 2 \in Nat /\ todo' \in [1 .. 2 * b + 2 -> D] /\ DOMAIN todo' = 1 .. 2 * b + 2
    BY <1>2, <1>3
  <2>2. \A i \in 1 .. 2 * b + 2 : todo'[i] = BundleFile(i)
    BY <1>2
  <2> HIDE DEF D
  <2>3. todo' \in Seq(D) /\ Len(todo') = 2 * b + 2
    BY <2>1
  <2>4. todo' # <<>>
    BY <1>3, <2>3, EmptySeq
  <2> QED BY <2>1, <2>2, <2>3, <2>4 DEF IsList
<1>5. LastWrite' = BundleFile(2 * b + 2) /\ Newest' = BundleFile(2 * b + 2).doc
  BY <1>3, <1>4 DEF LastWrite, Newest
<1>6. Collected /\ \A n \in Numbers : Readable(Result(n)) /\ files[Result(n)] \in ResultFile
  BY <1>2 DEF IInv, BundleInv, ShapeInv, Collected
<1>7. BundleWrites'
  <2>1. ASSUME NEW i \in 1 .. 2 * b + 2
        PROVE  \/ BundleFile(i).name = Declaration /\ BundleFile(i).doc \in DeclarationFile
               \/ BundleFile(i).name = Aggregate /\ i = 2 * b + 2 /\ phase' = "bundled"
               \/ \E n \in Numbers : BundleFile(i).name = Config(n)
               \/ \E n \in Numbers :
                     /\ BundleFile(i).name = Log(n) /\ BundleFile(i).doc.form = "envelope"
                     /\ BundleFile(i).doc.attempt = files[Log(n)].attempt
                     /\ BundleFile(i).doc.records = files[Log(n)].records
    <3>1. CASE i = 1 /\ BundleFile(i).name = Declaration
               /\ BundleFile(i).doc = [form |-> "envelope", complete |-> Rows[1].complete]
      <4>1. Rows[1] \in ResultFile
        BY <1>3, <1>6 DEF Rows
      <4>2. Rows[1].complete \in BOOLEAN
        BY <4>1 DEF ResultFile
      <4> QED BY <3>1, <4>2 DEF DeclarationFile
    <3>2. CASE i = 2 * b + 2 /\ b = NumGames
               /\ BundleFile(i) = [name |-> Aggregate, doc |-> ResultEnvelope]
      BY <1>2, <3>2
    <3>3. CASE \E n \in 1 .. b : n \in Numbers /\ i = 2 * n + 1
                 /\ BundleFile(i) = [name |-> Log(n), doc |-> LogEnvelope(n)]
      BY <3>3 DEF LogEnvelope, Records
    <3> QED BY <3>1, <3>2, <3>3, FileFacts
  <2>2. ToWrite(Declaration)'
    <3>1. 1 \in 1 .. 2 * b + 2 /\ BundleFile(1).name = Declaration
      BY <1>3 DEF BundleFile
    <3>2. todo'[1].name = Declaration /\ 1 \in DOMAIN todo'
      BY <1>4, <3>1
    <3> QED BY <3>2 DEF ToWrite, Declaration
  <2> QED BY <1>2, <1>4, <2>1, <2>2 DEF BundleWrites, Declaration, Aggregate, Result, Config, Log
<1>8. ASSUME b = NumGames
      PROVE  /\ Collected' /\ LastWrite'.name = Aggregate
             /\ \A n \in Numbers : ToWrite(Log(n))'
             /\ Newest'.rows = Rows' /\ Newest'.final.wins = Wins'
  <2>1. BundleFile(2 * b + 2) = [name |-> Aggregate, doc |-> ResultEnvelope]
    BY <1>3, <1>8 DEF BundleFile
  <2>2. /\ LastWrite'.name = Aggregate /\ Newest'.rows = Rows /\ Newest'.final.wins = Wins
        /\ Newest'.confirmed = files[Aggregate].confirmed
    <3>1. /\ ResultEnvelope.rows = Rows /\ ResultEnvelope.final = FinalResult(Scores)
          /\ ResultEnvelope.confirmed = files[Aggregate].confirmed
      BY DEF ResultEnvelope
    <3>2. FinalResult(Scores).wins = Wins
      BY DEF FinalResult, Wins
    <3>3. BundleFile(2 * b + 2).name = Aggregate /\ BundleFile(2 * b + 2).doc = ResultEnvelope
      BY <2>1
    <3> QED BY <1>5, <3>1, <3>2, <3>3 DEF Aggregate, Result
  <2>3. Newest = files[Aggregate]
    BY <1>2 DEF Newest
  <2>4. Collected'
    BY <1>2, <1>6, <2>2, <2>3, FilesStay DEF Collected
  <2>5. ASSUME NEW n \in Numbers PROVE ToWrite(Log(n))'
    <3>1. /\ 2 * n + 1 \in 1 .. 2 * b + 2 /\ 2 * n + 1 # 1 /\ 2 * n + 1 # 2 * NumGames + 2
          /\ (2 * n + 1) % 2 = 1 /\ (2 * n + 1) \div 2 = n
      BY <1>3, <1>8
    <3>2. BundleFile(2 * n + 1).name = Log(n)
      BY <3>1 DEF BundleFile
    <3> QED BY <1>4, <3>1, <3>2 DEF ToWrite, Log
  <2> QED BY <1>2, <2>2, <2>4, <2>5, FilesStay
<1>9. ASSUME b # NumGames
      PROVE  \E n \in Numbers : ~Readable(Log(n))' /\ ~ToWrite(Log(n))'
  <2>1. b + 1 \in Numbers /\ ~Readable(Log(b + 1))
    BY <1>1, <1>3, <1>9
  <2>2. ASSUME NEW i \in 1 .. 2 * b + 2 PROVE BundleFile(i).name # Log(b + 1)
    <3>1. CASE \E n \in 1 .. b : n \in Numbers /\ i = 2 * n + 1
                 /\ BundleFile(i) = [name |-> Log(n), doc |-> LogEnvelope(n)]
      <4>1. PICK n \in 1 .. b : n \in Numbers /\ BundleFile(i).name = Log(n)
        BY <3>1
      <4>2. n # b + 1
        BY <1>3
      <4> QED BY <2>1, <4>1, <4>2, NameFacts
    <3> QED BY <1>9, <2>1, <3>1, FileFacts, NameFacts
  <2>3. ~ToWrite(Log(b + 1))'
    BY <1>4, <2>2 DEF ToWrite, Log
  <2> QED BY <1>2, <2>1, <2>3, FilesStay
<1>10. BundleInv'
  BY <1>2, <1>4, <1>7, <1>8, <1>9 DEF BundleInv, Log, Aggregate, Result
<1>11. GameInv' /\ ReportInv' /\ phase' \in Phases \ Quiet
  BY <1>2 DEF GameInv, ReportInv, Phases, Quiet
<1>12. attempts' \in [Numbers -> Nat]
  BY <1>2 DEF IInv, ShapeInv
<1> QED BY <1>2, <1>4, <1>10, <1>11, <1>12, PlanStep

-----------------------------------------------------------------------------
(* The validation.                                                         *)

\* What the errors have to name, and what it means that there are none.
LEMMA ErrorFacts ==
    ASSUME files[Declaration] \in DeclarationFile
    PROVE  /\ \A f \in Required : ~Readable(f) => f \in Errors
           /\ \A n \in Numbers : Envelope(Log(n)) /\ Forged(n) => Log(n) \in Errors
           /\ Errors = {} =>
                /\ Envelope(Declaration) /\ Envelope(Aggregate) /\ files[Aggregate].confirmed
                /\ \A n \in Numbers : Envelope(Config(n)) /\ Readable(Log(n))
<1>1. /\ files[Declaration] # None /\ files[Declaration].form = "envelope"
  BY BundleAssumption DEF DeclarationFile
<1>2. files[Declaration] # Torn
  BY <1>1 DEF Torn
<1>3. Envelope(Declaration)
  BY <1>1, <1>2 DEF Envelope, Readable
<1> DEFINE Missing == {f \in Required : ~Readable(f)}
           Configs == {f \in {Config(n) : n \in Numbers} : Readable(f) /\ ~Envelope(f)}
           Logs    == {Log(n) : n \in {k \in Numbers : LogFaults(k)}}
           Decl    == IF files[Declaration].complete THEN {} ELSE {Declaration}
           Result0 == IF ResultFaults THEN {Aggregate} ELSE {}
<1>4. Errors = Missing \cup Configs \cup Logs \cup Decl \cup Result0
  BY <1>3 DEF Errors
<1>5. \A f \in Required : ~Readable(f) => f \in Missing
  OBVIOUS
<1>6. \A n \in Numbers : Envelope(Log(n)) /\ Forged(n) => Log(n) \in Logs
  BY DEF LogFaults
<1>7. ~(Aggregate \in Result0) => Envelope(Aggregate) /\ files[Aggregate].confirmed
  BY DEF ResultFaults
<1>8. \A n \in Numbers : Config(n) \notin Configs => ~Readable(Config(n)) \/ Envelope(Config(n))
  OBVIOUS
<1> HIDE DEF Missing, Configs, Logs, Decl, Result0
<1> QED BY <1>3, <1>4, <1>5, <1>6, <1>7, <1>8, NameFacts

LEMMA RejectStep == IInv /\ Reject => IInv'
<1> SUFFICES ASSUME IInv, Reject PROVE IInv'
  OBVIOUS
<1> DEFINE a == [name |-> Report, doc |-> [form |-> "report", errors |-> Errors]]
<1>1. /\ todo' = <<a>> /\ phase' = "rejected" /\ todo = <<>>
      /\ phase = "broken" \/ (phase = "bundled" /\ Errors # {})
      /\ UNCHANGED <<number, files, attempts, mail, faults>>
  BY DEF Reject, Write
<1>2. a.name = Report /\ a.doc.errors = Errors
  OBVIOUS
<1> HIDE DEF a
<1>3. IsList' /\ Len(todo') = 1 /\ todo' # <<>> /\ LastWrite' = a
  BY <1>1, ListOfOne
<1>4. ~ToWrite(Declaration) /\ \A n \in Numbers : ~ToWrite(Log(n))
  BY <1>1, EmptySeq DEF ToWrite
<1>5. files[Declaration] \in DeclarationFile
  BY <1>1, <1>4 DEF IInv, BundleInv, BundleWrites
<1>6. Errors # {}
  <2>1. CASE phase = "broken"
    <3>1. \E n \in Numbers : ~Readable(Log(n))
      BY <2>1 DEF IInv, BundleInv
    <3> QED BY <3>1, <1>5, ErrorFacts, NameFacts
  <2> QED BY <1>1, <2>1
<1>7. /\ \A f \in Required : ~Readable(f)' => f \in Errors
      /\ \A n \in Numbers : Envelope(Log(n))' /\ Forged(n)' => Log(n) \in Errors
  BY <1>1, <1>5, ErrorFacts, FilesStay
<1>8. ReportInv'
  <2>1. LastWrite'.doc.errors = Errors /\ LastWrite'.name = Report
    BY <1>2, <1>3
  <2> QED BY <1>3, <1>6, <1>7, <2>1 DEF ReportInv, Explains, Log, Report
<1>9. GameInv' /\ BundleInv' /\ phase' \in Phases \ Quiet
  BY <1>1 DEF GameInv, BundleInv, Phases, Quiet
<1>10. attempts' \in [Numbers -> Nat]
  BY <1>1 DEF IInv, ShapeInv
<1> QED BY <1>1, <1>3, <1>8, <1>9, <1>10, PlanStep

\* The leader of a sub-game is the group with the most points.
LEMMA LeaderFacts ==
    ASSUME NEW totals \in [Groups -> Nat], NEW g \in Groups
    PROVE  Leader(totals) = g <=> \A h \in Groups \ {g} : totals[g] > totals[h]
<1>1. totals["own"] \in Nat /\ totals["peer"] \in Nat /\ g \in {"own", "peer"} /\ None # g
  BY BundleAssumption DEF Groups
<1>2. CASE totals["own"] = totals["peer"]
  BY <1>1, <1>2 DEF Leader, Groups
<1>3. CASE totals["own"] # totals["peer"]
  <2> DEFINE Leads(x) == \A h \in Groups : totals[x] >= totals[h]
  <2>1. \E x \in Groups : Leads(x)
    <3>1. Leads("own") \/ Leads("peer")
      BY <1>1 DEF Groups
    <3> QED BY <3>1 DEF Groups
  <2> HIDE DEF Leads
  <2>2. Leader(totals) = CHOOSE x \in Groups : Leads(x)
    BY <1>3 DEF Leader, Leads
  <2>3. Leader(totals) \in Groups /\ Leads(Leader(totals))
    BY <2>1, <2>2
  <2>4. CASE totals["own"] > totals["peer"]
    <3>1. ~Leads("peer")
      BY <1>1, <2>4 DEF Leads, Groups
    <3>2. Leader(totals) = "own"
      BY <2>3, <3>1 DEF Groups
    <3> QED BY <1>1, <2>4, <3>2 DEF Groups
  <2>5. CASE totals["peer"] > totals["own"]
    <3>1. ~Leads("own")
      BY <1>1, <2>5 DEF Leads, Groups
    <3>2. Leader(totals) = "peer"
      BY <2>3, <3>1 DEF Groups
    <3> QED BY <1>1, <2>5, <3>2 DEF Groups
  <2> QED BY <1>1, <1>3, <2>4, <2>5
<1> QED BY <1>2, <1>3

\* The wins of a series are counted by the points of its sub-games.
LEMMA WinsFacts ==
    ASSUME NEW g \in Groups
    PROVE  Wins[g] = Cardinality({n \in Numbers : \A h \in Groups \ {g} :
                        Score(n, Rows[n].outcome)[g] > Score(n, Rows[n].outcome)[h]})
<1>1. \A n, o : Score(n, o) \in [Groups -> Nat]
  <2> SUFFICES ASSUME NEW n, NEW o PROVE Score(n, o) \in [Groups -> Nat]
    OBVIOUS
  <2>1. Points(o).thief \in Nat /\ Points(o).police \in Nat
    BY DEF Points
  <2> QED BY <2>1 DEF Score
<1>2. \A n \in Numbers : Scores[n] = Score(n, Rows[n].outcome)
  BY DEF Scores
<1>3. \A n \in Numbers : Leader(Scores[n]) = g <=>
        \A h \in Groups \ {g} : Score(n, Rows[n].outcome)[g] > Score(n, Rows[n].outcome)[h]
  BY <1>1, <1>2, LeaderFacts
<1>4. {n \in Numbers : Leader(Scores[n]) = g} =
        {n \in Numbers : \A h \in Groups \ {g} :
            Score(n, Rows[n].outcome)[g] > Score(n, Rows[n].outcome)[h]}
  BY <1>3
<1> QED BY <1>4 DEF Wins

\* A valid bundle tells the series.
LEMMA ValidBundle ==
    ASSUME IInv, phase = "bundled", todo = <<>>, Errors = {}
    PROVE  /\ \A f \in Required : Envelope(f)
           /\ files[Aggregate].confirmed
           /\ \A n \in Numbers :
                 /\ Completed(n) /\ files[Aggregate].rows[n] = files[Result(n)]
                 /\ \/ files[Log(n)].attempt = files[Result(n)].attempt /\ Records(n) # <<>>
                    \/ faults > 0
           /\ files[Aggregate].final.wins = Wins
<1>1. ~ToWrite(Declaration) /\ \A n \in Numbers : ~ToWrite(Log(n))
  BY EmptySeq DEF ToWrite
<1>2. files[Declaration] \in DeclarationFile
  BY <1>1 DEF IInv, BundleInv, BundleWrites
<1>3. /\ Envelope(Declaration) /\ Envelope(Aggregate) /\ files[Aggregate].confirmed
      /\ \A n \in Numbers : Envelope(Config(n)) /\ Readable(Log(n))
  BY <1>2, ErrorFacts
<1>4. \A n \in Numbers : files[Log(n)].form = "envelope"
  BY <1>1 DEF IInv, BundleInv
<1>5. \A n \in Numbers : Envelope(Log(n))
  BY <1>3, <1>4 DEF Envelope
<1>6. Newest = files[Aggregate]
  BY DEF Newest
<1>7. Collected /\ files[Aggregate].rows = Rows /\ files[Aggregate].final.wins = Wins
  BY <1>6 DEF IInv, BundleInv
<1>8. \A n \in Numbers : Readable(Result(n)) /\ files[Result(n)].signed
  BY <1>3, <1>6, <1>7 DEF Collected, AllSigned, Rows
<1>9. \A n \in Numbers : Completed(n) /\ files[Aggregate].rows[n] = files[Result(n)]
  BY <1>3, <1>7, <1>8 DEF Completed, Rows, Readable
<1>10. ASSUME NEW n \in Numbers, ~(faults > 0)
       PROVE  files[Log(n)].attempt = files[Result(n)].attempt /\ Records(n) # <<>>
  <2>1. faults = 0
    BY <1>10 DEF IInv, ShapeInv
  <2>2. Belongs(files[Log(n)], files[Result(n)])
    BY <1>8, <2>1 DEF IInv, PairInv
  <2> QED BY <1>8, <2>2 DEF Belongs, Records
<1> QED BY <1>3, <1>5, <1>7, <1>9, <1>10 DEF Required

LEMMA SubmitStep == IInv /\ Submit => IInv'
<1> SUFFICES ASSUME IInv, Submit PROVE IInv'
  OBVIOUS
<1>1. /\ phase = "bundled" /\ todo = <<>> /\ Errors = {} /\ phase' = "submitted"
      /\ UNCHANGED <<number, todo, files, attempts, faults>> /\ mail = <<>>
      /\ mail' = IF Real THEN Append(mail, files[Aggregate]) ELSE mail
  BY MailIsLast DEF Submit
<1>2. mail' = <<>> \/ mail' = <<files[Aggregate]>>
  BY <1>1
<1>3. ShapeInv'
  BY <1>1, FilesStay DEF IInv, ShapeInv, Phases
<1>4. IsList' /\ GameInv' /\ BundleInv' /\ ReportInv'
  BY <1>1 DEF IInv, IsList, GameInv, BundleInv, ReportInv
<1>5. PairInv'
  <2> SUFFICES ASSUME faults = 0, NEW n \in Numbers
               PROVE  Readable(Result(n))' => Belongs(files[Log(n)], files[Result(n)])'
    BY <1>1 DEF PairInv
  <2> QED BY <1>1, FilesStay DEF IInv, PairInv, Belongs
<1>6. MailInv'
  <2>1. CASE mail' = <<>>
    BY <2>1, NoMail
  <2>2. CASE mail' = <<files[Aggregate]>>
    <3>1. Len(mail') = 1 /\ mail'[1] = files[Aggregate] /\ files' = files /\ faults' = faults
      BY <1>1, <2>2
    <3>2. /\ \A f \in Required : Envelope(f)'
          /\ \A n \in Numbers : Completed(n)' /\ Records(n)' = Records(n)
      BY <1>1, ValidBundle, FilesStay
    <3>3. Rows' = Rows
      BY <1>1, FilesStay
    <3>4. \A g \in Groups : files[Aggregate].final.wins[g] =
            Cardinality({n \in Numbers : \A h \in Groups \ {g} :
                           Score(n, Rows[n].outcome)[g] > Score(n, Rows[n].outcome)[h]})
      BY <1>1, ValidBundle, WinsFacts
    <3>5. MailTellsTheSeries'
      BY <1>1, <3>1, <3>2, <3>3, <3>4, ValidBundle DEF MailTellsTheSeries
    <3> QED BY <1>1, <2>2, <3>5 DEF MailInv
  <2> QED BY <1>2, <2>1, <2>2
<1> QED BY <1>3, <1>4, <1>5, <1>6 DEF IInv

-----------------------------------------------------------------------------
(* A file is written.                                                      *)

\* What any file that is written leaves alone.
LEMMA WriteFrame ==
    ASSUME IInv, WriteNext
    PROVE  /\ UNCHANGED <<phase, number, attempts, mail, faults>> /\ todo # <<>>
           /\ phase \in {"playing", "played", "bundling", "bundled", "broken", "rejected"}
           /\ IsList /\ DOMAIN files = Names /\ 1 \in DOMAIN todo /\ MailInv'
<1>1. UNCHANGED <<phase, number, attempts, mail, faults>> /\ todo # <<>>
  BY DEF WriteNext
<1>2. phase \in {"playing", "played", "bundling", "bundled", "broken", "rejected"}
  BY <1>1 DEF IInv, ShapeInv, Phases, Quiet
<1>3. IsList /\ DOMAIN files = Names
  BY DEF IInv, ShapeInv
<1>4. 1 \in DOMAIN todo
  BY <1>3, WriteFacts
<1> QED BY <1>1, <1>2, <1>3, <1>4, MailIsLast, NoMail

\* Outside of a game no result is written, and a log keeps what it tells.
LEMMA OtherWrite ==
    ASSUME IInv, WriteNext, phase # "played"
    PROVE  /\ \A n \in Numbers : files'[Result(n)] = files[Result(n)]
           /\ \A n \in Numbers : /\ files'[Log(n)].attempt = files[Log(n)].attempt
                                 /\ files'[Log(n)].records = files[Log(n)].records
<1> DEFINE f == todo[1].name
<1>1. \/ f \in {Declaration, Aggregate, Report} \/ \E n \in Numbers : f = Config(n)
      \/ \E n \in Numbers : /\ f = Log(n)
                            /\ todo[1].doc.attempt = files[Log(n)].attempt
                            /\ todo[1].doc.records = files[Log(n)].records
  <2>1. CASE phase = "playing"
    BY <2>1, WriteFrame DEF IInv, GameInv, ShapeInv
  <2>2. CASE phase = "bundling"
    BY <2>2, WriteFrame DEF IInv, BundleInv
  <2>3. CASE phase \in {"bundled", "broken"}
    <3>1. BundleWrites /\ 1 \in DOMAIN todo
      BY <2>3, WriteFrame DEF IInv, BundleInv
    <3> QED BY <3>1 DEF BundleWrites
  <2>4. CASE phase = "rejected"
    <3>1. Len(todo) <= 1 /\ LastWrite.name = Report
      BY <2>4, WriteFrame DEF IInv, ReportInv
    <3>2. LastWrite = todo[1]
      BY <3>1, WriteFrame, ListFacts DEF LastWrite
    <3> QED BY <3>1, <3>2
  <2> QED BY <2>1, <2>2, <2>3, <2>4, WriteFrame
<1>2. \A g \in Names : files'[g] = IF g = f THEN todo[1].doc ELSE files[g]
  BY WriteFacts, WriteFrame
<1> HIDE DEF f
<1>3. \A n \in Numbers : Result(n) \in Names /\ Log(n) \in Names
  BY NameFacts
<1>4. ASSUME NEW n \in Numbers PROVE f # Result(n)
  BY <1>1, NameFacts
<1>5. ASSUME NEW n \in Numbers
      PROVE  /\ files'[Log(n)].attempt = files[Log(n)].attempt
             /\ files'[Log(n)].records = files[Log(n)].records
  <2>1. CASE f # Log(n)
    BY <1>2, <1>3, <2>1
  <2>2. CASE f = Log(n)
    <3>1. /\ todo[1].doc.attempt = files[Log(n)].attempt
          /\ todo[1].doc.records = files[Log(n)].records
      BY <1>1, <2>2, NameFacts
    <3> QED BY <1>2, <1>3, <2>2, <3>1
  <2> QED BY <2>1, <2>2
<1> QED BY <1>2, <1>3, <1>4, <1>5

LEMMA OtherShape ==
    ASSUME IInv, WriteNext, phase # "played"
    PROVE  IsList' /\ ShapeInv' /\ PairInv' /\ Rows' = Rows /\ Wins' = Wins /\ AllSigned' = AllSigned
<1>1. /\ \A n \in Numbers : files'[Result(n)] = files[Result(n)]
      /\ \A n \in Numbers : Readable(Result(n))' = Readable(Result(n))
      /\ Rows' = Rows /\ Wins' = Wins /\ AllSigned' = AllSigned
  BY OtherWrite, ResultsStay
<1>2. IsList' /\ DOMAIN files' = Names
  BY WriteFrame, WriteFacts
<1>3. ShapeInv'
  BY <1>1, <1>2, WriteFrame DEF IInv, ShapeInv, Quiet
<1>4. PairInv'
  <2> SUFFICES ASSUME faults = 0, NEW n \in Numbers
               PROVE  Readable(Result(n))' => Belongs(files[Log(n)], files[Result(n)])'
    BY WriteFrame DEF PairInv
  <2> QED BY <1>1, OtherWrite DEF IInv, PairInv, Belongs
<1> QED BY <1>1, <1>2, <1>3, <1>4

LEMMA PlayingWrite == IInv /\ WriteNext /\ phase = "playing" => IInv'
<1> SUFFICES ASSUME IInv, WriteNext, phase = "playing" PROVE IInv'
  OBVIOUS
<1>1. phase' = "playing" /\ Config(number)' = Config(number)
  BY WriteFrame DEF Config
<1>2. \A i \in DOMAIN todo' : todo'[i].name \in {Declaration, Config(number)}
  BY WriteFrame, WriteFacts DEF IInv, GameInv
<1>3. GameInv' /\ BundleInv' /\ ReportInv'
  BY <1>1, <1>2 DEF GameInv, BundleInv, ReportInv
<1> QED BY <1>3, WriteFrame, OtherShape DEF IInv

LEMMA PlayedWrite == IInv /\ WriteNext /\ phase = "played" => IInv'
<1> SUFFICES ASSUME IInv, WriteNext, phase = "played" PROVE IInv'
  OBVIOUS
<1>1. /\ phase' = "played" /\ UNCHANGED number /\ faults' = faults /\ number \in Numbers
      /\ Log(number)' = Log(number) /\ Result(number)' = Result(number)
  BY WriteFrame DEF Log, Result, IInv, ShapeInv
<1>2. /\ Len(todo) <= 2
      /\ todo[1].name = IF 1 = Len(todo) THEN Result(number) ELSE Log(number)
      /\ LastWrite.doc \in ResultFile
      /\ Belongs(IF Len(todo) = 2 THEN todo[1].doc ELSE files[Log(number)], LastWrite.doc)
  BY WriteFrame DEF IInv, GameInv
<1>3. /\ IsList' /\ DOMAIN files' = Names /\ Len(todo) \in Nat \ {0}
      /\ Len(todo') = Len(todo) - 1 /\ DOMAIN todo' = 1 .. Len(todo) - 1
      /\ \A f \in Names : files'[f] = IF f = todo[1].name THEN todo[1].doc ELSE files[f]
      /\ \A i \in DOMAIN todo' : i + 1 \in DOMAIN todo /\ todo'[i] = todo[i + 1]
      /\ todo' = <<>> => Len(todo) = 1 /\ LastWrite = todo[1]
      /\ todo' # <<>> => LastWrite' = LastWrite /\ Len(todo) > 1
  BY WriteFrame, WriteFacts
<1>4. ASSUME NEW n \in Numbers, n # number
      PROVE  files'[Log(n)] = files[Log(n)] /\ files'[Result(n)] = files[Result(n)]
  <2>1. todo[1].name # Log(n) /\ todo[1].name # Result(n)
    BY <1>1, <1>2, <1>4, NameFacts
  <2> QED BY <1>3, <2>1, NameFacts
<1>5. BundleInv' /\ ReportInv'
  BY <1>1 DEF BundleInv, ReportInv
<1>6. CASE Len(todo) = 1
  <2>1. todo' = <<>> /\ todo[1].name = Result(number) /\ LastWrite = todo[1]
    BY <1>2, <1>3, <1>6
  <2>2. files'[Log(number)] = files[Log(number)] /\ files'[Result(number)] = LastWrite.doc
    BY <1>1, <1>3, <2>1, NameFacts
  <2>3. GameInv'
    BY <1>1, <2>1, EmptyList DEF GameInv
  <2>4. ShapeInv'
    <3>1. ASSUME NEW n \in Numbers, Readable(Result(n))' PROVE files'[Result(n)] \in ResultFile
      BY <1>2, <1>4, <2>2, <3>1 DEF IInv, ShapeInv, Readable
    <3> QED BY <1>1, <1>3, <3>1, WriteFrame DEF IInv, ShapeInv, Quiet
  <2>5. PairInv'
    <3> SUFFICES ASSUME faults = 0, NEW n \in Numbers
                 PROVE  Readable(Result(n))' => Belongs(files[Log(n)], files[Result(n)])'
      BY <1>1 DEF PairInv
    <3>1. CASE n = number
      BY <1>2, <1>6, <2>2, <3>1 DEF Belongs
    <3>2. CASE n # number
      BY <1>4, <3>2 DEF IInv, PairInv, Belongs, Readable
    <3> QED BY <3>1, <3>2
  <2> QED BY <1>3, <1>5, <2>3, <2>4, <2>5, WriteFrame DEF IInv
<1>7. CASE Len(todo) = 2
  <2>1. /\ todo' # <<>> /\ todo[1].name = Log(number) /\ LastWrite' = LastWrite
        /\ Len(todo') = 1 /\ DOMAIN todo' = {1} /\ todo'[1] = todo[2]
    BY <1>2, <1>3, <1>7
  <2>2. /\ files'[Log(number)] = todo[1].doc
        /\ files'[Result(number)] = files[Result(number)]
    BY <1>1, <1>3, <2>1, NameFacts
  <2>3. GameInv'
    <3>1. Belongs(files'[Log(number)], LastWrite.doc)
      BY <1>2, <1>7, <2>2
    <3>2. todo'[1].name = Result(number)
      BY <1>3, <1>7, <2>1, WriteFrame DEF IInv, GameInv
    <3> QED BY <1>1, <1>2, <2>1, <3>1, <3>2 DEF GameInv, Belongs
  <2>4. ShapeInv'
    <3>1. ASSUME NEW n \in Numbers, Readable(Result(n))' PROVE files'[Result(n)] \in ResultFile
      BY <1>4, <2>2, <3>1 DEF IInv, ShapeInv, Readable
    <3> QED BY <1>1, <1>3, <3>1, WriteFrame DEF IInv, ShapeInv, Quiet
  <2>5. PairInv'
    <3> SUFFICES ASSUME faults = 0, NEW n \in Numbers, n # number
                 PROVE  Readable(Result(n))' => Belongs(files[Log(n)], files[Result(n)])'
      BY <1>1, <2>1 DEF PairInv
    <3> QED BY <1>4 DEF IInv, PairInv, Belongs, Readable
  <2> QED BY <1>3, <1>5, <2>3, <2>4, <2>5, WriteFrame DEF IInv
<1> QED BY <1>2, <1>3, <1>6, <1>7

LEMMA BundlingWrite == IInv /\ WriteNext /\ phase = "bundling" => IInv'
<1> SUFFICES ASSUME IInv, WriteNext, phase = "bundling" PROVE IInv'
  OBVIOUS
<1>1. phase' = "bundling" /\ Collected /\ Len(todo) <= 1 /\ todo[1].name = Aggregate
  BY WriteFrame DEF IInv, BundleInv
<1>2. todo' = <<>> /\ LastWrite = todo[1] /\ Len(todo') = 0 /\ DOMAIN todo' = {}
  <2>1. Len(todo) = 1 /\ Len(todo') = 0 /\ DOMAIN todo' = {}
    BY <1>1, WriteFrame, WriteFacts
  <2>2. todo' = <<>>
    BY <2>1, WriteFrame, WriteFacts
  <2> QED BY <2>1, <2>2, WriteFrame, WriteFacts
<1>3. files'[Aggregate] = LastWrite.doc
  BY <1>1, <1>2, WriteFrame, WriteFacts, NameFacts
<1>4. Newest' = Newest
  BY <1>2, <1>3, WriteFrame DEF Newest, Aggregate, Result
<1>5. \A n \in Numbers : Readable(Result(n))'
  BY <1>1, OtherWrite DEF Collected, Readable
<1>6. Collected'
  BY <1>1, <1>4, <1>5, OtherShape DEF Collected, Result
<1>7. GameInv' /\ BundleInv' /\ ReportInv'
  BY <1>1, <1>2, <1>6 DEF GameInv, BundleInv, ReportInv
<1> QED BY <1>7, WriteFrame, OtherShape DEF IInv

\* The rest of a bundle is what is left to write of it.
LEMMA BundleGoesOn ==
    ASSUME IInv, WriteNext, phase \in {"bundled", "broken"}
    PROVE  BundleWrites'
<1>1. BundleWrites /\ phase' = phase
  BY WriteFrame DEF IInv, BundleInv
<1>2. ASSUME NEW i \in DOMAIN todo'
      PROVE  \/ todo'[i].name = Declaration /\ todo'[i].doc \in DeclarationFile
             \/ todo'[i].name = Aggregate /\ i = Len(todo') /\ phase' = "bundled"
             \/ \E n \in Numbers : todo'[i].name = Config(n)
             \/ \E n \in Numbers :
                   /\ todo'[i].name = Log(n) /\ todo'[i].doc.form = "envelope"
                   /\ todo'[i].doc.attempt = files'[Log(n)].attempt
                   /\ todo'[i].doc.records = files'[Log(n)].records
  <2>1. /\ i + 1 \in DOMAIN todo /\ todo'[i] = todo[i + 1] /\ Len(todo') = Len(todo) - 1
        /\ i \in Nat /\ Len(todo) \in Nat
    <3>1. /\ IsList /\ DOMAIN files = Names
      BY WriteFrame
    <3>2. Len(todo) \in Nat /\ Len(todo') = Len(todo) - 1 /\ DOMAIN todo' = 1 .. Len(todo) - 1
      BY <3>1, WriteFacts
    <3>3. i + 1 \in DOMAIN todo /\ todo'[i] = todo[i + 1]
      BY <3>1, WriteFacts
    <3> QED BY <3>2, <3>3
  <2>2. i + 1 = Len(todo) => i = Len(todo')
    BY <2>1
  <2>3. CASE todo[i + 1].name = Aggregate /\ i + 1 = Len(todo) /\ phase = "bundled"
    BY <1>1, <2>1, <2>2, <2>3
  <2>4. CASE \E n \in Numbers :
               /\ todo[i + 1].name = Log(n) /\ todo[i + 1].doc.form = "envelope"
               /\ todo[i + 1].doc.attempt = files[Log(n)].attempt
               /\ todo[i + 1].doc.records = files[Log(n)].records
    BY <2>1, <2>4, OtherWrite
  <2> QED BY <1>1, <2>1, <2>3, <2>4 DEF BundleWrites
<1>3. ToWrite(Declaration)' \/ files'[Declaration] \in DeclarationFile
  <2>1. CASE todo[1].name = Declaration
    <3>1. todo[1].doc \in DeclarationFile
      BY <1>1, <2>1, WriteFrame, NameFacts DEF BundleWrites
    <3> QED BY <2>1, <3>1, WriteFrame, WriteFacts, NameFacts
  <2>2. CASE todo[1].name # Declaration
    <3>1. files'[Declaration] = files[Declaration]
      BY <2>2, WriteFrame, WriteFacts, NameFacts
    <3>2. ToWrite(Declaration)' <=> ToWrite(Declaration)
      BY <2>2, WriteFrame, WriteFacts DEF Declaration
    <3> QED BY <1>1, <3>1, <3>2 DEF BundleWrites
  <2> QED BY <2>1, <2>2
<1> QED BY <1>2, <1>3 DEF BundleWrites, Declaration, Aggregate, Result, Config, Log

LEMMA BundledWrite == IInv /\ WriteNext /\ phase = "bundled" => IInv'
<1> SUFFICES ASSUME IInv, WriteNext, phase = "bundled" PROVE IInv'
  OBVIOUS
<1>1. /\ phase' = "bundled" /\ BundleWrites /\ Collected /\ LastWrite.name = Aggregate
      /\ \A n \in Numbers : ToWrite(Log(n)) \/ files[Log(n)].form = "envelope"
      /\ Newest.rows = Rows /\ Newest.final.wins = Wins
  BY WriteFrame DEF IInv, BundleInv
<1>2. /\ todo' = <<>> => LastWrite = todo[1]
      /\ todo' # <<>> => LastWrite' = LastWrite
      /\ \A f \in Names : files'[f] = IF f = todo[1].name THEN todo[1].doc ELSE files[f]
      /\ \A f : f # todo[1].name => (ToWrite(f)' <=> ToWrite(f))
  BY WriteFrame, WriteFacts
<1>3. todo' = <<>> => files'[Aggregate] = LastWrite.doc
  BY <1>1, <1>2, NameFacts
<1>4. Newest' = Newest
  BY <1>2, <1>3, WriteFrame DEF Newest, Aggregate, Result
<1>5. \A n \in Numbers : Readable(Result(n))'
  BY <1>1, OtherWrite DEF Collected, Readable
<1>6. Collected'
  BY <1>1, <1>4, <1>5, OtherShape DEF Collected, Result
<1>7. ASSUME NEW n \in Numbers PROVE ToWrite(Log(n))' \/ files'[Log(n)].form = "envelope"
  <2>1. Log(n) \in Names /\ \A x : Log(x)' = Log(x)
    BY NameFacts DEF Log
  <2>2. CASE todo[1].name = Log(n)
    <3>1. todo[1].doc.form = "envelope"
      BY <1>1, <2>2, WriteFrame, NameFacts DEF BundleWrites
    <3> QED BY <1>2, <2>1, <2>2, <3>1
  <2>3. CASE todo[1].name # Log(n)
    <3>1. files'[Log(n)] = files[Log(n)]
      BY <1>2, <2>1, <2>3
    <3>2. ToWrite(Log(n))' <=> ToWrite(Log(n))
      BY <1>2, <2>3 DEF Log
    <3> QED BY <1>1, <3>1, <3>2
  <2> QED BY <2>2, <2>3
<1>8. todo' # <<>> => LastWrite'.name = Aggregate
  BY <1>1, <1>2
<1>9. Newest'.rows = Rows' /\ Newest'.final.wins = Wins'
  BY <1>1, <1>4, OtherShape
<1>10. BundleInv'
  BY <1>1, <1>6, <1>7, <1>8, <1>9, BundleGoesOn DEF BundleInv, Aggregate, Result, Log
<1>11. GameInv' /\ ReportInv'
  BY <1>1 DEF GameInv, ReportInv
<1> QED BY <1>10, <1>11, WriteFrame, OtherShape DEF IInv

LEMMA BrokenWrite == IInv /\ WriteNext /\ phase = "broken" => IInv'
<1> SUFFICES ASSUME IInv, WriteNext, phase = "broken" PROVE IInv'
  OBVIOUS
<1>1. PICK n \in Numbers : ~Readable(Log(n)) /\ ~ToWrite(Log(n))
  BY DEF IInv, BundleInv
<1>2. todo[1].name # Log(n) /\ phase' = "broken"
  BY <1>1, WriteFrame DEF ToWrite
<1>3. files'[Log(n)] = files[Log(n)]
  BY <1>2, WriteFrame, WriteFacts, NameFacts
<1>4. ~ToWrite(Log(n))'
  BY <1>1, WriteFrame, WriteFacts DEF Log
<1>5. ~Readable(Log(n))'
  BY <1>1, <1>3 DEF Readable
<1>6. BundleInv'
  BY <1>2, <1>4, <1>5, BundleGoesOn DEF BundleInv, Log
<1>7. GameInv' /\ ReportInv'
  BY <1>2 DEF GameInv, ReportInv
<1> QED BY <1>6, <1>7, WriteFrame, OtherShape DEF IInv

LEMMA RejectedWrite == IInv /\ WriteNext /\ phase = "rejected" => IInv'
<1> SUFFICES ASSUME IInv, WriteNext, phase = "rejected" PROVE IInv'
  OBVIOUS
<1>1. phase' = "rejected" /\ Len(todo) <= 1 /\ LastWrite.name = Report /\ Explains(LastWrite.doc.errors)
  BY WriteFrame DEF IInv, ReportInv
<1>2. todo' = <<>> /\ LastWrite = todo[1]
  <2>1. Len(todo) = 1 /\ Len(todo') = 0 /\ DOMAIN todo' = {}
    BY <1>1, WriteFrame, WriteFacts
  <2>2. todo' = <<>>
    BY <2>1, WriteFrame, WriteFacts
  <2> QED BY <2>1, <2>2, WriteFrame, WriteFacts
<1>3. files'[Report] = LastWrite.doc /\ \A f \in Required : files'[f] = files[f]
  BY <1>1, <1>2, WriteFrame, WriteFacts, NameFacts
<1>4. /\ \A f \in Required : Readable(f)' = Readable(f)
      /\ \A n \in Numbers : /\ Envelope(Log(n))' = Envelope(Log(n))
                            /\ Forged(n)' = Forged(n)
  BY <1>3, NameFacts DEF Readable, Envelope, Forged, Records
<1>5. Explains(LastWrite.doc.errors) /\ files'[Report].errors = LastWrite.doc.errors
  BY <1>1, <1>3
<1>6. ReportInv'
  BY <1>2, <1>4, <1>5, EmptyList DEF ReportInv, Explains, Log, Report
<1>7. GameInv' /\ BundleInv'
  BY <1>1 DEF GameInv, BundleInv
<1> QED BY <1>6, <1>7, WriteFrame, OtherShape DEF IInv

LEMMA WriteStep == IInv /\ WriteNext => IInv'
BY WriteFrame, PlayingWrite, PlayedWrite, BundlingWrite, BundledWrite, BrokenWrite, RejectedWrite

-----------------------------------------------------------------------------
(* A process dies, and the viewer only looks.                              *)

LEMMA CrashStep == IInv /\ Crash => IInv'
<1> SUFFICES ASSUME IInv, Crash PROVE IInv'
  OBVIOUS
<1>1. /\ phase # "idle" /\ phase' = "idle" /\ todo' = <<>>
      /\ UNCHANGED <<number, attempts, mail>>
      /\ faults \in Nat /\ faults' = faults + 1
  BY DEF Crash, IInv, ShapeInv
<1>2. CASE UNCHANGED files
  <2>1. number' \in Numbers /\ attempts' \in [Numbers -> Nat] /\ phase' \in Quiet
    BY <1>1 DEF IInv, ShapeInv, Quiet
  <2>2. faults' \in Nat /\ faults <= faults' /\ faults' # 0
    BY <1>1
  <2> QED BY <1>1, <1>2, <2>1, <2>2, RestStep
<1>3. CASE todo # <<>> /\ files' = [files EXCEPT ![Head(todo).name] = Torn]
  <2>1. IsList' /\ mail = <<>>
    <3>1. phase \notin {"submitted", "idle"}
      BY <1>3 DEF IInv, ShapeInv, Quiet
    <3> QED BY <1>1, <3>1, EmptyList, MailIsLast
  <2>2. /\ DOMAIN files' = Names
        /\ \A f \in Names : files'[f] = Torn \/ files'[f] = files[f]
    BY <1>3 DEF IInv, ShapeInv
  <2>3. ASSUME NEW n \in Numbers, Readable(Result(n))' PROVE files'[Result(n)] \in ResultFile
    BY <2>2, <2>3, NameFacts DEF Readable, IInv, ShapeInv, Torn, Result
  <2>4. ShapeInv'
    BY <1>1, <2>2, <2>3 DEF IInv, ShapeInv, Phases, Result
  <2>5. GameInv' /\ BundleInv' /\ ReportInv' /\ PairInv'
    BY <1>1 DEF GameInv, BundleInv, ReportInv, PairInv
  <2>6. MailInv'
    BY <1>1, <2>1, NoMail
  <2> QED BY <2>1, <2>4, <2>5, <2>6 DEF IInv
<1> QED BY <1>2, <1>3 DEF Crash

LEMMA SameStep == IInv /\ UNCHANGED vars => IInv'
<1> SUFFICES ASSUME IInv, UNCHANGED vars PROVE IInv'
  OBVIOUS
<1>1. UNCHANGED <<phase, number, todo, files, attempts, mail, faults>>
  BY DEF vars
<1> QED BY <1>1 DEF IInv, IsList, ShapeInv, GameInv, PairInv, BundleInv, ReportInv, MailInv,
     MailTellsTheSeries, Collected, BundleWrites, Explains, Newest, LastWrite, ToWrite, Wins, Belongs,
     Readable, Envelope, Completed, Records, Forged, Rows, Scores, AllSigned

LEMMA InvInit == Init => IInv
<1> SUFFICES ASSUME Init PROVE IInv
  OBVIOUS
<1>1. /\ phase = "idle" /\ number = 1 /\ todo = <<>> /\ mail = <<>> /\ faults = 0
      /\ files = [f \in Names |-> None] /\ attempts = [n \in Numbers |-> 0]
  BY DEF Init
<1>2. \A n \in Numbers : ~Readable(Result(n))
  BY <1>1, NameFacts DEF Readable
<1>3. IsList
  BY <1>1, EmptySeq DEF IsList
<1>4. ShapeInv
  BY <1>1, <1>2, BundleAssumption DEF ShapeInv, Phases, Numbers
<1>5. GameInv /\ PairInv /\ BundleInv /\ ReportInv
  BY <1>1, <1>2 DEF GameInv, PairInv, BundleInv, ReportInv
<1>6. MailInv
  BY <1>1 DEF MailInv, MailTellsTheSeries
<1> QED BY <1>3, <1>4, <1>5, <1>6 DEF IInv

LEMMA InvStep == IInv /\ [Next]_vars => IInv'
<1>1. IInv /\ Next => IInv'
  BY LaunchStep, NegotiateStep, PlayGameStep, RestsStep, CollectStep, BundleStep, RejectStep,
     SubmitStep, WriteStep, CrashStep DEF Next, ProcessStep, Finalization
<1> QED BY <1>1, SameStep

\* The viewer changes nothing of the directory.
LEMMA ViewerLooks == [ViewerNext]_allVars => [Next]_vars
BY DEF ViewerNext, allVars

LEMMA InvHolds == ViewerSpec => []IInv
<1>1. ViewerInit => IInv
  BY InvInit DEF ViewerInit
<1>2. IInv /\ [ViewerNext]_allVars => IInv'
  BY InvStep, ViewerLooks
<1> QED BY <1>1, <1>2, PTL DEF ViewerSpec

-----------------------------------------------------------------------------
\* A bundle that is mailed is valid and the one in the directory: every file an
\* envelope, every sub-game signed, with its records and the points of its
\* outcome, whatever the games came to and however often a process died or was
\* launched again (submission_validate.py:36-151).
THEOREM MailTells == ViewerSpec => []MailTellsTheSeries
<1>1. IInv => MailTellsTheSeries
  BY DEF IInv, MailInv
<1> QED BY <1>1, InvHolds, PTL

\* After a series has been mailed nothing is written or mailed again
\* (series_coordinator.py:83-92).
THEOREM MailedOnce == ViewerSpec => MailIsFinal
<1>1. IInv /\ [Next]_vars => [mail # <<>> => UNCHANGED <<files, mail>>]_vars
  <2> SUFFICES ASSUME IInv, Next, mail # <<>> PROVE UNCHANGED <<files, mail>>
    OBVIOUS
  <2>1. phase \in {"submitted", "idle"} /\ todo = <<>>
    BY DEF IInv, MailInv, ShapeInv, Quiet
  <2> QED BY <2>1 DEF Next, ProcessStep, Finalization, Launch, Negotiate, PlayGame, EndGame,
       Uncollectable, Collect, Bundle, Reject, Submit, Return, WriteNext, Fail, Crash
<1>2. IInv /\ [ViewerNext]_allVars => [mail # <<>> => UNCHANGED <<files, mail>>]_vars
  BY <1>1, ViewerLooks
<1> QED BY <1>2, InvHolds, PTL DEF ViewerSpec, MailIsFinal

\* A bundle that is not submitted has a report that names a file, every file that
\* cannot be read and every log with a record that does not verify
\* (network_match.py:1945-1953).
THEOREM RejectionsAreExplained == ViewerSpec => []RejectionIsExplained
<1>1. IInv => RejectionIsExplained
  BY DEF IInv, ReportInv, Explains, RejectionIsExplained
<1> QED BY <1>1, InvHolds, PTL
===============================================================================
