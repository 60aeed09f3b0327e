------------------------------ MODULE Gatekeeper ------------------------------
(***************************************************************************)
(* The gates in front of the mail service (services/gatekeeper.py): a      *)
(* daily quota kept in a file, a breaker that locks after a burst of       *)
(* attempts, and a token bucket.  A report that passes them all is handed  *)
(* to the transport, again after a pause for each answer 429               *)
(* (gmail_report_sender.py).                                               *)
(*                                                                         *)
(* Time is counted in ticks.  A token is Scale units of the bucket and     *)
(* Rate units flow in each tick, so that no fraction is needed.  The date  *)
(* changes on its own.                                                     *)
(***************************************************************************)
EXTENDS Integers, Sequences, FiniteSets

CONSTANTS
    Threshold,       \* daily_threshold of the quota
    Capacity,        \* capacity of the bucket, in tokens
    Scale, Rate,     \* units in a token, units that flow in at a tick
    Window,          \* window_seconds of the breaker
    MaxInWindow,     \* max_sends_in_window of the breaker
    Retries,         \* max_retries after an answer 429
    Backoff,         \* retry_backoff_seconds
    None, Torn,
    MaxTime,         \* bound: the time after which nothing is submitted
    LastDay,         \* bound: the last day
    MaxAttempts,     \* bound: attempts of one process
    MaxOpens         \* bound: processes that use the gates, one at a time

QuotaStates == [day : Nat, count : Nat]

ASSUME GatekeeperAssumption ==
    /\ Threshold \in Nat /\ Capacity \in Nat \ {0} /\ Scale \in Nat \ {0} /\ Rate \in Nat
    /\ Window \in Nat \ {0} /\ MaxInWindow \in Nat \ {0} /\ Retries \in Nat
    /\ Backoff \in Nat /\ LastDay \in Nat
    /\ MaxTime \in Nat /\ MaxAttempts \in Nat /\ MaxOpens \in Nat
    /\ None # Torn /\ None \notin QuotaStates /\ Torn \notin QuotaStates

VARIABLES
    now,        \* time.monotonic
    today,      \* date.today
    process,    \* "down", "idle", or "sending" a report
    quota,      \* QuotaManager._state
    file,       \* gmail_quota.json: a state, Torn, or None
    tokens,     \* TokenBucket.tokens, in units
    updated,    \* TokenBucket._last_update
    recent,     \* AnomalyDetector._recent_sends
    tripped,    \* AnomalyDetector._tripped
    answer,     \* the last decision of submit, or None
    tries,      \* transport calls for the report being sent
    attempts,   \* history: when this process made an attempt
    granted,    \* history: when this process was granted one
    charged,    \* history: grants charged to each day
    opens

gates   == <<quota, file, tokens, updated, recent, tripped>>
history == <<attempts, granted, charged, opens>>
vars    == <<now, today, process, gates, answer, tries, history>>

Days      == 0 .. LastDay
FullQuota == [day |-> today, count |-> 0]

Init ==
    /\ now = 0 /\ today = 0 /\ process = "down"
    /\ quota = [day |-> 0, count |-> 0] /\ file = None
    /\ tokens = Capacity * Scale /\ updated = 0
    /\ recent = <<>> /\ tripped = FALSE
    /\ answer = None /\ tries = 0
    /\ attempts = <<>> /\ granted = <<>>
    /\ charged = [d \in Days |-> 0]
    /\ opens = 0

-----------------------------------------------------------------------------
(* The quota.                                                              *)

\* QuotaManager._rolled_over
RolledOver(q) == IF q.day # today THEN FullQuota ELSE q

QuotaAllows == RolledOver(quota).count < Threshold

(* The breaker.                                                            *)

\* The loop of record_attempt drops from the left until it meets an attempt
\* that is not older than the cutoff; the attempt of now never is.
DropOlder(sends, cutoff) ==
    LET first == CHOOSE i \in DOMAIN sends :
                     sends[i] >= cutoff /\ \A j \in 1 .. i - 1 : sends[j] < cutoff
    IN  SubSeq(sends, first, Len(sends))

\* (Mutant) An attempt is forgotten at the end of its window, not after it.
RecentUntilCutoff == DropOlder(Append(recent, now), now - Window + 1)

\* AnomalyDetector.record_attempt
Recent == DropOlder(Append(recent, now), now - Window)

Trips == Len(Recent) > MaxInWindow

(* The bucket.                                                             *)

Lesser(x, y) == IF x < y THEN x ELSE y

\* (Mutant) The bucket has no rim.
RefilledUnbounded == tokens + Rate * (now - updated)

\* TokenBucket._refill
Refilled == Lesser(Capacity * Scale, tokens + Rate * (now - updated))

-----------------------------------------------------------------------------
(* A process and its Gatekeeper.                                           *)

\* (Mutant) The file is not read.
OpenAfresh ==
    /\ process = "down" /\ opens < MaxOpens
    /\ opens' = opens + 1
    /\ process' = "idle"
    /\ quota' = FullQuota
    /\ tokens' = Capacity * Scale /\ updated' = now
    /\ recent' = <<>> /\ tripped' = FALSE
    /\ attempts' = <<>> /\ granted' = <<>> /\ answer' = None
    /\ UNCHANGED <<now, today, file, tries, charged>>

\* The gates of a new process: only the quota is remembered.  A file that
\* cannot be parsed raises, and there are no gates.
Open ==
    /\ process = "down" /\ opens < MaxOpens
    /\ opens' = opens + 1
    /\ IF file = Torn
       THEN UNCHANGED <<process, gates, answer, attempts, granted>>
       ELSE /\ process' = "idle"
            /\ quota' = RolledOver(IF file = None THEN FullQuota ELSE file)
            /\ tokens' = Capacity * Scale /\ updated' = now
            /\ recent' = <<>> /\ tripped' = FALSE
            /\ attempts' = <<>> /\ granted' = <<>> /\ answer' = None
            /\ UNCHANGED file
    /\ UNCHANGED <<now, today, tries, charged>>

Submitting == process = "idle" /\ now <= MaxTime

\* Gatekeeper.check refuses: nothing is consumed.
RefuseByCheck ==
    /\ Submitting
    /\ ~QuotaAllows \/ tripped
    /\ quota' = RolledOver(quota)
    /\ answer' = IF QuotaAllows THEN "anomaly_detected" ELSE "quota_exceeded"
    /\ UNCHANGED <<now, today, process, file, tokens, updated, recent, tripped, tries, history>>

\* The attempt is recorded first, and may be the one that trips the breaker.
Attempt ==
    /\ Submitting /\ QuotaAllows /\ ~tripped
    /\ Len(attempts) < MaxAttempts
    /\ recent' = Recent /\ tripped' = Trips
    /\ attempts' = Append(attempts, now)

Trip ==
    /\ Attempt /\ Trips
    /\ quota' = RolledOver(quota)
    /\ answer' = "anomaly_detected"
    /\ UNCHANGED <<now, today, process, file, tokens, updated, tries, granted, charged, opens>>

RefuseByPace ==
    /\ Attempt /\ ~Trips
    /\ Refilled < Scale
    /\ quota' = RolledOver(quota)
    /\ tokens' = Refilled /\ updated' = now
    /\ answer' = "rate_limited"
    /\ UNCHANGED <<now, today, process, file, tries, granted, charged, opens>>

\* QuotaManager.record_send, before anything is sent.
Charge(q) == [q EXCEPT !.count = @ + 1]

Grant ==
    /\ Attempt /\ ~Trips
    /\ Refilled >= Scale
    /\ tokens' = Refilled - Scale /\ updated' = now
    /\ quota' = Charge(RolledOver(quota)) /\ file' = quota'
    /\ answer' = "allowed"
    /\ process' = "sending" /\ tries' = 0
    /\ granted' = Append(granted, now)
    /\ charged' = [charged EXCEPT ![today] = @ + 1]
    /\ UNCHANGED <<now, today, opens>>

-----------------------------------------------------------------------------
(* send_match_report, after the gates.                                     *)

\* Delivered, or refused for a reason other than 429.
Finish ==
    /\ process = "sending"
    /\ process' = "idle"
    /\ UNCHANGED <<now, today, gates, answer, tries, attempts, granted, charged, opens>>

\* 429: another call after a pause, or none when the schedule is used up.
BackOff ==
    /\ process = "sending"
    /\ IF tries < Retries
       THEN /\ tries' = tries + 1 /\ now' = now + Backoff
            /\ UNCHANGED process
       ELSE /\ process' = "idle"
            /\ UNCHANGED <<now, today, tries>>
    /\ UNCHANGED <<today, gates, answer, attempts, granted, charged, opens>>

\* The process ends, perhaps while Grant writes the quota: the file is torn.
Stop ==
    /\ process # "down"
    /\ process' = "down"
    /\ file' \in {file} \cup IF process = "sending" /\ tries = 0 THEN {Torn} ELSE {}
    /\ UNCHANGED <<now, today, quota, tokens, updated, recent, tripped, answer, tries, history>>

Tick ==
    /\ now < MaxTime /\ process # "sending"
    /\ now' = now + 1
    /\ UNCHANGED <<today, process, gates, answer, tries, history>>

Midnight ==
    /\ today < LastDay
    /\ today' = today + 1
    /\ UNCHANGED <<now, process, gates, answer, tries, history>>

Submit == RefuseByCheck \/ Trip \/ RefuseByPace \/ Grant

Next == Open \/ Submit \/ Finish \/ BackOff \/ Stop \/ Tick \/ Midnight

Spec == Init /\ [][Next]_vars

-----------------------------------------------------------------------------

\* No day is charged with more reports than its quota, whatever processes
\* come and go (quota_manager.py:4-8).
ChargedWithinQuota == \A d \in Days : charged[d] <= Threshold

\* In no stretch of time does a process send more than the bucket's burst and
\* what flowed in since: the bound of a token bucket (token_bucket.py:6).
PaceHolds ==
    \A i, j \in DOMAIN granted :
        i <= j => (j - i + 1) * Scale <= Capacity * Scale + Rate * (granted[j] - granted[i])

\* The breaker is locked if and only if more attempts than it allows fell in
\* one window, although it forgets them as it goes (anomaly_detector.py:34-52).
BreakerIsExact ==
    tripped <=> \E i \in DOMAIN attempts :
        /\ i + MaxInWindow \in DOMAIN attempts
        /\ attempts[i + MaxInWindow] - attempts[i] <= Window
===============================================================================
