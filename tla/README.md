# A verification of the thief team's match runner

This directory models the program in TLA+: the game two remote peers play against each other
without a referee, the channel their turns travel on, the series of games they play, the files that
are submitted for it, the gates in front of the report that is mailed at the end, and the windows in
which a match is played, watched and replayed. The models are checked with TLC on small
instances; the theorems are proved with TLAPS for every value of the constants.

Paths below are relative to `src/`. `PROJECT.json` maps every definition to the lines it models and
lists the runs, the theorems, the hazards and the findings.

## 1. The system

Two teams play a pursuit game on a grid: a thief, and a police that may wall cells. Every team runs
its own process with an MCP server (inbound) and an MCP client (outbound). There is no referee:
every turn is sealed with a hash, sent, and revealed after the game; each peer then replays both
logs and decides whether it signs the result. A *series* is a number of such games (*sub-games*)
with alternating roles, each played by a fresh child process. A coordinator restarts what is not
done, and the last child aggregates the results. A report may be mailed through a rate-limited
gatekeeper.

| component | state it keeps | operations | properties that make it correct |
|---|---|---|---|
| **Turn delivery** `services/mcp_client.py` (`McpPeerTransport`), `services/mcp_server.py` (`PeerInboxes`), `_OrderedTurnReceiver` in `services/network_match.py` | queues of turns, audits and agreements; an LRU cache of delivered commitments; the slots recorded, the turns buffered | `_send` (retry until ok or deadline), `receive_turn` / `enqueue_once`, `receive` | every turn once and in order; an honest peer is never accused; what was acknowledged is not lost; nobody waits for ever |
| **Network match** `NetworkMatchRunner.run`, `domain/board.py`, `domain/capture.py` | board, position, log, claims, answers, outcome | own turn (thief, police), peer's turn, exchange and replay of the audits, result file | both peers play one legal game although each sees half of it; the result is true, equal and signed |
| **Trajectory audit** `_audit_revealed_trajectory`, `services/protocol_audit.py` | none: a function of two logs | replay | finds every turn that a record and the position before it show to be illegal, and every admitted capture |
| **Series** `services/series_coordinator.py`, `services/series_state.py`, `cli/serve.py`, `finalize_completed_series` | files: logs, results, state, aggregate, archived attempts | launch, resume, start a child, mark, aggregate, exchange digests | a resumed series is complete and consistent, at each team and between them |
| **Gatekeeper** `services/gatekeeper.py`, `quota_manager.py`, `token_bucket.py`, `anomaly_detector.py`, `gmail_report_sender.py` | day quota (a file), bucket, breaker | `submit`, `check`, sending with back-off | no day above its quota, no burst above the bucket, the breaker exact, no report pending for ever |
| **Session agreement and sealing** `services/protocol_crypto.py`, `commit_reveal.py`, `network_protocol.py`, the negotiation of `network_match.py` | agreement inbox, stored negotiation | exchange of signed terms, repeated across sub-games | both children play the same terms |
| **Orchestrator** `services/orchestrator.py`, `state_machine.py`, `deadline_tracker.py`, `watchdog.py`, `log_manager.py` | a turn's state, a log, a heartbeat | `run_turn`, `check` | the log is what the peer holds; a turn in time is left alone; a turn that is sent ends |
| **Runtime state machine** `services/network_state_machine.py`, `protocol_messages.py` | one state, applied turns, seen messages | `transition`, `apply_turn_once`, `accept` | no transition out of a terminal state; a message is processed once |
| **Thief policy** `domain/strategy/`, `domain/scent.py`, `domain/belief.py`, `services/gemini_agent.py`, `_choose_move` | evidence about the police, visited cells, scent of both agents | read a public turn, plan, ask the advisor, choose | the evidence never excludes the truth; no preference overrules a safe move |
| **Submission bundle** `services/submission_bundle.py`, `submission_validate.py`, `match_reports.py`, `step0.py`, `domain/league.py` | the files of a series, each in an internal form and then in an envelope | write, collect, bundle, validate, mail | what is mailed is valid, true and mailed once; what is not mailed is explained |
| **Replay viewer** `domain/replay.py`, `gui/replay_gui.py` | the loaded records, the step shown, playing or not, pending timers | open, play or pause, step, jump, close | a playback ends; a submitted log can be opened |
| **Interactive match and play window** `domain/interactive_match.py`, `gui/play_app.py`, `play_app_input.py`, `cli/play.py` | one board, whose turn, one timer, the open dialog | a move, a barrier, the agent's turn, new game, mode and setup dialogs | the window offers just what the turn allows; every match follows the rules |
| **Local simulation** `domain/simulation.py` | one board | a turn of both policies | the same rules |
| **Network window** `gui/network_match_app.py` | a server thread, a match thread, their queue, a timer that drains it | start, report, drain, close | the next window finds its port free, unless the last server would not end; the end of the match is shown |
| **Pregame validation, diagnostics, configuration, mail authorization** | documents, or none | compare, probe, parse | layout and pure input/output |

### How they interact

```
  run_series --starts--> serve (child) --runs--> NetworkMatchRunner.run
      |                      |                        |  ^
      files <--- log, result, state                   |  | inboxes (turns, audits, agreements)
                             |                        v  |
                             |          McpPeerTransport._send ==tunnel==> peer's MCP server
                             +--> finalize_completed_series --(digest, through the audit inbox)
                             +--> send_match_report --> Gatekeeper.submit --> mail transport
```

The runner and its server share only the inboxes. Two teams share only messages. A coordinator and
its child share only files, and so do finalization, its validation and the replay viewer. The
network window shares a queue and a stop event with its two threads; the windows share one Tk root,
which runs one callback at a time.

### What is hard

* **Delivery.** The tunnel loses requests and responses, delays, repeats and reorders; `_send`
  retries; the delivery cache is bounded; turns carry a step and a commitment but no session.
* **Half the information.** The police learns whether it caught the thief one turn later; the thief
  learns of a barrier one turn later; outcome and signature are decided by each peer alone.
* **Failure at one side.** Any deadline may pass in one process and not in the other.
* **Restart.** A process ends between two files, or in the middle of one; two coordinators resume
  independently, and old requests reach new servers.
* **Inference.** A filter that starts from its own last answer is wrong for good after one wrong
  answer; safety tiers, loop prevention, a filter and an advisor each exclude moves.
* **Files.** A submission is some fifteen files written one after the other, over which launches,
  replays of a sub-game and crashes pass; the same file has two forms.
* **Callbacks.** A key, a click, a timer and a dialog interleave as they please; a timer that is
  pending when its reason is gone, or lost when a dialog is called off, is seen by nobody.
* **Time.** Windows, refills, days and back-off schedules interact at their edges.

## 2. The modules

| module | models | notes |
|---|---|---|
| `OrderedDelivery` | what the channel promises the game loop | abstract specification |
| `TurnDelivery`, `MCTurnDelivery` | the channel | implements `OrderedDelivery` |
| `TurnDeliveryProofs` | six theorems about `TurnDelivery`, the refinement of `OrderedDelivery` among them | TLAPS |
| `Grid` | cells, moves, distance (`domain/board.py`) | constants only |
| `ChaseGame` | the game as an umpire with the whole board would run it | abstract specification |
| `TrajectoryAudit` | the replay of two logs | a stable sort and a recursive function, no state |
| `RevealedLogs`, `MCRevealedLogs` | any two logs, and what the replay should find in them | the rules of the game, and reference definitions of the faults and the capture |
| `PeerMatch`, `MCPeerMatch` | two runners playing one game and auditing it | implements `ChaseGame`, uses `TrajectoryAudit` |
| `PeerMatchProofs` | nine theorems about the game, its audit and the audit of any two logs, the refinement of `ChaseGame` among them | TLAPS |
| `Series`, `MCSeries` | two coordinators, their children and their files | uses what `PeerMatch` shows of one game |
| `SeriesProofs` | three theorems about `Series` | TLAPS |
| `SubmissionBundle` | the directory of a series at one team, over launches and crashes | uses what `PeerMatch` shows of one game |
| `ReplayViewer`, `MCSubmission` | the viewer on the logs of that directory | extends `SubmissionBundle` |
| `SubmissionProofs` | three theorems about the directory, with the viewer on it | TLAPS |
| `Gatekeeper` | the gates, the sender, and the processes that hold them | |
| `GatekeeperProofs` | three theorems about `Gatekeeper` | TLAPS |
| `Orchestrator` | `run_turn` again and again, its deadline tracker, watchdog and log | |
| `OrchestratorProofs` | three theorems about `Orchestrator` | TLAPS |
| `ScentEvidence` | the scent field and the inference from two snapshots of it | operators only |
| `Evasion`, `MCEvasion` | the thief's evidence, planner, advisor and filter against any police | uses `ScentEvidence` |
| `EvasionProofs` | four theorems about `Evasion` | TLAPS |
| `LocalChase` | the game as a single process should play it | abstract specification |
| `LocalMatch` | the interactive and the simulated match | operators, used by `PlayWindow` |
| `PlayWindow`, `MCPlayWindow` | the program a player starts: mode dialog, play window, network window, or a simulated match | implements `LocalChase` |
| `PlayWindowProofs` | three theorems about the windows, the refinement of `LocalChase` among them | TLAPS |

### 2.1 TurnDelivery

State: `acked` and `sender` are the sending loop of `_send`; `wire` and `replies` are the tunnel;
`delivered` is the LRU cache `PeerInboxes._delivered`; `inbox` its queue; `slotCommits`,
`buffered`, `expected` and `accepted` are the receiver's; `status` says whether the match goes on
and, if not, which `NetworkProtocolError` ended it. `seal` is the sealing of the sending process: a
commitment for each step.

| action | code |
|---|---|
| `Transmit`, `Acknowledge`, `SendTimeout` | attempts, success and deadline of `_send` |
| `Lose`, and the copy kept by `Deliver` | the tunnel |
| `Deliver` / `EnqueueOnce` | `receive_turn`, `enqueue_once`: always answers ok |
| `ReplayBuffered`, `AbsorbDuplicate`, `AcceptExpected`, `BufferEarly`, `Refuse`, `ReceiveTimeout` | `_OrderedTurnReceiver.receive`; `Verdict` is its sequence of tests |
| `RestartSender`, `RestartReceiver`, `Negotiate` | processes started again by `cli/serve.py` |

`Window` is 1 for this program's sender; larger values let another team's peer pipeline, which is
what the receiver's buffer is for. A peer that reuses a commitment is a value of `Seals`.

### 2.2 PeerMatch, TrajectoryAudit, ChaseGame

`PeerMatch` runs the loop over `global_turn` of both peers. A peer's turn is one action per kind
of turn (`ThiefMove`, `AcknowledgeCapture`, `PoliceMove`, `PoliceBarrier`), another when `_send`
returns (`ThiefTurnSent`, `PoliceTurnSent`), and one when the peer's turn is taken from the inbox
(`ThiefAccepts`, `ThiefRefuses`, `PoliceTakes`). After the loop, `SendAudit`, `AuditSent` and
`Settle` are the exchange of logs, the replay and the result file. `Expire` and `Cancel` are
deadlines and the operator's stop. The policy is any legal action.

A record stands for its own commitment, so that a forged record is one that was never committed.
The belief map appears where it decides the protocol: `set_certain_position` raises on a blocked
cell (`BeliefRefused`).

`ChaseGame` sees the whole board and knows only moves, walls and the verdict. The refinement
(`PlaysTheGame`) maps the two logs to the number of actions, and the truth told from both logs to
the verdict.

`RevealedLogs` adds records to two logs one by one, lawful or not, with gaps, duplicates and steps in
any order, and compares the replay of `TrajectoryAudit` with definitions that quantify over the
records instead of folding over them. `Breaks` names the rules of the game a record breaks. The
replay keeps no board: of these rules it judges by three, which a record and the position before it
decide (`seal`, `move`, `barrier`). It does not know the four of `OfTheBoard`: that a walled cell may
not be entered (`wall`) or walled again (`rebuilt`), the budget of barriers (`budget`) and whose turn
of which number is due (`turn`). `FaultsAreFound` says that it finds a fault exactly when one of the
three is broken: a game by all the rules is never accused, and a turn that breaks only a rule of the
board goes unnoticed (section 6). The end of a game is left to `CaptureIsAdmitted`. Both properties
are stated for records that disclose their position (`Disclosed`): after one that does not, the
replay has nothing to check a move against, and lets the next pass.

### 2.3 Series

`coordinator` and `number` are the loop of `run_series`; `child` is the process of a sub-game with
its phase and its audit inbox; `log`, `result`, `state`, `final` and `archive` are the files.
`Launch`, `Start`, `Exit` and `Fail` are the coordinator's steps; `Meet` pairs two children and
chooses what `PeerMatch` allows a game to end with; `SendAudit`, `ReadAudit`, `WriteLog`,
`WriteResult` and `Mark` are the end of a sub-game; `Aggregate`, `SendDigest`, `ReadDigest`,
`GiveUp` and `WriteFinal` are `finalize_completed_series`. `Crash` ends both processes of a team
and may leave the file being written torn, because no file is replaced atomically.

### 2.4 Gatekeeper

`quota`, `tokens`, `updated`, `recent` and `tripped` are the three gates; `file` is what the quota
leaves on disk; `process` and `tries` are the sender. `Open` is a new process (only the quota is
read back), `RefuseByCheck`, `Trip`, `RefuseByPace` and `Grant` are the ways out of `submit`,
`Finish`, `BackOff` and `Stop` those of sending, `Tick` and `Midnight` are the clock and the date.
`attempts`, `granted` and `charged` are history: what a reader of the log would count.

### 2.5 Orchestrator

`state` is `MatchStateMachine`, `task` where the coroutine `run_turn` is, `attempt` and `elapsed`
the deadline tracker, `log` the log manager, `received` what the peer took, `silence` and
`triggered` the watchdog. `BeginTurn` and `RefuseTurn` are the head of `run_turn`; `BrainRaises` and
`BrainDecides` its move; `SendAttempt`, `Retry` and `GiveUp` the deadline tracker; `Finish` what
follows the response. `Deliver` is `enqueue_once` of the peer, `Lose` the tunnel, `Tick` the clock,
and `Check` the watchdog's poll, which nothing in the program calls: it may happen at any time. The
peer's delivery cache never forgets here, since it keeps 2048 turns (`mcp_server.py:59`);
`TurnDelivery` has a cache that does.

### 2.6 ScentEvidence and Evasion

`known`, `candidates` and `anchor` are `known_cop_position`, `public_cop_candidates` and
`last_inferred_opponent_positions` of the runner; `visited` is the planner's list of positions, and
`scent` the police's field together with its last snapshot. `ThiefMoves` is the thief's own turn:
`SafestTier` are the cells no hard constraint of the planner excludes, `Plans` what loop prevention
and the scores may leave of them, `SafeNow` and `Allowed` the filter of `_choose_move`, `Advised` the
answer that is taken. `PoliceMoves` and `PoliceWalls` are a legal turn of the police together with
`Read`, the thief's reading of it, since nothing can come between the two.

Intensities are millionths with a tenth lost by whole division; the program rounds a floating-point
field to six decimals, so the two differ by at most a millionth or two in a turn, against
thresholds of 20 (`Tolerance`) and 50,000 (`MinimumGap`). The planner's position list keeps twelve
entries in the code; games here are shorter. `evasion_own` runs an emitter that is not capped, as
`EvidenceIsTrue` needs: there the newest scent and a barrier never disagree about the police, and the
branches for several candidates and for disputed evidence (`network_match.py:1010-1029`) decide
nothing.

### 2.7 SubmissionBundle and ReplayViewer

`files` is the directory by name: a declaration, and a configuration, a log and a result for each
sub-game, the aggregate, and the report of a validation. `phase`, `number` and `todo` are the
process: `todo` are the files it is about to write, with their contents, so that `Crash` may come
between any two of them or leave the first of them torn. `Launch` decides from the files what is
left to do, as `run_series` does; `Negotiate`, `PlayGame` and `EndGame` are a sub-game;
`Collect` or `Uncollectable` the aggregate; `Bundle` the envelopes, one `BundleFile` after the
other, up to the first log that cannot be read; `Reject` or `Submit` what follows the validation,
whose findings are `Errors`; `Return` the end of the child. A game is one of `Plays`: its outcome,
whether it was signed, whose group the peer said it was, whether its identity has every field, and
records that verify or not. The peer's part in the exchange of digests is a choice in `Collect`;
`Series` has both teams and their messages.

`ReplayViewer` opens a log of that directory and adds `viewer`: the records, the step, whether it
plays, and how many timers are pending, since pausing does not cancel one. It steps while no process
of the series runs.

### 2.8 LocalMatch, PlayWindow and LocalChase

`positions`, `blocked`, `currentRole`, `turnsPlayed` and `outcome` are `InteractiveMatch`, or the
board and the counter of `run_local_match`. `PlayWindow` adds what Tk holds: `app` is the open
window, `dialog` the dialog in front of it, `timers` the pending `after(500)` callbacks and
`afterId` the window's belief about them, `controls`, `barrierMode` and `paused` its other fields,
`shown` what the canvas was last given. `net` holds the network windows, closed ones too: the state
of each thread, the queue between them and the log it shows. What is shown by a window, and its queue,
is dropped when it is closed (`Close`), since nobody reads it any more; its threads go on.

| action | code |
|---|---|
| `AgentTurn`, `OnHumanMove`, `OnCellClick`, `ToggleBarrierMode` | the callbacks of a turn; `Advance` is `_advance`, which they all end with |
| `RequestNewGame`, `SelectMode`, `ConfirmSetup`, `CancelDialog`, `DismissResult`, `NewGame` | the dialogs, and `select_and_start` between two windows |
| `ServerStarts`, `ServerStops`, `ServerFails`, `MatchReports`, `MatchEnds` | the two threads |
| `DrainEvents`, `DismissAlert` | the drain timer and its message box |
| `Joined`, `JoinTimesOut` | the join in `close`: the server thread has ended, or the three seconds are over; `left` marks a window whose server `close` gave up |
| `Simulate` | a turn of one role in `run_local_match` |

The cell an agent heads for comes from scent and belief, and an advisor may propose any move: the
model lets the target be any cell and the proposal any move, and keeps what is done with them.
`LocalChase` knows neither windows nor controllers; `PlaysTheChase` maps the turns of either kind of
match to its count of actions.

## 3. The runs

Each run is one question. Every property of a passing run was also broken by a plausible bug
(`(Mutant)` definitions beside the definition they change).

| run | question | bounds, and why they are enough |
|---|---|---|
| `delivery_pipelined` | Is the channel in order, exactly once and complete over a bad tunnel that recovers? | 3 turns, 2 in flight, cache of 1, buffer of 1: the cache forgets a turn that is still retried, a turn comes early, and the buffer is full |
| `delivery_restart` | With restarts and reused commitments, is a commitment played once, and does every wait end? | 3 turns, 2 restarts in either order, one sealing that uses its first commitment again for the last step |
| `match_game` | Do two runners play one legal, true, signed game? | 3x3 board, 3 thief turns, 2 barriers: a capture by move, by barrier and by walls, survival, and every order of the two loops |
| `match_failures` | What remains true when deadlines pass and operators stop, and is a caught thief recorded as caught? | 2x2 board, where every cell is a turn or two away |
| `audit_logs` | Which broken rules does the replay find, and does it find exactly the admitted captures? | every pair of logs with 3 records in all, one barrier allowed, from records that are absent, misplaced, illegal or repeated: lawful turns, a walled cell entered or walled again, a barrier too many, a turn out of order |
| `series_resume` | What survives failures and crashes, and does a series without any end with an aggregate? | 2 sub-games (roles alternate), two faults, two launches, a torn file of each kind |
| `gatekeeper_gates` | Do the three gates keep what they promise? | 2 processes, 2 days, a window of 3 ticks, one retry after an answer 429 |
| `orchestrator_turns` | Does the log agree with the peer over retries, and is a turn in time left alone? | 3 turns, one retry, a watchdog of exactly the time of a turn |
| `evasion_own` | Is the thief's evidence true, and does a safe move stay safe through all filters? | 3x3 board, 5 thief turns, 3 walls, two cells of the belief: a loop, a corner without a safe move, a wall on either side's cell, all ends of a game |
| `bundle_files` | Is what is mailed complete, true and sent once, is a rejection explained, and does a playback end? | 4 sub-games (two of each role), each played at most twice, one crash or failure, three launches, one log that may be opened, two timers at once: a replayed sub-game, every file torn, a tie |
| `desktop_windows` | Does the window offer what the turn allows, does every match follow the rules, when is the port not free, and is the end shown? | 3x3 board, matches of 3 actions, 2 barriers, simulated matches of 2 turns, two windows, one line of log: every mode, a capture of each kind, a new game asked for at every moment, called off or started, a join that times out with the server starting or listening |

`bundle_replay` finds a disagreement between the code and the repository's documents (section 6).

`CHECK_DEADLOCK FALSE` appears where the system stops by itself: a finished game or series, a process
that is not started again, a window nobody touches.

## 4. Fairness

* A process that can take its next step takes it, and its clock goes on: weak fairness of the
  steps of each loop, and of the deadlines where the configuration has them (`RunFairness`,
  `RunSpec`). Every wait in the code has a deadline (`asyncio.wait_for`, or the remaining time of
  `_send`), so this is what `NobodyHangs` needs and all it assumes.
* `TunnelFairness` (`FairSpec` of `TurnDelivery`) says more: a request repeated for ever arrives at
  last. The code cannot guarantee it; only `EveryTurnArrives` uses it, in an instance without
  deadlines. It is strong fairness, because requests are lost between attempts.
* `PeerMatch` states fairness of `SettleSomehow` instead of `Settle`: both are enabled together, and
  the first does not make TLC replay the logs of every state.
* `Series` assumes that every step of a running process is taken and that each coordinator is
  launched once.
* `Orchestrator` assumes that the clock goes on and that an attempt whose time is up is cancelled,
  which is what `asyncio.wait_for` does. Nothing makes the brain decide, and nothing polls the
  watchdog.
* `ViewerSpec` assumes that a process of the series that runs goes on, which needs no viewer, and
  that a timer of the viewer fires. Nobody has to launch a process or press a button.
* `PlayWindow` (`FairSpec`) assumes that Tk fires a timer that is due: the agent's turn and the drain
  of each network window. Nobody has to press a key or answer a dialog, and no thread has to end.
* `Gatekeeper` and `Evasion` are checked for safety only.

## 5. The proofs

`TurnDeliveryProofs`, from `CountsAssumption` and `SealsAssumption`:

1. `TypeCorrect`: `TypeOK` is inductive. The one step that is not obvious is the LRU cache: moving
   an entry to the end keeps the length (`EnqueueType`).
2. `BufferStaysBounded`: every buffered step lies between the expected step and `MaxBuffered` beyond
   it. `BufferInv` adds the type invariant.
3. `HonestPeerIsNotAccused` and `AckedTurnIsNotLost`: from `IInv`, which adds `HonestInv`. An
   accusation depends on what is still on its way: a turn in the tunnel was sent when everything
   `Window` before it had been acknowledged; what is acknowledged, or known to the cache, is held
   by the receiver or waits in the inbox *before* it. Hence a turn that is taken from the inbox is
   never more than `Window - 1 <= MaxBuffered` ahead. `RoomForEarlyTurn` turns that into room in
   the buffer by counting.
4. `NoCommitIsPlayedTwice`, for any peer and any restarts: `SlotsInv` says that what was handed over
   is what the slots below the expected step hold, that a buffered turn is the one in its slot, and
   that no two slots hold the same commitment, which is what the test for a reused commitment buys
   although the slot is recorded before the role and the step of a turn are looked at.
5. `TurnsAreHandedOverInOrder`: without restarts the channel implements `OrderedDelivery`. `SealedInv`
   says that everything on the wire, in the inbox and in the slots is a turn of the one sealing;
   then each hand-over maps to `HandOver`, each way to end to `GiveUp`, and every other step to a
   stutter. No honesty is assumed: a peer that seals a commitment twice is refused, never handed over
   out of order. It is stated for `MaxRestarts = 0`: a receiver that is started again after it gave up
   hands over the turns of a new match.

`PeerMatchProofs`, from the assumptions of `PeerMatch` and `TrajectoryAudit` on the board, the start
cells, the counters and the absent field (which is no cell, number, answer, request or pending
claim), for every board, number of barriers and length, with and without deadlines and cancellation:

1. `EveryTurnIsAccepted`, `TheBoardsAgree` and `PeersPlayTheGame` share one `IInv`, in layers:
   `LoopInv` (where each loop stands, told from the lengths of its log and of what it has taken),
   `MailInv` (what was sealed and not yet taken is the one record in the inbox or on the wire),
   `BoardInv` (each board is what the logs tell, the thief's short of at most one barrier),
   `ReplyInv` (an answer is the truth about the claim before it, and the police asks what its last
   turn claims) and `ChaseInv` (nothing follows a capture but its admission). None is inductive
   alone: that a turn is accepted needs the answer to match the claim, which needs the boards, which
   need the mail.
2. The refinement maps an action of the police or the thief to the umpire's, the admission of a
   capture and everything on the network to a stutter. The umpire's verdict is decided by both logs,
   so the step that seals a record has to show what the record changes in `CaughtInFact`.
3. `TheResultIsTrue`, `EveryGameIsSigned`, `TheResultsAgree` and `TheAuditConfirms` are about the
   audit, and have two halves. `AuditOfGame` is about data alone: for logs of any length in which each
   record leads on from the one before, each answer is the one to the claim before it and no answer but
   the last admits a capture (`GameLogs`), the replay finds no fault, no move after the capture, and a
   capture exactly when the last record admits one. The stable sort alternates the two logs
   (`Alternation`: the place of a record is the number of those that do not come after it, and
   `SortedByPlace` counts them by an injection), and the replay is followed turn by turn, one lemma
   for the record of each role (`ThiefRecord`, `PoliceRecord`), by induction over the set of turns for
   which it holds.
4. The other half is an invariant, `AInv`: `IInv`; `RecordInv` (each record discloses the move its
   peer made); `LastInv` (only the last record of the thief is terminal, and it tells whether the thief
   was caught); `CommitInv` (what a peer committed to is the record it will reveal); that no answer is
   missing; and `EndInv` (a peer that has left its loop has seen the last turn and believes the
   truth, the envelope it sends reveals its log and that outcome, and a result is the truth, signed).
   The loops leave on a terminal turn only (`LoopEnds`): running out of turns never ends one without
   it, since the thief claims survival on its last turn if it claims nothing else. So the branches of
   `Settle` for forged records, overturned outcomes and unsigned results are there for peers that run
   other code.
5. `EveryFaultIsFound` and `EveryCaptureIsAdmitted` are about any two logs of `RevealedLogs`, of any
   payloads and length and any budget of barriers, with `PayloadsAssumption` (a step is a number or
   missing). `SortedKeeps` shows that the stable sort yields records of the two logs, from the order
   being total (`PrecedesIsAnOrder`) and the same injection. The replay is then followed record by
   record, with two invariants. `Tracks`: as long as no record breaks a rule other than those of the
   board (`Unbroken`), the audit knows where both agents are and which steps it has seen, and has
   found nothing but wrong answers; from the first such record on it holds a fault. `LawfulRecord`
   and `UnlawfulRecord` are its two halves, `PostFound` and `BarrierFaults` the comparison of the
   code's checks with these rules. `Understands`, for logs without a fault: what is pending is the
   one claim still open (`UnansweredIsOne`), and the capture found is that of the first answer that
   admits a right claim. No two claims are open at once, so that claim is also the least of those
   ever admitted (`FirstIsLeast`).

`SeriesProofs`, from `SeriesAssumption`, for every number of sub-games, fault and launch: the
invariant `TeamInv` of both teams has five parts.

1. `LastChildFindsAll`: `FilesInv` says how far the files are in each phase of a child, and that every
   sub-game before the coordinator's has a readable result and a finished row. A launch takes up the
   *first* sub-game that is not completed; that nothing before it is missing is `ResumeFacts`.
2. `SignedResultsAreKept`, an action property: `EvidenceInv` says that until a child writes its result
   the result it replaces is in the archive.
3. `ConfirmationIsShared`: `DigestInv` follows a digest through the mail of a child. The audit inbox
   carries audits and digests, and a digest that lies behind the audit of the present game is of the
   peer's results as they are, because a peer that has sent its digest writes no result until it has
   played again (`Shared`). `PastInv` keeps messages of earlier games from being taken for one of this game.

`GatekeeperProofs`, from `GatekeeperAssumption`:

1. `QuotaHolds`: no day is charged above its quota, over any number of processes and days.
   `QuotaInv` relates three counters: what was charged to today, what the process knows, and what
   the file would tell the next process.
2. `PaceIsBounded`: between any two grants, `PaceHolds` bounds what was sent by the capacity and
   the inflow. `PaceInv` relates the tokens left to every earlier grant.
3. `BreakerTripsExactly`: `BreakerInv` says that what the breaker knows is the end of the history, and
   that all before it lies outside the window of the last attempt. Hence counting what is left
   after the loop of `record_attempt` (`DropOlderKeeps`) decides whether some window of the whole
   history holds too many.

`OrchestratorProofs`, from `OrchestratorAssumption`:

1. `TypeCorrect` and `LogIsShared`: `DeliveryInv` says where a turn under way stands against the log,
   that nothing on the wire is newer than the turn being sent, and that a response vouches for what
   the peer has taken. A late copy is then either known to the peer or the turn being sent.
2. `TurnsAreLeftAlone`: `ClockInv` bounds the silence since the heartbeat by the brain's time and
   the attempts made so far; with `PatientWatchdog` that is less than the watchdog waits. The
   products of attempts and timeout are lemmas of their own.

`EvasionProofs`, from `EvasionAssumption` and `SizeAssumption`, for every board, budget of barriers
and length of the game:

1. `TypeCorrect`: with the barriers within their budget.
2. `EvidenceIsTrue`, for a police whose field is not capped below what it can reach
   (`UncappedEmitter`; a field that loses a tenth per turn never exceeds ten emissions): what a turn
   adds is the emission alone, so exactly the police's cell stands out (`FreshCenterIsEmitter`), and
   a true anchor lets it through (`CandidatesAreEmitter`). `EvidenceInv` carries the anchor across
   the thief's own turn. The assumption is needed: with a cap of 900,000 the cell of the police may
   be ruled out (section 6).
3. `GuardedIsSafe`: from 2; the filter keeps to `Guaranteed`, and a police turn reaches no further
   than `CaptureCells`.
4. `SafestTierIsAlwaysKept`: an action property that needs no invariant: the tiers only narrow
   (`TierFacts`), and their first two are the filter's own rule (`PlansAreSafeNow`).

`SubmissionProofs`, from `BundleAssumption`, for every number of sub-games, whatever each of them
comes to, and every number of failures, crashes and launches, with the viewer opened in between. A
game in `Plays` that was signed has records and all of them verify, which is what its audit saw to.

1. `MailTells`: the validator does not look into the results, so that the aggregate tells them is not
   what it checks but what `BundleInv` says: from the collection to the mail no result is written,
   the aggregate on its way (`Newest`) was made of the results as they are, and an envelope keeps the
   records and the attempt of the log it replaces. `PairInv` says that, as long as nothing has failed,
   the log and the result of a sub-game are of one game, but while the two are being written
   (`GameInv`); that is why the property excepts a process that has died.
2. `MailedOnce`, an action property: a series that is mailed has every sub-game completed and an
   aggregate, so a launch has nothing to do (`ResumeFacts`), and no other step is left.
3. `RejectionsAreExplained`: `ReportInv` follows the errors from the validation to the report. That
   there are errors when the bundle broke off is in `BundleInv`: the declaration was replaced first,
   so the validation gets beyond it, and the log that could not be read is still there.

`PlayWindowProofs`, from `PlayWindowAssumption`, for every board, length of the match and number of
windows:

1. `TurnIsOffered`: from `OfferInv`, which adds to the property that the match is paused exactly while
   a new game is being asked for and that `afterId` is held exactly while a timer is pending. Without
   the first a timer could fire behind a dialog; without the second a dialog that is called off could
   start a second chain of agent turns. `AdvanceOffers` is the lemma every callback ends with.
2. `PortIsLostToALateServer`: from `PortInv`: only the last window of an open network application may
   have a server that neither ended nor was given up by `close`, and a server that missed its port
   has one that was given up among the windows up to its own. A server that was given up may come to
   bind its port after the next window has it; then it is the one that misses it.
3. `MatchesFollowTheRules`, with `SizeAssumption` and `LocalMatchAssumption`: every match implements
   `LocalChase`. `MatchInv` says that the thief of a match that goes on is free: not on the cop, not
   on a barrier, and with a way out. The code asks for all of this after every action and the umpire
   only after those that can bring it about; the invariant shows that they agree
   (`ThiefKeepsWayOut`: a thief that has moved can go back).

**Only model-checked**: everything temporal under fairness (`NobodyHangs`, `EveryTurnArrives`,
`CaptureIsRecorded`, `SeriesIsSettled`, `SentTurnEnds`, `ConfirmedIsSubmitted`, `PlaybackEnds`,
`AgentsFinish`, `EndIsShown`), which this prover does not reach. Every invariant and every action
property of the runs is stated by a theorem. `CommitPlayedOnce` holds with restarts,
`DeliversInOrder` is stated without them, in the run as in the theorem.

## 6. What the code does that the repository does not say

One disagreement is a run, `bundle_replay`: `docs/RUNNING.md` (lines 150 to 153) opens a log of
`results/network` in the replay viewer, which takes a list of records (`domain/replay.py:43`);
finalization has replaced the logs of a series by envelopes (`submission_bundle.py:104-111`), and a
log of that form cannot be opened.

Other behaviours met while modelling, part of the models but of no run of their own:

*Games*

* A police that stays on a cell it walled in an earlier turn makes the thief's process fail:
  `set_certain_position` refuses a blocked cell (`network_match.py:217`), while the rules let the
  police wall its own cell and stay on it (`board.py:99-102`). `TurnsAreAccepted` says that this is
  the only turn of an honest peer that is refused.
* The inference that allows for a capped scent (`network_match.py:298-309`) may exclude the cell of a
  police that caps it: a cap below what ten emissions add up to hides the newest emission.
* A turn that an old process is still retrying is queued by a new server before the negotiation and
  played in the next game: turns carry no session (`mcp_server.py:78`).
* The thief answers "caught" to a public claim of its cell wherever the police is
  (`network_match.py:1057`).
* A resumed series may sign two outcomes for one sub-game: one team takes up the sub-game that the
  other has signed (`series_state.py:44`).
* The replay at the end of a game keeps no board (`network_match.py:516-675`): a step into a walled
  cell, a barrier on another, barriers beyond the budget and turns out of order leave no fault in it,
  where `board.py:111-112` and `158-161` refuse the first three. `docs/PRD.md:38` says that a rule
  violation surfaces through the mutual audit; `docs/audit/HISTORICAL_FINDINGS_REVALIDATION.md:11`
  lists the replay of barriers as incomplete. During the game the receiver keeps the turns in order, a
  declared barrier must lie beside the cell claimed with it (`network_match.py:959-987`), and a claim
  of a walled cell is refused by the belief map; a thief that steps into a wall is noticed by nothing.
* A deadline in the exchange of the audits leaves one peer with a signed result and the other with
  none; a resumed series plays signed sub-games again, may be paired with a peer at another
  sub-game, and takes the first envelope of the audit inbox for the audit of the game.
* Each report is mailed through gates made for it (`email_result_file`): between two reports only the
  quota file keeps anything, as between two processes in `Gatekeeper`.
* Retries after an answer 429 are outside the gates, bounded by the back-off schedule only; a
  submission refused by the bucket has already counted with the breaker; a torn quota file stops
  every later process.

*Series and submission*

* The aggregate is written before the bundle and the mail, and a launch takes an aggregate that is
  there for the end of the series (`series_coordinator.py:83-87`): after a crash between the two, or
  after a finalization that the peer did not confirm, nothing is submitted any more.
* A crash between the log and the result of a sub-game that is played again leaves a signed result of
  the old game beside the log of the new one. The validation does not compare the two, so the pair
  can be mailed; `MailTellsTheSeries` allows this and nothing else.
* The validation passes over a log that is still a list.
* The report of a failed validation is never removed, so it may lie beside a submitted series.
* Nothing that two children exchange names the sub-game, so a game may be one sub-game at one team and
  another at its peer (`network_match.py:1488`).

*Orchestrator and policy*

* An exception of the brain leaves `run_turn` in `COMPUTING_MOVE`: every later call is refused, after
  a heartbeat that keeps the watchdog quiet. With the deployed 120 s and 180 s the watchdog is not
  patient in the sense of `PatientWatchdog`, and a brain that hangs the event loop also hangs any
  poll from it.
* `cop_capture_cells` says that "a barrier never extends capture range": a barrier on the last open
  neighbour of a thief captures it from out of reach (`boxed_in` in `Evasion`).

*Windows*

* While an agent is to move, the board shows its true cell (`View`), also where the human plays
  against it. After the last move the board is not drawn again.
* Pause and play within half a second leaves two chains of timers in the replay viewer, which then
  plays at double speed.
* A line of the server that is drained after the error of the match sets the status of a network
  window back to online; it is queued before the port is bound.
* `close` waits three seconds for the server of a network window and goes on without it
  (`network_match_app.py:126`). The two seconds that `run_peer_server` gives uvicorn bound only the
  shutdown of connections, not the start. A next window that finds the port taken shows nothing of it:
  uvicorn leaves its thread with `SystemExit`, which is not reported (`network_match_app.py:78`), and
  the line that says the server listens has been queued before.
* The match thread of a closed network window is not joined: it goes on until it looks at the stop
  event (`network_match.py:764`).

*Not reached*

* `NetworkMatchSeriesRunner.run` raises before its loop, and `NetworkMatchRunner.run` refuses the
  police role (`network_match.py:703`): its police branches are modelled as the program of the peer.

## 7. Plan

In this order, the most important behaviour first.

1. **TurnDelivery** - done, with six theorems.
2. **PeerMatch** and its parts - done, with nine theorems about the game, its audit and the audit of
   any two logs. Left: logs with a position withheld, which the replay cannot check.
3. **Series** - done, with three theorems.
4. **Gatekeeper** - done, with three theorems.
5. **Orchestrator** - done, with three theorems.
6. **Evasion** - the thief's side done, with four theorems. Left: the policy of the police
   (pursuit from the same inference, barrier choice), which would share `ScentEvidence`.
7. **PlayWindow** with `LocalMatch` and `LocalChase` - done, with three theorems. Left: the fields of
   the setup form.
8. **SubmissionBundle** and **ReplayViewer** - done, with three theorems.
9. **SeriesBoundary**: the agreement exchange when one child is restarted and the other still waits,
   with the stale turn of section 6.
10. **Runtime state machine** with the idempotency guard, which only tests use.

## 8. What is not modelled

* Hashing: a commitment names its record, and verification is equality.
* The planner's scores (any move its constraints admit), the whole policy of the police (any legal
  action), hints, and the advisor's prompts and retries.
* The fields of the session agreement, which are compared one by one before a game and whose first
  difference ends the process; the pregame validation, which no live path calls.
* The contents of reports and of the step-0 declaration beyond the parts that finalization and the
  validation look at; the league record, which only tests use.
* Drawing, the fields of the setup form, the live view, diagnostics, configuration and its bounds
  (they are the constants of the modules), and the mail library.

The reason for each is its note in `PROJECT.json`.
