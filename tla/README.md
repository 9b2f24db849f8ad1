# agent-corp in TLA+

agent-corp is a suite of services in which AI agents work on tickets about real
hosts.  Agents never touch a host themselves: they claim a ticket on the
**Board**, write a plan, propose it, and after an approval the **Gateway**
executes it with a credential the **Vault** releases against that approval.
These modules specify the parts whose correctness depends on the order in which
many actors act.  Code paths below are relative to `src/`; `board/` abbreviates
`apps/board/server/src/`.

## 1. Inventory

| component | state | operations | hard parts |
|---|---|---|---|
| Board, claim engine (`board/service/claim.js`) | `tickets`, `host_locks`, op-id store | claim, heartbeat, release, reaper sweep, clear outage hold | leases against clocks, fencing tokens, late and repeated calls, outage gate |
| Board, approvals (`board/service/approval.js`) | `approvals`, pin on the ticket | propose, grant, consume, revoke | grant awaits Notes and CMDB between check and transaction; single use; kill levels |
| Board, transitions (`board/service/transitions.js`, `board/core/state-machine.js`) | `tickets.status` | agent and operator transitions, run outcome | every exit must free the lock and withdraw the approval |
| Board, guardrails and sweeps (`guardrails.js`, `sweeps.js`) | WIP caps, `auth_state` | WIP check, kill poll, timers | stale mirror, epochs out of order |
| Board, ceremony (`ceremony.js`) | `huddles`, `ceremony_events` | phases, statements, pause/resume, watchdog | rounds, veto and dissent, timebox against pauses, guard that aborts its own escalation |
| Board, tickets and kickoffs (`tickets.js`, `kickoffs.js`) | `tickets`, `ticket_deps`, links | create, update, dependencies, quarantine, webhook, schedule, verification | spawn-key dedup, taint, dependency cycles |
| Board, backup (`backup.js`) | snapshot files | snapshot, reconcile on boot | restore of an old snapshot, fencing floor |
| Gateway (`apps/gateway/backend/app`) | runs, fences, host mutexes, audit chain | execute plan: consume, checks, redeem, dispatch, report | failure after the consume, one-shot outcome report, kill at a task boundary |
| Vault (`apps/vault/server/src/service`) | releases, handles, audit | redeem, re-release, revoke, expire | single-use swap after five awaits |
| CMDB (`apps/cmdb/backend/app`) | policy git repository, chain log, confirm tokens | propose, confirm, tighten, decide | crash between commit, push, chain row and token |
| auth (`platform/auth`) | kill level and epoch, ledger, denylists | arm, revoke, break-glass, mint | ledger before hot set, monotonic epochs |
| agent-runtime (`platform/agent-runtime`) | drain posture, epoch | drain, kill, outage, claim loop | push against poll, outage against kill |
| Drive (`apps/drive/src`) | SQLite index, journal, staging and blob files, quota ledger | register, stream, commit, abort, delete, restore, sweep, purge, boot replay | journal ahead of index, purge against dedup and replay, streams of one session |
| Notes | documents in a git corpus, an index | fenced writes, reconcile | token checks |
| Chat (`apps/chat/backend/app`) | `notifications`, `push_outbox`, the feed's subscriber queues | post, collapse, ack, push and retry, connect, replay, fan out | re-arming against acks, lost answers, restarts, full queues |
| PDF, Mission control, Library | jobs; observations; index | submit, run, cancel; poll; ingest | cancel races |
| proxy, compose, front-ends | configuration | none | not modelled |

How they interact: agents call the Board over MCP; operators and services call
it over HTTP.  The Gateway reads Board facts, consumes the approval (which hands
it a fencing token), asks CMDB for a verdict, redeems at the Vault, runs the
playbook and reports the outcome.  Vault re-reads the Board itself.  The Board
and the agents mirror auth's kill level by polling.  Fencing tokens minted by
the Board are checked by the Gateway, Notes and Drive.

What makes each correct: *Board*: sections 3 and 4 below.  *Gateway*: every
consumed approval ends in exactly one reported outcome, no dispatch under a
kill, one run per host.  *Vault*: at most one taker of a credential, a bounded
number of repeats, none after a revocation.  *CMDB*: what the gate serves is
logged and anchored on the remote, and a confirmation is of the policy it was
proposed against.  *auth, mirrors and agent-runtime*: an armed kill bites at every
mirror, or the mirror closes, and no older message undoes it.  *Ceremony*:
nothing is executed that was not contested, vetoes hold, deliberations end.
*Drive*: what was acknowledged survives
crashes, purges of other things and the loss of the index.  *Chat*: an escalation is pushed
until acknowledged, an acknowledgement silences it, the feed has no hole.  *PDF*: a job's state, its files and its registry entry agree.

## 2. Modules

| module | content |
|---|---|
| `Board` | the Board server: state, `Init`, one action per handler, fairness |
| `BoardProperties` | type invariant, safety, action and liveness properties, the two refinements |
| `FencedLock` | abstract: a lock whose generation moves on at every acquisition and release |
| `TicketLifecycle` | abstract: the transition table tied to a permit minted by approval and spent by execution |
| `BoardRestore` | crash, snapshot, restore and `reconcileOnBoot` over the whole of `Board` |
| `Ceremony` | phases, huddle, statements, watchdog of one ticket, with the moves of the ticket |
| `BoardGateway` | the Gateway's `execute_approved_plan` over `Board`, its properties, fairness |
| `OneShotRelease` | abstract: a secret handed out to one taker, a bounded number of times |
| `VaultRedeem` | the Vault's releases and redeem pipeline, with what it reads of auth and the Board |
| `KillChain` | the kill level: auth's controller, the Board's mirror, the runtime's drain machine |
| `PolicyControl` | the CMDB's policy repository, change log, confirm tokens, served snapshot |
| `DriveStore` | Drive's upload sessions, streams, commit, journal, collection, crashes and boot replay |
| `Chat` | Chat's notifications and acks, the outbox worker, the SSE feed of one browser |
| `MC*` + `.cfg` | instances for TLC, one MC module per component |
| `BoardSafety` | theorems about `Board`: types, locks, tokens, approvals, dependencies, caps, both refinements |
| `CompositionSafety` | theorems about `BoardGateway` and `BoardRestore`, on top of `BoardSafety` |
| `VaultSafety`, `KillSafety`, `CeremonySafety`, `PolicySafety`, `ChatSafety`, `DriveSafety` | theorems about `VaultRedeem`, `KillChain`, `Ceremony`, `PolicyControl`, `Chat`, `DriveStore` |

### How `Board` corresponds to the code

Each handler body is one synchronous `BEGIN IMMEDIATE` transaction on one SQLite
connection (`board/db/tx.js`), so one handler is one action.  `grant` is the
exception: `GrantBegin` is everything up to the first await, `GrantCommit` the
write transaction, `GrantFail` any failure between or inside; any action may
come between them.  `operatorTransition`, `runOutcome` and the other handlers
with no await are one action each.

| variable | column |
|---|---|
| `status`, `held`, `claimedBy`, `fencingToken`, `proposerId`, `approvalId` | the `tickets` columns of that name |
| `pin` | `plan_note_id`, `plan_note_rev` |
| `wallCap` | `wall_clock_cap_at`: unset, running, past |
| `lockTicket`, `lockAgent`, `holdKind`, `lockGen` | `host_locks.claimed_by_ticket`, `claimed_by_agent`, `hold_kind`, `lock_generation` |
| `lease` | `lease_expires_at` against now: `live`, `lapsed` (within the outage window), `stale` (before it) |
| `appr` | `approvals` |
| `grants` | the locals of `grant` calls that are awaiting |
| `killLevel`, `mirrorStale` | `auth_state.level`; `updated_at` against the staleness bound |
| `issued`, `forced` | history: tokens handed out; tickets a hold clear moved illegally |

A ticket without a host locks a resource of its own (`ticket:<id>`), hence
`Resource == Host \cup Ticket`.  A lock row that was never created is one with
generation 0 that nobody holds.  Token 0 stands for `fencing_token` NULL.
Callers are open: an agent may call with any token it was ever issued for the
ticket (a zombie), or with none where the code lets it be absent; the Gateway
and the operator may report, consume, revoke or clear at any moment; the kill
poll may bring any level.

Abstracted: titles, bodies, versions, audit rows, events and notifications
(written in the same transaction, read by no guard modelled); op-id replays that
answer from the store and change nothing; the exact text of plans (a plan is its
pinned revision; the auto-approve floor, computed from the plan's bytes, is the
set `AutoPlan`); priorities.  `Claimable` leaves out the ceremony gate,
quarantine, lineage depth, team and type filters and the per-team cap: each only
refuses claims, so safety established without them holds with them.  Free lock
rows keep an old `lease_expires_at` on a few paths (`ceremony.js`,
`transitions.js`); no reader looks at it there, and the model clears it.

### How `BoardGateway` corresponds to the code

`execute_approved_plan` (`apps/gateway/backend/app/service/dispatch.py`) runs in
a thread of its own per call, so runs interleave at every call to a holder; each
such call is an action, with the local bookkeeping that follows it.  In the
order of the code: `Begin` (op-id lookup, `runs` row), `ReadFacts`,
`ConsumeApproval` or `ConsumeReplayed`, `CheckFencing`, `AcquireMutex`,
`Redeem`, `Dispatch` (row `executing`, fence bumped), `Report`.  `Reject` is a
`HardReject` at any point before the dispatch: checks of data (plan hash, catalog,
CMDB verdict, kill and live gates) are not decided but may always refuse.
`Die` is any other exception or the end of the process.  Answers of the Board
and the Vault may be lost after the effect; the code then counts a consume as
not done and a redeem as denied.

`BoardStep` is `Board` without `GatewayCall`: what was an open environment there
is a run here.  The Board's `consume` is the very action of `Board`.

| variable | code |
|---|---|
| `run` | the `runs` row and the locals of the call (`phase` refines `state`) |
| `mutex` | the advisory lock of the host (PostgreSQL: gone with its session; the SQLite emulation, which keeps a dead holder's row, is not modelled) |
| `fence` | `host_fence` |
| `answered` | `op_dedup`: op-ids with a stored result, kept by successful runs only |
| `served` | the Board's op-id store, for consumes |
| `redeemed` | releases the Vault has redeemed, one per approval |
| `ran` | history: runs that were dispatched |

A run id is used once.  The Vault is external here: what the Gateway's client
expects of it (it re-reads the approval, and a release is redeemed once).  In
this build the two sides do not agree on the path and the fields of that call
(`service/clients.py`, `VaultClient.redeem`, against
`apps/vault/server/src/api/redeem.js`): with the real pair every redeem is
denied, which the model covers as `Reject`.

### How `BoardRestore` corresponds to the code

`Serve` is a step of `Board`; `Snapshot` copies the tables (`Database`) at any
moment; `Restart` and `Restore` start the server on the database as it is, or on
the last snapshot.  In both, calls in flight are gone.  `index.js` runs
`reconcileOnBoot` only when `BOARD_RESTORE_RECONCILE` is set, so a restart comes
with it and without it; a restore is taken to be announced, as `config.js` asks.
`Reconciled` is its one transaction, pass by pass: generations raised to the wall
clock (`Floored`), claims freed with one more generation, their tickets
requeued, grants withdrawn.  Its last pass escalates the open huddles of tickets
in progress, of which there are none left by then; execution holds stay.

The wall clock in milliseconds seeds counters that grow by one per claim, so it
is ahead of every token handed out: `Now` is the least such number, which is the
worst case for the properties.  What agents keep (`issued`) and what the Gateway
has spent (`spent`) is outside the database and survives.  A resource first
locked after the snapshot has no row to raise: it is recorded in `dropped` and
the token properties exclude it (disagreement 13).

### How `Ceremony` corresponds to the code

One ticket, its `ceremony_phase`, `lane` and row of `huddles` (the columns of
that name; `due` is `timebox_deadline` in the past).  Each method of
`ceremony.js` is one transaction and one action.  Statements carry no fencing
token and phases no role: anybody may call at any time, whatever the ticket's
status, which is why the ticket's own moves (`Claim`, `Reap`, `Block`, `Hold`...)
interleave freely; only their effect on status, hold and pause is kept, the rest
is in `Board`.  A triage computes a lane from signals; here any lane.  A round
advances at the statement *after* the one that completes it, because the event is
written after `_advanceRound` looks; the model keeps that order.  Rounds above the
cap are counted as one.  A backlog request without a dissent escalates and then
throws inside the transaction, so it changes nothing and has no action.

### How `VaultRedeem` corresponds to the code

`redeem` is an async function with up to eight awaits, and any number of calls
interleave there.  A call's `pc` names the await it is in: `asked` and `answered`
(introspection on the way there and back), `facts` and `lock` (Board reads),
`attempt` (first audit write), `engine` (engine and second audit write).  What
runs between two awaits is one action: `Begin` (release read, mirror checked,
once and never again), `LiveOk` (the timestamp of the live check), `FactsRead`,
`AttemptLogged` (repeat counted, drift bound compared, perhaps asked again),
`Respond` (swap, answer).  `Refuse` is any denial or failure at any of them.
`#cas` is a conditional UPDATE, hence `SwapWins`.  The releases are those of one
ticket and handle, so `requestRelease`, whose test and insert run without an
await between them, finds any pending one.

The environment is what the pipeline reads: the Board (`run`, `executing`,
`late`: approvals consumed, whether the last run is on, which were consumed
longer ago than the window), auth's level with the time it was armed, the Vault's
polled `mirror` of it, and a clock for the drift bound and the client timeout.
Of the kill levels auth's introspection denies only G2 (`consult_denylist`), and
the model says so.

### How `KillChain` corresponds to the code

*auth*: `arm` reads the epoch, appends the next one to the ledger, writes the
store; requests run in threads of their own with no lock, so `ArmAppend` and
`ArmSet` are actions with any other between them, of any number of callers at
once, and `ArmDies` a crash or failure between the two.  The read before and the
append are one action: an append that comes later than its read, with the epoch
it read, ends with the same `arm` and `ledger` as one that came first and whose
caller then waited.  `ledger` is the durable record; nothing reads it back, so what it
recorded and the store never took stays out of force, and two entries of one
epoch may stand in it.  `setBack` remembers that an overlapping call set an epoch a
second time or a lower one.  *Board*: `PollAnswered` is auth's answer, `PollApplied` and
`PollFailed` what `killPollTick` does with it, at most one client timeout later;
`applyKill` may ignore it, `markKillSynced` follows regardless, as in the code.
*Runtime*: `ApplyCommand` and `Reconciled` are `apply_command` and `poll_level`;
the epoch of a command is logged, that of a poll is not; `Restart` seeds the
epoch from that log with posture RUN and a shut gate.  Commands are a set from
which one may be applied never, late or again.  The route of auth that would
serve these polls and the sender of the commands are not in this repository
(disagreement 15): the model is of both ends.

`age`, `poll.age` and `settled` count ticks and stop one above their bounds.

### How `PolicyControl` corresponds to the code

| variable | code |
|---|---|
| `work` | the files under the repository's root, as the edits they show |
| `history`, `remote` | local branch and the remote's branch; commits have an id (the sha) and a tree |
| `chain` | `policy_change_log` with `git_commit`, the edit of `confirm_token_id`, and that token's `snapshot_commit` |
| `token` | `confirm_tokens`, the last one of each edit |
| `live` | the store's snapshot and integrity state; `live.how` (history): loaded alone, by a re-arm that a ceremony overlapped (`raced`), or outrun by an accepted edit whose reload raised (`missed`) |
| `op` | the local state of the `confirm` or `apply_direct_tightening` that holds `ChangeControl._lock` |
| `rearm` | a `/re-arm`, in a thread of its own outside that lock; `raced` (history): a ceremony was under way when it began or began under it |

One action per step that survives a death or that another thread sees: files,
commit, push, rollback with reload, row, reload, used flag.  Between any two of
them the process may die (`Restart`), and every one of them may raise with the process
alive (`Raises`, `PushFails`, `PushTimesOut`): the lock is released, what was
done stays.  That includes the reload after the row: `build_snapshot` and
`check_integrity` run git with a time-out and parse every file.  A re-arm may raise
as well (`ReArmRaises`), and nothing keeps it out of a ceremony.  `git push` may be
refused (`GitError`), or time out, which raises an exception nobody catches
whether the remote took the commit or not.  `ls-remote` may fail
(`Snapshots` allows integrity to be false at any time).  Integrity compares
commits: HEAD, the last row, the remote's branch.

### How `DriveStore` corresponds to the code

| variable | code |
|---|---|
| `db` | the index: `artifacts` (`row`, `current`), `artifact_versions`, `blobs.refcount`, `ticket_fences`, `uploads` (`idle`: `last_activity_at` older than the TTL), `daily_bytes` |
| `journal` | the version journal of a day, its lines in order; a cut line is `Torn` |
| `staging`, `cas`, `content` | names of files and the files: a rename moves a file, and a stream that has it open goes on writing to it |
| `put` | the upload handlers under way |
| `status` | running, down, or refused: the boot's replay threw and the process exited |
| `acked`, `purged` | history: versions answered with 201; versions an operator's purge deleted |
| `shared`, `unlogged` | history: files that two streams had open at once; versions whose commit failed and whose aborted line was not written either |

better-sqlite3 and the file calls of the commit are synchronous, so a handler
runs from one await to the next without any other between: `PutOpen`, `PutBytes`
and one of `PutCommitted`, `PutReplayed`, `PutRefused`, `PutBlocked`,
`PutIoError`, `PutUnwritten` are the stretches of `PUT /api/uploads/:id`;
everything else is one action.  `PutIoError` is a rename or a COMMIT that fails after the
line, `PutUnwritten` an append that fails before its line is whole; in both the
compensating `aborted` line (`store.ts:554`) is one more append to the same disk, and is
written, cut or missing.  The handler's own cleanup (`touchUpload`, `abortUpload`,
tried once, its errors swallowed) is taken to succeed; where it does not, the
upload stays pending with its file until the sweep, as after a crash, but its quota
may then be off by what the stream had charged.  A crash may come between any two durable effects (`CrashInCommit`,
`CrashInAppend`, `CrashInPointer`, `CrashInGc`): a transaction is then undone, the
journal lines and renames it made are not.  A crash is one of the process: what it
wrote stays.  Power loss is another matter (disagreement 20).  `Boot` is `reconcileOnBoot`: `Replay`
folds `Applied` over all of the journal into the index there is, in one
transaction, and `Throws` says which lines end it (a corrupt one, a foreign
key).  `LoseIndex` is the loss of the index's volume, for which the journal is
kept.  The version id of a commit is the id of its PUT.  A body counts as one
byte; it either flushes on the way or not, which is the one thing about its
length that matters.  The names are those of one ticket, hence one fence, and the
uploads of one principal, hence one ledger.

### How `Chat` corresponds to the code

| variable | code |
|---|---|
| `rows`, `outbox` | `notifications` and `push_outbox`; `due` is `next_attempt_at` in the past, `aged` a `last_pushed_at` older than the cadence |
| `worker` | the locals of `OutboxWorker`: its batch, the row it pushes, the answer it got |
| `loop` | fan-outs handed over by `call_soon_threadsafe` |
| `client` | a browser: its `Last-Event-ID`, the rows its generator still has to yield (the least first, as the query orders them), its queue at the broker |
| `seen`, `late`, `shed` | history: rows the browser has; pushes that arrived after the ack; rows left out by a full queue or the limit of a replay |

Posts and acks write under one lock in threads of their own: one action each
(`Post`, `Collapse`, `Ack`; a batch ack takes all rows up to one, of a kind or of
all).  The worker is a task that awaits between its steps, so `Rearm`, `Claim`,
`Push` and `Mark` are actions and a post, an ack or the end of the process may
come between any two; a claim writes nothing, so a restart claims again.  `LoadPage` is the browser's first read, the newest
`PageLimit` rows (100); what is older counts as shed.  A push
may fail, or reach ntfy without the answer coming back.  The worker looks at the
ack only when it re-arms.  `Connect` subscribes and reads the rows to replay with
no await between.  The two halves share rows that neither of them writes, so a
behaviour runs one of them (`Setup`).  Left out: broadcasts and ack frames (they carry no id and
no row), the reset for a cursor that names no row (rows are not deleted), the rate
limit and the size guard (a refused post), the order and the limit of 20 of a
batch, the periodic backup.

## 3. Runs

| run | instance | states | shows |
|---|---|---|---|
| `BoardClaims` | 3 tickets (two on one host, one waiting for another, one hostless), 2 agents, caps 2 and 1 | 416 k | types, token uniqueness, truthful replays, WIP caps, dependencies |
| `BoardApprovals` | 1 ticket, 2 plans, 2 approvals, approvers: a proposing agent and the tier lane, kill level mirrored | 79 k | approvals are live exactly while the ticket is approved, final once spent, and what executes was approved by another; refinement of `TicketLifecycle` |
| `BoardOutage` | 2 tickets, 1 host, kills mirrored, outage gate trips on every silence, with fairness | 294 k | locks and tickets agree, released tokens are dead, refinement of `FencedLock`; claims end; drained work is never parked |
| `BoardRestore` | 2 tickets on 1 host, 1 agent, 1 approval, 1 restart or restore | 998 k | lost tokens and spent approvals stay dead, restored rows agree |
| `GatewayRuns` | 1 ticket, 2 approvals, 2 runs, 2 op-ids, outage gate trips on every silence | 834 k | one run per approval and per host; the Board stands behind every run under way |
| `VaultRedeem` | 1 release, 2 calls, 2 op-ids, 1 run, 1 repeat, clock up to 2 | 1.05 M | refinement of `OneShotRelease` (hence one taker), a quiesce reaches the engine |
| `KillChain` | 2 overlapping callers, lift and stop, 2 epochs, staleness 1, timeout 1, with fairness | 2.22 M | mirror and drain machine miss no stop but one auth itself went back behind; a stop bites without any poll |
| `Ceremony` | 2 agents, full lane 1 round, light lane 0 | 352 k | contested execution, vetoes, huddles end |
| `PolicyControl` | 2 edits (1 weakening), 3 commits, failures anywhere, re-arms between and during ceremonies | 4.9 M | served commit anchored, rows anchored, no edit accepted between proposal and confirmation, with the stated exceptions |
| `DriveStore` | 2 sessions, 2 streams of the same bytes, 2 artifact rows for a name, 2 tokens, one of every fault | 2.49 M | acknowledged versions survive with their bytes, one version per operation, refcounts exact, no stale token; the journal alone gives the index back |
| `Chat` | 1 dedup key; the worker on 2 rows with 2 attempts, or the feed on 3 rows with a queue, a replay and a page of 1; 1 restart | 319 k | pushes go on until acked or given up, an ack silences, the feed's holes are the shed rows |
| `GatewayFence` | violation | | a dispatch with a token older than the last one executed |

### Bounds

All are named constants.  `Board`: `MaxGen` caps the tokens minted per resource
(4 to 8: two to four tenures, enough for a zombie of one tenure to meet the next
holder and the one after); `MaxGrants` the concurrent `grant` calls (2: a race of
two); the number of `Approval` rows bounds the rounds of rework (2).  Two agents
suffice for every race modelled (holder and successor); agents are symmetric in
the runs that use symmetry, which check no liveness.  The outage gate's threshold
is a count (`OutageQuota`, the largest number of expired agents that is not above
`threshold * fleetSize`); the runs set it, and the minimum population, so that the
gate trips often or, in `BoardApprovals`, keep the configured minimum of four and
never reach it.  Deadlock checking is off where every bound eventually disables
the actions behind it; it is on in `KillChain`, `Ceremony` and `Chat`.

Two runs suffice for the Gateway: every property relates two runs or a run and
the Board.  One ticket is enough for them to meet on a host, because a hold
clear sends an executing ticket round again (claimed, approved and consumed a
second time, hence two approvals, and `MaxGen` 8, one more than such a second
round needs).  With two op-ids a run either repeats the other's or brings its own.

`BoardOutage` runs safety and liveness on one graph: `MaxGen` 5 is two tenures of
the host and the generation after; the gate's minimum population of one lets it
trip on every agent that goes silent.

`BoardRestore`: one restart (`MaxBoots` 1) of a database with any history before
it; `MaxGen` 6 leaves room for claims before the snapshot, in the lost window and
after the restore, and the reconcile passes over both a claim and an execution
hold.  `VaultRedeem`: two calls are every pair of first redemption, repeat and
race; `Drift` 0 and `Timeout` 1 against a clock of 2 let a live check be fresh, too
old, or re-run, and a level be armed for longer than both together.  `KillChain`:
two callers and two epochs are the smallest at which an epoch is set twice, at two
levels, and at which auth goes back behind a mirror and a runtime that heard the
higher one; two ticks make a mirror stale.  (The code's third level adds a second
kind of stop; the instance has one.)
`Ceremony`: a roster of two is the smallest with both roles apart and together, a
light lane that trips at its first round and a full lane that trips at its second.
`PolicyControl`: three commits put an accepted edit between a proposal and its
confirmation and a rolled back one before both; an edit may be proposed again until
its token is used, so two edits make all pairs of weakening and not.

`DriveStore`: two sessions that may share bytes and an artifact are every pair
the index relates (dedup, sequence, pointer, ledger); each kind of fault happens
once (`Bound`), which puts a crash, a cut append, a failed commit, a purge and a
lost index in any order around two commits.  After a loss the same operation may
be registered again, for another artifact row or under the same name.
`JournalIsCanonical` is claimed while none of the faults after which the journal does
not give the index back has happened (`Untouched`; disagreements 4 to 6).  `AcknowledgedSurvives` is
checked with one loss; with two it fails even where every failed commit was called off.  The first loss forgets the upload
sessions, so an operation whose version was purged meanwhile may be committed
again; the purge wrote no line for the version it dropped (disagreement 5), the replay
after the second loss brings that one back first and passes over the new one.  Once the instance was also run with a person's
token (`Tokens` {0, 1, None}, 7.3 million states, no violation).  All
bodies have one hash, so that every second commit is a dedup hit and every purge
meets a blob another version may want; purges of two different blobs do not
interact in the code.  Behaviours end when streams and faults are used up, so deadlock is not checked.

The exception `Displaced` of `OneVersionPerOperation` takes a failed commit and two
answered ones, three streams, and is not met with two; that of
`AcknowledgedSurvives` takes two streams and is.

`Chat`: two rows are an escalation and another row, or two escalations, of which one
may be acked while the other is pushed, and two attempts tell a retry from giving
up; three rows let a repeat move the cursor two back and a replay be cut short, and a
queue, a replay and a page of one row are overrun at once (256, 200 and 100 in the code).  One
restart may fall between any two steps.

The reaper's `lease` has three ages because the gate's population window looks
at leases that expired less than two minutes ago, while requeueing looks at all
expired ones.

### Fairness

`ClaimEnds` and `DrainedWorkReturns` assume weak fairness of `ReaperSweep`,
which a 30 s timer runs (`board/service/sweeps.js`, `start`), and of
`CapRunsOut`, because the cap is an absolute time set at the first claim and no
handler moves it.  Nothing is assumed of agents, operators, the Gateway or auth:
an agent may heartbeat for ever or never return.  A lease need not lapse: an
agent that keeps it live is caught by the cap.  There is no promise that a held
ticket is ever cleared (a person does that), nor that an executing ticket leaves
that state: the watchdog the plan mentions is not implemented.

`StopReachesBoard` assumes only that time passes (weak fairness of `Tick`): no poll
need ever succeed.

`WatchedHuddlesEnd` assumes that the timebox runs out (weak fairness of
`TimeboxPasses`, a deadline in the past) and strong fairness of `Watchdog`: the
10 s sweep is far more frequent than claims and reaps, which are leases of minutes
apart, so a ticket that is worked on again and again is looked at while it is.
The property itself asks that the ticket is worked on infinitely often and that
the huddle is not paused for good: since nothing calls `resume`, a huddle whose
ticket was once reaped or blocked is out of the watchdog's sight for ever.

`KeepsPushing` assumes weak fairness of the worker's next step (its loop ticks every 5
s and catches whatever a push throws) and that time passes (`Elapse`: a back-off
and the cadence end).  Restarts are finitely many; ntfy may fail for ever, which
ends in `gave_up`.

### Where code and documents disagree

One has a run of its own:

1. *`GatewayFence`.*  The Gateway checks the fencing token before it takes the host
   mutex and not after: a run that waits in between may dispatch behind a newer
   one, which `checks/mutex.py` says can never happen.

The others were met while modelling; the models contain the behaviour, no run is
spent on it:

2. The CMDB builds its snapshot from the working tree and names it
   by HEAD; a weakening edit whose files were written when the process died (or
   whose commit failed) is served, with integrity ok, after the next boot or
   re-arm, although `PLAN.md` says it can never be live without its anchor on the
   remote.
3. Drive: after a crash between a commit's journal line and its rename the
   replay inserts the version and nobody moves its bytes, although `store.ts` and
   `PLAN.md` (re-materializing from staging) say no ordering does that.  Nobody was
   answered, but the operation can no longer be retried either.
4. Drive: a commit that fails after its line is cancelled by an `aborted`
   line; the replay has by then moved the artifact's pointer to the version it
   deletes.
5. Drive: the purge of a deleted chain is not journalled, the purge of its
   blob is: the replay brings the versions back and then fails on a foreign key, so
   no boot succeeds after the first purge of a deleted artifact.
6. Drive: a cut line is tolerated at the end of a file and never truncated;
   the next line of the same day runs into it, and no later boot accepts the file.
7. Drive: a stream that takes longer than the TTL for 8 MiB is swept while it
   is open.
8. Drive: a second PUT of a pending upload cuts the file under the first,
   which may then publish it at a hash it does not have, and be answered with 201.
   `AcknowledgedSurvives` excepts such files (`shared`) and no others; the store never
   reads a file again to compare it with its name.
9. Drive: aborting twice releases the quota twice.
10. `clearOutageHold` looks at `held` only.  While a ticket is held its agent may
   still move it on, so the clear may send it to `todo` from any status, although
   `TICKET_STATE_MACHINE.md` says no other transitions exist.  `Board` records such
   tickets in `forced`; properties about approvals and dependencies exclude them
   (and say so), while the lock and token properties hold of them too.
11. `grant` checks the kill level before its awaits and not in its transaction, so
   it can mint an approval under G1, which `guardrails.js` says suspends minting.
   `consume` checks again.  And `cancelled` is said to guarantee the world was not
   touched; a ticket sent back for rework after a run can be cancelled.
12. The Gateway posts the run outcome to a path the Board does not serve and
   ignores the answer; no watchdog or orphan scan exists in either, and the
   operator has no transition out of `executing`.  The ticket stays there, its
   host locked.
13. `backup.js` says the floor and the grant sweep run "always at boot"; `index.js`
   runs them on request only, and `config.js` says a normal restart must not.  A
   resource first locked after the snapshot starts again at generation 1, so its
   old tokens repeat.  The huddle pass of the reconcile never finds a huddle.
   Approval ids are AUTOINCREMENT, and repeat after a restore.
14. `redeem.js` says the kill level is a live check at G1 and above; auth's
   introspection denies G2 only, so G1 bites through a mirror up to 30 s old, and
   `setDenylist` overwrites that level whatever its epoch, though the comment next
   to it says monotonic.  `requestRelease` may return a pending release that has
   expired and not been swept.
15. Nothing in `platform/auth` serves `/killswitch/epoch` or the revocations route
   the mirrors poll, and nothing pushes commands to the runtime.  `arm` takes no lock,
   so two requests at once set an epoch twice or set it back, although its assertion
   says the epoch is strictly monotonic (`killswitch.py:406`).  Where auth fell behind
   the Board's mirror, the mirror ignores the level auth now shows, a stop too, and
   marks itself synced; a runtime that restarts after an epoch was given out twice may
   claim under a stop it heard in its last life.  The properties name these two cases
   and hold in all others.  The ledger is the truth by its comment
   (`killswitch.py:419`), but nothing reads it: what was recorded and not set is never
   made good.  Break-glass may arm G1 over G2, though the automated path refuses to
   loosen.  `reconcile_kill_epoch` is called at boot only.
16. `_guardBacklog` means to escalate an invalid huddle and rolls that back; a second
   `triage` may lower the lane it set; re-opening a huddle keeps the dissent, the
   decision, the veto and the pause of the last one.
17. In the CMDB a tightening edit whose push fails is meant to take effect
    (`change_control.py:211`), but integrity then says `head_not_on_remote`: the gate
    denies, and no further edit is accepted that could push.  A `/re-arm` may overlap
    a ceremony: it may name a commit that is rolled back and take the integrity of the
    one before (against `GateIsAnchored`), or put back the snapshot before an accepted edit
    (against `ConfirmedAsProposed`).  And the reload after the row may raise with the process
    alive: the edit is in the log, the gate serves the policy before it with integrity ok,
    the token is unused, and an edit proposed on that policy passes the check that
    should say "policy moved under you" (`change_control.py:168-169`, 215-220).  The two
    properties except these cases, by how the snapshot came to be served, and no others;
    `RowsAreAnchored` has no exception.
18. `outbox.py` and `PLAN.md` say of escalations that silence requires an ack.  An
    escalation whose pushes failed `ntfy_max_attempts` times in a row is `gave_up`, which
    nothing re-arms; a repeat of it with the same `dedup_key` collapses onto that row
    and is not pushed either.  An escalation also collapses onto an un-acked row of
    another kind, which is pushed once.
19. `feed.py` says a client that falls behind re-syncs at its next reconnect, and
    `PLAN.md` promises no gap.  A full queue drops a row and later rows move
    `Last-Event-ID` past it, so a reconnect does not send it; and a connect replays
    200 rows and then goes live, skipping the rest; the first page has 100 rows.
    `NoHoleButShed` says these are the only holes.
20. Drive: `cas.ts:4` says blobs are fsynced; only their directory is
    (`server.ts` ends the stream and waits for it to finish), and the index runs
    in WAL mode with `synchronous = NORMAL`.  A line of the journal is synced, so after a
    power loss an answered version may be in the journal without its bytes, which no replay
    brings back.  The models have crashes of the process only.
21. Drive: a failed commit is to be cancelled by a compensating line (`store.ts:550`).  That
    line goes to the same file for the same reason, and its append may fail as well.  The
    committed line then stands: the replay takes its version in after the next crash; and when
    the index is lost, a version that was later answered with its number or operation is
    passed over for it (`Displaced`).

## 4. Properties

*Locks.*  `LockMatchesTicket`: a lock and the ticket it is held for always tell
the same story, and a ticket in progress or executing holds its lock.
`ReleasedTokenIsDead`: whoever was issued the current token holds the lock.
`TokensUnique`: no token twice.  `FencedLockSpec`: the Board implements
`FencedLock` (owner: ticket and caller; generation; tokens issued).
`ReplayNeverStale`: a retried claim is told it owns the ticket only while it
does, although the check compares two columns of the ticket and not the lock.

*Work.*  `WipCapRespected` holds in every state, not only at claims.
`StartedAfterDeps`: work that started has all its blockers done or cancelled,
through requeue and rework.  `ClaimEnds`, `DrainedWorkReturns`: section 3.

*Approvals.*  `GrantedIffApproved`, `ExecutesWhatWasApproved`,
`ApprovalsAreFinal`, `LifecycleSpec` (the permit of a ticket is the status of
the approval it points at; `Approve` mints, `Execute` spends, `Withdraw`
revokes).  `LifecycleSpec` is checked where the gate cannot trip: with forced
tickets it is false (disagreement 10).

*Gateway.*  `OneRunPerApproval`: a repeated call whose first run is still under
way gets the Board's consume answer again, with the same token, so two runs
share an approval; only one is ever dispatched, thanks to the Vault's single-use
release (the mutant takes that away, and the fencing check alone does not save
it).  `OneRunPerHost`: no two runs hold a host, although the Board may give it
away under a run.  `RunIsBacked`: while a run is under way its ticket is
executing under the run's approval and its host is locked for the Gateway under
the run's token, whatever sweeps, agents and operators do (tickets forced back
by a hold clear excepted).

*Restore.*  `LostTokensAreDead`: a token handed out in the lost window matches no
restored row unless its bearer holds the lock.  `SpentOnce`: an approval spent in the
lost window is not spent again.  `RestoredHoldsAgree` is `LockMatchesTicket` with
the one thing a reconcile may break: the token of an execution hold lags behind
the raised generation.

*Vault.*  `OneShotSpec` (the refinement; the count of answers is the hard part,
because repeats are counted before the engine and answered after it; that all
answers go to one op-id is part of it), `QuiesceStopsEngine`: once G2 has been in force for the drift bound and one
introspection, the engine is not asked again, although the check is made before
the Board is read and the attempt is logged.

*Kill switch.*  `FreshMirrorIsCurrent`, `NoClaimAfterStop` and `StopReachesBoard` hold with
callers of `arm` overlapping, and name the one thing that breaks each: auth's epoch
behind the mirror's, or set back or again (disagreement 15).  A low epoch that is ignored
although the mirror is marked synced hides a stop in that case and no other; the mutants
are a failed poll that marks it synced, a mirror that waits for the next epoch and a
runtime that obeys late messages.  `NoClaimAfterStop` has three parts: stops heard in this
life, stops obeyed in any life (logged), and stops only heard in an earlier one.

*Ceremony.*  `ExecutionWasContested` over any number of re-openings,
`NoVetoPastHuddle`, `VetoHolds`, `WatchedHuddlesEnd`.

*Drive.*  `AcknowledgedSurvives` rests on three things at once: the line precedes the
answer, the replay keeps what the index has, and a dedup hit looks for the file
and not only for the row (the mutant trusts the row, and a purge cut by a crash
takes the bytes).  It is about content: the file of the version's hash holds the bytes
that were hashed, except for a file two streams had open (disagreement 8); and the
version is in the index, except for one a line that was never called off displaced
(disagreement 21).  `RefcountExact` over purges cut anywhere and replays;
`OneVersionPerOperation` after the sessions themselves were lost;
`JournalIsCanonical` (replaying into an empty index gives the
index there is, pointers included); `NoStaleFence`, across a loss of the fence table.

*Policy.*  `GateIsAnchored` and `ConfirmedAsProposed`, each but for what `live.how` names
(disagreement 17), and `RowsAreAnchored`; what is served under an anchored name is another
matter (disagreement 2).

*Chat.*  `KeepsPushing`: what owes a push is pushed, and an un-acked escalation owes one
again after each.  `AckSilences`: an acked row is heard of at most `MaxAttempts`
times more and once more per restart, although the worker's batch was read before
the ack.  `NoHoleButShed`: a browser that has a row has all before it but the shed
ones, although a repeat moves `Last-Event-ID` back and the fan-out runs later than the
write.

`TypeOK` of `Ceremony`, `Chat`, `DriveStore` and `VaultRedeem` documents the state; no run
spends time on it.

Each property of a passing run comes with a mutant: an operator named
`<Definition>_<Change>` above the definition it would replace, a plausible bug
under which the property fails.

## 5. Proofs

Every theorem is of the form `Spec => ...` and holds for arbitrary sets of
tickets, hosts, agents, plans, approvals, runs, calls or edits and for arbitrary
bounds.  It rests on the named assumptions of the module it is about (disjoint
identities, distinct null values, types of the bounds); what else
a theorem assumes is named below.  PROJECT.json lists the theorems that state
a property of a run.  In each module the argument is the same: an inductive
invariant, one step per action, and one conjunct at a time under it.  The
invariants were model-checked on the instance of the component's run before they
were proved.

* `BoardSafety`, *types.*  `TypeOK` alone is not inductive: `Consume` locks
  `HostOf[t]`, which must be a host.  `TypeInv` adds `RowsNameHosts` (an
  approvals row and a grant in flight name tickets that have a host).
* *Locks.*  `LockMatchesTicket` needs `LockInv`: a free row also has no agent, and
  an executing ticket has a host (so that its lock is the one `RunOutcome` frees).
  The step is split by what an action does to the locks: takes one (`TakeLock`),
  lets go of those of the tickets it moves (`LetGo`), or touches none (`IdleMove`,
  `LocksUntouched`).  `LocksFit(exact)` states it once for a Board that was
  never restored, whose holders have the exact generation as token, and for one
  that was, where an execution hold may keep an older one.
* *Tokens.*  `LockMoves` says every step takes one lock, frees held locks or
  leaves them alone; from it `TokenInv` (tokens issued are at most the
  generation, and the current one belongs to the holder), and from that
  `ReleasedTokensDie`, `TokensNeverRepeat`, `ImplementsFencedLock`.
  `ReplaysTellTheTruth` needs one more invariant, `ClaimColumns`: a ticket that
  shows both an owner and a token is in progress.
* *Approvals.*  `TicketMoves` classifies every step: work that leaves the
  approvals alone, a proposal, a grant, a consume, a withdrawal.  `PermitInv` adds to the two
  properties that a ticket points at a row of its own (`PointsAtOwn`) and that
  whoever granted a row was not its proposer (`RowsContested`, which a grant
  establishes in its write transaction, whatever happened while it waited).
  `ApprovalsNeverReturn` and `WorkWaitsForDeps` follow the same cases.
* *Caps.*  `CapInv` counts the tickets in progress, all and per owner; it carries
  that they are finitely many, so that nothing need be assumed of the set of tickets,
  and every claim compares the count before it adds one.
* *Lifecycle.*  `ImplementsLifecycle` has the hypothesis `[](forced = {})`: the
  clear of an outage hold moves an executing ticket to todo, which no entry of the
  table allows (disagreement 10), and `forced` records the tickets it did that to.
* `CompositionSafety`, *the Gateway.*  `SysImplementsBoard` (`SysSpec => Spec`, with the type
  invariants): every step of the composition is a step of `Board` or leaves it
  alone, so the theorems above hold of the composition too.
  `HostsAreExclusive` rests on `MutexInv` (a run in a phase that holds the mutex
  is the one `mutex` names), `ApprovalsRunOnce` on `ReleaseInv` (a run past the
  redeem has its approval in `redeemed`, and no other run past the redeem has
  the same), `RowsBound` says that from the facts on a run names an approval and
  a host.  `RunsAreBacked` adds `BackedInv` (behind every
  answer the Board gave to a consume stand an executing ticket and its lock until
  a hold clear forces the ticket on; every run in flight goes by such
  an answer, its own or a replayed one) to `LockInv` and `PermitInv`.
* *Restarts and restores.*  `RestoreInv` says of the running database *and* of the snapshot
  that their locks, rows and generations stand (`DbInv`), that no token was issued
  above the generation of a row that was never lost (`IssueInv`), and that the snapshot is
  older than the database (`SpentInv`).  The wall clock the reconcile seeds from is
  the least number above all that was issued; there is one because tokens are bounded
  by `MaxGen` (`LeastNumber`, from well-foundedness).
* `VaultSafety`: `CallInv` is what a call may rely on past each await, `CountInv`
  weighs what was handed out, with the repeats counted and not yet answered,
  against `reReleases`, `QuiesceInv` bounds how old a call's view of the kill level is.
  From them the refinement of `OneShotRelease` and `QuiesceStopsEngine`.
* `KillSafety`, for any number of callers.  `LedgerInv`: what is shown, sent or under way was
  recorded (`NothingUnrecordedIsObeyed`).  `MirrorInv`: a poll's answer is auth's word unless that
  changed since, and what a fresh mirror has is that word or one of a higher epoch.
  `Covers` says that a word answers for a stop: it is later, or a stop itself;
  `ForwardInv`: while auth never went back, its word covers every stop that was ever
  heard or is on its way; `RuntimeInv`: the runtime covers those of its life, and once
  reconciled those of any life, because the answer it was reconciled with did.
* `CeremonySafety`: `RosterInv` and `ContestInv`.  What carries them is that the
  roster only grows and that re-opening a huddle forgets neither dissent nor decision.
* `PolicySafety`: `RowInv` (commits are numbered as made, an unpushed one is in no row)
  gives `RowsStayAnchored`; `ServeInv` gives `GateServesAnchored` and
  `RowsFollowTheirBase`: what was loaded with HEAD to itself and not outrun since is the last
  row, a ceremony that began on it confirmed against the last row, and a re-arm that no
  ceremony overlaps has HEAD to itself to its end.  No theorem has a hypothesis; the
  exceptions are in the properties.
* `ChatSafety`: `OutboxInv`: what the worker has taken stays pending until its mark, and
  every late push is an attempt counted, one to be marked, or one a crash kept from
  being marked.  `FeedInv`: while a browser is subscribed, every row is had,
  shed or on its way, and whatever is before a row on its way is had or comes first
  (`Ordered`), in the replay, the queue and the loop's hand-overs.

* `DriveSafety`: the index after a boot is a fold over the whole journal.  `Stages` is
  written as a recursive function of the line number, so that `StagesStep` (each
  stage is the step of the one before) follows from the theorem for recursive
  functions, and what every stage has (`Covered`) from a least counterexample
  over the lines.  `DriveInv`: the index is sound (`IndexOK`) and its counts exact
  (`RefsExact`: proved per operation, for the purge by taking the dropped rows out one
  at a time, `UpTo`), lines are only added or spoilt by a cut one (`Longer`), a
  stream has a registered upload, and the line of each answer stands in
  the journal or the journal is corrupt and no boot gets through it (`AnsweredOK`): a
  boot that gets through has therefore raised the fence past every answer.
  `RefcountsAreExact` and `StaleFencesAreRefused` follow, for any sets, limits and
  numbers of faults.  Assumed: finitely many hashes, and ids of delete markers that
  are no version's and not null (the code draws a fresh ULID and prefixes the operation
  with `del-`).
* `DriveSafety`, *survival.*  `AcknowledgedAreKept` and `OperationsAnswerOnce` rest on
  what the journal says: which version each committed line is of (`CommitsOf`) and
  which are called off by an aborted line (`AbortsOf`, `Called`).  `SurvivalInv`: an id
  is of one version and is called off only after its commit (`Placed`); of two
  versions that clash (one operation, or one sequence number of one artifact) the
  earlier was called off before the later was written (`InOrder`); a committed version
  that was not called off is in the index, was purged with its artifact, or waits for a
  boot that can take it in (`JournalKept`; these two while nothing was purged or the
  index never lost, `Intact`); a stream that may yet commit has its file
  (`Staged`); each answer is in the index and its hash has a file (`Stored`), or the index
  was lost and journal and files can give it back (`Restorable`).  Most steps only
  add (`Adds`), so they are proved alike; a purge, a loss and a boot are not.  The boot
  goes line by line (`Follows`): an index that the journal can complete (`Takes`)
  has, after n lines, every version that the first n commit and no line calls off.
  The hypothesis `LossesFindItIntact` is about the losses of the index only: by then
  every failed commit was called off, and nothing was purged or the loss is the first.
  Both halves are needed: after a loss, a purge and a second loss the replay brings a
  purged version back in place of an acknowledged one (section 3), and a line that was
  not called off displaces one (disagreement 21; the property excepts that version, and
  TLC checks it without the hypothesis).  `OneLossIsSurvived` assumes at most one loss, as the
  run has, and then needs only the half about failed commits (`CalledOffBefore`).  Between
  losses, commits and appends may fail in any way.
* `DriveSafety`, *bytes.*  `BytesInvariant`, which has no hypothesis, is what makes
  `AcknowledgedAreKept` a statement about content: a file belongs to one upload or to hashes
  (`FilesApart`), a stream writes the file of its own upload, and another stream or a hash has
  the same file only if it was `shared` (`FilesOwned`), so that a whole body and
  the file of a hash hash to what they say, or are `shared` (`BlobsOK`).
* `DriveSafety`, *the journal alone.*  `JournalGivesIndexBack` compares the index with a
  replay of the whole journal into an empty one.  Following the two side by side would
  need the replays of two journals, the one before a step and the one after.
  `IndexAndJournalAgree` says instead what the index is, by the lines themselves: no line
  is cut or called off, an artifact's numbers rise along the journal and it has one name
  (`WellWritten`, `Titled`); every version with bytes, refcount and fence comes from a
  committed line (`Drawn`); and what the first `m` lines say is in the index, each pointer
  where the last of them that concerns its artifact left it (`Read`, `Shows`).
  `m` is the whole journal while the service runs, anything after a crash or a loss
  (`Canon`).  A boot takes the lines from the first on and may
  undo pointers on the way: after `n` lines a pointer is where these left it, or where all
  `m` left it, or a line still to come moves it (`Tracks`), and the versions of the
  first `m` and the first `n` lines are there (`Holding`); at the end all three say the
  same (`Halfway`).  From `m = 0` that is the replay of the property.  Two indexes that
  are both drawn from one journal and have read all of it agree in rows, refcounts,
  fence and pointers.
  The theorem has no hypothesis on behaviours: while nothing was purged, `SurvivalInv`
  holds whatever is lost (`Intact`).  `CanonInv` speaks of `Untouched` states only,
  which no step enters from outside, because what is left of the bounds only falls (`LeftBounded`,
  `UntouchedBefore`).

Every invariant and every action property of a passing run is stated by a theorem.  Only
model-checked: the liveness properties (`ClaimEnds`, `DrainedWorkReturns`,
`StopReachesBoard`, `WatchedHuddlesEnd`, `KeepsPushing`), which are outside what the
prover can do, as is anything about ENABLED; and `DispatchesInTokenOrder`, which is false.

## 6. Not modelled

The other services of section 1: Notes, PDF, Mission control,
Library, auth's token server and policy decisions, CMDB's evaluation of windows
and classes.  Of the Gateway: the sandbox tool, the kill state, whose `observe`
and `set_local_halt` have no caller outside the tests, the audit chain, and a
playbook that goes on after its run has died.  Of the Board: ticket births and
edits (tickets and dependencies are constants; all tickets are born `todo`),
run-time changes of the caps; its `Next` has of the ceremony only the watchdog's
escalation (`HuddleTrip`, for any ticket in progress, since any may have an open
huddle), and takes an arbitrary level at each poll.  Of the Vault: handles, the
WORM comparison at boot.  Of Drive: backups, the second grace
window of the quarantine, ticket checks, copies, the disk watermark (any stream
may fail).  Of Chat: what section 2 names.  Of the runtime: grace deadlines and checkpoints.
Front-ends and configuration hold no protocol state and most of the repository's
lines.  PROJECT.json gives a reason per component.

The models are composed where state is shared: the Gateway and the restore run
over the whole of `Board`.  The Vault, the kill switch and the ceremony read or
move little of the Board's state, and carry that part as actions of their own.

## 7. Plan

Done: `Board` with its properties and abstract specifications, `BoardGateway`,
`BoardRestore`, `Ceremony`, `VaultRedeem`, `KillChain`, `PolicyControl`,
`DriveStore`, `Chat`, and the proofs of section 5.  Next:

1. `PdfJobs`, `BoardTickets`: the components listed as not modelled or partly modelled
   that keep protocol state of their own.
