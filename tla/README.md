# TLA+ models of yua-backend

This directory holds a formal model of the parts of `yua-backend` in which
several actors share state: the streaming of chat turns and their admission,
the background workers, what several requests of a user change at once, billing,
and agent runs. It contains TLA+ modules, TLC configurations that check them on
small instances, and TLAPS proofs, for instances of any size, of every safety
property that a passing run checks. `PROJECT.json` lists runs, source lines per definition,
hazards and theorems in machine-readable form.

Contents: 1 inventory · 2 modules and their correspondence to the code ·
3 runs · 4 what the code does otherwise than is said · 5 proofs ·
6 abstractions and bounds · 7 not modelled, and why · 8 plan.

## 1. Inventory

The backend is an Express server that runs as several PM2 instances (each a
single-threaded Node process with its own memory), with Postgres, MySQL and
Redis behind it and a few background workers beside it.

**Stream broker** (`ai/engines/stream-engine.ts`, `db/redis.ts`).
State, per instance and keyed by thread: `sessions`, `buffers` (events to
replay), `subscribers` (queues of SSE readers), `channelToThread`, the
suggestion registry; at Redis: which instance is subscribed, and the messages
on their way. Operations: `register`, `attachExecutionAbort`, `publish`,
`publishFinal`, `publishDone`, `emitDone`, `finish`, `abort`, `subscribe`, the
message handler and the reaper. Hard: every operation is cut by awaits; an
event is published through Redis even to readers on the same instance, and a
reader gets it live, by replay, or both; sessions are replaced, reaped and
removed by the last reader while a run still publishes. Correct when: ids
identify events within a turn, a reader hears each event once and in order and
misses nothing, replay never serves another turn, nothing follows the end of a
turn, and every turn and every reader comes to an end.

**Chat turn** (`control/chat-controller.ts`, `ai/execution/execution-engine.ts`,
`ai/execution/execution-entry.ts`, `ai/engines/chat-engine.ts`).
State: where the request and its background execution are. It registers a
session before anything can fail, leaves by one of many exits (429, block,
direct response, media pipeline, execution), and the execution ends normally,
by abort, by a closed provider connection or by an exception, before or after
FINAL. Hard: the run outlives the HTTP request, may be superseded by a newer
one on the thread, and names its session by thread alone.

**Stream routes** (`routes/stream-router.ts`, `routes/stream-abort.ts`).
`GET /stream` is a reader; `POST /abort` and `POST /unlock` act on whatever
session the thread has on the instance they reach.

**Compute gate** (`ai/compute/compute-gate.ts`).
State, all in Redis: thread key, user and workspace counters, two pool weights,
the lease set, a wait queue per workspace, grant lists. Operations: two atomic
scripts (acquire, release) and, around them, the queue protocol
`ZADD → BRPOP → second acquire` and `ZPOPMIN → LPUSH`. Hard: the protocol is a
sequence of commands of several processes over shared connections; keys expire
under running turns; timeouts race grants. Correct when: one turn per thread,
plan ceilings and pool capacities hold, counters agree with leases, and every
refused request is answered.

**Support auto-reply queue** (`support-ai/support-auto-reply-queue.ts`,
`workers/support-auto-reply-worker.ts`, the support routes).
State: rows of `support_auto_reply_jobs`, tickets, the mails that went out.
Operations: post, reopen, enqueue; claim with a two-minute lock, draft, mail,
record, save, complete, fail. Hard: a worker that is slow rather than dead
loses its lock to another and still writes; `complete` and `fail` do not ask
who holds the job; a message may come while a draft is being sent. Correct
when: attempts are bounded, no verdict comes without its ground, one mail per
job but for slips, and every follow-up is answered.

**Credit ledger, webhooks and plan tiers** (`billing/lemonsqueezy/*`,
`middleware/resolve-plan-tier.ts`).
State: balances and ledger rows, recorded events, subscription rows, cached
tiers. Operations: the ledger transaction, the dispatch of orders, refunds and
subscription events, the tier look-up. Hard: events come twice, at once and out
of order; an event is recorded before it is dispatched, and a failing dispatch
is answered with 200; a cache is filled while the row changes. Correct when:
the ledger is a chain, each order is booked once in each direction, what was
answered is booked, a row says what its last event said, and the cached tier is
that of the row.

**Usage gate and meters** (`ai/billing/usage-*.ts`, `middleware/check-usage-gate.ts`).
State: session, weekly and spend counters in Redis, the usage log, the credits.
Operations: the checks in front of a turn, the records after it. Hard: turns
check before others have recorded; the gate fails open; windows expire between
a check and a record. Correct when: no cap is overrun by more than the turns
let in together.

**Thread titles** (`ai/activity/title-worker.ts`, `activity-title.queue.ts`, the
title patches of the stream engine and `thread.engine.ts`). A lock, a Redis
stream with a consumer group, a cache; two writers of the title (the worker,
and each listening instance) and a user who renames. Correct when the user's
name stays.

**Data export** (`workers/export-worker.ts`, `routes/privacy-router.ts`).
Requests claimed and built by workers, downloads counted and limited. Correct
when an export is built by one worker, and no more files go out than allowed.

**Workspace documents** (`ai/workspace/workspace-doc-collab.repo.ts`,
`server/workspace-docs-ws.ts`, `routes/workspace-router.ts`).
State: write-ahead log, snapshots and revisions in Postgres; the room and the
Redis channel's reference count in an instance. Hard: compaction deletes by
time what a snapshot may not contain; connections overlap with SUBSCRIBE; a
load is two queries. Correct when revisions are numbered one by one and nothing
newer than a snapshot is deleted with it, and whoever is in the room misses
nothing.

**Session registry** (`auth/session-registry.ts`, `auth.express.ts`,
`routes/account-router.ts`). Rows in Postgres and a blacklist in Redis, written
one after the other, against late registrations. Correct when a revoked
sign-in is shut out, and no other is.

**OAuth token store** (`connectors/oauth/token-store.ts` and its callers).
One row per connection; refreshes race with each other, with consent, deletion
and withdrawal. Correct when a removed connection stays removed, and
`expired` has a reason.

**Agent sessions** (`agent/agent-session-manager.ts`, `agent-executor.ts`,
`routes/yuan-agent-router.ts`). In-memory sessions with an event buffer; the
executor's loop with approvals, interrupts, a plan's limits, SSE readers with
`Last-Event-ID`, a clean-up timer. Correct when risky tools are used only with
consent, a stop holds, the plan is not exceeded, readers hear everything, and
every run ends and is forgotten.

How they interact: the chat controller registers the session, passes the usage
gate and the compute gate (a denial is the action `Reject` of `ChatStream`), and
starts the execution, which drives the broker and releases the compute gate in
a `finally` block (that it ends is `TurnEnds` in `ChatStream`, and the fairness
of `Release` in `ComputeGate`); the usage recorder runs when it is over and
debits the credit ledger (`Consume` of `LemonWebhooks`, one step `Debit` of
`UsageMetering`). Webhooks write the ledger and the subscription rows that the
tier look-up reads; the tier selects the caps of the usage gate (`PlanChanges`).
Title workers publish patches that every instance's broker stores and passes on
(`Poke` in `ChatStream`, `WritePatch` in `ThreadTitles`).

## 2. Modules

| module | content |
|---|---|
| `StreamEngine`, `ChatStream` | the broker of one thread; EXTENDED by the runs, routes, readers, fairness |
| `ComputeGate` | the gate: scripts, queue protocol, expiry |
| `ReplyPromise`, `SupportQueue` | what the auto-reply queue promises for a job; the queue, its workers and routes, which implement it |
| `CreditLedger`, `LemonWebhooks` | the ledger transaction; EXTENDED by webhooks, subscriptions and tier cache |
| `UsageMetering` | gate, meters and recorder of one user's turns |
| `ThreadTitles` | the title of one thread |
| `DataExport` | requests, workers and downloads |
| `DocCollab` | one shared document on one instance |
| `SessionRegistry` | the sign-ins of one user |
| `ConnectorTokens` | one connection of one user |
| `AgentSessions` | the agent sessions of one user in one process |
| `<module>Properties` | type invariant, properties and, where TLC checked it before the proof, the inductive invariant |
| `ChatStream_proofs`, `ComputeGate_proofs`, `SupportQueue_proofs`, `DocCollab_proofs`, `AgentSessions_proofs` | TLAPS proofs about these modules |
| `Billing_proofs` | proofs about `LemonWebhooks` (with `CreditLedger`) and `UsageMetering` |
| `Credentials_proofs` | proofs about `SessionRegistry` and `ConnectorTokens` |
| `Workers_proofs` | proofs about `DataExport` and `ThreadTitles` |
| `MCChatStream`, `MCComputeGate`, `MCAgentSessions` | instances for TLC |
| `MCWorkers` | `SupportQueue`, `ThreadTitles` and `DataExport` for TLC |
| `MCRecords` | `DocCollab`, `SessionRegistry` and `ConnectorTokens` for TLC |
| `MCBilling` | `LemonWebhooks` (with `CreditLedger`) and `UsageMetering` for TLC |

The last three MC modules put components that share no state into one run: the variable
`part`, chosen initially, says which of them moves. That checks each on its own
and is not a claim about their product.

Some definitions stand next to a variant of themselves with one thing wrong
(`RegisterOverBuffer` beside `RegisterSession`, `DropUnseen` beside `Drop`).
The specification does not use the variants: `PROJECT.json` names, under
`mutants`, the property that fails when one takes the original's place.

### StreamEngine and ChatStream

One thread is modelled, since all maps are keyed by `threadId` and no handler
reads two keys. Each map is a function of the instance (`session[i]`,
`buffer[i]`, `members[i]`, `mapped[i]`, `suggested[i]`). `listening` and
`inbox` are the Redis side of the `redisSub` connections: `Emit` appends to the
inbox of every instance subscribed at that moment, and replies to SUBSCRIBE
travel in the same order as the messages. There is no local fan-out in the
code, and none here. `reader[s]` is a generator made by `subscribe`, with its
cursor (`last`) and what it was handed (`heard`); `cold` and `since` are
history. `published` and `turns` are history too.

Each handler is cut at its awaits, and only there: what lies between two awaits
is one action.

| code | action |
|---|---|
| `chatController`: registration, 429, block, direct response, media | `Register`, `Reject`, `Block`, `DirectRegister/Token/Done`, `MediaRegister`, `MediaAnalysis`, `MediaEnds` |
| `streamExecute`: attach, tokens, reasoning blocks, abort checks | `Attach`, `PrologueThrow`, `Token`, `ReasoningBlock`, `SegmentsDone`, `SeeAbort` |
| `streamExecute`: FINAL, suggestions, memory, done | `Final`, `SuggestStage`, `SuggestItems`, `Remember`, `Complete` |
| `streamExecute`: catch blocks | `Terminated`, `ThrowWhileRunning`, `ThrowWhileFinalizing` |
| `finish` with its awaits | `Finish`, `FinishDone`, `FinishClear` |
| `subscribe`, `ensureRedis`, message handler, `finally` block | `Subscribe`, `RedisSubscribes`, `SubscribeFails`, `Deliver` (`HandleAck`, `HandleEvent`), `Yield` with `Leave` |
| reaper, flush timer | `GrowOlder`, `Reap`, `FlushEnds` |
| `POST /abort`, `POST /unlock`, title patches | `UserAbort`, `Poke` |

`publish` is modelled with its peculiarities: the id is consumed before the
guards, the DONE, FINAL and suggestion guards, and the reasoning flush that
numbers an activity after the block it precedes. `publishDone` has no guard,
`emitDone` has one before its await and empties the buffer after it.

### ComputeGate

`Admits` and `Take` are the acquire script, `Drop` the release script; both are
atomic in Redis. The rest of `acquire` and `release` is cut into single
commands. `pc[r]` says where a request is:

    idle -> refused -> queued -> waiting -> granted -> running -> released -> signalling -> done
                                    \-> timedout -> denied

`Blocked(i)` says that instance `i`'s `redisPub` connection has a BRPOP
pending: Redis serves a connection in order, so no other command of that
instance gets through (`Command`). A waiting BRPOP is served by the LPUSH of a
`Signal`; otherwise the grant stays in its list (`grants`) until taken or
expired. Entries join the queue at any place, since their score is the clock at
the call while the command may be held up behind a blocked connection. `Lapse`
is the expiry of a thread, user, workspace or weight key 15 s after it was last
written; `lapsed` remembers what expired with something in it. `Vanish` is a
turn that passes the gate and is never executed (image-only), or whose process
dies. Processes that die in another place are left out: an entry in the queue or
a grant would be orphaned, which costs a waiter no more than its timeout.

### SupportQueue and ReplyPromise

Each SQL statement is an action. `run_after` only delays a claim, so a waiting
job may be claimed at any time.

| code | action |
|---|---|
| the routes: insert the message, reopen the ticket, enqueue (or fail to) | `Post`, `Reopen`, `Enqueue`, `EnqueueFails` |
| `claimNextSupportAutoReplyJob` | `Claim` (a lapsed lock is a take-over) |
| the worker: draft, mail, delivery log, message, ticket status | `Draft`, `DraftFails`, `Mail`, `MailFails`, `Record`, `SaveMessage`, `SetWaiting` |
| `complete…`, `fail…`, a statement of the worker that throws | `Complete`, `StatementFails`, `Fail`, `MarkFails` |
| a process dies; two minutes pass, over a dead or a slow worker | `Crash`; `LapseAbandoned`, `LapseHeld` |

`ReplyPromise` has for each job its phase, tries, mails and slips, and no
workers or locks: a job is tried a bounded number of times and once more per
slip, completed only if a mail went out, dead only after the last attempt,
mailed once and once more per slip, reopened when settled only after a slip. A
slip is a claim from a lapsed lock or a failure after the mail.
`ImplementsPromise` is `ReplyPromise` under the mapping in
`SupportQueueProperties`; it is model-checked and proved.

### CreditLedger and LemonWebhooks

| code | action |
|---|---|
| `applyCreditMutation`: duplicate check, row check, UPSERT, INSERT and COMMIT | `CheckDuplicate`, `CheckRow`, `Upsert`, `InsertAndCommit` |
| the handler: record the event, dispatch; order, refund, subscription | `Receive`, `LookForPurchase`, `ReadBalance`, `Mutate`, `Apply` |
| the tier cache: DEL, a DEL that fails | `Invalidate`, `InvalidateFails` |
| a dispatch that throws, a process that dies | `DispatchFails`, `Die` |
| the usage recorder's debit | `Consume` |
| `resolvePlanTier`: look-up, SET nobody waits for, TTL; three days of grace | `LookUp`, `SetKey`, `KeyExpires`, `GraceEnds` |

What a transaction writes is seen when it commits; the row that UPSERT touched
is locked from then on (`holder`).

### UsageMetering

| code | action |
|---|---|
| `checkUsageGate`, check by check | `StartTurn`, `ReadSession`, `WriteFresh`, `SessionCaps`, `WeeklyCheck`, `TokenCheck`, `SpendCheck`, `CreditsBypass` |
| a read that throws; the write of a fresh window that throws | `SessionReadFails`, `FailOpen`; `WriteFreshFails` |
| the turn fails; the recorder's steps | `Abort`, `Log`; `Debit`, `IncrementSession`, `IncrementSpend`, `IncrementWeekly`, `RecordFails` |
| windows end; the plan changes | `SessionExpires`, `WeekRolls`, `MonthRolls`, `PlanChanges` |

### ThreadTitles and DataExport

| code | action |
|---|---|
| lock and XADD | `LockTitle`, `EnqueueTitle` |
| the title worker | `ReadJob`, `CheckRenamed`, `PublishHit`, `Generate`, `DeadLetter`, `StoreTitle`, `PublishTitle` |
| every instance's patch, `renameThread`, crashes and expiries | `WritePatch`, `RenameThread`, `TitleFault` |
| `POST /export`, the export worker | `RequestExport`, `ClaimPendingRow`, `Build`, `WriteZip`, `MarkReady`, `ExporterBreaks` |
| the download route, the archive's life | `DownloadExport`, `ServeFile`, `ExportExpires`, `FileVanishes` |

### DocCollab, SessionRegistry and ConnectorTokens

| code | action |
|---|---|
| a WebSocket connection opens and closes | `Join`, `Subscribe`, `Subscribed`, `Greet`, `Close`, `Unsubscribe` |
| `GET …/snapshot/latest` | `LoadSnapshot`, `LoadPending` |
| `yjs_update` | `Edit`, `AppendUpdate`, `Broadcast` |
| `snapshot_request`, `snapshot_response` | `Capture`, `ReadVersion`, `BeginSave`, `SaveSnapshotAndCompact` |
| `persistDocOp` | `BeginOp`, `LockDoc`, `PersistDocOp` |
| middleware and registration; single revocation; logout of all others | `Request`, `RegisterSession`; `RevokeSession`, `RevokeBlacklists`; `LogoutOthers`, `RevokeRows`, `LogoutBlacklists`, `LogoutDies` |
| the OAuth callback, the settings page, Google | `UpsertConnector`, `DeleteConnector`, `Withdraw` |
| a tool call that refreshes | `LoadTokens`, `GoogleAnswers`, `StoreAccess`, `MarkExpired` |

### AgentSessions

| code | action |
|---|---|
| the run route: plan, limits, session | `Ask`, `Run`, `Refuse` |
| the executor: start, iterate, call the model, finish or give up | `Start`, `Iterate`, `Answer`, `Fail`, `EndIteration`, `Finish`, `Terminate` |
| a tool, with its approval | `UseTool`, `Skip`, `RequestApproval`, `ApprovalTimesOut`, `ToolReturns` |
| the approve, stop and interrupt routes | `Approve`, `Stop`, `Pause`, `Resume` |
| the SSE route, the clean-up timer | `Watch`, `Disconnect`, `Cleanup` |

## 3. Runs

Two workers, a few seconds to two minutes each.

| run | instance | question |
|---|---|---|
| `turn_exits` | 1 run, 2 readers, 1 token, 1 poke, all paths but direct response | can any exit, abort or late publication break ids, order or silence after DONE? |
| `supersede` | 2 runs on one thread, no reader | what if a turn is replaced at any moment: replay, ids, DONE for good, and does every turn end? |
| `housekeeping` | 2 runs, 1 reader, reaper, failing subscriptions | do the reaper and the last reader's cleanup leave the broker sound? |
| `readers` | 1 run, 2 readers beside it, 1 on another instance | does a reader of a subscribed channel miss nothing, and is one that stays never cut off? |
| `turn_ends` | 1 run ended by completion, block, media or abort; a reader on each instance | do readers hear all of a turn, and do they see its end? (liveness) |
| `gate` | 4 requests, 2 threads, 2 users, 2 instances, shared capacity 3, reserved 1, one expiry | all properties of the gate, including that every refused request is answered |
| `workers` | a ticket with a follow-up, 2 workers, 2 attempts, 2 faults; 2 title jobs, 2 workers, 2 instances, 2 renames, a fault; 2 exports, 2 workers, 3 clicks with a limit of 2, a crash (443,344 states) | do the workers keep exclusive work, bounded downloads and the user's names; does the support queue implement its promise; does everything settle? (refinement, liveness) |
| `records` | 2 connections, 2 updates, 2 saves; 3 sign-ins, 4 requests, a failing Redis write; 2 callers, 3 consents (with symmetry) | are records kept that several requests change: revisions, log, rooms, revocations, tokens? |
| `billing` | 4 calls after one of four scripts (an order under two event ids with its refund and a debit; a refund delivered twice; a subscription that lapses; one that is upgraded), a tier look-up, one fault; or 2 turns at a time, 3 in all, on two plans (316,037 states) | is the ledger a chain that books each order once; is what was answered booked; do rows and cached tiers follow; how far are caps overrun? |
| `agents` | one session with two iterations and up to two tools; one that is watched with a buffer of three; two that compete for a plan of 1 or 2 (222,435 states) | consent, stop, plan limit, readers, and that every run ends and is forgotten (liveness) |
| `says_*` | the smallest instance that shows it | see section 4 |

Properties with a name in `…Sound` are a component's type invariant and the
invariants listed with it (`StreamSound`, `GateSound`, `SupportSound`,
`TitlesSound`, `ExportsSound`, `RoomsSound`, `SignInsSound`, `ConnectorSound`,
`BooksSound`, `MetersSound`, `AgentsSound`); `EndIsSeen`, `AnsweredIsBooked`,
`RunSettles` and `WorkSettles` conjoin two or three that belong together. Each
is defined after its parts in the properties module.

**Bounds.** One token is enough for each question but the resumption one,
because the guards do not count tokens; the interesting order is that of a
token relative to FINAL, DONE, registration and replay. Two runs on a thread
give every supersession; a third would be superseded in the same way. Two
readers on an instance are needed for the cleanup by the last one, one on the
other instance for what comes through Redis alone. `Paths` selects which
optional behaviours an instance includes, so that each question gets the
behaviours that bear on it within minutes; together the passing runs take every
action. The gate's capacities are scaled down from 60 and 40 to 3 and 1, so
that four requests exhaust both pools; the ceilings of the plans are the
code's. One expiry is enough to separate each property's guarded and unguarded
part.

Two support workers and two faults give a take-over from a slow worker and a
failure on top of it; two attempts make the first failure a retry and the
second a death; two messages give a follow-up at every point of a draft. Two
title jobs and two instances give the lapse of the lock and patches in either
order; three clicks at a limit of two race for the last download. Two
connections are the least for a broadcast and for the race over the reference
count; two saves in any mix of compactions and revisions, because a third would
only repeat the choice of the younger of two (after the second save, connections
stay open: `Bounded` in `MCRecords`). Three sign-ins are a caller, one it
revokes and one that comes late. Three consents make a token older than the one
a late answer is for. In billing the four scripts are chosen because TLC cannot
take all sets of four calls; each is the least that contains a duplicate, a
disorder or a race. Three turns of two slots at a cap of one or two make one
turn check before, one record between, one check after. In `agents` three
sessions would multiply without meeting: the stories separate what a session
does alone, with a reader, and against another for the plan.

**Fairness.** `FairSpec` assumes weak fairness of each run, each reader and
each instance's message delivery: the event loop runs every continuation whose
promise is settled, Redis answers, and a provider stream ends (90 s limit in
`streamExecute`). Nothing is assumed of users, new requests, the reaper or
timers. `GateFairSpec` assumes that a request that was refused or admitted goes
on: Redis answers a command that is not blocked, BRPOP has its timeout, and an
execution ends. A request need not be made, a key need not expire, a process
need not crash. `WorkersFairSpec` assumes that each worker's loop goes on, that
a request that stored a message reopens and enqueues, and that the lock of a
worker that left its job lapses (time passes); it assumes nothing of mails,
renames, clicks or of a lock over a slow worker. `AgentFairSpec` assumes that an
executor goes on, which includes the five-minute limit of an approval (a pause
sets the status and holds nothing up), and that the clean-up timer fires; users
need not answer. `billing` and
`records` are safety only: their requests are the users'.

**What the passing properties except, and why.** `PresentReaderMissesNothing`
is about readers that have heard one turn alone: a reader keeps its cursor when
the next turn's ids restart at 1 and drops what is numbered below it (a direct
response is such a turn: it registers a second time after a stage was
published). `WarmReaderMissesNothing` is about readers that find their channel
subscribed, on the instance that serves every run, while nothing is aborted and
turns end through `publishDone`; `finish` clears the buffer that a reader in
mid-turn replays. `ReaderReachable` and both of these are about a broker whose
reaper does not run: its timers unmap the channel under a live reader.
`ReaderSeesEnd`
excepts a buffer that `emitDone` emptied, and runs that end without a done
(`TurnDropped`). The gate's properties except what has expired. Reasoning blocks
are exempt from `Missed`, since the activity numbered after a block overtakes it.
`FollowUpsAnswered` excepts a message written when a draft that lacks it was on
its way, or whose enqueue failed: nobody takes it up. `TitleJobSettles` and
`ExportSettles` count the jobs of a worker that died as given up: nothing reads
them again. `OccupiedHears` excepts connections that overlapped within SUBSCRIBE
or ended twice (error, then close). `LostOnlyOverlooked` names the two ways in
which an update is lost. `JoinedReaderMissesNothing` excepts a load during which
a snapshot was saved between its two queries, and what the store itself no
longer returned at the second one (`Loadable`), which is `LostOnlyOverlooked`'s
matter. `RevokedIsShutOut` excepts a failing Redis, a
process that died between the row's UPDATE and Redis, and a session registered
between the two queries of logout-all. `TableFollowsLastEvent` excepts an event
whose dispatch was lost before its UPDATE, and a subscription with an event that
first came after a later one. The meters' bounds grow by one turn for each check
that failed open and each fresh window that was not written (the turn then
counts itself in the old hash). `AnsweredIsBooked`
excepts a dispatch that failed or died after the event was recorded, refunds that
came before their order, and one between whose two reads a debit came.
`TierFresh` excepts a look-up that overlapped the change, a failed DEL and the
end of a grace period. `EndSettles` excepts a session that an approval revived,
and failed runs, which send no `agent:done`. Each exception is a behaviour of
the code that the model reaches, and is listed as a hazard or in section 4.

## 4. What the code does otherwise than is said

Two have a run that must find the violation, and a finding in `PROJECT.json`:

- `says_no_loss`: "Every Y.js update is immediately appended here (zero data
  loss on crash)" (`sql/20260306_add_workspace_doc_updates.sql:2`). The
  compaction (`workspace-doc-collab.repo.ts:133`) deletes by time: an update
  appended after the client captured the snapshot it sends, and before the
  transaction began, is deleted and not contained.
- `says_spend_cap`: "Monthly spend cap blocks are NEVER bypassed"
  (`usage-gate.ts:114`). At a session or weekly cap `tryCreditsBypass` returns
  before the spend cap is looked at.

These have a configuration that shows the violation, and no run of the list
(`tlc -config MCSay….cfg` on the module named):

- `MCSayDoneOnce` (`MCChatStream`): "DONE는 여기서 1회 발행"
  (`stream-engine.ts:801`). `publishDone` takes whatever session the thread has
  and has no DONE guard, so a superseded run can end its successor, which then
  ends again.
- `MCSayNoZombie` (`MCChatStream`): "Every catch path in the controller calls
  `finish()`" (`README.md:168`). The 429 return and the catch-all leave the
  session open.
- `MCSayResume` (`MCChatStream`): "pick up where the response was"
  (`README.md:42`). The channel is mapped before the patch channels are
  subscribed and the buffer replayed; a message in between moves the cursor past
  all that the replay would bring.
- `MCSayReturning` (`MCChatStream`): "the client re-subscribes when it returns"
  (`README.md:43`). `emitDone` empties the buffer behind the done event, so a
  reader that is still connecting waits for ever.
- `MCSayPubNotBlocked` (`MCComputeGate`): "use duplicate connection to avoid
  blocking pub client" (`compute-gate.ts:327`). The BRPOP is issued on the pub
  client.
- `MCSayOneExtra` (`MCBilling`): "so this is at most one extra message at the
  boundary per window" (`usage-gate.ts:16`). Every turn that reads the counter
  before the first of them is recorded passes, and the compute gate excludes
  turns of one thread only: three threads exceed the cap by two. What holds is
  one turn for every turn at once (`SessionOverrun`).
- `MCSayLeaseReturned` (`MCComputeGate`): "최종 안전망"
  (`execution-engine.ts:468`). Release guesses the pool from the plan and does
  not find a lease that overflowed.

These are violated when the definition is added as an INVARIANT to the cfg:

- `CreditsArePaid` (`MCBilling.cfg`): "Credits-bypass path: debit the ledger"
  (`usage-recorder.ts:123`). One cent of balance lets a turn pass; when it costs
  more than is left, nothing is debited.
- `RefundTakesTheRest` (`MCBilling.cfg`): "clamp to 0" (`webhook-handler.ts:371`).
  The clamp is computed from a balance read before the transaction; a debit in
  between makes the mutation fail, and the refund takes nothing.
- `StopsAllExecution` (`MCAgents.cfg`): "Stop all execution"
  (`yuan-agent-router.ts:549`). A tool whose approval is pending begins when a
  late yes comes after the stop.

Seen while modelling: an exception after an abort ends the run without a done
(the session stays open until the reaper); a superseded run's late token lands
in the new turn; the catch-all of the execution publishes done without FINAL;
after a thread key's expiry a late release deletes the key of the next trace; an
image-only turn keeps its lease; "Any thrown error → status='failed'"
(`export-worker.ts:16`) does not cover the queries of `processOne` itself, which
leave the export `processing`; webhook events are recorded so that they can be
replayed, and nothing replays them.

## 5. Proofs

`tlapm` checks every module below without gaps. All of them are safety
theorems of the unfair specification, for constants of any size. Two kinds of
premises occur: the ASSUMEs on constants that a module declares, which TLC
evaluates on the instances, and a theorem's own hypothesis, named below where
there is one.

| module | theorem | states | rests on |
|---|---|---|---|
| `ChatStream_proofs` | `BrokerSafety` | `BrokerInv` is invariant; every step keeps `SilentStep` and `DoneStep` | `HomeAssumption`, `NoneAssumption`, `BoundsAssumption` |
| | `TypesHold` | everything but the readers' queues keeps its type | |
| | `ReplayStaysCurrent`, `IdsAlwaysIdentify` | `[]ReplayIsCurrent`, `[]IdsIdentify` | |
| | `DoneSilences`, `DoneLasts` | `SilenceAfterDone`, `DoneIsForGood` | |
| | `StreamIsSound` | `[]StreamSound`: also the readers' types, and that each is handed an event once and in order | |
| | `ReadersAreReachable` | `[]ReaderReachable` | no reaper (`"reap" \notin Paths`) |
| | `PresentReadersMissNothing` | `[]PresentReaderMissesNothing` | no reaper |
| | `WarmReadersMissNothing` | `[]WarmReaderMissesNothing` | no reaper, and no path that ends by `finish` (`block`, `media`, `throw`) |
| `ComputeGate_proofs` | `LeasesSound` | `GateInv` is invariant | `GateAssumption` |
| | `ThreadsAreExclusive`, `CeilingsHold`, `CountersAreExact` | `[]ThreadExclusive`, `[]UserCeiling`, `[]CountersMatchLeases` | |
| | `GateIsSound` | `[]GateSound`: types, pools, wait queues | |
| `SupportQueue_proofs` | `HoldersAreExclusive` | `[]SupportSound` | `SupportAssumption` (finitely many workers) |
| | `FollowUpsAreAnswered` | `[]FollowUpsAnswered` | |
| | `QueueKeepsPromise` | `ImplementsPromise`: the refinement | |
| `Billing_proofs` | `LedgerIsAChain` | `[]LedgerChain` | `LedgerAssumption`, `WebhookAssumption`, `CallAssumption` (the calls' users, orders and amounts are typed) |
| | `AnswersAreBooked`, `TableIsCurrent`, `TiersAreFresh` | `[]AnsweredIsBooked`, `[]TableFollowsLastEvent`, `[]TierFresh` | also `ShopAssumption`: an event id names one event and an event of a subscription has one id, a subscription is of one user and begins with an event that carries all of it |
| | `GrantsAreUnique` | no order grants its credits twice | the same |
| | `BooksAreSound` | `[]BooksSound`: nor is one refunded twice | the same and `OneEventPerRefund` |
| | `OverrunsAreBounded` | `[]MetersSound` | `UsageAssumption` (finitely many turns at once, a dearest cost) |
| `DocCollab_proofs` | `RevisionsAreNumbered` | `[]RevisionsInOrder` | `DocAssumption` |
| | `CompactionRemovesTheOlder` | `[]LostOnlyOverlooked` | |
| | `RoomsHear` | `[]RoomsSound` | |
| | `JoinedReadersMissNothing` | `[]JoinedReaderMissesNothing` | |
| `Credentials_proofs` | `RevocationIsExact` | `[]SignInsSound` | `SignInAssumption` |
| | `ExpiryHasReason` | `[]ConnectorSound` | `ConsentAssumption` |
| | `DeletionLasts` | `DeletedStaysDeleted`: a removed connection comes back by a consent alone | |
| `Workers_proofs` | `ExportsAreExclusive` | `[]ExportsSound` | `ExportAssumption` |
| | `TitlesAreKept` | `[]TitlesSound` | `TitleAssumption` |
| `AgentSessions_proofs` | `AgentInvariant` | `AgentInv` is invariant | `AgentAssumption` |
| | `RunsAreWithinPlan`, `ToolsAreConsented`, `StopsHold` | `[]AgentsSound`, `[]UsedWithConsent`, `[]StopHolds` | |
| | `ReadersHearAll`, `EndsSettle` | `[]ReaderHearsAll`, `[]EndSettles` | |

None of the hypotheses can be dropped; TLC finds each property violated without
it. With the reaper, whose timers drop members and mappings whoever is joining,
a reader's channel may be mapped and not subscribed; with two turns and three
readers one that was present misses the beginning of the second turn, because a
reader that was still connecting subscribes the channel again in the middle of
it. A turn that ends by `finish` (any one of the three paths) empties the buffer
that a reader in mid-turn was to replay. Refunds have no unique index, so two
event ids for the refund of one order, looked up at once, are both booked; the
grants need no such hypothesis (`GrantsAreUnique`). The instances of section 3
satisfy the hypotheses of the theorems about the properties they check.

**ChatStream, the broker.** `ReplayIsCurrent` and `IdsIdentify` are not
inductive: that a new event has a new id needs that every published event of the
turn is numbered below the session's next id (`IdsBelowNext`), and that this
holds of *the* session needs that a turn has one session, although every
instance has its own map (`OneSessionPerTurn`, with `turns` above every turn).
The proof has one lemma for each way the sessions change (events are emitted;
sessions shrink; a session is registered), one per broker operation, and one
case per action.

**ChatStream, the readers.** That nobody hears an event twice needs that the
cursor is the id of the last event handed over (`Cursor`), and that the loop over
the replayed buffer keeps it. The loop is a recursive function of the position;
that it hands over, of the buffer, what is above the cursor is shown by a least
position at which it would not (`LeastNumber`, from the well-foundedness of `<`).
That a present reader misses nothing is `DeliveryInv`, whose parts follow an event
on its way: a reader in the set has its channel mapped and subscribed, each reply
to SUBSCRIBE in an inbox belongs to one reader that waits for it (`ChannelInv`);
whatever is in a buffer, an inbox or a reader was published (`OriginInv`), and in
an inbox or a buffer no event of a turn is overtaken by a later one but for
reasoning blocks (`OrderInv`); so an event of the turn was heard, or is above the
cursor and in the inbox (`PresentInv`). For a reader that joins in mid-turn, the
buffer must hold all of the session's turn (`AllBuffered`), the serving instance
must have the only session, and messages of an old turn must be gone before the
channel is mapped anew (`OneServer`, `Settled`): `UnfinishedInv`.

**ComputeGate.** `ThreadExclusive` looks wrong in the code, because release
deletes the thread key without comparing its trace. What makes it right is
`LeasesHeld`: a request has at most one lease, and while its thread's key has
not expired the key carries the trace of every lease on the thread; so a release
that finds its lease deletes its own key. The ceilings follow from counters that
equal the number of leases until they expire, which is an argument about
cardinalities. Every action is one of four kinds (take, drop, move, lapse), each
a lemma. The pools are the same argument about sums of weights, which range over
a finite set that gains or loses one lease. That no release wastes its grant
needs `Popped`: between ZPOPMIN and LPUSH the request a release took is in no
queue, has no grant, and is not in another release's hands.

**SupportQueue.** The invariant has three parts. `QueueInv` is about the rows:
two workers on one job differ in the attempt they were given (`AttemptsDiffer`), a
worker past its mail has sent one, an absent row is new. `CountInv` counts. An
attempt gives its job back at most once, by failing below the limit; so holders
are at most one and one more per take-over, also counting a row that can be
claimed as a holder; mails and holders that have yet to mail are at most one and
one more per slip; attempts and those that could still be given back are bounded
by the limit and the take-overs. Neither is inductive without these "yet to
come" terms, because a slow worker that lost its lock still mails, completes or
fails. `AnswerInv` says that a ticket with something unanswered has a row that is
not completed, whose holders past their draft saw all of it: so the worker that
completes it answers it. The refinement then follows action by action: each step
of the queue is one of `Submit`, `Try`, `TakeOver`, `Slip`, `Reply`, `Settle`, or
a stutter.

**LemonWebhooks.** `LedgerChain` needs that whoever is about to insert holds the
row's lock and inserts the balance as it is, plus its amount (`InserterHolds`),
and that a lock belongs to somebody who is about to insert (`HolderInserts`): so
no other call changes a balance between the UPSERT and the INSERT. Credits are
granted once because the INSERT meets the unique index under the lock. That what
was answered is booked is `EventInv`: a recorded event has one delivery that
carries it out (under way, lost, or done with its outcome), so whoever is answered
as a duplicate relies on that one. A refund is booked once because the delivery
that books it has recorded the event id that all its deliveries share
(`RefundInv`), which is where `OneEventPerRefund` enters. That a row says
what its newest event says is `AppliedInv`: an event that is recorded was applied,
is about to be, or is lost; once applied it is not applied again, since whoever
would has to record its id first; so unless an event came for the first time
after a later one, the row follows the newest that was applied (`RowFollows`), and
when all are answered that is the newest there is. `TierInv` ties what a look-up
found to the table until a webhook marks it old.

**UsageMetering.** A bound on what was recorded is not inductive, since turns
that were let in have yet to record. `WindowInv` and `MonthInv` bound the sum of
what is recorded and what the turns on their way may still add (`Counting`,
`Paying`): a turn joins that set only by reading a counter below its cap, and
moves from the set to the counter when it records. A turn whose fresh window was
not written joins it without such a reading, which is counted in `skipped`.

**DocCollab.** A holder of the row lock has read the last revision number, and
there is one holder (`LockedHasLast`). A row that a compaction removed is older
than the snapshot saved with it, which stays (`RemovedIsOlder`); so if it cannot
be loaded, either the snapshot that counts is younger than the row, or it counts
above a younger one. `HasLatest` says that the order by version and id has a
greatest element, which an append keeps. For the rooms, the reference count is
the number of connections that counted themselves, as long as none overlapped
(`CountHolds`). For who loads in the room, `HasAllTold` covers an update at any
point between its row and its broadcast, and needs that updates have numbers of
their own (`UpdatesNumbered`) and that an untorn load holds the snapshot that
counts (`LoadsWhole`).

**SessionRegistry, ConnectorTokens, DataExport, ThreadTitles.** `RevokedIsShutOut`
needs that a revocation under way has its row updated; `ExpiredForReason` that a
refusal was of a token that had been withdrawn or never was; `WithinDownloadLimit`
that files and clicks under way were all counted in the row, and that a click
cannot meet an export that is still being built; `NameKept` that, unless somebody
was past the check when the user renamed, nobody is past it since (`NameSafe`),
and `OneJobAtATime` that every job but the one behind the lock was let in by a
lapse (`StreamedCounted`).

**AgentSessions.** `AgentInv` has a part for each session and run (`Own`) and one
for its events and their reader (`Hear`). Consent needs that an `always` an
executor knows was given, and that an action number in `using` was approved; a
stop holds because after the late tool the run is marked hard and comes to no
other. That readers hear all needs that the buffer holds the last ids without a
gap (`Window`), so that what a returning cursor cannot find is what left it. The
plan's limit needs that a run that goes on counts as active unless it was excused
(`FreshInv`), and is then an argument about a set that grows only below the limit.

**Only model-checked** is liveness: `TurnEnds`, `EndIsSeen`, `RefusedIsAnswered`,
`WorkSettles`, `RunSettles`, since the prover handles neither fairness nor
ENABLED. The two violations of section 4 that have a run, and the others listed
there, are TLC's as well. The components' composition in `MCWorkers`, `MCRecords`
and `MCBilling` is not proved about: each theorem is about one component's own
specification.

## 6. Abstractions

- Events keep id, kind, run and turn; kinds that the guards treat alike share
  one. The payload, the snapshot, activity de-duplication and the persisted
  copy of events are left out: nothing reads them back into the protocol.
- The Redis connection does not drop. A reader whose client went away stays:
  the route ends its response but its loop goes on until a done event.
- `age` of a session has three values, for the reaper's two thresholds.
- The workspaces index of the gate is written and never read; log output and
  HTTP answers are left out.
- Requests of the gate have distinct traces. A re-registered thread key of the
  same trace is admitted, as in the script.
- A support draft is the number of messages it has seen. The delivery log is
  written and never read back.
- Credits are cents in small numbers; a call is one delivery of one event, and
  a redelivery is another call with the same key. Postgres is READ COMMITTED:
  a statement sees what was committed when it began.
- Tokens of a turn are counted as its cost, and the daily and monthly token
  windows are one counter. The usage model has one user, since no counter is
  shared by two.
- A Y.js document is the set of updates it has merged, which is what their
  merge guarantees; `created_at` is the time at which a transaction began.
- The life of the blacklist entry is that of the token: it never expires before.
- In `AgentSessions` a tool is its name, and what the model answers a list of
  tools. Events that one step emits in a row are one event, `agent:done`
  counting for those before it. Some sessions may be over and forgotten at the
  start (`Former`): `cleanupSession` has removed them, so the daily quota, which
  counts the sessions there are, does not see them.

## 7. Not modelled, and why

| part | reason |
|---|---|
| OpenAI-compatible route (`routes/v1-completions-router.ts`) | registers, executes and subscribes as the chat controller and a reader do; no step of its own kind |
| Compute policy (`ai/compute/compute-policy.ts`) | a pure choice of tier and token budget, nothing concurrent; the gate takes the tier as given |
| Subscription workers and Toss orders (`services/subscription-*-worker.ts`, `routes/billing-router.ts`) | nothing calls the renewal worker, so neither its grace periods nor a scheduled downgrade occur; the expiration, which an administrator starts, is a sequence of single statements. Read, not modelled: it expires the user's newest row whichever is due, and never selects canceled rows, although `billing-router.ts:413` leaves their downgrade to it |
| Decision and reasoning pipeline, prompt building, memory scoring, skills | heuristics over text without shared state: a model would restate them; their stream events are in `ChatStream` |
| Thread and message stores, workspace, admin and other CRUD routes | one SQL statement per request |
| within modelled parts: activity titles, the workspace tier's reconciliation, admin and promotional credit adjustments, signature checks, cursors and presence of documents, other instances' document updates, tools and model calls of agents, an agent's soft interrupt (it emits events and queues the feedback, `yuan-agent-router.ts:535`), the feedback queue | noted at each component in `PROJECT.json` |

Most of the repository's lines are in these parts: the modules cover the code
that keeps state which several actors change, and little of the rest.

Hazards that no property covers are in `PROJECT.json` with the reason. Further
ones: the reaper unsubscribes while a reader's SUBSCRIBE is answered, which maps
the channel again (`stream-engine.ts:383`, section 5); a dropped `redisSub` connection loses messages until it is subscribed
again (`db/redis.ts:46`); a direct response registers a second time after a
stage was published (`chat-controller.ts:810`); `isRevoked` answers no when
Redis does not (`session-registry.ts:230`); document updates are not passed on
between instances (`workspace-docs-ws.ts:476`); the daily run quota counts
sessions of one process (`agent-session-manager.ts:203`).

## 8. Plan

1. Done: broker and chat turn; compute gate; support queue with its promise;
   ledger, webhooks and tiers; usage metering; titles; exports; documents;
   sign-ins; connections; agent sessions; a proof of every safety property that
   a passing run checks.
2. An abstract specification of a stream (a sequence that readers see a prefix
   of, ended once) and the proof of the conditions under which the broker
   implements it, for which `DeliveryInv` is the invariant; cursors that compare
   ids across turns; a lossy connection to Redis.
3. An abstract ledger (a set of bookings per order) and an abstract gate (a set
   of admitted turns), with the refinements that `OnceInv` and `GateInv` suggest.
4. Documents on two instances; the agents' daily quota over restarts.
