# Jehad OS in TLA+

Jehad OS is a personal assistant: programs around one PostgreSQL database that
receive events, propose and carry out work under explicit policy, and reach
their owner over iMessage and a few web pages. Almost every guarantee it makes
is a guarantee about concurrent writers of shared rows: processes die between
two statements, answers of HTTP requests are lost, crons overlap and the owner
acts whenever she likes. This directory holds TLA+ models of the parts where
that matters most, the TLC runs that check them and TLAPS proofs.

Paths below are relative to the repository. `core/` stands for
`packages/core/src/`, `workflow/` for `packages/workflow/src/`.

## Where things are

| file | what it is |
| --- | --- |
| `ModelBudget.tla` | the monthly model budget: admission, retries, closing writes, crashes |
| `ModelBudgetProofs.tla` | its invariants for every number of calls, every cap and cost |
| `OneShotChannel.tla` | what the program promises of a text it sends or an event it writes: handed over at most once, one final fate |
| `EdgeDelivery.tla` | the notification queue, its sweep, claim and recheck, and the edge agents |
| `MCEdgeDelivery.tla` | a small instance: one owner, one guest, the kinds that differ |
| `OutcomeStatus.tla` | the statuses of an outcome and the transitions its trigger allows, shared by `Mission` and `Attention` |
| `OutcomePromise.tla` | what an accepted outcome promises its owner: handed over idle, closed when met, final |
| `Mission.tla` | one delegated outcome: executor, scanner, reaper, owner |
| `MCMission.tla` | a small instance: two criteria, three plans, the worker roles that matter to them |
| `MissionProofs.tla` | its type invariant, four invariants, and that it implements `OutcomePromise` |
| `Attention.tla` | the attention items of one outcome: producer, owner, liveness tick, push |
| `AttentionProofs.tla` | the producer leaves raised what the outcome holds, what the owner answered stays answered |
| `CalendarActions.tla`, `MCCalendarActions.tla` | proposals of calendar events: confirm, attempt, reconcile; two proposals under two turns |
| `CalendarActionsProofs.tla` | its invariants, an action property, and that it implements `OneShotChannel` |
| `Reminders.tla`, `MCReminders.tla` | reminders: capture, schedule, sweep, replies; one reminder under two sweeps |
| `DeliveryProofs.tla` | the proofs of `EdgeDelivery`, with its refinement, and of `Reminders`: two machines that share no variable, side by side |
| `Conversation.tla` | offers parked in thread metadata and everybody who writes it |
| `ConversationProofs.tla` | an offer is carried out once and the lists say what is open, and what a lost lock, a death or an old list can change in that |
| `Sensor.tla` | the iMessage sensor's cursor and the ingest behind it |
| `SensorProofs.tla` | what the cursor has passed is stored, and started one turn |
| `GmailSync.tla` | the Gmail sensor: bootstrap, incremental walk, candidates and content |
| `GmailSyncProofs.tla` | what its cursor promises, and the day's cap |
| `*.cfg` | one TLC configuration per run, and those of "Known divergences" |
| `PROJECT.json` | components, runs, mutants, source map, findings, hazards, theorems |

In each module the operators commented `Fault:` are mutants: a plausible bug
in the code next to the definition it replaces, each of which one run refutes.

## Inventory of the system

**Model budget** (`core/model/call-model.ts`, `budget.ts`). State: the
`model_calls` ledger. Operations: reserve all remaining headroom under an
advisory lock, dispatch with up to three attempts, finalize with the actual
cost or an error, release on an egress refusal. Hard: concurrent admission,
crash between dispatch and the closing write, the month turning in between.
Correct when: a month never passes the cap by more than one call, an
abandoned reservation fails closed, an answer that was paid for is recorded.

**Notification queue and edge delivery** (`core/notifications/service.ts`,
`apps/edge-agent/src/agent.ts`, `apps/api/src/routes/harness.ts`,
`core/imessage/pairing.ts`). State: the `notifications` rows, the verified
`transport_identities`, the agent's own position. Operations: create (with one
of two approval policies), approve, reject, sweep overdue rows and write dead
letters, claim with a lease and a recheck of the recipient, send, report.
Hard: overlapping polls, lost claim answers, failed sends, late reports,
crashes anywhere, a sweep racing the recheck. Correct when: a text leaves at
most once, only to whom it may, and nobody is told of a delivery or of a
failure that did not happen.

**Outcome missions** (`workflow/outcome-workflows.ts`,
`core/outcomes/service.ts`, `core/assignments/{service,verdict}.ts`,
`apps/api/src/routes/outcome-actions.ts`, `apps/cli/src/commands/ops.ts`,
migrations 024, 026, 027). State: the outcome row, its criteria, waits and
assignments; the engine's memory of which durable waits have resolved.
Operations: work the plan, park with the owner, complete through the criteria
gate; scan events and signal; reap deadlines and expired waits; the owner's
verdicts. Hard: replay of the body after a crash, lost signals, transitions
racing on one row, half-applied verdicts. Correct when: completed means met,
what a worker verified is backed, work is paid for once, no mission sleeps
through its event or past its deadline.

**Delegation intake** (`workflow/delegate-shared.ts`). State: the request and
created events, the outcomes. Hard: a crash between the request event and the
outcome, two submissions at the policy cap.

**Attention items** (`core/attention/`, `workflow/attention-workflows.ts`).
State: `attention_items` with level, snooze, occurrence count and delivery
stamps. Operations: raise (insert, bump or reopen) inside the outcome's
transition, see, snooze, resolve, dismiss, undo, the five-minute liveness tick
(wake, close, collect, push again). Hard: the push is queued outside the
transaction, the tick acts on rows it read earlier, the kill switch is read by
the tick and cached by the producer. Correct when: a transition leaves raised what
the outcome then holds, what the owner answered stays answered, news is delivered
and stale items go away.

**Calendar actions and action intents** (`core/imessage/calendar-actions.ts`,
`core/actions/`, migrations 001, 002, 014). State: intents with a confirm code,
attempts, grants, the provider's calendar. Operations: propose, confirm (count,
approve, prepare, grant, attempt, call, record), cancel, expire, reconcile.
Hard: lost provider answers, two confirms of one code, a code two people hold,
a process that dies after the effect, a lock whose connection is lost. Correct
when: one confirmed proposal has one effect, by its owner, and what is recorded
and said about it is true.

**Reminders and their to-dos** (`core/reminders/`,
`workflow/reminder-workflows.ts`, `core/commitments/transitions.ts`). State:
the reminder row with its next touch, the commitment behind it, the probe
attached to the thread. Operations: capture, the sweep's claim, park, send and
probe, the replies. Hard: overlapping sweeps, a reply between a sweep's read
and its claim, a crash between claim and park. Correct when: nobody is nudged
past the cap or at night, and an armed reminder is not forgotten.

**Conversation and its offers** (`core/imessage/threads.ts`, `conversation.ts`,
`cognitive-turn.ts`, `outcome-confirm.ts`). State: threads, each with one JSON
value of metadata holding a list of offers, a single slot, a probe. Operations:
park, confirm by yes (legacy routing), by resolution (single routing), by
token, decline, drop; the sweep's probe; thread turnover. Hard: every writer
reads the value and writes all of it back; turns are kept apart by a lock on a
connection that can be lost under them. Correct when: an offer is carried
out once and stays reachable until it is answered.

**Sensor and ingest** (`apps/imessage-sensor`, `core/imessage/service.ts`).
State: the cursor in memory and on disk, the cache of paired handles, the
stored transport events. Operations: poll, post, advance or freeze, baseline,
reset; ingest and the turns it starts. Hard: lost posts and answers, restarts,
a replaced database, rows that do not decode. Correct when: every message is
stored once, starts at most one turn, and none is passed over.

**Event store and outbox** (`core/events/store.ts`, `apps/api/src/outbox.ts`).
State: events by idempotency key, outbox rows with attempts. Correct when: an
event is accepted once, and handled at least once by a drain, which no program
starts today.

**Calibration, escalations, review and promotion** (`core/calibration/`,
`core/escalations/`, `core/review/`, `core/promotion/`). Row state machines
with compare-and-set updates, mostly one writer each.

**Gmail sensor** (`core/gmail/{sync,extraction,content}.ts`,
`workflow/gmail-workflows.ts`, the adapter). State: the history cursor, the
events, candidates and content rows of messages. Operations: a tick bootstraps
(lists the window, newest first) or walks the history after the cursor, and
takes each inbox message in by three writes. Hard: a budget per tick, ticks
that overlap or die between the writes, expired history, a mailbox that
changes between two calls. Correct when: the cursor passes no message nobody
has looked at, and every inbox message is taken in with what belongs to it.

**Calendar sensor** (`core/calendar`). A sync token over an external calendar,
change detection and notifications of changes.

**Everything else**: grants and the policy ceiling, domains and egress, the
adapters, API sessions and pages, the CLI, briefs and metrics. Policy
evaluation, I/O, rendering or language-model prompting.

How they meet: a mission's transitions raise attention items; both enqueue
notifications; the sensor's messages become turns of the conversation, whose
offers start missions, reminders and calendar actions; the edge
agent's report stamps attention items; workers and the conversation call the
model through the budget; missions wait on events that the sensors accept
into the event store; the owner's pages write criteria and transitions the
executor reads back; the reminder sweep writes the probe into the
conversation's metadata. Apart from HTTP between agents and API and the workflow
engine's events, all interaction is through rows of the database.

## The models

Statements against PostgreSQL are the unit of interleaving: one statement, or
one transaction whose intermediate states nobody can see, is one action. Where
the code reads, decides and writes in separate statements there are separate
actions and whatever the read returned is kept in the actor's state. A crash
leaves the database as the last statement left it and drops the actor's state.

### ModelBudget

| model | code |
| --- | --- |
| `row[c]` | the ledger row of call `c`: none, reserved, ok, error, and its month and cost |
| `pc[c]`, `attempt[c]` | where `runModelCall` is and which attempt it is on |
| `answer`, `received` | the answer in hand; all the provider charged for this call |
| `month` | `date_trunc('month', now())` |
| `Reserve`, `Deny` | `reserveBudget`: one transaction under the advisory lock |
| `ProviderAnswers`, `AttemptFails`, `EgressRefuses`, `AuditRetry` | the dispatch loop with its three kinds of failure |
| `Finalize`, `Crash` | the closing write, or the process dying before it |

Money is counted in micro-dollars as natural numbers; the rounding of the
headroom (`Math.ceil`) is therefore exact.

### EdgeDelivery

| model | code |
| --- | --- |
| `status`, `request`, `claimed`, `overdue`, `ownerApproved` | the `notifications` row: status, what was asked for, lease taken, TTL passed, who approved |
| `verified` | `transport_identities` |
| `deadLetters`, `fingerprints` | rows of the dead-letter sentinel and the sent-message fingerprints |
| `sends`, `sentTo` | what the transport was handed (not stored by the program) |
| `pc`, `held`, `asOf`, `due` | a poll of one agent: the row in hand, the clock it read, the overdue ids its sweep found |
| `Create`, `Approve`, `Reject`, `Pair` | `createNotification` and the owner's operations |
| `Poll`, `SweepOne`, `SweepDies` | `expireOverdueNotifications`, one statement pair per row |
| `Claim`, `Recheck`, `Quarantine` | `claimNextApprovedNotification`: the claim, the recipient recheck and its UPDATE |
| `Send`, `SendFails`, `RefuseTarget`, `ShowTyping` | `runOnce` of the agent |
| `ReportInTime`, `ReportTooLate`, `RecordFingerprint` | the delivered route |
| `Crash` | the agent, the request or one of the answers is lost |

`ReplyApproved` and `PolicyApproves` are the two approval rules, written out;
`RecheckOutcome` has the third outcome the code has, a database error when a
reply names a recipient and no requester (the cast of an absent principal to
`uuid`), which leaves the row claimed until its TTL.

`OneShotChannel` is the promise: each item is open and then delivered, lapsed or
refused for good; a text is handed over at most once, is acknowledged only
after that, and is refused only before it. A text already on its way when its
row lapses may still be handed over and is never acknowledged. Two machines
implement it, this one and `CalendarActions`. The mapping (`PhaseOf`) sees an
expired row that a recheck may still put back as open:
that is how far the code keeps the promise (see "Known divergences").

### Mission

| model | code |
| --- | --- |
| `outcome`, `criteria`, `waits`, `jobs` | the rows of `outcomes`, `outcome_criteria`, `outcome_waits`, `assignments` |
| `tx` | the transaction that holds the outcome's row lock |
| `run` | what the engine keeps: invoke/body/signal/approval/ended/dead, resolved waits, attempts |
| `pc`, `call`, `seen`, `todo`, `verdict`, `rechecks`, `found` | the memory of an executor invocation, a request, a tick |
| `Begin`, `ReadCurrent`, `Update`, `Commit` | `transitionOutcome`: read, compare-and-set with trigger checks, commit |
| `Invoke` ... `Consume` | the executor up to and including its plan waits |
| `Assign` ... `Block` | the worker lane (2.5) and the verifier lane (2.7) |
| `Park`, `Pause` | 3, handing over to the owner |
| `Satisfy`, `Signal`, `Stamp`, `StampAges` | the resume scanner and its pacing |
| `ReapOverdue`, `ReapExpired`, `ReapTouched`, `TickDies` | the hourly reaper |
| `MissionDone` ... `OwnerWaives`, `Decide` | the owner's pages and `josctl ops` |

The engine's replay is modelled by what it does: a durable wait that has
resolved returns at once in the next invocation (`run.resumes`, `run.expired`),
everything else is executed again. `Body` is the executor's code, and actions
outside it (time-outs, crashes, the clock) happen to it.

`OutcomePromise` is what is left of a mission when the executor, its replays,
the transactions and the reaper are taken away. An outcome is open, with its
owner, closing, completed or dropped (`PhaseOf` reads the phase off the status);
some criteria are met (`Criteria \ Unmet`); somebody is working on it or not
(`LiveJobs # {}`). Handing over takes that nobody works, and nobody starts
while the owner has it; with the owner or closing, criteria are only met; only
an outcome with all of them met closes, only a closing one is completed.
`TakeBack` is there because the code needs it: the reaper finds an outcome
waiting, its transition reads the status anew, and may block an outcome that
reached the owner or began to close in between. `RunOn` is there because an
executor is not told that its outcome was dropped.

### Attention

| model | code |
| --- | --- |
| `item[c]` | the `attention_items` row of the outcome's ready, blocked or failed condition: state, who closed it, `snoozed_until`, whether it was pushed |
| `outcome`, `LegalNext` | the outcome row and its transition guard |
| `pending`, `queue` | pushes a process owes after its commit; live notifications of the item |
| `enabled`, `loaded`, `produced` | the kill switch, the producer's copy of it, whether the last transition used it |
| `tick`, `todo`, `verdict` | a liveness tick: step, rows its SELECT returned, row in hand |
| `Move` with `Closing`, `Raising` | `emitOutcomeAttention` in the transition's transaction |
| `Enqueue`, `EnqueueLost`, `Report`, `Expire` | `deliverOutcomeAttentionNow` and the fate of the notification |
| `See`, `Resolve`, `Dismiss`, `Snooze`, `Undo` | the owner's routes |
| `StartSweep`, `Check`, `CloseGone`, `EndSweep`, `Reread`, `PushAgain` | the tick: wake, close what is gone, collect, `retryEligibleUndelivered` |

The hour and the age of the last push are not tracked: where `shouldDeliver`
reads quiet hours or the cool-down, both answers are possible.

### CalendarActions

| model | code |
| --- | --- |
| `intent[i]`, `attempt[i]` | `action_intents` with its confirm code, its newest `action_attempts` row |
| `events`, `flying` | the provider: events created, requests still on their way |
| `turn[t]`, `lock` | the handler of one message, step by step; the advisory lock of each principal |
| `aged`, `day` | `expiresAt` passed; the database's day |
| `CountProposals`, `InsertIntent`, `MintToken` | `proposeCalendarAction` |
| `Lookup` ... `Record` | `confirmCalendarAction` and `confirmIntentRow` over `ActionService` |
| `CancelRead`, `CancelWrite`, `Reconcile` | cancel and reconcile |
| `LoseLock`, `Crash`, `Serve` | the lock's connection drops; the process dies; the provider serves a request, perhaps after its caller gave up |

Seen through `StandingOf` a proposal is a one-shot channel too. Inserting it
offers it; an event is a hand-over, whether the provider makes it while its
caller waits or later; a recorded success or a reconciliation acknowledges it; a
cancellation or a recorded failure refuses it, which the channel allows only while
there is no event. One thing lapses: a success whose own record failed, which the
code records as a failure (`spilled`). Everything between these, the code, the
lock, the approval, the preparation, the attempt's row and a lost answer, is a
stutter: the proposal is open.

### Reminders

| model | code |
| --- | --- |
| `row[r]`, `todo[r]` | the reminder and the commitment written with it |
| `now`, `FirstTouch`, `ScheduleAfterTouch` | the civil clock of the policy's zone; the scheduling of `lifecycle.ts`, computed as it does |
| `tick`, `listed`, `Poll`, `ClaimTouch`, `Park`, `SendTouch` | one execution of the sweep, and the rows it read |
| `TurnIsOverBy` | the clock does not pass the day a turn is about to promise: a model call has a time-out of a minute and at most three attempts |
| `turn`, `Capture`, `Reply`, `Arm`, `Write`, `Transition`, `ClearProbe` | a turn of the principal, one write per step, in either lane |
| `stranded`, `torn`, `touches` | history: who was left by a crash, what was claimed since the promise was made |

### Conversation

| model | code |
| --- | --- |
| `thread[t].meta` | the metadata: `list` is `pendingProposals`, `latest` the single slot, `probe` the pending probe |
| `Pending`, `WithOffers`, `WithoutProbe`, `WithOverride`, `WithProbe`, `Written` | how each reader sees the value and what each writer makes of it |
| `turn[n]`, `lock` | the principal's turns, step by step; which of them holds the turn lock |
| `TakesLock`, `Goes`, `LoseLock` | `withPerPrincipalTurnLock`: a turn waits for the lock and gives it back; its connection is lost, and the turn goes on beside the next one |
| `Park`, `LegacyConfirm`, `Resolve`, `Token`, `Touch` | the turns that concern offers, and those that only rewrite the value |
| `CarriesOut`, `ComesToNothing`, `Refused` | the fates of an offer that was agreed to: applied and taken out; not applied and taken out all the same; kept for another try |
| `ReadList`, `ReadMeta`, `WriteMeta` | the list a token's removal reads, then the read and the write of the value |
| `SweepReads`, `SweepWrites` | `attachPendingProbe`, which takes no turn lock |
| `Turnover`, `Flip`, `Expire`, `Answer` | `resolveActiveThread`, an edit of the routing policy, the 24 hours, an offer answered in other words |
| `standing`, `dropped`, `revived`, `made`, `excuse`, `beside`, `calm` | history: what the owner still has to answer, what writers lost or brought back, how often an offer was carried out and which repeats are explained; the turn came to an offer another turn is still at; no lock was lost, no turn died and no sweep wrote |

Without its lock a turn overlaps the next, and what then goes wrong is in the
model: both read one list and carry the same offer out, or each writes back what
it read and undoes the other. The properties say exactly that much. In a calm run
an offer is carried out at most once and no answered offer is listed; otherwise
each repeat and each revived offer has its own cause, a second answer taken while
the first turn was still at the offer, a death after carrying it out, or an older
list written back.

### Sensor

| model | code |
| --- | --- |
| `db`, `body` | the message table of chat.db and where each row's text is |
| `disk`, `sensor` | the state file; the process: cursor, drift count, cache, batch |
| `Start`, `CannotOpen`, `ResetCycle`, `PollCycle`, `Heartbeat` | `runSensorLoop` and `runSensorCycle` |
| `Advance`, `Freeze`, `PostFails` | the answer is back, or is not |
| `Ingest`, `RunTurn`, `Answer` | `ingestBatch`: one transaction, then the turns, then the answer |
| `skipped`, `overtaken` | history: rows a baseline left behind, rows a replaced table put under the cursor |

### GmailSync

| model | code |
| --- | --- |
| `kind`, `archived`, `ends`, `horizon` | the mailbox: what arrived and left the inbox, the ids of its history records, how far they have expired |
| `cursor` | `gmail_sync_state.cursor_history_id`, 0 for null |
| `events`, `candidates`, `content` | messages with a row in `events`, `memory_candidates`, `gmail_messages` |
| `tick[t]` | one `syncGmail`: mode, page token, refs left of the page, newest and last processed id, budget spent, message in hand |
| `List`, `Profile`, `Drained`, `Capped` | `runBootstrap` over the port: a page, the profile's history id, `knownEventKeys`, the ends of the walk |
| `History`, `Drained`, `Capped` | `runIncremental`, and the bootstrap after a 404 |
| `Fetch`, `FetchFails`, `Land`, `Persist`, `PersistFails` | `processMessage` |
| `Abort` | a quota or other API error, or the end of the process |
| `skipped`, `unsaved`, `passed`, `bare` | history: what the code gives up knowingly (the first two are audited) or loses, each named in the properties |

Messages are numbered by arrival and a history record has the number of its last
message, so that "at or below the cursor" is what the history will not show
again. A message arrives in the inbox or outside it ("other": sent mail, a filter's
work), and a ref says nothing of that until the message is fetched.

## Runs

| run | bounds | what it shows |
| --- | --- | --- |
| `model_budget` | 3 calls (2 retrying, 3 attempts), hard cap 3, soft 2, cost up to 2, 2 months; 434 843 states | at most one reservation per month, it holds the cap, the overshoot is below one call |
| `edge_delivery` | 2 notifications, 2 agents, 8 kinds of request, 1 crash; 1 329 449 states | at-most-once, truthful delivery and dead letters, right recipient, reviewed when it must be, refinement of the channel |
| `edge_settles` | 1 notification, 2 agents, 2 crashes; 11 161 states | every row reaches a terminal status for good |
| `mission` | 2 criteria, plans none/wait/assign, 2 attempts, 1 owner request; 1 156 141 states | its type invariant and four safety invariants, and that it implements `OutcomePromise` |
| `mission_settles` | the same without owner requests; 76 142 states | no lost wake-up, the deadline ends every mission |
| `attention` | 2 transitions, 1 tick, 1 upset (owner's act, lost enqueue, crash, switch); 157 728 states | no producer closes what its outcome holds, answers and snoozes stand, news is queued, stale items close |
| `calendar_actions` | 2 proposals, 2 turns, 2 principals of whom one only tries codes, 2 codes, 2 days, 1 dispatch a day, 1 upset or midnight; 2 881 198 states | one event per confirmation, consent, honest records and replies, the cap but for lost locks, refinement of the channel |
| `reminders` | 1 reminder, 2 sweeps, 2 turns, 1 crash, 3 days of 3 hours; 1 006 893 states | bounded follow-ups outside quiet hours, an armed reminder has a touch, a promise only moves on |
| `conversation` | 2 threads, 2 offers, 4 turns, 1 sweep, 1 upset (lost lock, death, changed routing, day gone by); 1 447 715 states | an offer is carried out once and the lists say what is unanswered, but for what lost locks, deaths and older lists explain |
| `sensor` | 3 messages, batches of 2, drift at 2, a reset acknowledged at row 1 or at the newest, 2 upsets; 411 143 states | exactly once behind the wire, the backlog is forwarded |
| `gmail_sync` | 2 ticks, 4 messages of which 1 outside the inbox, pages and budget of 2, 1 candidate a day, 1 upset; 411 243 states | the cursor passes no work, events carry their content, the daily cap but for a race, all mail is taken in |
| `gmail_drains` | 2 ticks, 3 messages of which 2 outside the inbox, budget of 2, no upset | finding 1 |

Why the bounds are enough to be interesting. Two calls race for admission and
the third arrives after one of them crashed or overshot; two months let a
reservation outlive its month. Two notifications are what FIFO, the lease and
an overlapping sweep need; two agents are also two polls of one agent, since
an agent keeps nothing between polls. A mission needs one criterion only the
owner may judge and one a verifier may, an assignment, a wait, and one replay.
`MaxRechecks` is 2 where the code has 8, so that the fall-through at the bound
is reached; a plan with both a wait and an assignment is left to the proofs,
because a wait's interleavings times an assignment's are
beyond a run of a few minutes; `Budget` 1 with costs 1 and 2 reaches both
sides of the budget check. `MaxCrashes`, `MaxAttempts`, `MaxRequests`,
`MaxNotes`, `MaxMonth`, `MaxMoves`, `MaxQueue`, `MaxIntents`, `MaxTurns`,
`MaxThreads`, `MaxOffers`, `MaxSweeps`, `MaxMessages`, `MaxRecord`,
`MaxOthers` and `MaxUpsets` (of all faults and outside acts together) are the
bounds of otherwise unbounded counters, each in the guard of the action it
bounds. Symmetry is used for agents, turns, codes and sweeps, only in
`edge_delivery`, `calendar_actions` and `reminders`, none of which checks
liveness.

Two transitions are an outcome that is parked and then fails or goes back to
work, which is what one item meets beside a second; a third only repeats that.
Two turns over two proposals are a double confirm, a confirm against a cancel
and a second proposal behind the first; with the upset they lose their lock to
each other. With one principal, one proposal and three upsets at once, such as a
failed record beside a lost lock and a crash (508 179 states), the refinement of
the channel holds as well. Three days hold a first touch, a probe and both
nudges with the capped one parked; the hours are one at night, the probe's and one
after it, and of the due hours one is at night and one is the probe's. Four turns over two offers park,
replace, answer and answer again, with the sweep and the turnover in between, or
one beside another that has lost the lock; the properties hold as well with three
offers (3 825 570 states), and with three offers, three turns and two upsets
(1 892 198 states).
Three messages fill one batch and start the next, two of them reach the drift;
`Acks` has a row in the middle and the last one, which stands for
`explicit-max-rowid`, since no table is longer.
Four messages with a budget of two are a first message that sets the cursor
and three that cap the walk after it, also inside a record of two. The upset
is an overlap, a crash or error, a failed fetch or write, expired history or
an archived message; with three messages and two upsets (607 431 states) the
four properties hold as well. `MaxOthers` stays below `Cap` in `gmail_sync`,
since from there on the bootstrap does not converge (finding 1) and
`MailIsTakenIn` fails with it; a history record of more messages than the
budget stands still likewise, hence `MaxRecord` at most `Cap`.

The type invariants of the other modules hold in these instances too; their runs
check the properties about the code. Those of `EdgeDelivery`, `CalendarActions` and
`Reminders` are theorems, and the proofs of the rest have invariants of their own,
which imply the types they need.

The mission configurations set `CHECK_DEADLOCK FALSE`: a mission that has ended
stops, and so does one whose engine gave up and whose owner stays away. The
`ModelBudget` configurations set it where all calls have returned. `Attention`
stops while the policy switches it off, `Reminders`, `Conversation` and
`Sensor` when their turns, days or messages are used up or the sensor has
stopped itself. The edge agents poll for ever and a turn over the calendar can
always begin, so those runs check for deadlock.

Fairness. In `EdgeDelivery` a TTL passes and each agent keeps polling
(`runLoop` repeats the cycle and swallows its errors). In `Mission` the engine
keeps invoking a runnable body, the crons fire (scanner every few minutes,
reaper hourly, the stamp's five minutes pass) and a transaction that was
opened ends. In `Attention` the tick starts every five minutes and runs to its
end, snoozes and notifications run out, and a process that has committed goes
on to its enqueue. In `Sensor` launchd keeps the sensor alive and it loops for
ever, and the server serves what has reached it. In `GmailSync` the schedule
starts a tick every five minutes and a tick that was started goes on. No
fairness is assumed of the owner, of arriving events, of time-outs or of
crashes; an engine that has used up its attempts leaves the run `dead`, and
`NoLostWakeup` says so, while the deadline ends even that mission.

## Findings

Each is a run that TLC refutes; `PROJECT.json` quotes the sentence of the
repository that the code departs from.

1. `gmail_drains`. Messages outside the inbox are fetched by every bootstrap
   and never become known; once as many of them as the budget stand at the
   head of the window, no tick gets past them and the cursor stays null.

### Known divergences

These configurations are refuted too. They are not among the runs of
`PROJECT.json`; run them with `tlc -config <cfg> <module>`.

| configuration, module | property | what the code does |
| --- | --- | --- |
| `MissionDecide.cfg`, `MCMission` | `DecideWakesTheRun` | `josctl ops decide` addresses the approval by `verify:REF` (`apps/cli/src/commands/ops.ts:184`), an id the runtime refuses and the executor does not wait on (`workflow/outcome-workflows.ts:851`), although the comment at 823-824 there says it "signals this run" |
| `CalendarBare.cfg`, `MCCalendarActions` | `BareVerbResolves` | a bare `confirm` or `cancel` of the only live proposal is looked up under an empty code and refused (`core/imessage/conversation.ts:1249`), although "bare verbs resolve the SOLE live proposal" (956-957); the functions written for it have no caller |
| `ModelBudgetLost.cfg`, `ModelBudget` | `AnswersRecorded` | the retry's audit row is written inside the `try` of the dispatch (`core/model/call-model.ts:373`); if it fails, an answer that was paid for is treated as a failed dispatch |
| `EdgeResurrects.cfg`, `MCEdgeDelivery` | `TerminalIsFinal` | the recipient recheck returns a row to `pending` without looking at its status (`core/notifications/service.ts:706`), also one a sweep has expired |
| `MissionSpend.cfg`, `MCMission` | `SpendIsRecorded` | `completeAssignment` (`core/assignments/service.ts:609`) overwrites the spend with the worker's own number, which workers are told to leave at 0 |
| `MissionPark.cfg`, `MCMission` | `ParkIsHonest` | a crash between failing an assignment and blocking its outcome makes the replay park a mission whose work failed (`workflow/outcome-workflows.ts:841`) |
| `AttentionAck.cfg`, `Attention` | `FailedIsTheOwnersToClose` | the tick closes by source without a fingerprint (`core/attention/service.ts:743`): a stale verdict on the blocked item closes the failed one, which "never auto-resolves", and likewise an item that the outcome has raised again since the verdict |
| `RemindersTwice.cfg`, `Reminders` | `AnnouncedOnce` | a first touch due exactly at the probe's hour schedules the probe at the same instant; an overlapping sweep's claim still matches and announces it again (`core/reminders/queries.ts:493`) |
| `RemindersTodo.cfg`, `Reminders` | `DoneMeetsTheTodo` | a check-in answered "done" completes the reminder but not a to-do that was renegotiated before (`core/commitments/transitions.ts`) |
| `ConversationProbe.cfg`, `Conversation` | `ProbeKeepsOffers` | `setThreadPendingProbe` leaves out the list of offers it means to preserve (`core/imessage/threads.ts:1228`) |

Also met while modelling, and not stated as properties: undoing an answer keeps
the old `snoozed_until`; an item that is snoozed between the retry's read and its
enqueue is pushed all the same; an item that was pushed once and then reopened is never
retried, although `outcome-producer.ts:6-8` says liveness recovers any missed
enqueue; a calendar code counts as an unknown reference in the outcome lane;
`reconcileAttempt` has no caller; a crash after the approval strands an intent;
a frozen cursor counts the same undecodable row again in each cycle, so that one
such row and an outage stop the decoder; a first start on a chat.db that does
not open forwards the whole history; `chat.snapshot()` may throw out of
`runSensorCycle`, which is documented never to; an expired offer can still be
applied in the legacy lane, and one that needs a token without it after a change
of the routing. In the Gmail lane a message that arrives between a bootstrap's
last page and its profile call is passed by the cursor (`passed`); a crash
after a message's event costs it its candidate and content when the next tick
bootstraps (`bare`), and a crash after a candidate's insert costs it its
`memory.proposed` event. A message stored on a server that then dies gets no
answer: its turn had the text in memory only.

## Proofs

Each `<name>Proofs` module states an inductive invariant `IInv`, proves that it
holds initially and that every action keeps it, and reads the theorems off it;
`PROJECT.json` lists them. `DeliveryProofs` does so twice, for the queue (`IInv`)
and for the follow-ups that are put on it (`RemindersIInv`). TLC has checked each
of these invariants first, as an invariant under the configuration of the
module's run, over all its states.

The proofs assume the constants' named assumptions and nothing else. For
`ModelBudget`: the calls are a finite set, the caps are naturals with
`0 < Soft <= Hard`, the bounds are positive. For `EdgeDelivery`: the bounds are
naturals, the null values are not members of the sets they stand beside, and
the policy's kinds and the requests are of the type the code accepts; agents,
principals and handles may be any sets. For `Mission`: the
criteria are a finite set, not empty, some of which only the owner may judge;
plans, roles, costs and claims are of the type of their columns; the bounds are
naturals, and there is an attempt and a recheck. For `Attention`: the statuses
reached are statuses, the ticks are a finite set, a push fits the queue. For
`CalendarActions`: the codes suffice for the proposals, the concurrent turns are
a finite set which the value of a free lock is not in, each person sends some of
the three verbs; the people may be any set. For `Reminders`: reminders and sweeps
are finite sets, the nudge cap is positive, a probe's offset is less than a day,
and the policy's hours are in order: quiet hours end by the start of the working
day, which is not after the probe's hour, nor that after the latest hour for a
probe, which is before quiet hours begin. For `GmailSync`: the ticks are a
finite set, page, budget, record and the day's cap are positive. For `Sensor`:
batch and drift threshold are positive, the rows acknowledged are rows of the
table or none. For `Conversation`: there is a thread.

**ModelBudget.** `Invariance` proves an inductive invariant by one step per
action: `TypeOK`, the three properties, and `PcMatchesRow`, which says that a
call in flight owns a reservation and one that has not started owns no row.
"At most one reservation per month" is not inductive alone: it needs that an
open reservation holds its month exactly at the hard cap, so that the next
admission is refused; that in turn needs the first, because a second
reservation would add to the sum; and the overshoot bound needs both, since
settling a reservation replaces exactly the headroom by at most `MaxCost`. The
monthly sum is the cardinality of its units, `<<call, 1..cost>>`; lemmas of
their own (`TotalUpdate`, `SpendUpdate`) say how it changes when one row
changes. The four theorems follow from the invariant.

**EdgeDelivery** (in `DeliveryProofs`). The invariant is `TypeOK`, the four safety properties after
at-most-once, and five parts: `LeaseInv` (a row in an agent's hands is claimed
and in no other agent's), `SendInv` (what was sent was claimed, and a row that
is still being rechecked or held was not), `RecheckInv` (past the recheck, a
reply's recipient is verified for its requester), `ReviewInv` (an approved or
claimed row was let through by the owner or by policy) and `ReportInv` (a
reporting agent has sent). At-most-once needs the first two together: a row
is put back only by the recheck, which comes before its send, and no other
agent can hold it by then. Seven theorems follow, the last of which,
`QueueImplementsChannel`, shows that each step of the queue is a step of
`OneShotChannel` under the mapping, or stutters.

**Mission.** Everybody reads a status and acts on it later. `KnownAt` says, per
label of the executor, what it has read of the plan and of its assignments and
that this still holds, because nobody else writes either; from it follow
`ResearchIsPaidOnce` (`PaidInv`: while the plan still has the assignment, no
call was made) and `WorkerVerifiedIsBacked` (at `apply`, a verdict of
"verified" is backed). `CompletedMeansCriteriaMet` is not inductive: the gate
of a completion is looked at one step before the commit (`GateInv`), and a
verdict applied in between could unmake a criterion. It cannot be, because of
`OverInv`: once anybody has seen the outcome with the owner or verifying
(`Ended`), either every criterion is met or no work is left from which a
verdict could come (`Settled`), and this is stable. The same argument gives
`HandedOverIdle`, of which the promise below makes more: who is about to hand over
has seen that no assignment lives, and none can be made meanwhile. `WaitInv`
says that a wait is made only when none is live.

`MissionKeepsItsPromise` shows that `Mission` implements `OutcomePromise`. It
needs `PromiseInv` on top: an open transition is legal from the status the row
still has (`LegalInv`, because of the lock); an outcome that is with the owner,
or about to be, is `Idle`: no assignment lives, the plan is used up and no
verifier is due, which no step changes any more (`HandedInv`); whoever closes
has seen every criterion met, and the owner's list covers what is not
(`EarnedInv`); and once it is `Over`, the outcome is idle, or the body is at
labels from which it only closes (`StillInv`). The lemmas say what no step
does: `CriteriaAdvance` (only the verifier unmakes a criterion),
`JobsByTheBody`, `IdleStays`, `CallsMove` (where a transition to the end is
begun). The phase then moves only in `CommitPromise`, status by status along
`LegalNext`, and `OtherPromise` covers the rest.

**Attention.** `HeldConditionStaysRaised` is about who closed a row: not the
producer, while the owner may, and so may a tick with an old verdict (see "Known
divergences"). It needs that a live row has been closed by nobody
(`LiveRowsAreUnclosed`), since waking, bumping and reopening keep or reset that
column. `OwnerAnswerStands` is proved
action by action from the types: each writer but the owner and a transition has
a guard on the state of the row in its WHERE clause, and the wake one on its time.

**CalendarActions.** Of one intent, at most one turn is past the approval
(`WinnerInv`), because the step from proposed to approved is a compare-and-set;
that turn alone writes the attempt, posts and records, so what it remembers of
them is so (`EffectInv`, `AnswerInv`). What a turn established at its lookup
(`ConsentInv`: owner, code, expiry) is never written again, which gives
`EffectHasConsent`. Nothing in the first part needs the lock. The cap does:
`QuotaInv` counts, per principal, the dispatches of the day together with the
turns that were counted in and have not dispatched yet, and the turns that work
without their lock, of which there are at most as many as locks were lost. It
carries the cap over the midnight as well, since a turn keeps the day it read.

`ProposalsAreOneShot` needs nothing beside that invariant. A cancellation wins
only on a row not yet prepared, and nothing leaves before that (`TypeOK`,
`EffectInv`); a failure is recorded by the one turn that posted, which remembers
truly that nothing is on its way (`WinnerInv`); and a request served after its
caller gave up finds no event and an outcome that is still open, or a failure
that lapsed (`AtMostOneEvent`, `OutcomesAreHonest`). `PostHandsOver`,
`ServeHandsOver`, `CancelRefuses`, `RecordDecides` and `ReconcileAcknowledges` are
these steps; the other actions leave each row's standing and the events alone.

**Reminders** (in `DeliveryProofs`). The claim of a touch compares the instant the
sweep listed and nothing else: neither the kind nor the escalation. The bounds
therefore rest on an instant naming one touch. `ListInv` says that what a sweep
holds is on the row's day or before; the claim of a probe or a nudge moves the row
to a later day than the one it compared, which therefore no list holds yet; and a
list that comes to hold it was read from that same nudge, with its escalation. Only
the first touch and its probe may share an instant (`AnnouncedOnce`, among the known
divergences), and those two the bounds leave apart. `CountInv` then ties the
counts to the row's kind and escalation, and `FollowUpsAreBounded` follows.
`PromiseInv` says of a promise about to be written that it is outside quiet hours
and not on a day gone by: this is where `TurnIsOverBy` is needed. Were a turn that
renegotiates to pend across a night, its promise would put the row back on an
instant that an old list holds, and one promise could be nudged beyond the cap.
No touch falls between the start of quiet hours and midnight, so that a turn has
two hours where its model calls take minutes. The schedule's own lemmas
(`FirstTouchIsAwake`, `LateProbeIsAwake`, `FollowUp`) say where each touch falls,
for every policy whose hours are in order. `ArmedHasATouch` needs of the sweep only
that it parks the row it has claimed (`ParkInv`). `RemindersMoveOn` is proved
action by action from the same invariant: `PromiseMovesOn`, `ParkMovesOn` and
`ClaimMovesOn` for the steps that write the row, `LeftAlone` for the rest.

**Sensor.** `ExactlyOnce` is not inductive, because the cursor moves by the
length of a batch read earlier, and chat.db may have been replaced meanwhile.
`BatchInv` follows the batch: in its place there is now the message that was
read or one that came into a replaced table under it. `CursorInv` says the same
of the cursor in memory and in the file, `TurnInv` that a turn is started for a
message that is stored and no longer pending.

**GmailSync.** The cursor promises something about every message below it, and
several ticks move it. `TickInv` states what each may promise on its own: an
incremental tick has dealt with all up to its token but what is left of its
page, which is later than the id it would save; a bootstrap, which lists
downwards, with all between its token and the newest message there was at its
start. No tick breaks another's promise, since what was dealt with stays so.
`QuotaInv` counts candidates together with the ticks that have counted and not
landed.

**Conversation.** A list that was read earlier is written back whole, by the sweep
or by one of several turns: nothing in the first three parts of the invariant
needs the lock. `PlaceInv` says that an offer lives in the copies of one thread
only: its metadata, what each turn has read and will write, what the sweep has
read. Of the turns that are at one offer, one came `First`, with nobody beside
it; the repeats of the others are explained when they begin. `MadeInv` says that
there is never more than one such turn, and that every time the offer was carried
out is accounted for as long as that turn has not carried it out, and whenever
there is none while the offer can still be answered. `MatchInv` ties the lists to
the history: a write that is older than another's answer changes it only by what
it adds to `revived` or `dropped`. The lock comes in with `CalmInv`: until it is
lost, a turn dies or a sweep writes, only its holder is at work, and what it has
read is what there is; from this follow the parts of both properties that allow
no exception.

**Only model-checked.** Liveness (`EveryRowSettles`, `NoLostWakeup`,
`DeadlineEndsTheMission`, `NewsIsQueued`, `StaleItemsClose`,
`BacklogIsForwarded`, `MailIsTakenIn`), which is out of the prover's reach under
fairness. Every invariant and every action property that a passing run checks is
a theorem, and so are its three refinements. The count of undecodable rows in
`Sensor` is a length after `SelectSeq`, of which the library states nothing, so no
theorem bounds it; no safety property rests on it. `Mission` is checked with plans that have a wait or an assignment,
and proved for those with both.

## What is not modelled

Of the modelled parts: the wording of texts and audit rows;
`expireNotification` by id, which nothing calls; the typing indicator beyond
its claim and report; the pairing code's own checks (`Pair` stands for a
pairing that succeeded); assignment grants; the event, attention and audit
rows of a transition's transaction; the executor's iteration bound of eight,
which a body that makes at most five turns does not reach; the approved branch
of the owner's pause, which no sender can trigger (`MissionDecide.cfg`); two
live attempts of one run; edits of the policy file while a mission runs; two
owner requests at once; the scanner's fifteen-minute look-back. With policy
edits a verifier could run while the mission is parked, and criteria could
change under a completion; in the configurations checked here the
application's own checks already keep `CompletedMeansCriteriaMet`, also
without the database's gate.

Of `Attention`: items of other producers, item actions that call other
services, the limits of 200 and 500 rows per tick (oldest first, so that rows
behind them wait). Of `CalendarActions`: the draft, the card, the payload and
its hash, the hourly caps and the brute-force lockout in front of the turn. Of
`Reminders`: the parsing of time words; to-dos closed by their own verb, which
leaves the reminder armed. Of `Conversation`: what the model is asked, how its
answer is parsed, offers other than a delegated outcome and a batch of to-dos
(the other kinds take the same steps as one of these), payloads, the steps
inside carrying out. Of `Sensor`: rows of the owner's own and the echo
fingerprints, strangers and pairing codes, the order of the turns of a batch,
a fetch that never returns (the sensor sets no time-out; such a sensor stands
still). Of `GmailSync`: the skips without a token or policy, the 72-hour rule
against duplicate bills, messages without text, mail older than the window, the
retention sweep, health and audit rows; one day is modelled.

Of the system: the components listed as `not_modelled` in `PROJECT.json`, each
with its reason.

## Plan

In the order of what matters most:

1. `ModelBudget`, `EdgeDelivery` over `OneShotChannel`, `Mission` over
   `OutcomePromise`, `Attention`, `CalendarActions`, `Reminders`, `Conversation`,
   `Sensor`, `GmailSync`: done.
2. Proofs of all their safety properties and of the refinements: done.
3. The delegation intake in front of `Mission` (cap, idempotent submission).
4. The calendar sensor (a crash between a change and its notification); strangers
   and pairing attempts in front of `Sensor`; the echo fingerprints that join
   `EdgeDelivery`'s report to it.
