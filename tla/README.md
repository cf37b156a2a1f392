# A TLA+ model of ren-ai

ren-ai lets language-model personas hold iMessage conversations. This directory holds a TLA+ model
of the parts of the program whose correctness depends on the order of concurrent steps, TLC
configurations that check the model on small instances, and proofs, checked by TLAPS, that hold for
every instance. Every definition is translated from the source; `PROJECT.json` (`map`) names the
lines each one stands for.

## 1. The system

A *persona* is an OpenCode agent with a session per conversation. Its tools call the *application*
(`apps/api`, one Cloudflare Durable Object with a SQLite database), which talks by RPC to the
*gateway* (`apps/imsg`, a process on a Mac with its own SQLite history). The gateway drives the
*bridge* (`apps/rustpush`, a Rust process that speaks to Apple). Messages of the user come back the
same way: bridge, gateway history, the application's *intake*, the prompt of a session.

There is no transaction across these processes: each of them may restart, each RPC has a timeout
(30 s in the application's client, 20 s for the gateway's answer to a send, 90 s for its bridge
call), and an answer that is lost says nothing about what was done. Within the Durable Object,
fibers interleave at every `yield*` that waits (an RPC, a timer, a semaphore), and nowhere else:
SQLite statements are synchronous.

### Components

| Component | State it keeps | Operations | What makes it hard | Correct when |
| --- | --- | --- | --- | --- |
| **Outbox** `outbox/outbox.ts` | table `send`; in memory a semaphore per conversation and the set `inFlight` | `send`, `sendPhoto`, `react`, `observe`, `reconcile`, `release`, `results` | submit answers lost, observers without the permit, interruption, restart, session replaced during typing | bubbles land at most once and in order; the ledger is true; late outcomes are told |
| **Gateway history and adapter** `imsg/messages/*` | tables `message`, `send_fence`; bridge calls in memory | `send`, `sendStatus`, `resolveSend`, receipts | requests late or repeated, fence against admission, lost bridge answers | at most one submission per identity; statuses true and final |
| **Apple delivery** `rustpush/delivery.rs` | per-device results | one outcome per submission | unconfirmed devices | never reports a failure of something accepted |
| **Conversation directory** `conversations/conversations.ts` | table `conversation`; a lock per handle | create, replace session, end, `writable`, `active` | its readers wait between look-up and use | at most one live conversation per handle and one live session per conversation |
| **Endings** `conversations/end.ts`, `notifications.ts`, `recover.ts` | tables `conversation_end`, `ending_notification`; a second outbox with its own permits | persona and operator ending, the tick, recovery by an operator | a 3 s budget interrupts RPCs; notices claimed before their RPC; the user moves on | one farewell, one notice whose fate is unknown, nothing forgotten, silence after the next relationship |
| **Intake** `intake/*.ts` | tables `bookmark`, `intake_pending`, `intake_seen` | poll, drain, receive, replay | crash between receive and delete; 30 s timeouts; replaced gateway history | every row of his reaches the live session, once, in order |
| **Session rebuild** `conversations/rebuild*.ts` | `rebuilding` flag, replay checkpoint | prepare, replay, complete, remove old session | replay outside the handle lock, forced replacement | the new session knows what the old one knew; the old one never writes again |
| **Failed turns** `opencode/failed-turns.ts`, `turn-work.ts` | table `failed_turn`, rows `turn:*` of `application_work` | inspect, record, claim, retry, hold for review, release | claim before retry, shared quota probe, turns that end while one is inspected | a failure is known; one probe at a time; every failure is tried, ended or held |
| **Scheduling** `scheduling.ts`, `work-budget.ts`, `worker/entry.ts` | table `application_work` with generations, lane cursors, the alarm | schedule, arm, fire, run, finish, rearm | work rescheduled while running, evictions, lanes that fail or use up the budget | work there is, is armed; rescheduled work is not deleted; no lane starves |
| **Follow-ups** `follow-ups/follow-ups.ts` | wake time, count of unanswered follow-ups | wake, note send, note arrival | prompt first, conditional update after | at most two unanswered follow-ups |
| **Discovery** `discovery/*.ts` | registrations, contacts, assignments, exclusions, invitations, notifications | register, look up, select, notify, first contact, observe, reselect | session created before it is bound; removal, block and next relationship meanwhile | seats never oversold, one session per contact, none lost from sight, everybody in turn |
| **Operator** `operator/*.ts` | table `removal` | remove (two phases), release | crash between phases, a first contact under way | every session left is named by a row a retry deletes it from |
| **Photos** `photos/*.ts` | photo rows, cleanup queue, object store | take, finish, expire, clean up | object stored before its row | no object without a row or a cleanup entry |
| **Timing** `timing/timing.ts` | signals in memory | arrival, typing race | signal before read | typing never outlives an arrival |
| **Inbound spool** `rustpush/rpc.rs`, `store.rs` | spool file | append, deliver, acknowledge | restart between store and acknowledgement | every notification is delivered at least once |
| **Application tools** `application-tools.ts` | – | calls of a session to its conversation | a call delivered twice | nothing of its own |
| Image queues, metrics, catalog, sites, packages | – | – | little or none | – |

`PROJECT.json` lists each component with its files, its status and the reason when it is not
modelled, and the hazards of the code at their lines.

### How the core interacts

```
persona tool call --> application-tools --> Outbox --permit--> row recorded --submit(id)--> Gateway
                                              ^                                   |  fence or admit
 observers: intake (reconcile), context reads |  <------- status / resolve -------|  bridge call
 (no permit)                                  |                                   v
                                           ledger                               Apple
```

A send gets an identity (a UUID) when its row is inserted. Everything later is about that identity:
the gateway admits it once or fences it, and its status is asked for until the row is settled. No
call sends anything while an earlier row of its conversation is open or not yet told.

```
Mac history --poll--> bookmark + intake_pending --drain--> receive --admitLive--> live session
                                                     |                               |
                                          restore: rebuild(handle)               intake_seen
                                                     |                               |
 operator (forced), recovery tick --> rebuild --> new session <--replay, bounded by its receipts
```

A row is removed from the queue after its receipt was written, and the receipts of the last live
session tell a rebuild what to replay. Intake admits rows only while the conversation is not being
rebuilt.

## 2. Modules

| Module | Models | Kind |
| --- | --- | --- |
| `Gateway` | gateway history, fences, bridge call, Apple, and the network to them | state machine |
| `Outbox` | the outbox of one conversation, extends `Gateway` | composition |
| `Thread` | what the outbox promises about the phone | abstract specification |
| `Intake` | Mac history, bookmark, queue, and the reader that admits rows to the live session | state machine |
| `Rebuild` | session rebuilds beside intake, extends `Intake` | composition |
| `Memory` | what intake and rebuild promise about the persona's memory | abstract specification |
| `Endings` | the ending of relationships: parts, attempts, ticks, recoveries, the next relationship | state machine |
| `Wakes` | deadlines, the alarm, the lanes and their budget | state machine |
| `Turns` | failed turns, their recovery and the shared probe of the quota | state machine |
| `Contacts` | registration, selection, notification, first contact, ending, block and removal | state machine |
| `GatewayProofs`, `OutboxProofs`, `RebuildProofs`, `EndingsProofs`, `WakesProofs`, `TurnsProofs`, `ContactsProofs` | theorems about the module in the name | proofs |
| `DataLemmas` | what sequences without repetition, removals from them and counts do | lemmas |
| `MCOutbox`, `MCRebuild`, `MCEndings`, `MCWakes`, `MCTurns`, `MCContacts` | what the configurations instantiate | model checking |

### Gateway

`message[a]` is the row of attempt `a` in the table `message` (`absent` without one), `fenced` the
table `send_fence`, `bridge[a]` the one bridge call the row authorises, `apple[a]` what happened on
the phone. `requests` is the network: a submit request once made stays there for ever, so it may
arrive late, arrive again after it was answered, or never; `acked` holds the attempts for which some
answer exists, which a client may or may not receive. `Admit` is `history.outgoing` together with
the start of the bridge call, `Fence` is `history.fence`, `Status` is `history.status`. `LoseAnswer`
covers the exit of the bridge or the gateway, the 90 s timeout and the unconfirmed outcome of
`delivery.rs`: the row stays pending, and Apple may still decide. `submissions` is a history variable
of the model. Two attempts exhaust the interactions, because all state is per attempt.

### Outbox

One step of the model runs from one wait of the code to the next. The holder of the permit goes
through `stage`: `before` (`before()` and its checks), `scan` and `earlier` (the loop over earlier
rows), `composing` (typing, loading a photo, finding a target), `submitting`, `polling`, or
`reacting` for a tapback. `chk` holds the status check a settler waits for: the holder has one, and
each observer has one, so a settler can hold an old answer while others settle the same row. That is
the core of the model. `cur` is the row the holder works on, which is the introduction first when one
is due. `late` and `notify` are the columns `late` and `notification_pending`; `inFlight` is the set
in memory. `gaveUp` is a history variable.

From outside: `Interrupt` (the fiber of the call is interrupted, `Effect.ensuring` clears
`inFlight`), `Restart` (memory is lost), `Rebuild`/`Rebuilt` (calls of the old session become
stale), `Block`, `PersonaEnd` (waits for the permit), `OperatorEnd` (does not), `ReleaseLegacy`,
and `Repeat`: the same call delivered again.

Abstractions, and what they leave out:

* A photo is a bubble like a text. The photo clause of `recordAttempt` is left to a module Photos.
* The second outbox of the endings (`reportLate` false) and the farewell clause are in `Endings`.
* A tapback has no identity. Looking it up reads recent messages and may match anything, so its
  verdict is any. The same look-up reconciles identified rows it meets; the observers' `Reconcile`
  stands for that.
* `release` waits once, for the permit; after it the update is conditional, so it is one step.
* The texts, the typing time and the logging are left out.

### Thread

The abstract specification: bubbles are opened one at a time, and an open bubble lands or is dead
before the next one is opened. `Outbox` defines the refinement mapping `BubblePhase`: a bubble has
landed when *Apple* accepted it, whatever the ledger says; it is open when its row is, and dead when
its row reads failed.

### Intake

One user, one conversation. A row of the Mac is named by its date (the dates are distinct and rise in
the order of sending), its row id is its position in `history`, so a replaced history is a shorter
sequence with the ids starting again; one step of `Replace` takes one row away, and several steps
several. `bookmark` holds the id and the date, as in the table. `Poll` is `poll` with the transaction
of `enqueue`: `Ahead` are the ids of the rows the filter of `poll` lets through, which are the end of
the history because its rows are in order (`QueueInv` of `RebuildProofs`), and the rows `enqueue`
ignores because they are queued already can only be the bookmark's own. The drain is the `reader`: `Look` is `receive` up to the
look-up of the conversation, after the restoring of its session; `Admit` takes the handle's lock and
repeats the check (`admitLive`); `LivePrompt`, `Record` and `Dequeue` are the prompt, the receipt in
`intake_seen` and the removal from `intake_pending`, with a wait, and so a possible failure, between
them. A failure, or the 30 s timeout, leaves the row at the head (`ReaderFails`).

`transcript[s]` are the rows session `s` was prompted with. A prompt has an id made of session and
row (`promptID`), and the executor takes an id once, so a prompt that is repeated adds nothing.

### Rebuild

A *runner* is one call of `rebuild`: the operator's, which is forced, the recovery tick's, or the
reader's own. Its stages follow `rebuild-session.ts`: `fencing`, `creating`, `sealing` under the
handle and lifecycle locks; `waiting` for the replay lock; `replaying`, `admitting`, `marking`, row
by row, without the locks except for the prompt; `settling` while the turns run; `releasing` and
`finishing` under both locks again; `removing`. There are no lock variables: the stages tell who
holds what. `source` is `replay_source_session_id`, `saved` the checkpoint of the replay.

From outside: `RunnerFails` (any call of a rebuild fails, its turn fails or its budget ends),
`Restart`, `LoseSession` (the executor was restored without the session), `Block`, `End` (all three
kinds of ending hold the lifecycle lock), `Stop`, and, where `Replacing` is set, `ReplaceIdle`.

Abstractions, and what they leave out:

* A replay reads pages of 100 rows and saves its cursor after each; here it may after any row.
* The prompt that opens a session, and the turns, are left out: a turn succeeds or fails.
* `createSession` and `replaceSession` are one step; a failure between the two leaves a session that
  nobody knows, which no other step can meet.
* A call that is abandoned is executed before any later call about the same session, or never. The
  executor serialises the operations on a folder; that the network keeps the order is assumed.
* A replacement of the Mac's history in the middle of a replay is left out, and so are bubbles of
  the persona in the history, edits, resets of test handles and earlier relationships.

### Memory

The persona learns rows one at a time, each later than all she knows, and forgets none. `Rebuild`
maps `known` to the receipts of the live session, or, during a rebuild, of the session the replay is
bound by: at the moment a rebuild ends, the two must be the same set.

### Endings

`relation[r]` is what became of conversation `r`, `due` the two pending columns, `number` the two
attempt columns, `row` the row of an attempt in `send` (farewell) or `ending_notification` (notice).
`phase` is the way of an attempt to the phone, a summary of `Gateway`: because `Gateway` shows that a
verdict is true and final, a question and its answer are one step here. A notice has no identity, only
the guid in the answer of its submit (`known`), and can be asked about only with it.

`Tick` takes the lock and the ending that was checked longest ago, with the order of the two parts
decided by the row it has read (`Order`: a farewell in doubt lets the notice go first). `Inquire`,
`Submit`, `SubmitAnswered`, `SubmitFails`, `Poll`, `Conclude` and `CheckFails` are the delivery of a
part; `Interrupt` is the three second timeout and the eviction, possible wherever the delivery waits.
`Observe` is the status view, which takes no lock. `Recover`, `RecoverAsks` and `Recovered` are the
operator's request for another attempt. `Move` is the next relationship, `OtherEnd` the ending by an
operator or a reset (no farewell).

Left out: the interruption of the ended session, the retention of its folder, the texts.

### Wakes

Times are counted from now and saturate at `Never`; `Pass` lets one unit go by. `row` are the fixed
rows of `application_work`, `held` the rows `lane:execution.cursor:*`, `startup` the row
`lane:alarm.cursor:execution`, `backoff` the row `retry`. Of a generation only the comparison with
the one the run has read matters: `job.read` keeps the rows that still have it, and `Schedule` takes
the name out. `Deadlines`, `ExecutionWake` and `NextAlarm` are `applicationWakes` and
`nextApplicationWake`.

A run goes from `Fire` (the safety alarm is set before any I/O) and `Look` through the store's own
work and the two levels of lanes to `Finish`, which is `finishApplicationWork` and `rearm`: the object
is single-threaded, and between these no I/O lets anything else in. The same holds for the read of the
next wake and `setAlarm` in `Arm`. Requests come in only while a run waits for I/O (`Waiting`).

The row `notifications` is the one deadline that a failed start-up does not hold back: while `startup`
is later, a registration lets a run pass over execution (`ExecuteLater`).

Left out: that the lane of the notifications itself may fail; the limit of five rows in one snapshot; that the 45 seconds end exactly between the claim of
the execution lane and its first lane, in every run; the content of the lanes.

### Turns

`exec` is the session in the executor, `failed` the table `failed_turn`, `tried` the order of
`last_retry_at`, `probe` the rows `turn:*`. Fingerprints and generations are compared only with the
one that was read, so a record is `current` or not, and `job.mine` says that the row still is the one
that was read. `Look` and `Reconcile` are the two halves of an inspection, with the remote reads
between them; `Select`, `Dispatch`, `Retry` the recovery; `Resumes`, `Resume` the release after the
quota is back.

Left out: sessions that are gone (they are rebuilt, see `Rebuild`), the provider's alert, the delays
that double (all failures but quota are due again after a unit).

### Contacts

A registration has the number of the request that made it, and so has the notification of that
request; a contact plans at most one session, which has the number of its registration. `Join` is
`commitRegistration` with everything it calls: a live relationship, a reselection, a new registration
or a repeated one. `Select` is the operator's selection and the start of a test handle; `Lookup`,
`SelectInvitation` and `Claim` are one turn of the notification queue; `Look`, `Start`, `Create`,
`Commit`, `Undo`, `Prompt` and `Observe` are one turn of the first contacts, with the failure of each
call or transaction, whose effect may have happened or not. `RemoveRows`, `RemoveSession` and
`RemoveEnds` are the two phases of a removal. There is no lock variable: `Busy` and `Unlocked` say who
holds the lock of a handle.

Abstractions, and what they leave out:

* One row per run and queue, the smallest batch; which rows are looked at follows `last_checked`.
* What a handle likes is a constant; a persona that is withdrawn blocks the contact (`Start`).
* `failed` stands for `unreachable` too. Visibility, reset and the retention of the sessions of a test
  handle, rate limits and further invitations are left out.
* The attempts of the notification queue end with its claim: what the gateway makes of it is not
  followed, and neither is the limit of thirty in an hour, which also ends in a claim.
* A greeting is followed only while its contact is inspected.

## 3. Runs

Deadlock is not checked in any run, because calls, requests and attempts may all be used up.

| Run | Instance | Question |
| --- | --- | --- |
| `outbox_order` | introduction due, 1 text, 1 observer, 2 polls | is the ledger true, are outcomes final and late ones marked, do bubbles keep their order, and is `Thread` implemented? |
| `outbox_returns` | introduction, 1 text, 1 tapback, 2 polls, fair | does every call that waits end; is an attempt submitted at most once and its verdict true and final? |
| `rebuild` | 2 rows, 3 sessions, the operator and the tick, 2 failures | are receipts true, rows in order, replaced sessions read-only, and is `Memory` implemented? |
| `rebuild_learns` | 2 rows, 3 sessions, the tick, 2 failures, replaced histories, fair | is no row lost, and does every row reach the persona? |
| `rebuild_fenced` | 1 row, 2 sessions, the operator, 1 failure | violation, see findings |
| `endings` | 2 relationships, one ended by the persona and looked at by the operator; 2 attempts of a part, fair | are farewells and notices never doubled, outcomes true, parts never forgotten; is every notice submitted? |
| `wakes` | 2 lanes, one of them fails again and again, a budget of 3 items, 1 fault, fair | is the alarm set for all work there is, does no work vanish, is every lane served? |
| `turns` | 2 sessions, quota failures, one sends, one ends, 2 prompts, 1 fault, fair | is every failure known, is there one probe at a time, is every failure tried? |
| `contacts` | 2 handles, 2 personas of 1 seat, 1 code of 2 uses, 2 requests, 2 faults, fair | is no session lost from sight, no seat sold twice, no second session made; has everybody a turn? |
| `contacts_notified` | the same without faults and endings | violation, see findings |
| `outbox_in_doubt` | introduction, 1 text, 1 observer | violation, see findings |
| `outbox_introduction` | introduction due, 2 texts, 1 tapback | violation, see findings |

Bounds. Sends and observers are the only sets; nothing else is bounded except `MaxPolls`, the number
of status checks after an accepted submit (16 in the code: one and fifteen more), for which 2 is
enough to have a check that is repeated and one that is the last. Two rows are needed to see order,
an observer and a holder to see two settlers of one row. Row identifiers, submissions and the fences
are bounded by the number of sends. The proofs remove the bounds for the safety properties.

For `Rebuild`, `MaxRows`, `MaxSessions` and `MaxFaults` bound the messages, the sessions and the
failures; a session is not lost, and a rebuild not begun, when none is left to replace it. Two rows
are what an order needs, and let a replay be half done; three sessions let a half replayed session be
replaced; two failures are needed for one in a rebuild and one in its repetition, or one of each
runner. Two runners are enough for a forced replacement to overtake a replay, and for one rebuild to
wait for the other. Three rows with polls of two make a poll of a replaced history stop half way.

For `Endings`, two relationships are what the order of the ticks needs, and two attempts what a retry
needs; both parts of both are there. For `Wakes`, `Safety` 2 distinguishes due, soon and late:
requests store what is due or soon (`Dues`), retries wait longer than the next moment (`Delays`). The
budget of three leaves one lane without an item in a run when both levels are admitted, which is what
the cursor is for; one fault is an eviction or a failed start-up at any point. For `Turns`, two turns
are needed to share a quota, a delay of two to see a probe postponed; two prompts let each session
fail, or one fail twice. For `Contacts`, two people compete for one seat; two requests are two people,
or one person twice (repeated, reselected or removed and back); two faults are needed for a failure
followed by the failure of its clean-up, or by a restart.

Fairness (`EndingsFairness`): the alarm drives the tick while an ending is due
(`scheduling.ts:82-87`; strong, because a recovery may hold the lock in between), and a delivery that
waits is ended by the three second timeout (`end.ts:129`). Nothing is assumed of the network.
`WakesFairness`: the steps of a run, a request that goes on to arm the alarm, and time. `Turns`: ticks
go on, and time passes (strong, because a tick in between holds it up). `ContactsFairness`: both lanes
get their turn (`LaneServed` of `Wakes` is what justifies it; strong, since each waits for the other),
a step that waits for a call ends by its timeout, and time passes; failures are finitely many.

Fairness (`OutboxFairness`, only `outbox_returns`): strong fairness of `Acquire`, because Effect
semaphores serve waiters in order of arrival; weak fairness of the holder's own steps; and weak
fairness of "the RPC is executed or fails", which the client's 30 s timeout justifies
(`gateway/client.ts:19-20`). Nothing is assumed of the gateway, the bridge, Apple, the observers or
the persona. There is deliberately no property that an open row is eventually settled: a row that
the gateway keeps pending because the bridge's answer was lost stays in doubt by design, until a
receipt arrives.

Fairness (`RebuildFairness`, only `rebuild_learns`): weak fairness of `Poll`, of the reader and of
the steps of a rebuild that runs, and strong fairness of its beginning, because the handle's lock
serves waiters in order of arrival. The durable alarm repeats all of them while rows wait or a
conversation is being rebuilt (`scheduling.ts:65-105`). A session that is lost while nothing waits may
stay lost; it is restored when a row arrives, which is when the property needs it. Failures are
finitely many, by `MaxFaults`. Nothing is assumed of the user, the operator or endings.

## 4. Findings

* **`outbox_in_doubt`** – a call can end "in doubt" and never be corrected. While the submit waits,
  an observer settles its row; the row is in flight, so it is not marked late. When the submit then
  fails, the failure branch updates only rows that are still `recorded`, so nothing is marked late,
  yet the call reports a doubt. ADR-0003 says a send in doubt is corrected once its outcome settles.
  `LateOutcomeReported` states what the code does guarantee.
* **`outbox_introduction`** – when an earlier send, such as a tapback in doubt, turns out to have
  landed, `before()` inserts the introduction as `not_sent`. The introduction then never is due again,
  so the next text goes out without it, against `docs/specs/conversation-photos.md:76`. Without such
  a send, `IntroducedFirst` holds (`outbox_order`).
* **`contacts_notified`** – a removal deletes the registration, the contact and the user of a handle,
  but not its redemption of an invitation code, whose key is the handle. When the handle registers
  again with a code that still has uses, the code is accepted, and then every run fails: the selection
  comes before the claim of the notification, the second redemption violates the key, the selection
  is rolled back and the notification stays queued. `docs/specs/persona-discovery-admin.md:59` has the
  next run attempt every notification once. Without a removal the notification is always attempted.
* **`rebuild_fenced`** – a forced rebuild withdraws the old session's permission to write before it
  creates the new session. If the creation fails, the conversation is live with a session that may
  not write, no recovery notices (it looks for `rebuilding = 1`), and new input is admitted to it,
  against ADR-0009: "new input waits for the writable current session". Only another forced rebuild
  helps.

Observations that are in the models as the code has them, without a property that calls them wrong:

* `Contacts`: the object may be evicted between the commit of a conversation and its first prompt, or
  between the claim of a contact and the creation of its session. The contact then stays `greeting` or
  `preparing` as long as the session has no outcome; it is inspected in its turn for ever, and left to
  a person. No second session is made (`OneSession`).
* `Turns`: an inspection returns early when a row `turn:*` is not due yet (`turn-work.ts:49`), and the
  dispatch does not look at what was sent (`failed-turns.ts:143-159`): a failed turn that is due may
  be retried although the conversation sent something after it was recorded.
* `Turns`: `resumes` means to make the row due at once after a retry (`turn-work.ts:112-114`), but the
  retry itself schedules that row and so raises its generation, and the update matches nothing.
* `Wakes`: a request that is evicted after it has stored work and before it has armed the alarm leaves
  the work to the next request or alarm. `Armed` and `LaneServed` say so.

## 5. Proofs

TLAPS proves every safety invariant and every action property that the passing runs check, for every
value of the constants, and the refinements of `Thread`, `Memory` and the gateway with any clients. The assumptions are those the modules state, and TLC
evaluates them in every run: sets that are subsets of others, bounds that are numbers, names that are
fresh (`None` is not a value it stands beside), finitely many handles. Two theorems assume more:
`RebuildImplementsMemory` assumes that the Mac's history is not replaced (after a replacement the
persona may know rows the Mac no longer has, and what she is taught is then not what `Memory` says),
and `OutboxIntroducedFirst` that there are no tapbacks (see findings; `OutboxIntroducedUnlessTapback`
needs no assumption, and says that nothing but a tapback can take the introduction's place).

None of the properties is inductive alone. Each module of proofs begins with its inductive invariant,
a conjunction of named parts, followed by one lemma for each action, or for a group of actions that
change the same things.

* `GatewayProofs` – `GatewayInv` ties the row, the bridge call and Apple's decision of an attempt
  together (`Untouched`, `Counted`, `Known`). The type invariant, `SubmittedOnce` and
  `VerdictTruthful` follow, and `VerdictFinal` from it and one lemma about a step. The theorems are
  about `GatewaySpec`, a gateway whose clients repeat, resolve and abandon requests as they like.
* `OutboxProofs` – `OutboxInv`: `GatewayInv`, `PermitInv` (stage, permit and calls agree), `HolderInv`
  (what each stage knows of the row it works on), `AloneInv` (from `composing` on, no other row is
  open or untold), `CheckInv` (an answer held by a settler is still true of the gateway), `RowInv`
  (ids and states), `LinkInv` (a settled row agrees with the gateway; an identity that was never
  recorded was never requested). That a settler may write an *old* answer is safe only by `CheckInv`,
  which rests on the finality that `GatewayInv` gives. `OutboxImplementsThread` maps every step, given
  `OutboxInv` before and after, to a step or a stutter of `Thread`; `OutboxImplementsGateway` shows
  that the outbox does nothing to the gateway that a client of `GatewaySpec` may not, which gives
  `SubmittedOnce`, `VerdictTruthful` and `VerdictFinal` for the composition. `IntroductionInv` adds that until
  something is attempted the ledger is empty and the holder's row is the introduction or a tapback.
* `RebuildProofs` – `RebuildInv`. `QueueInv`: the history and the queue are in order and the queue
  ends with the bookmark. `BehindInv`: nothing a session knows was sent after the head of the queue.
  `LockInv`: which stages exclude each other; this replaces the lock variables the model does not
  have. `SessionInv`: sessions come in order, and one that is to come has left no trace. `TargetInv`:
  a rebuild that finishes is the conversation's. `CursorInv` is the heart: what the session before had
  received, up to the place of the cursor, the new session has received too (`Covered`), which is why
  clearing `rebuilding` loses nothing; it must hold also of the checkpoint that a repeated rebuild
  starts from, and of a runner whose target was replaced meanwhile nothing is claimed. `RowInv`,
  `PrefixInv` and `ReaderInv` say what is known between a prompt and its receipt; `KeptInv` that
  without a replacement the Mac has all rows. `ReceiptsTrue`, `InOrder` and `NoRowLost` are parts of
  the invariant; `NeverRegained`, `ReplayReadOnly` and the refinement are proved of a step from it.
* `EndingsProofs` – `EndingsInv`: an attempt has a row exactly when it is on its way (`RowInv`),
  attempts after the one that counts were not made and those before it are decided (`NumberInv`),
  nothing is delivered before the end (`LiveInv`), and a job's attempt stays the one that counts
  (`JobInv`, the lock). `OneFarewell` and `NoticeKnown` follow from the numbers; `SubmittedOnce` and
  `SilentAfter` are proved of a step.
* `WakesProofs` – `WakesInv`: where a run is (`RunInv`); that work which was refused (`DeferredInv`),
  which came while its lane was at work (`FreshInv`), which is still to be read (`IntakeInv`) or to be
  sent (`UnsentInv`) has a row that the run has not read, and which its end therefore leaves.
* `TurnsProofs` – `TurnsInv`: rows are about live conversations (`LiveInv`); what a tick has read is
  true, or another row says that it is not (`ReadInv`); all turns wait for the quota or none does, and
  not longer than a delay after the probe (`QuotaInv`); `StageInv` and `SelectedInv`. `OneProbe` is
  proved of a step.
* `ContactsProofs` – `ContactsInv`: numbers of registrations are not used again (`RegInv`), a job's
  contact is not removed (`JobInv`, the lock), conversations belong to contacts of their handle
  (`RowsInv`), a removal keeps the names of what it has not deleted (`RemovalInv`), a session is asked
  for after the claim (`CallsInv`), a handle has one seat (`UniqueInv`). The seats need finitely many
  handles, since they are counted. The order of inspections (`turn`) is left out of the type
  invariant: no safety property reads it.

Where a proof needs to know what removing from a sequence does, the models take out one element at a
place (`RemoveAt`) or the first that equals a value (`RemoveFirst`): `DataLemmas` proves what these
return, which for a filter over a sequence would need induction over data.

Only model-checked, because liveness is out of this prover's reach: `EveryCallReturns`,
`EveryRowLearned`, `NoticeSubmitted`, `LaneServed`, `EveryFailureTried`, `StartedInTurn`. Violations
are shown by their runs.

## 6. Plan and what is not modelled

Next, in this order:

1. **Proofs** – an abstract specification of what the alarm promises to a lane, and `Wakes` shown to
   implement its safety part; the same for the seats and sessions of `Contacts`; the facts the
   liveness properties rest on (what a run of `Wakes` uses of its budget, that a tick of `Turns`
   shortens what it has to do).
2. **Photos**, **Spool** – the order of object, row and clean-up; spool, acknowledgement, restart.
3. **Follow-ups** – the conditional update after a prompt, and the count of unanswered follow-ups.

Not modelled:

* **Follow-ups** – one row per conversation with a conditional update, a deadline of one lane in
  `Wakes`.
* **Timing** – timers and a signal in memory inside one call; `Outbox` lets an arrival abandon a
  bubble at any time while it is typed.
* **Photos** – the object store is another service; a photo send is a bubble of `Outbox`.
* **Inbound spool of the bridge** – the Rust side of incoming messages; `Intake` starts from the Mac's
  database.
* **Image queues, metrics, usage, alerts, persona catalog, sites and packages** – they follow the state
  of others, keep state of their own that nothing here reads, or have none.
