# Verification of Shofer's task runtime

Shofer is an AI coding agent: a VS Code extension (`src/src`), a command-line
host (`src/apps/cli`), and the core they share (`src/packages/core`). A user
talks to *tasks*; every task runs an agent loop that sends the conversation to a
model and executes the tools the model calls. Tasks spawn child tasks that run
at the same time, ask their parent questions and send each other mail. All of it
is one event loop of asynchronous TypeScript: between two `await`s a step is
atomic, at every `await` anything else may run, and the process may end at any
moment. This directory holds TLA+ models of the parts where that matters, the
TLC configurations that check them, and TLAPS proofs.

Paths below are relative to the repository; `core` is `packages/core/src`,
`ext` is `src` (the extension).

## 1. Inventory

| Component | State it keeps | Operations | What makes it hard | What makes it correct |
|---|---|---|---|---|
| Mailbox (`core/mailbox/Mailbox.ts`) | envelopes in memory, `mailbox.json`, writes on their way | deliver, drain, resolveRequest, digest/pending, load | operations await one hydration; the write serialises the array late; writes fail; crashes; retries of relays | mail is not lost, capacity holds, a request stays until it is answered |
| Agent loop (`core/task/Task.ts`, `AttemptCompletionTool.ts`, `MessageQueueService.ts`) | abort/abandoned/soft-cancel flags, queue of user messages, promise of the loop, conversation | run, Send Now, queue a message, wake, complete, cancel, abort, retry | flags shared by the loop and by everything that stops or restarts it | one loop at a time, no message of the user lost, Send Now returns |
| Lifecycle state (`ext/services/task-manager/TaskManager.ts`) | state per task, versions, chains of persists | setState, register, restore, create, delete, persist | slow and failing writes overlap newer states; other writers touch the record | the last state wins, nothing old replaces something new |
| Task history (`ext/core/task-persistence/TaskHistoryStore.ts`, `core/task-persistence/taskMetadataStore.ts`) | one file per task, a cache per process, an index file | initialize, upsert, delete, reconcile, getOrLoad, index write, dispose | reads outside the lock; exits before the index is written; several processes | no update lost, cache and list agree with the files |
| Atomic JSON write (`core/utils/safeWriteJson.ts`) | target, new and backup file, queue per path, lock file | write | failures and crashes between the renames, locks of other processes | the target is always the old or the new content |
| Dormant delivery (`ShoferProvider.deliverToTask`) | instances, the stack, the manager's map, mailbox file and boxes | deliver, rehydrate, replace, cancel, clear, follow up | an instance is known in four places; long awaits between check and start; rehydrations overlap; failures of files are heard by nobody | acknowledged mail is kept and seen, a wake is heard, one live instance per task (which does not hold, section 6) |
| Child questions (`AskFollowupQuestionTool.ts`, `ReplyTool.ts`) | forwarded question, ask, request in the parent's mailbox, timer, handle | ask, reply, answer, expire, withdraw | two answer channels and a timer, a reply of several awaits, a parent whose instance is replaced meanwhile | an answer answers its question, nothing left behind, the child goes on |
| Answers of an ask (`Task.ask`) | answer slot, current ask, flag, queue, auto-approval timer | ask, answer, put back, poll, process queue, Send Now | asks overlap and share all of it; an answer is seen up to 100 ms after it is given | every answer goes to its ask or back to the queue, in order |
| Transport drain (`core/transport/drain.ts`) | turns, observers, flag | begin, registerTurn, settle | registrations during the wait | no turn closed that still had grace |
| Subtasks (`NewTaskTool.ts`, `CancelTasksTool.ts`, `AttemptCompletionTool.ts`) | child handles, parallel limit, cost limit | spawn, ask, cancel, check, complete, wake, stop | limits checked before an approval and never again; a child runs before it has a handle and ends before the handle says so; what has ended is woken | limits respected, handles tell the truth, nothing runs on after a stop |
| Asynchronous MCP calls (`CallMcpToolAsyncTool.ts`, `WaitForMcpCallTool.ts`, `CheckMcpCallStatusTool.ts`) | handles per call | call, wait, check, cancel | settle against time-out and cancel | an outcome is told once, as it was, and kept until then |
| MCP hub, terminals, settings, plugins, skills, providers, views, telemetry, CLI | see `PROJECT.json` | | mostly input/output, external processes, parsing, layout | |

How they interact. A **user message** goes from the view
(`webviewMessageHandler`) to `Task.messageQueueService`; the loop takes it when
an ask is waiting or a turn completes, and Send Now or a wake stops the loop and
restarts it with the message. A **peer message** goes to
`ShoferProvider.deliverToTask`, which hands it to the live `Task.deliver` or to
the mailbox file of a dormant task; the mailbox writes its file through
`safeWriteJson`. A **state change** (task events, waiting tools, start/pause)
goes to `TaskManager.setState`, whose chain of persists calls
`TaskHistoryStore.upsert`, which writes the record through `safeWriteJson` and
later the index. **Completion and cancellation** set the flags the loop reads,
abort children, and write the same record.

Every component of the repository is listed in `PROJECT.json`, with the reason
for those that are not modelled; every hazard found is listed there at its line
with the properties that cover it.

## 2. Plan

| Order | Module | State |
|---|---|---|
| 1 | `Mailbox`, `MailboxProofs` | done |
| 2 | `TaskState` implementing `StateRegister`, `TaskStateProofs` | done |
| 3 | `TaskLoop`, `TaskLoopProofs` | done |
| 4 | `TaskHistory`, `TaskHistoryProofs` | done |
| 5 | `SafeWriteJson` implementing `AtomicFile`, `SafeWriteJsonProofs` | done |
| 6 | `DormantDelivery`: deliverToTask with the mailbox file, the boxes and the instances; `DeliveryProofs` | done |
| 7 | `TaskAsk`, `TaskAskProofs`: the answer slot, put-backs and `processQueuedMessages` | done |
| 8 | `ChildQuestion`, proved about in `DeliveryProofs` | done |
| 9 | `Subtasks` and `McpCalls`, composed by `BackgroundWork` with the stop of a task; `BackgroundProofs` | done |
| 10 | proofs for `DormantDelivery`, and of every safety and action property that was only model-checked | done |
| 11 | an abstract mailbox (what a sender is promised) that `Mailbox` implements, proved like `StateRegister` and `AtomicFile` | next |
| 12 | `TurnDrain`, terminals, the settings' file watchers | candidates |

Abstract specifications: the durable register of a task's state (`StateRegister`)
and a file that holds the old or the new content (`AtomicFile`).

## 3. The modules

### Mailbox (`Mailbox.tla`, `MCMailbox.tla`)

`mem` is the `envelopes` array of each `Mailbox` object, `disk` the contents of
`mailbox.json`, `queue` the writes `safeWriteJson` holds for that file,
`waiting` the calls that await the hydration. A call is split where the code
awaits: `Call…` (time captured), `Run` (after the hydration up to the persist)
and `Commit` (the write reaches the file; the caller is acknowledged). A queued
write refers to the array, which is serialised when its turn comes; `Detached`
freezes it when the box replaces its array by a filtered copy. An envelope is its
id with a kind and a deadline; payloads, digests and refusals of envelopes that
do not parse are left out, because they touch no state. `saved`, `taken` and
`synced` are history variables.

### TaskState and StateRegister

One task stands for all (the manager's maps are keyed by id). `state` and
`version` are the manager's, `chain` its persists that have not settled, `lock`
the operations queued on the store's `withLock`, `record` the `taskState` field
in the file. `Persist…` are the four outcomes of `persistState` (stale version,
no record, equal, write); `StoreDone`/`StoreFails` is the store's turn.
`Clients` selects who else writes: metadata saves, writers that spread an old
item ("snapshot"), deletion, registration before the restore ("early").
`StateRegister` is the abstract promise: the durable state only moves forward
through the states that were set; `TaskState` implements it with
`durable <- record`.

### TaskLoop

One `Task` instance. `abort`, `abandoned`, `softCancel` are its flags, `queue`
the message queue, `loops` the agent loops with what their next request carries
(`content`) and whether it will be put in the conversation (`add`, the code's
`userMessageWasRemoved`/retry flags), `heard` the turns in the conversation,
`calls` the invocations of `cancelAndProcessQueuedMessages` and where they wait.
The loop's states are the places where it awaits: announcing and preparing a
request, streaming, pausing before a retry, acting on the answer, waiting for an
approval, a question or a retry decision, saving a completion. `AbortTask` is
`abortTask` with the `dispose()` that clears the queue. An ask of a tool is in two
steps: `Ask`, which may end at once, and `Raised`, which decides whether it is put
and offers a message that is already queued as an answer before the flag says that
one is awaited, so that an approval loses it (`Task.ts:3175-3198`, 3338-3343). Faults:
"cancel" (the user's cancel, in its four steps), "kill" (abort from elsewhere),
"failure" (an error no retry cures), "empty" (an empty answer); a first chunk that
fails is retried or put to the user (`FirstChunkFailed`, `FailureAnswered`).
`AutoApproval` is the set of values the `autoApprovalEnabled` setting takes while the
task runs (the code reads it afresh at every failure); `child` is fixed when the task
is created and says whether it has a parent, because the completion of a child skips
the look at the queue. `Init` is a new task or one taken from the history, whose
resume ask waits (`resume`) until it is answered by the user or a queued message
(`Resume`), superseded by another ask, or aborted. An answer that comes while a Send
Now or its loop is at work makes the resumption "late".

Left out: how an ask is answered, `processQueuedMessages` and the put-back of an
answer nobody awaits (they are in `TaskAsk`), a refused lease, the mistake-limit ask, context
truncation, and the instance that replaces a cancelled one (after "replaced" no
input reaches this one).

### TaskHistory

`files` are the records, `dirs` the task directories, `index` the index file,
`cache`, `queue`, `running` the cache, the operations on the lock and the holder's
progress in each process, `loads` the `getOrLoad` calls in flight, `dirty` the
processes whose index timer is set. An item is a function from fields to values
with `Unset`, so that merging is what `{...existing, ...item}` does. A read that
meets the moment between the two renames of another write sees no file
(`Reads`); a crash there leaves none ("torn"). The write of the index may fail like
any other; that is logged, and no other is scheduled (`missed`). `Initialize` reads the index in
one step, before other operations touch the store; the migration from the
editor's global state, its write-through and the sorting are left out; a write
that arrives after a deletion does not overlap `RemoveDirectory`.

### SafeWriteJson and AtomicFile

One path, written by several processes. `queue` holds each process' writes that
have not settled (the chain of promises in `writeQueues`), `pc` how far the first
is, `lock` the process whose lock file is there, `target` the file, `backup` the
`.bak` file of each write, `marked` whether `actualTempBackupFilePath` is set,
`failed` whether the catch block has run. One step is one operation on the file
system, each of which may fail if `Faults` has it: the lock, the stream to the
new file, the test for the old one, the two renames, the rename back, the
deletions, the release. A process may end at any step ("crash"); its lock file
stays and grows stale, and its backup becomes the `orphan` if the file is away.
The temporary new file is left out: its only part is to be renamed.

`AtomicFile` is what callers rely on: a file that changes in one step, and a
write that reports success exactly if it made that step. `SafeWriteJson`
implements it with `value <- Recoverable`, the file or else the backup that holds
what it held. That the *file* and not only something recoverable is there again is
the separate liveness property `FileReturns`; a crash between the renames is its
exception, because nothing in the code looks for a backup. Assumed: a process
that runs keeps its lock (one suspended for 31 seconds can lose it), and nobody
else removes the file during a write.

### TaskAsk

One task and its asks, each from `Task.ask`'s first look at auto-approval
("deciding") through the wait to how it ended. All asks share `slot`
(`askResponse` and its text), `current` (`_currentAskId`) and `awaiting`
(`isAwaitingAskResponse`), as in the code; an ask looks at the slot only in
`Poll`, so that anything may happen between an answer and its poll. `Handle` is
`handleWebviewAskResponse`: it refuses an answer to another ask or to none, and
`PutBack` returns its message to the head of the queue. `Click`, `Reply`,
`Submit`, `Enqueue` are what the user does, `TimerFires` the delayed
auto-approval, `ProcessQueued`/`Submitted` the two halves of
`processQueuedMessages` around its timer, `SendNow`/`Restart` Send Now as asks see
it. `Overlap` lets an ask begin while another is outstanding, which the budget
question of a background usage count and a loop that was given up do in the code.
Partial asks never wait and are left out, as are the plugin hook before an ask and
the marks on messages.

### ChildQuestion

A child that asks its parent, `asked` times. `step` is the place of
`askForwarded`, `forwarded` the record `_forwardedQuestion`, `timer` and `slot`
as in the ask, `handle` the child's status in its parent's map. The parent has
instances: `instance` is the latest, `parentLive` whether it is in the manager's map,
`requests` what the box of each holds and `parentFile` the file that they all write
whole and that a new one starts from. Both tools hold on to the instance they began
with: the question withdraws its request from `captured`, the reply resolves on
`replier`, and a box that is written by an instance that was replaced buries what the
file has got since (`buried`). `ParentStops` and `ParentReturns` are a stop or a
cancellation of the parent and its rehydration; a request to a parent without an
instance makes one. `replying`, `progress`, `replied` are the reply tool
between its awaits: look up, deliver, resolve, unpark. `putBack` are answers that
found no ask waiting. The user may answer in the child's chat; the child may be
aborted, its handle marked, and be woken again. Its specification is
`QuestionSpec`, with names of its own so that one module can prove about it and
`DormantDelivery`.

### Subtasks, McpCalls and BackgroundWork

`Subtasks` has the children of several parents, `McpCalls` the asynchronous calls;
the two share `tool`, the tool each task executes (one at a time), and `stop`, how
far the task's own stop is. `Subtasks` splits each tool where it awaits: `Count`
(the limit), `AsksUser`, `Approved`, `Create`, `Record` of new_task; `PlanCancel`,
`CancelApproved`, `AbortPlanned`, `MarkCancelled` of cancel_tasks; `Check`,
`CheckEnds` of check_task_status, whose second half writes what it read before its
await; `Finish`, `Report`, `End` of a child's completion; `Complete`, `AbortOwn`,
`Completed` of a parent's. A child waits in asks (`AskChild`, `Answered`), is stopped
in its own view (`StopChild`) and is woken after its end, completed or aborted
(`WakeChild`). `Active` is `countActiveTasks`: a task that waits for its user, has
ended or is stopped does not count, and a child that goes on after an ask ("resumed")
or is woken takes its place without a comparison.
`McpCalls` has the call with its approval, its settling at any time, and
the two tools that read it. `BackgroundWork` composes them: it adds the rest of
`abortTask` (`StopDone`), the instance that replaces a stopped one (`Resume`, with
`rehydrateBackgroundChildren`), Send Now and the wake of a completed task, and its
invariants are about both. `unseen`, `missed`, `raced`, `woken`, `lost` and `told` are
history. `Managers` are the tasks that are also cancelled, completed and stopped,
`Attended` those whose spawns may need the user: both only keep the instance small.
Approvals of tools that are not modelled would free a parent's place in `Active`, too;
the statuses "error" and "waiting_for_parent" of a handle are left out here, the
latter is in `ChildQuestion`, alone with the child's question: a check_task_status
that was begun before the question overwrites it.

### DormantDelivery

Mail for one task. `file` is `mailbox.json`; every instance has a `box` that reads
the file once (`hydrated`) and writes it whole (`dirty`); `managed` and `stack` are
where the host keeps the instance, and `Found` asks them in the code's order. A
delivery is handed to an instance that is not abandoned, or written to the file
through a box of its own and then rehydrates the task. `host` holds a rehydration for
each requester: a delivery, the user's focus, a cancellation, the extension API.
Nothing keeps them apart, as in the code: each goes through `Start`/`Begin` (what
`createTaskWithHistoryItem` finds decides whether it joins a live instance, replaces
the current one in place or pushes a new one), `Build`, `Replace`, `Publish` and
`Boot`, and may `Fail` at any of them, which leaves the instance where it is.
`Load` is the hydration of a box, which is empty if the file cannot be read; `Persist`
its write, whose failure nobody hears of; an exit of the host may leave no file.
Instances are cancelled, cleared, left, end, are woken, and have a loop that is past
its last look at the box while it still counts as running ("ending").
`missed` (of each box, the mail of the file that it does not know of) and `lost` (mail
that a step took out of the file, or never got into it) are history.

Left out: what is under the top of the stack and the tasks that are there, the
restored mode and provider profile, the history that `cancelTask` reads before it
abandons the instance, the refusal of a full box (`Mailbox`), a cancellation by the
API of an instance that was never started, and two restarts of one instance at once
(`TaskLoop`, section 6).

## 4. Runs

Every property's comment in the module says what it means.

| Run | Shows | Bounds |
|---|---|---|
| `mailbox` | capacity, mail that was written is not lost, the file catches up with the box, reading does not consume a request, every call runs once the hydration is over | 3 envelopes (notification, long and short request) for 2 slots, clock of one tick, 2 calls or writes in flight, failing writes, unreadable files, crashes |
| `task_state` | settled state agrees with the record, the register is implemented | 3 states set per process, 2 store operations queued, 4 reported states, failures, deletion, early registration, restarts |
| `task_state_live` | every chain of persists settles | 2 states set, all clients |
| `task_loop` | one loop, messages lost only with the work that carried them, Send Now returns, what it took is heard | 2 messages, 1 wake, 1 Send Now at a time, 2 loops, new or from the history, both values of the setting and of having a parent, all faults |
| `task_history` | cache agrees with the files, upserts merge, the index catches up unless its last write failed | 1 process, 2 tasks, 2 fields, 2 operations queued, failing writes of records and index |
| `task_history_restart` | the list is complete after a restart and its reconciliation | as above with exits and torn writes |
| `safe_write` | what can be recovered is an atomic file, the file returns, every write settles | 2 processes, 2 contents, 2 writes of a process waiting, every operation but the rollback may fail, crashes |
| `task_ask` | an answer decides its ask only, no message vanishes or is heard twice, the queue keeps its order, the flag is set while an ask waits, an ask drains the queue | 2 asks that may overlap, of all 3 kinds, 2 messages, timers, Send Now |
| `child_question` | an answer answers its question, a failed reply keeps the request, a question that is over leaves nothing but in a later instance of the parent, a child goes on | 2 questions, 2 instances of the parent over all, replies that fail or are late, abort and wake |
| `background` | types, the children that ran without a break are within the limit, handles tell the truth up to the named races, outcomes are told once and kept until then, a stop leaves nothing running | 1 parent that also manages, limit 2, 2 children, or 1 and a call with any of 3 outcomes; any number of asks, wakes, checks, stops and restarts |
| `dormant_delivery` | types, acknowledged mail leaves the file unread in three ways only, an agent sees what its file had, mail that wakes is heard | 2 envelopes, 2 instances, overlapping rehydrations, 2 events in all: what the user and the API do, what fails, exits of the host |
| `dormant_hidden` | *violation*: an instance that the map does not have is left by focusing another task, and the next opening makes a second one live | no delivery is needed; 2 instances, 3 events, one rehydration at a time |

A module whose type invariant TLAPS proves for every value of the constants does
not check it again in its run, except where it costs nothing; the strengthened
invariants of section 5 were checked with TLC before they were proved.

Why the bounds are enough. Every hazard listed needs at most two actors that
overlap (two deliveries, two asks, two parents, two processes, a set and a slow
write) and one fault or crash between two steps; the bounds give two of each
actor, a slot fewer than the mail that wants it, a second field that a merge must
keep, and enough queue for one operation to wait behind another. Three versions let
a write be overtaken by two newer states. In `safe_write` the old and the new
content differ, both processes can want the lock, and the second write of a process
waits for whatever becomes of its first. In `background` one parent and its children
reach the limit of 2; that several parents exceed it by one each is what the theorem
says for any number of them. In `child_question` a second instance of the parent is
enough for a tool to hold on to the first. In `dormant_delivery` two deliveries write
the file from two boxes, and a fault and an operation of the user may fall anywhere
between them. What the proofs cover holds without any bound.

Three configurations cut behaviours with a CONSTRAINT; none concerns a theorem.
`Timely` ends a run of `TaskLoop` where a late resumption begins, of which its
properties claim nothing. `Apart` keeps the second child and the call of
`BackgroundWork` from existing together; what the two parts share is a parent's `tool`
and `stop`, not each other's state. `OneAtATime` keeps the rehydrations of
`dormant_hidden` from overlapping, which makes its counterexample a stronger one.

The run of `TaskLoop` has one `cancelAndProcessQueuedMessages` in flight, those of
`TaskHistory` one process whose `getOrLoad` does not overlap other operations on its
task, `task_state` no writers that spread earlier items, `safe_write` no failing
rollback: section 6 says what happens otherwise.

Some properties name what they do not claim, because the code does it. These are
losses and races of the code, not of the model; the modules reach them.

| Property | Exempted |
|---|---|
| `AckMeansKept`, `LiveSeesMail` | mail in `lost`: a box that did not know of it wrote over it, because another box put it in the file after it was read or because the file could not be read; its own write failed unheard; the host exited between two renames. `LiveSeesMail` also mail that is in the file and that the box does not know of (`missed`) |
| `WakeIsHeard` | the delivery fails or the host exits; the instance was abandoned; it ended with a wake turn in its queue that nobody takes (a delivery that joins an instance which ends meanwhile queues the turn, `startFromHistory` does nothing for it, and the next wake finds a turn queued). Its premise is mail for a task that is not loaded or has ended: mail to a loop past its last look wakes nobody |
| `NothingLeftBehind` | the request, when the parent has another instance than when the question was put |
| `RequestKept` | a request that an earlier instance of the parent writes its box over (`buried`) |
| `HandlesTellTheTruth` | a child that reported before it was recorded, during its cancellation or during a check of its status, and one that was woken |
| `LimitHeld` | children that waited in an ask or were woken: they run in addition |
| `NothingLeftRunning` | a child that is being created, or a call that is approved, while the stop is on; a child woken behind it |
| `IndexCatchesUp` | the last write of the index failed (`missed`) |
| `LostOnlyByStop` | a message that an approval finds queued before it waits, one that decides on a failed request, and whatever a late resumption does |

### Fairness

Liveness is checked under weak fairness of exactly what the event loop runs by
itself: a continuation whose promise has settled, a queued write, an operation
whose turn on a lock has come, an operation on the file system that ends in
success or failure, retries for a lock that are finite, a timer that is not set
again. A stream ends (the client has time-outs) and a persist settles
(`task_state_live` checks that). Nothing obliges the user to answer, a model to
answer well, a sender to send, or a process to crash. `IndexCatchesUp` has "no
operation runs any more" as its premise, because every change sets the timer
again, and `EveryWriteSettles` has "no further calls", because weak fairness does
not serve a queue that never empties. `ChildGoesOn` and `QueueIsDrained` rest on the
poll of `pWaitFor`, which looks every 100 ms, and on timers that fire; neither the
user nor the parent has to answer. `WakeIsHeard` rests on the awaits of a delivery
ending, one after the other, and on its instance's box being read and written; nobody
is obliged to rehydrate a task for the user or the API. `SendNowReturns` does not ask
for an answer either: what waits is aborted.

## 5. Proofs

All proofs are for every value of the constants, under the assumptions named in
the modules (`MailboxAssumption`, `TaskStateAssumption`, `LoopAssumption`,
`HistoryAssumption`, `WriteAssumption`, `AskAssumption`, `QuestionAssumption`,
`BackgroundAssumption`, `DormantAssumption`), which TLC evaluates in every run.

| Module | Theorem | Assumption | Argument |
|---|---|---|---|
| `MailboxProofs` | `TypeCorrect`, `CapacityRespected` | none | capacity is not inductive for the file alone: the invariant bounds every box, every queued write, what a hydration has read and the file, and that detaching a write does not change what it will write |
| | `MailIsDurable`, `FileAgrees` | one box per file; what is lost with a file found unreadable is not counted | the file may lag: the invariant says that the *last* queued write, or the file if none is queued, agrees with the box on live envelopes, and that every saved, untaken envelope is in the file and in every queued write |
| | `RequestsAreAnswered` | none; any number of boxes over the file | an action property over the state: `BoxesWait` says that a box is empty until it is hydrated (so no hydration takes a request away) and that no call is dated after the clock (so an expired request was expired for whoever discards it) |
| `TaskStateProofs` | `TypeCorrect` | none | the operation that is the manager's own is the head of its chain |
| | `LatestWins`, `RecordMovesForward` | no snapshot writers | `ChainOfLog` ties each pending persist to the state set at its version, `FirstIsFirst` places the first record before any state is flushed, `SettledShown` says what the record will show when the chain is done; the refinement maps each step to a step of `StateRegister` or a stutter |
| `TaskLoopProofs` | `TypeCorrect` | none | a busy call carries a turn (`Carries`) |
| | `SingleLoop` | at most one call | `LoopInv`: the loop that is alive is the one whose promise the task holds, and a call past its wait has seen it end |
| | `MessagesAreCarried` | at most one call | `CarryInv` says at which places of a loop its turn must still be put in the conversation and at which it is there, `AbortInv` who can have set the abort flag: a stop, a Send Now that waits, or nobody with work left. A step that drops a message is then one of those the property names, the approval that finds it before it waits among them |
| `TaskHistoryProofs` | `TypeCorrect` | none | the holder of a lock is at the head of its queue (`Busy`) |
| | `CacheFollowsFiles`, `UpsertMerges` | one process, no crash, no overlapping `getOrLoad` | cache and file may differ only on the task in the holder's hands (`Apart`), which belongs to the operation at the head (`Holder`); a load in flight concerns no queued operation (`Loading`); a process that is down leaves the index equal to the files (`Down`) |
| | `ReconcileListsAll` | one process, which may crash at any step; no overlapping `getOrLoad` | the cache may be behind the files, so `CacheAgrees` is of no use: `Listed` says of a reconcile under way that a task with a record is listed or still to be read and not to be dropped, and one without a directory is unlisted or to be dropped; it needs that records have directories (`HasDirectory`), and that a load in flight read what the file still holds (`Loading`, `Works`) |
| `SafeWriteJsonProofs` | `TypeCorrect` | none | only a queued write is under way |
| | `AtomicWrites` | no failing rollback | `Exclusive`: the lock lets one process past "idle", so one backup counts; `Stage` says for each place of a write what file, backup and error can be, `OrphanNeeded` that a backup without a write holds the contents only while the file is away; each step is then a step of `AtomicFile` (call, commit, settle, crash) or moves nothing that can be recovered |
| `TaskAskProofs` | `TypeCorrect` | none | a message under way is a message of the user or a suggestion of an ask |
| | `AnswersDecideTheirAsk` | none | `SlotMatches`: an answer in the slot that names an ask names the current one, because an ask empties the slot when it begins and an answer to another is refused |
| | `FlagIsSet` | none; asks that overlap are exempted in the property as the code requires | `InOrder`: of several outstanding asks the current one is the last, so only an older one can clear the flag under it |
| | `NoMessageVanishes`, `QueueIsInOrder` | none | `OneByOne`, `InLine`, `Placed`, `Kept`: the places that can hold a message of the user hold different ones, the submission is ahead of the queue, and both are in the order of sending for messages that came by the queue; an answer that is put back is older than what the queue has |
| `DeliveryProofs` | `DeliveryTypeCorrect` | none | whatever the map, the stack, a delivery or a rehydration names has been built (`Types`) |
| | `AckedMailIsKept`, `LiveTaskSeesItsMail` | none: any number of deliveries, rehydrations that overlap, faults and restarts | `BoxesKnow`: what a box that was read does not have of the file is read or recorded as missed, so a write takes out only what its box did not know of. `SavingHeld`: mail that a delivery has stored and not written is in its box or read; `StoredKept`: once it is written it is in the file, read or lost |
| | `QuestionTypeCorrect` | none | |
| | `AnswersAreToQuestions` | none | `RecordIsCurrent` (the record and the timer are of the current question while it is parked) and `SlotIsCurrent` (what waits in the slot is to it) |
| | `RequestsSurvive`, `QuestionsEnd` | none | `RequestsAreAsked`, `HandleIsCurrent`, `BoxIsCleared`, `BoxesOrdered`: the instance that was captured is the one whose box the request is withdrawn from, and while it is the latest, the file is what its box holds |
| `BackgroundProofs` | `TypeCorrect` | none | |
| | `HandlesAreTrue`, `StopIsComplete` | none | `Plans` says what a plan holds at each place of a tool, `Reach` that every child that runs or waits is in a handle, in a plan, or was started or woken behind its parent's stop, `Cancels` that the child a cancellation has aborted is over, unless it was woken |
| | `LimitIsHeld` | none | the bound is on children that run since their creation *and* spawns past the comparison (`LimitInv`): the comparison sets it, creating a child trades one for the other, and one that waits or ends leaves for good |
| | `OutcomesAreToldOnce`, `OutcomesAreKept` | none | `HeldAgree` ties the status of a handle to how its promise settled, `HeldLost` says that what a stopped task still holds was started after the stop |

Every invariant and every action property of a passing run is the subject of a
theorem. Only model-checked are the violation and the liveness properties
(liveness under fairness and ENABLED are out of the prover's reach): `EveryCallRuns`,
`FileReturns`, `EveryWriteSettles`, `IndexCatchesUp`, `SendNowReturns`,
`SendNowHeard`, `PersistsSettle`, `QueueIsDrained`, `ChildGoesOn`, `WakeIsHeard`.

The assumptions in the table are necessary, not convenient: without each of them
the code does what section 6 describes, and TLC finds the property violated on the
instance of its run (a second process, box or call, a crash, an overlapping
`getOrLoad`, a snapshot writer, a failing rollback). The theorems of `DeliveryProofs` and
`BackgroundProofs` have none.

## 6. What the models say about the code

One disagreement between the code and its own comment is a run, and `PROJECT.json`
quotes the claim: `createTaskWithHistoryItem` puts the instance it has built on the
stack and not into the manager's map, and focusing another task replaces the top of
the stack without registering what was there. The instance is then found nowhere, and
the next opening builds and starts a second one (`dormant_hidden`;
`ShoferProvider.ts:1752` says that at most one is live). The API's follow-up
registers nothing at all and gets there the same way.

The others met while modelling have no run of their own. The actions that produce
them are in the modules and the properties exempt exactly them, or an assumption
named in section 4 leaves them out.

- `Mailbox`: a repeated delivery is acknowledged before the first one's write is on
  disk; a retry of mail already read is new mail.
- `TaskLoop`: two Send Nows in flight start two loops (`Task.ts:8647`, against the
  comment above it); a message queued while a completion is being saved stays in the
  queue of a task that has stopped (`AttemptCompletionTool.ts:280`); with
  auto-approval off, a queued message answers the question whether to retry after an
  empty answer and its text goes nowhere. Two deliveries can make two wake turns, as
  can a wake during a Send Now; a delivery that sees the loop running just before it
  completes wakes nobody (against `docs/parallelism.md:278`); the completion of a child
  does not look at the queue; an approval takes a queued message before it awaits an
  answer, which is then refused and gone (`Task.ts:3175-3198`, 3338-3343); a message
  sent while the resume ask of a task from the history waits is answered beside the
  loop that the resumption starts; a
  second Send Now while the first waits loses the message the first one took; a soft
  cancel during the pause before a retry disposes of the task and its queue.
- `TaskAsk`: a message queued while a tool, a command or an MCP approval waits is
  taken from the queue and given to the ask before the flag says it waits, so it is
  refused or goes with the approval unheard (`Task.ts:3186` before 3198, against
  `docs/message_queue.md:64`); an ask that was superseded clears the flag of the
  newer one when it ends; the auto-approval timer of an ask that was stopped answers
  a later ask, or its suggestion becomes a message of the user; two
  `processQueuedMessages` in flight would reverse the order of two messages.
- `ChildQuestion`: of two answers within one poll the second counts, although the
  comment says the first does (`Task.ts:4646`); a parent's answer that comes before
  the ask waits becomes a message in the child's queue, and the child stays parked
  until the timer; the reply tool does not unpark the child when resolving the
  request fails; a request asked of a dormant parent stays in its box; when the
  parent's instance is replaced during the question the child withdraws its request
  from the old one (`AskFollowupQuestionTool.ts:156`, 244), so that it stays in the new
  one's box, and the write of the old box takes newer requests out of the file.
- `Subtasks` and `McpCalls`: a child whose creation, or a call whose approval, is in
  flight while its task is stopped is started and nothing stops it; several
  spawners that pass the comparison together exceed the limit, and a single one does
  with a child that waits in an ask and goes on, or has ended and is woken, although
  `docs/parallelism.md:142` ("Hard cap on concurrent active tasks") calls it a hard cap; a
  handle made after its child reported says "starting" until check_task_status looks;
  check_task_status that read before its await overwrites what the child reported
  meanwhile with "running", and the next one repairs it; a woken child runs behind a
  handle that says "completed" or "cancelled"; cancel_tasks marks as cancelled a
  child that completed during the approval; for an empty answer wait says completed
  and check says error; a task that completes leaves its calls running.
- `DormantDelivery`: two deliveries to a task that is not loaded both load the box and
  both write it, and the second write takes the first one's acknowledged mail out of
  the file; mail to an ended instance that is being replaced in place is
  stored by the old box and overwritten by the new; a write that fails is
  acknowledged all the same (`Mailbox.ts:228-232`), and a file that cannot be read
  becomes an empty box that is then written; a cancellation between publication and
  registration has the abandoned instance registered; rehydrations that overlap start
  two instances; a rehydration that fails after the write leaves an instance that was
  not started; a wake to a task that shows its question whether to resume wakes
  nobody; a turn queued for an instance that has ended is taken by nobody and holds up
  later wakes; the turn of a wake is lost when the host exits after the acknowledgement
  (the mail is not).
- `TaskState`: a writer that spreads a history item it read before an `await` puts
  an old lifecycle state back (`webviewMessageHandler.ts:962`); a state set before
  the task has a record is dropped; a task registered before the restore keeps the
  state it registered with.
- `TaskHistory`: `getOrLoad` reads outside the lock and replaces a newer cache entry,
  so that the next upsert merges into an old item (`TaskHistoryStore.ts:382`); the
  lock does not reach across processes, so two of them overwrite each other's fields;
  reconciliation adds and removes entries but does not repair one whose file has
  changed; a write that arrives after a deletion lists the task again; a write of the
  index that fails is not repeated before the next change (`TaskHistoryStore.ts:518`).
- `SafeWriteJson`: when the commit fails *and* the rollback fails, the clean-up
  deletes the backup, the only copy left. With "rollback" in `Faults`
  `WritesAreAtomic` is false, which is why the run and the theorem leave it out.

## 7. Not modelled

Most of the repository by lines is not concurrent state: views, settings pages,
parsers, provider clients, tool bodies that read and write files, message texts.
`PROJECT.json` lists every such component with its reason. Within the modelled
components, these are left out:

- `Task.ts`: streaming and parsing of the model's answer, context condensing and
  rewinding, checkpoints, metrics; partial asks; the plugin hook before an ask.
- Subtasks: costs and their limit (a sum over the history, read once), the child's
  mode and first message, spawns by plugins, handles that cancel_tasks synthesises
  from the history, and aborts that fail (`abortTask` does not reject).
- Dormant delivery: tasks other than the one the mail is for, and what section 3 lists.
- `Mailbox`: the stamp `read_at` that drain puts on the envelopes it shares with a write
  that is queued (`Mailbox.ts:380-382`): the write may show a request as read a moment
  early, and no property tells the two apart. In `Mailbox` a crash leaves the file as it
  was before or after a write; that one between the two renames leaves none is in
  `SafeWriteJson`, `TaskHistory` and `DormantDelivery`.
- The transport drain (`core/transport/drain.ts`): a book of turns that one process
  keeps while it shuts down. Its waits are bounded by a grace period and its only
  reader is the same process; it is the next candidate.
- The MCP hub, terminals and file watchers: most of what they do is done by the
  operating system, the editor or a protocol library, of which a model would be
  guesses.
