# Formal models of miemie

miemie is a message push service in Go: clients post messages over HTTP, an asynchronous
delivery pipeline stores each message in the SQLite databases of its user, and a WebSocket hub
pushes it to the user's open connections. This directory holds TLA+ models of its components,
TLC configurations that check them on small instances, and TLAPS proofs about them. Source
paths below are relative to `src/internal/` unless they start with `src/`; every definition that
models code is tied to its lines in `PROJECT.json` ("map").

## 1. Inventory

| Component | Source | State it keeps | Operations |
|---|---|---|---|
| delivery pipeline | `delivery/{system,main_loops,queue,worker,retry,types}.go` | seven kinds of buffered channels, the tasks in each goroutine's hands, counters, each task's retry count | `SubmitTask`, `runMainLoop`, `runQueueManager`, workers (`processTask`, `deliverToUser`), `RetryWorker`, `runRetryManager`, the goroutines spawned to requeue, reschedule and resend |
| delivery lifecycle | `delivery/system.go`, `main_loops.go` | the context, the WaitGroup, which goroutines run | `Start`, `Stop`, the end of each loop |
| submission and backpressure | `api/api_simple.go`, `delivery/{system,backpressure}.go` | `rejectionCount`, `acceptanceCount`, `inputChan`, the counters of `DeliveryStats` | `CreateMessage`, `CreateMessagesBatch`, `SubmitTask`, `ShouldAccept`, `GetDeliveryStats`; `ResetWindow` (no caller) |
| workspace cache | `workspace/{cache,manager}.go` | cache entries with their last access, open databases, the manager's mutex | `GetUserWorkspace`, `Get`, `Put`, eviction, asynchronous removal, the cleaner, `Close` |
| websocket hub | `websocket/manager.go` | the maps of clients, each client's queue and `Active` flag | `Run`, `HandleWebSocket`, `readPump`, `writePump`, `BroadcastMessage` |
| user message storage | `storage/user_storage.go` | tables `messages`, `channels`, `read_status` of one user, in two databases | `CreateMessage`, `CreateChannel`, `MarkAsRead`, `GetUnreadCount`, `GetUserStats`, `GetMessages` with its pages, plain queries |
| request addressing and the path of a message | `api/api_simple.go`, `middleware/userid.go`, `models/message.go`, `delivery/worker.go`, `workspace/manager.go` | none of its own: the databases on disk, and what the others hold in memory | `UserIDMiddleware`, `NewMessage`, `deliverToUser`, `createUserWorkspace` with its tables, the end and restart of the process |
| configuration | `config/*.go`, `src/main.go` | the file on disk | `Load`, `createDefaultConfig`, `setDefaults`, `validateConfig`; `Reload` (no caller) |
| legacy storage | `storage/message.go`, `database/*.go` | – | no caller in `src/` |
| logger | `logger/logger.go` | – | output only |

How they interact. A handler calls `SubmitMessage`, which asks backpressure and sends on
`inputChan`. A worker calls `GetUserWorkspace` (the cache, under `Manager.mu` and `wc.mu`),
then `CreateMessage` on the databases it got, then `BroadcastMessage` of the hub, all
synchronously, so the pipeline's concurrency is also that of the cache, of storage and of the
hub. Nothing is returned from the pipeline to the handler but the result of the first send;
everything else is visible only in counters, databases and frames.

What is hard here:

* ownership of a task that passes through eight kinds of goroutines, with sends that time out,
  spill over, put back or drop, and retries that re-enter the pipeline from two sides;
* progress of a cycle of bounded channels (`inputChan` -> priority queue -> worker ->
  `retryQueue` -> `workerChan` -> `inputChan`);
* an LRU cache that closes databases while others hold them, with removal by goroutines that
  decide under one lock and act under another, and a read that writes under a shared lock;
* a hub that closes channels which broadcasts send on, and connections that fail before they
  are registered;
* statements without transactions on two databases, by workers in any order, and queries whose
  rows may break off unnoticed;
* a WaitGroup whose `Add`s and `Done`s are in different files, and a Stop that may come between two
  launches of Start;
* a client that is told of a timeout while the main loop makes room, and counters that are read
  one by one while others add to them;
* a process that ends between two tables of a new database, between a store and its push, or in
  the middle of writing its configuration.

What makes each component correct:

* pipeline: no task is duplicated, counted twice or resurrected; a push follows its store and
  happens once; retries are bounded; what enters leaves, and with enough room is counted;
* lifecycle: Stop ends every loop, and reports that all have ended only when they have;
* submission: every client is answered, and told the truth of each message;
* backpressure: the limits follow the pressure, and do not feed on themselves;
* cache: what it hands out is open and the caller's own, creation is exclusive, capacity
  holds, databases are closed when they leave;
* hub: no send on a closed channel, nobody stays behind in the maps, own messages only and
  once, queued messages are written;
* storage: what the counts and the channel list show can be explained by the rows;
* addressing and composition: what is pushed is stored with its sender; no half-made
  database is used; a message keeps its contract across retries and crashes;
* configuration: what runs is usable, and is the default unless somebody changed it.

`PROJECT.json` lists the hazards behind these, each at its line, with the properties that
would catch it.

## 2. Modules

| Module | Models | Proofs |
|---|---|---|
| `Delivery` | the pipeline: one action per send, receive, timeout, drop, statement; implements `DeliveryContract` | `DeliveryProofs` |
| `DeliveryContract` | abstract: what becomes of a message, without channels | |
| `MCDelivery` | its priorities and symmetry | |
| `Lifecycle` | `Start` launch by launch, `Stop` at any time, the WaitGroup, the goroutines that resend | `LifecycleProofs` |
| `Backpressure` | `ShouldAccept` with its counters | in `SubmissionProofs` |
| `Submission` | handlers, `SubmitTask`, statistics; composes `Backpressure` | `SubmissionProofs` |
| `MCSubmission` | its instance | |
| `WorkspaceCache` | `GetUserWorkspace` over the cache | `WorkspaceCacheProofs` |
| `WebSocketHub` | hub, pumps, broadcasts | `WebSocketHubProofs` |
| `UserStorage` | one user's databases, statement by statement | `UserStorageProofs` |
| `StoreAndPush` | a message through requests, worker, cache, databases, hub and crashes; implements `DeliveryContract` | `StoreAndPushProofs` |
| `Configuration` | from the file to the running server | `ConfigurationProofs` |
| `MCConfiguration` | the values an operator writes | |

Operators named "Mutant" in a comment are plausible mistakes in the definition below them. No
specification uses them; `PROJECT.json` ("mutants") names, for each property, the mutant that
breaks it, so that each property is known to be able to fail.

### Delivery

`chan` maps every Go channel to its contents, `held` every goroutine to the tasks it has taken
and not passed on, `pc` says where a loop with several steps stands. A task is in a channel, in
one goroutine's hands, or nowhere. One action is one channel operation or one statement of
`CreateMessage`: between any two of them every other goroutine may run. Timers are not
measured: a retry becomes due and a task expires at any moment. A send in a `select` with
`time.After` gives up only while its channel is full, because a parked sender is served before
its timer. `adjustWorkerCount` only computes and is left out. A database or workspace failure may
happen at every attempt (`DatabaseFails`, and the UPDATE of `TouchChannel`). Backpressure is a
free choice here; `Backpressure` shows what the choice can be. Tasks have one target user, as
all callers in `src/` submit them.

`DeliveryContract` is what a client may rely on: refused, or admitted and then delivered (stored
first, pushed once), failed, or lost, one by one at a full queue or all together when the process
ends. "Lost" is in the contract because the code has it (see section 3). `Delivery!Contract` maps
the pipeline to it (`Fate` is read off the client, the outcome and whether the task is anywhere in
the pipeline), and `StoreAndPush!Contract` the composed system.

### Lifecycle

`run` has every goroutine that Start launches plus the retry worker, which the retry manager
adds to the WaitGroup by itself; `wg` is the counter. Start adds and launches its four loops one by
one (`launched`), looks at nothing, and Stop may come before, between or after the launches. Stop
cancels the context and spawns the goroutine that waits for `wg` (`waiter`); it returns when that
one is through or after its 30 seconds, and the waiter stays behind. Goroutines counted with a
deferred `Done` (`Counted`) and those without (`Managers`) end by different actions. `resends` are
the goroutines that put a retry back into `inputChan`, which nothing counts and which do not look at
the context; of the channel only its fill, `input`, matters. The goroutine of
`main_loops.go:60-63` that dispatches a task again gives up after 100 ms and is left out.

### WorkspaceCache

`GetUserWorkspace` is one action per call it makes: look, lock, look again, create or fail, put.
`Get` holds the read lock only, so it is two: it judges the entry (`GetHits`, `GetMisses`) and, if
that was live, refreshes it later (`Refresh`), whatever other readers have judged and the clock has
done meanwhile. What holds the write lock is one action and waits until no `Get` is in between
(`Readers = {}`). LastAccess is an order (`older`) and an expiry (`expired`) that may occur at any
time to an entry. Two things of the clock are not split: reading `time.Now()` and storing it
(`cache.go:58`), and the store itself, which two readers may do at once and whose monotonic word is
what comparisons look at. A workspace is named by the request that created it. Removers are the
goroutines that `Get` starts; the LRU victim is the entry with the oldest access. Requests then use
what they were given (`Use`), which fails if the cache has closed it.

### WebSocketHub

The two unbuffered channels are rendezvous with `Run`: `hub` is what Run has received and not yet
done under the write lock. A broadcast holds the read lock from its look-up of the user's
clients to its end and does one client at a time, in any order, checking `Active` and sending
as separate steps. `writePump` takes a message, counts the queue (`left`) and receives that many
more into its `frame`, one by one, while broadcasts append and the hub may close the channel.
`readPump`, `writePump` and sockets can fail at any time; pings and deadlines are such failures. `HubRuns` is FALSE for the program as `main.go` starts it (`Run` is never
called), TRUE for the hub as written.

### Submission, with Backpressure

A request is bound, then submits its messages one after the other: admission, send or timeout,
counter, note. Each is one action, so other handlers, the main loop and a reader of the statistics
run in between. `Backpressure` holds the two counters of admission control and the thresholds (0.3,
0.5, priorities 8, 6, 4) as the code compares them; `ShouldAccept` is one step because it holds
`bp.mu`, and the memory pressure it measures is any. `results[r]` is what the handler has noted for
the two lists of its answer (for a single message, the error or its absence). The main loop takes
tasks at any time or never. A statistics request copies the counters in any order, since nothing
that adds to them takes `statsMutex`; `TotalFailed` is modelled without what workers add to it,
which only makes it larger. `before` remembers what clients had been told when the request came.
A response whose rates are not numbers is `"empty"`: the encoder refuses it.

### UserStorage

Each SQL statement is one action, on whichever of the two databases it addresses. A message is
numbered by `created_at`; workers insert in any order. MarkAsRead takes any id. Readers are calls of
`GetUnreadCount` and `GetUserStats`, one action per query, or clients that page through a channel
with `GetMessages`: by the limit the server answered with (an unacceptable one becomes the default),
from offset 0 to the first short page, while messages arrive. The code never asks `rows.Err()`, and
`GetUserStats` skips rows that it cannot scan: a query may break off and return some of its rows as if
they were all (`SelectIds`, `SumChannels`, `GetMessages`). `cut` remembers the readers whose
channel counts, or one of whose pages, lost rows; it is no state of the code.

### StoreAndPush

The components around one message. `CreateMessage` fixes its two users: `owner`, from the header,
whose workspace stores it, and `user`, from the body if the body names one, whose connections get
it. What lies between submission and worker is one set of queued messages, from which the pipeline
may drop any (`Delivery` says when). A worker gets the workspace from the cache or makes it under
the manager's mutex, part by part (`Build`: `CREATE ... IF NOT EXISTS` and the default channel),
then checks the database, inserts, updates the channel and pushes. The cache is the set of cached
users and may close any workspace at any step (`CloseWorkspace`: eviction, expiry, cleaner,
remover); a worker then holds a closed handle, and its next statement fails (`StatementFails`). An
entry that expires and is overwritten leaves its holders with a handle nobody closes (`"leaked"`).
The hub is the user and the frames of each connection, with `Run` running. `Crash` ends the process
at any step: `made` and `rows`, the databases, remain.

### Configuration

`file` is what is on disk: the settings present in it with their values, in the order of the default
file. `Create` empties it and `Write` fills it, as `os.WriteFile` does, so an end of the process in
between leaves an empty file and a full disk leaves any beginning of it. An operator edits a
setting, removes one, breaks the syntax or deletes the file, at any time, also between the steps of
`Load`. An absent setting is 0. The constructors
(`NewWorkspaceCache`, `NewDeliverySystemWithConfig`) turn settings into what the server works with
(`system`): channels, workers, and times as a `Duration`, whose product with a minute or a second wraps
at `Word` (2^64 in the code). Only settings that are validated or used are modelled. Settings that
are read but never enforced (`max_messages_per_day`, `max_workspaces`, the back-pressure
thresholds, the cleanup interval, which is five minutes whatever the file says) can break no property.

## 3. What the runs check

All runs use two TLC workers and finish in minutes. Bounds are chosen so that every timeout,
spill, drop, eviction and failure occurs: passing runs fire every action of their
next-state relations.

| Run | Instance | Shows |
|---|---|---|
| `delivery_safety` | 2 tasks, 2 workers, 1 slot per channel, 1 retry | `SingleCopy`, `ResolvedIsGone`, `PushedOnceStored`, `CountedOnce`, `LostOnlyWhenFull`; the pipeline implements `DeliveryContract` |
| `delivery_drains` | 1 worker, tasks of the low queue, fair | no task is blocked or circulates for ever, even with every channel full (`Drains`) |
| `lifecycle` | 2 workers, `inputChan` of 1, 2 resends, fair | the wait of Stop is over only when no loop runs (`WaitMeansOver`), and never once Start has launched a loop before that (`StartedWaitsForEver`); Stop returns and all loops end (`LoopsEnd`); only resends in front of a full channel outlive them (`OnlyFullInputKeepsResends`) |
| `workspace_cache` | 3 users, 3 requests, 2 slots, fair | `CachedIsUsable`, `NoConcurrentCreation`, `OnlyOvertakenLeak`, `RequestsEnd` |
| `hub` | 2 users, 2 clients, 2 messages, queue of 1, fair | `NoSendOnClosed`, `LeftIsRemoved`, `DrainNeverBlocks`, `OwnMessagesOnce`, `QueuedIsWritten`, `ClosedIsCleanedUp` |
| `submission` | a single message and a batch of 4, 3 priorities, a queue of 1, 1 statistics request, fair | every client is answered (`EveryRequestAnswered`) and told the truth (`AnswersAreTrue`), statistics include what was answered (`StatsShowAnswers`), `ThrottleNeedsCritical`, `ReleasedStaysReleased` |
| `user_storage` | 3 messages, 2 channels, 1 reader | `UnreadIsSafe`; `StatsAreOrdered` and `PagesMissNothing`, each unless a query has lost rows |
| `store_and_push` | 2 users, 2 messages, 2 workers, 1 connection, 1 retry, fair | `PushedIsStored`, `HandedOutComplete`, `EveryMessageEnds`, whatever user a body names; the composition implements `DeliveryContract` |
| `configuration` | 11 settings, values -1, 0, 1, 40, 2048, two edits, a Duration of 15 bits | `RunningIsUsable`, `UneditedMeansDefault` |

Why the bounds are enough. With one slot per channel two tasks suffice to fill any channel in
front of the other, so every "full" branch is taken; the hand-over errors a third task could show
involve two tasks at a time. One worker already makes "all workers full" possible and two make
"try the next" possible. One retry reaches both sides of the budget test. Three users over two
slots force eviction while a third request runs. A hub queue of one message is full while the pump
has the other one in hand, and empty or not when the pump counts it. Readers of
storage change nothing that another reader sees, so one is enough; three messages in pages of one
or two give a further page after an arrival. Five calls of `ShouldAccept` engage and release the
limits: one acceptance, then enough refusals to exceed 0.5 and a further decision at that rate. In
`store_and_push` two workers compete for one user's mutex and for one retried message, and a
second user makes a wrong address visible; one connection suffices because frames of different
connections do not depend on each other. Two edits reach every pair of settings that
`validateConfig` compares; with a second of 8 units and a minute of 480, 40 and 2048 are numbers of
minutes or seconds that a 15-bit Duration turns negative or zero. One slot and two resends leave one
goroutine in front of a full `inputChan`. `MaxEdits` and `MaxResends` are the only bounds on counters.
What the proofs cover does not depend on these bounds.

Symmetry (over tasks) is used in `delivery_safety` only, never with liveness. Deadlock checking is off
where the program may come to rest: a stopped system (`Lifecycle`), requests that ended (`WorkspaceCache`), a hub without connections left
(`WebSocketHub`), requests that were answered (`Submission`), no more messages (`StoreAndPush`).

`Drains` and `LostOnlyWhenFull` together say what happens to a request that entered: it leaves the
pipeline, and where every channel has room for it, it leaves counted as delivered or failed. `Drains` is
about finitely many tasks, here of one priority: it says nothing of a low-priority task that an endless
stream of others keeps waiting (`queue.go:64`), and with two tasks it cannot fill the whole cycle of
channels at once.

### Where code and documentation disagree

Each of these runs checks one claim of a document or comment, and TLC finds it violated; the
lines are quoted under "findings".

| Run | Claim | What happens |
|---|---|---|
| `workspace_remover` | the goroutine removes the expired entry (`workspace/cache.go:53`) | it removes whatever entry is there, also a new live one |
| `hub_start` | clients that connect receive pushes (`src/README.md:131`) | nothing runs the hub: the handler blocks on the registration |
| `store_other` | a message is delivered to the given user and broadcast to the user (`delivery/worker.go:98`, `:122`) | a body may name another user than the header (`models/message.go:43`), and nothing compares them: stored for the one, pushed to the other, who cannot fetch it |

Other disagreements met while modelling, which follow from the models without a run of their own:

* `src/dev/TEST.md:361` wants no message lost: an early retry is taken off a queue and dropped when
  the queue has filled up meanwhile, and spawned goroutines ignore failed sends. The task is
  counted nowhere. `LostOnlyWhenFull` states exactly where this happens.
* `src/README.md:242` parses each frame as one JSON value; `WriteFrame` joins messages that were
  queued while another was written into one frame.
* `src/README.md:205-213` and `src/USAGE.md:44-53` call `channel_id` optional. `models/message.go:28`
  requires it, so a single POST without it is answered with 400; the default of
  `api/api_simple.go:88` is reached by the batch endpoint only, which does not validate its elements.
* `src/USAGE.md:9` and `:240` say that a new message is pushed to all connected clients.
  `BroadcastMessage` looks up those of the message's user only, as its own comment says
  (`websocket/manager.go:162`); `OwnMessagesOnce` is about that.
* `delivery/system.go:138` waits "for all goroutines to end", but the four that Start counts never
  call `Done`: Stop of a started system always times out and leaves its waiter behind
  (`StartedWaitsForEver`, proved). A Stop before Start reports success, and Start then launches its loops
  all the same, which end at once.
* `workspace/manager.go:336` says closing the cache closes all connections; an entry that Put
  overwrites before its removal is never closed (the exception `OnlyOvertakenLeak` names).
* `websocket/manager.go:172` says a client whose send failed is removed; it is only marked
  inactive, stays connected and is never sent anything again (`CheckActive`, `Enqueue`). No property
  calls that right: `QueuedIsWritten` is about what was queued before.
* `config/config.go:272` wants the task timeout to be positive. It looks at seconds; above 9223372036 of
  them the product with `time.Second` (`config/types.go:159`) wraps, to a negative Duration among others,
  and every task has then expired when a worker takes it. `ttl_minutes` wraps in the same way.
  `RunningIsUsable` says how far the times are right: where a Duration can hold them.
* `delivery/backpressure.go:36` accepts "only high-priority tasks" under critical pressure, by
  priorities of at least 8; `DispatchTask` puts those in the low queue (`Refuses`, `QueueOf`).
* `delivery/backpressure.go:12` has a window of one minute; nothing calls `ResetWindow`.
* `src/README.md:182` calls `last_message_at` the time of the last message; `UpdateLast` sets it to
  the time of the message stored last, in whatever order workers store them.
* `delivery/retry.go:33` adds the jitter after the delay was capped: it is between -10 % and +8 % of
  the delay and depends only on the attempt, so a delay can exceed `retry_backoff_max` and tasks that
  failed together retry together. `math.Pow(2, n)` times the base overflows for very large `max_retries`.
* `src/dev/TEST.md:392` lists ACID transactions; `Insert` and `TouchChannel` are two statements. When
  the second fails, every retry fails on the primary key, and the delivery is counted as failed
  although the message is stored.

### Fairness

Weak fairness only, and only of steps the Go runtime or a timer guarantees:

* `Delivery`: of every loop, worker and spawned goroutine, of a submission that is under way and
  of timers that fall due. No fairness of failures, of expiry, or of clients submitting. One
  weak-fairness condition covers a whole goroutine, so which ready branch of a `select` is taken
  stays open.
* `Lifecycle`: a Start once begun goes on, every loop that was launched sees the cancellation, the waiter
  of Stop and a resend that finds room go on, the 30 seconds pass. Start and Stop may never be called,
  and the main loop need not take anything.
* `WorkspaceCache`: requests go on. The cleaner, expiry and Close need not happen.
* `Submission`: each handler runs on, and its 100 ms pass. The main loop need not take anything.
* `StoreAndPush`: each worker runs on. Crashes, closings and drops need not happen and may happen at
  any step. `EveryMessageEnds` holds all the same because the attempts are bounded.
* `WebSocketHub`: Run and pumps are scheduled, a pump that has begun a frame goes on with it, broadcasts
  under way go on, a failed socket is noticed (the read fails, the next ping does). A healthy socket
  need not fail.

## 4. What is proved

Checked by TLAPS for every value of the constants, under the named assumptions of each module
(workers, channels and goroutines have different names, sizes are natural numbers; users and
messages are finite sets where they are counted).

| Theorem | States | Inductive argument |
|---|---|---|
| `DeliveryProofs!TypeCorrect`, `OneCopyOfEachTask`, `CountedTasksAreGone` | `TypeOK`, `SingleCopy`, `ResolvedIsGone` | `IInv`: SingleCopy alone is not inductive, since a submission could add a second copy of a task already under way. It needs that only sent and uncounted tasks are in flight, and that (`CountedWasSent`) what was counted had been sent |
| `DeliveryProofs!PushedAtMostOnce`, `RetriesAreBounded` | `PushedOnceStored`, `RetryBudget` | `JInv`: a worker that stands before the push holds one task, stored and not yet pushed; a task in the retry queue, or taken off it to be put back, has an attempt left |
| `DeliveryProofs!FatesAreFinal`, `DroppedOnlyWhenFull` | `FateIsFinal`, `LostOnlyWhenFull` | `StepKinds`: under `IInv` and `JInv` every one of the goroutines' actions moves tasks about, stores, delivers, abandons or loses exactly one, and loses it only at a full channel or with its retries used up |
| `DeliveryProofs!EachIsCountedOnce` | `CountedOnce` | `CInv`: each counter is the size of a finite set of tasks; a kind of step adds one task, new to its set, or none. `Tasks` itself need not be finite |
| `DeliveryProofs!PipelineImplements` | `ImplementsContract` | each kind of step is a step of the contract or none. That the pipeline never stores or pushes a message again, nor after it was counted, comes from `JInv` |
| `LifecycleProofs!TypeCorrect`, `WaitIsComplete`, `StartedIsNeverOver` | `TypeOK`, `WaitMeansOver`, `StartedWaitsForEver` | `wg` is the number of managers launched so far plus the number of counted goroutines that run, wherever Stop falls; so a waiter that finds it 0 comes before the first launch, when nothing runs, and never after it |
| `WorkspaceCacheProofs!CacheIsUsable`, `OneCreator`, `OthersAreClosed`, `CapacityHolds` | `CachedIsUsable`, `NoConcurrentCreation`, `OnlyOvertakenLeak`, `WithinCapacity` | a cached workspace is one whose request has passed its Put, so removing one user's entry closes nobody else's; a request between create and put holds the mutex, and an entry of its user was judged expired at its second look, so a remover is on its way until the entry is gone, also if somebody refreshes it meanwhile |
| `WebSocketHubProofs!CountedIsThere` | `DrainNeverBlocks` | only the pump takes from its queue, and closing a channel leaves its contents: what was counted can only be joined by more |
| `WebSocketHubProofs!TypeCorrect`, `NeverSendsOnClosed`, `LeavingIsFinal` | `TypeOK`, `NoSendOnClosed`, `LeftIsRemoved` | a pump starts only after its rendezvous with the hub, so a sign-off cannot overtake a registration; a broadcast's clients are in the maps while it holds the read lock |
| `WebSocketHubProofs!SentOnceToItsOwner` | `OwnMessagesOnce` | `OnceInv`: what a client was written, what its pump has put into a frame and what it has queued is disjoint, and a message that has reached a client is neither new nor due to be sent to that client by its broadcast. `NothingNew` covers the write pump, which only moves messages on |
| `WebSocketHubProofs!NobodyIsServedWithoutHub` | `NobodyIsServed`, if Run is not started | without `Run` nothing takes a client off the unbuffered channel, so no pump starts, the maps stay empty and no broadcast has a client to send to |
| `SubmissionProofs!OnlyCriticalStartsThrottling`, `ReleaseIsFinal` | `ThrottleNeedsCritical`, `ReleasedStaysReleased` | while the rate is not above 0.3 it is not above 0.5 either, and no limit but the critical one refuses |
| `SubmissionProofs!TypeCorrect`, `AnswersHold`, `StatsAreFresh` | `TypeOK`, `AnswersAreTrue`, `StatsShowAnswers` | a task is in the queue or taken exactly from its send on, and the handler that sent it goes to its counter and nowhere else; each counter is at least the number of notes of its kind, so a copy taken after an answer is too |
| `UserStorageProofs!UnreadCountIsSafe`, `StatsStayOrdered` | `UnreadIsSafe`, `StatsAreOrdered` | messages are never deleted, so what a reader has selected is still there at its next query; a list of ids that broke off only makes the unread count smaller, whereas channels that were lost make the sum too small, which the statement excepts |
| `UserStorageProofs!PagesSkipNothing` | `PagesMissNothing` | a message's place in its channel only grows: what had a place below the offset at some page was seen by then, and a short page that has not lost rows means that no place is at or beyond its end |
| `StoreAndPushProofs!TypeCorrect`, `HandedOutIsComplete` | `TypeOK`, `HandedOutComplete` | `Inv`: one worker at most builds, what it has built so far is on disk, a message is held by one worker, and a message is requested before it moves |
| `StoreAndPushProofs!FramesAreStored` | `PushedIsStored`, whoever the body names | the worker that stands before its push has a row in the database of the message's owner, and rows stay |
| `StoreAndPushProofs!Implements` | `ImplementsContract` | every action is a step of the contract or none: a message that was stored by an earlier attempt cannot be inserted again, so it is pushed at most once |
| `ConfigurationProofs!AcceptedIsUsable` | `RunningIsUsable` | what is loaded is valid, a negative size ends the constructor, and a worker count of 0 becomes the number of processors; a product below half of `Word` is its own remainder (`DurationFits`), and nothing is said of larger ones |
| `ConfigurationProofs!OwnFileMeansDefault` | `UneditedMeansDefault` | a file that nobody edited is absent or a cut of the default one after some number of settings. `validateConfig` wants `size_limit`, the tenth, to be positive, so a cut that passes has the nine before it whole. Validating less (the mutant `ValidDelivery`) would let shorter cuts through |

`RetryBudget`, `FateIsFinal`, `WithinCapacity`, `NobodyIsServed` and the type invariant of the cache are
proved without a run. Every
invariant and every action property of a passing run, and both implementations of
`DeliveryContract`, are proved.

How the largest proof goes: `DeliveryProofs` first turns each channel operation into set
statements about who has which task (`ReceiveFacts`, `SendFacts`, `SpawnFacts`, `ReleaseFacts`,
`EnqueueFacts`). The two inductive invariants are shown action by action. Then `StepKinds`
sorts the actions into five kinds, and fates, drops, counters and the contract are argued over
those kinds only.

Only model-checked: the liveness properties (`Drains`, `LoopsEnd`, `OnlyFullInputKeepsResends`,
`RequestsEnd`, `QueuedIsWritten`, `ClosedIsCleanedUp`, `EveryRequestAnswered`, `EveryMessageEnds`), which rest on
fairness and ENABLED and are out of the prover's reach. The three runs that find a violation are
counterexamples and need no proof.

## 5. Not modelled

* Message texts, metadata, JSON, SQL beyond the rows that matter, logging, statistics that nothing
  reads (`AvgDeliveryTime`, `LastUpdate`).
* Durations, outside `Configuration`: retry delays, TTLs and timeouts are events that may come at any
  time.
* Plain queries of one statement; `RemoveWorker`, `BatchRetryProcessor`, `MarkMultipleAsRead`,
  legacy storage: they have no caller.
* Several target users per task: no caller submits them.
* Requests that only read. They open and use workspaces too; `WorkspaceCache` has them, `StoreAndPush`
  does not.
* The logger, which keeps no state that anything depends on.
* The panic of the WaitGroup when an `Add` from zero meets the release of a `Wait` (a Stop before Start
  whose waiter is just returning): `Lifecycle` only has the outcomes of `Add` and `Wait`.
* The second half of a torn read of LastAccess (see WorkspaceCache).
* Unbuffered queues: an `entry_size` below 3 makes the priority queues (`QueueLimit/3`) unbuffered, and
  0 the entry queue. `Configuration` has them (`RunningIsUsable` promises no more than channels that
  can be made); `Delivery` and `Submission` assume room for one task.

## 6. Plan

Done, in this order: the pipeline, its contract and its proofs; lifecycle; cache; hub; storage;
submission with backpressure; the composition along a message, with crashes; configuration. All
safety properties of the runs are proved. What would add most next: a source of endless tasks for the
pipeline, so that starvation by priority and the full cycle of channels occur; an abstract specification of the
hub (a connection as a mailbox that loses messages only when full) with the proof that
`WebSocketHub` implements it, the same for the cache (at most one live workspace per user), and
the hazards that no property covers yet.
