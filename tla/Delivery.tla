------------------------------ MODULE Delivery ------------------------------
(***************************************************************************)
(* The delivery pipeline of src/internal/delivery: buffered Go channels    *)
(* and the goroutines that move tasks between them.                        *)
(*                                                                         *)
(*   SubmitTask -> inputChan -> runMainLoop -> high/normal/lowQueue        *)
(*     -> runQueueManager -> one channel per worker -> the worker          *)
(*     -> retryQueue -> RetryWorker -> workerChan -> runRetryManager       *)
(*     -> a worker again, or, when every worker is full, inputChan         *)
(*                                                                         *)
(* A task is at any time in a channel, in the hands of a goroutine, or     *)
(* nowhere: some hand-overs drop it.  Delays are not measured: a timer     *)
(* fires at any moment, and a send bounded by time.After gives up only     *)
(* while its channel is full (a parked sender is served before its timer). *)
(***************************************************************************)
EXTENDS Integers, Sequences, FiniteSets, Functions

CONSTANTS
    Tasks,              \* the requests clients submit, one DeliveryTask each
    Workers,            \* the postmen; each one names its own taskChan too
    Priority,           \* the priority of each task
    MaxRetries,         \* task.max_retries
    EntryQueueSize, PriorityQueueSize, WorkerQueueSize,
    WorkerChanSize,     \* RetryWorker.workerChan, 100 in the code
    RetryQueueSize      \* maxRetries * 100 in the code

Queues   == {"highQueue", "normalQueue", "lowQueue"}
Channels == Queues \cup {"inputChan", "retryQueue", "workerChan"} \cup Workers

\* Goroutines that place a task on some worker's channel.
Placers  == {"runQueueManager", "runRetryManager"}
\* Short-lived goroutines: they sleep, then send once.
Spawned  == {"requeue", "resend", "reschedule"}
Goroutines == Placers \cup Spawned \cup {"runMainLoop", "retryWorker"}
                      \cup Workers
\* Goroutines with more than one place to stand.
Loops    == {"runQueueManager", "retryWorker"} \cup Workers

ASSUME WorkersAssumption ==
    /\ Workers # {}
    /\ Workers \cap (Queues \cup {"inputChan", "retryQueue", "workerChan"}) = {}
    /\ Workers \cap (Placers \cup Spawned \cup {"runMainLoop", "retryWorker"}) = {}
ASSUME PriorityAssumption == Priority \in [Tasks -> Int]
ASSUME SizesAssumption ==
    /\ MaxRetries \in Nat /\ RetryQueueSize \in Nat
    /\ {EntryQueueSize, PriorityQueueSize, WorkerQueueSize, WorkerChanSize}
         \subseteq Nat \ {0}

VARIABLES
    chan,      \* contents of every channel, oldest first
    held,      \* tasks in the hands of every goroutine
    pc,        \* where each loop stands
    tried,     \* workers a placer found full for the task it is placing
    client,    \* progress of SubmitTask for each request
    retries,   \* task.RetryCount
    due,       \* whether the retry's NextRetry has passed
    expired,   \* whether the task's Timeout has passed
    stored,    \* whether the message is in the user's database
    pushes,    \* how many times the message was broadcast to its user
    outcome,   \* what the worker counted the task as
    stats      \* DeliveryStats counters

pipeline == <<chan, held>>
task     == <<retries, due, expired, stored, pushes, outcome>>
vars     == <<chan, held, pc, tried, client, retries, due, expired, stored,
              pushes, outcome, stats>>

-----------------------------------------------------------------------------
(* Channels and hands                                                      *)

Capacity(c) ==
    CASE c = "inputChan"  -> EntryQueueSize
      [] c \in Queues     -> PriorityQueueSize
      [] c = "retryQueue" -> RetryQueueSize
      [] c = "workerChan" -> WorkerChanSize
      [] OTHER            -> WorkerQueueSize

Room(c) == Len(chan[c]) < Capacity(c)

Receive(g, c) ==
    /\ chan[c] # <<>>
    /\ held' = [held EXCEPT ![g] = @ \cup {Head(chan[c])}]
    /\ chan' = [chan EXCEPT ![c] = Tail(@)]

Send(g, t, c) ==
    /\ t \in held[g]
    /\ Room(c)
    /\ held' = [held EXCEPT ![g] = @ \ {t}]
    /\ chan' = [chan EXCEPT ![c] = Append(@, t)]

\* Mutant: the parent keeps its copy.
SpawnKeepsCopy(g, s, t) ==
    /\ t \in held[g]
    /\ held' = [held EXCEPT ![s] = @ \cup {t}]
    /\ UNCHANGED chan

\* A goroutine starts a short-lived one that owns the task from now on.
Spawn(g, s, t) ==
    /\ t \in held[g]
    /\ held' = [held EXCEPT ![g] = @ \ {t}, ![s] = @ \cup {t}]
    /\ UNCHANGED chan

Release(g, t) ==
    /\ t \in held[g]
    /\ held' = [held EXCEPT ![g] = @ \ {t}]
    /\ UNCHANGED chan

Goto(g, l) == pc' = [pc EXCEPT ![g] = l]
Count(s)   == stats' = [stats EXCEPT ![s] = @ + 1]

InFlight(t) == \/ \E c \in Channels : t \in Range(chan[c])
               \/ \E g \in Goroutines : t \in held[g]

-----------------------------------------------------------------------------
Init ==
    /\ chan = [c \in Channels |-> <<>>]
    /\ held = [g \in Goroutines |-> {}]
    /\ pc = [g \in Loops |-> "idle"]
    /\ tried = [g \in Placers |-> {}]
    /\ client = [t \in Tasks |-> "idle"]
    /\ retries = [t \in Tasks |-> 0]
    /\ due = [t \in Tasks |-> FALSE]
    /\ expired = [t \in Tasks |-> FALSE]
    /\ stored = [t \in Tasks |-> FALSE]
    /\ pushes = [t \in Tasks |-> 0]
    /\ outcome = [t \in Tasks |-> "pending"]
    /\ stats = [received |-> 0, delivered |-> 0, failed |-> 0, retried |-> 0]

-----------------------------------------------------------------------------
(* SubmitTask, run by the request's HTTP handler                           *)

\* Backpressure refuses nothing before it has decided once (ShouldAccept).
Reject(t) ==
    /\ client[t] = "idle"
    /\ \E u \in Tasks : client[u] # "idle"
    /\ client' = [client EXCEPT ![t] = "rejected"]
    /\ Count("failed")
    /\ UNCHANGED <<pipeline, pc, tried, task>>

Accept(t) ==
    /\ client[t] = "idle"
    /\ client' = [client EXCEPT ![t] = "sending"]
    /\ UNCHANGED <<pipeline, pc, tried, task, stats>>

Enqueue(t) ==
    /\ client[t] = "sending"
    /\ Room("inputChan")
    /\ chan' = [chan EXCEPT !["inputChan"] = Append(@, t)]
    /\ client' = [client EXCEPT ![t] = "sent"]
    /\ UNCHANGED <<held, pc, tried, task, stats>>

\* Mutant: takes back a reception that was never counted.
SubmitTimeoutUncounts(t) ==
    /\ client[t] = "sending"
    /\ ~Room("inputChan")
    /\ client' = [client EXCEPT ![t] = "rejected"]
    /\ stats' = [stats EXCEPT !.received = @ - 1]
    /\ UNCHANGED <<pipeline, pc, tried, task>>

SubmitTimeout(t) ==
    /\ client[t] = "sending"
    /\ ~Room("inputChan")
    /\ client' = [client EXCEPT ![t] = "rejected"]
    /\ Count("failed")
    /\ UNCHANGED <<pipeline, pc, tried, task>>

\* TotalReceived is counted after the send: the pipeline may be faster.
Acknowledge(t) ==
    /\ client[t] = "sent"
    /\ client' = [client EXCEPT ![t] = "accepted"]
    /\ Count("received")
    /\ UNCHANGED <<pipeline, pc, tried, task>>

-----------------------------------------------------------------------------
(* runMainLoop and DispatchTask                                            *)

QueueOf(t) == CASE Priority[t] <= 3 -> "highQueue"
                [] Priority[t] > 3 /\ Priority[t] <= 7 -> "normalQueue"
                [] OTHER -> "lowQueue"

MainTake ==
    /\ held["runMainLoop"] = {}
    /\ Receive("runMainLoop", "inputChan")
    /\ UNCHANGED <<pc, tried, client, task, stats>>

MainDispatch ==
    /\ \E t \in held["runMainLoop"] : Send("runMainLoop", t, QueueOf(t))
    /\ UNCHANGED <<pc, tried, client, task, stats>>

MainDrop ==
    /\ \E t \in held["runMainLoop"] :
         /\ ~Room(QueueOf(t))
         /\ Release("runMainLoop", t)
         /\ outcome' = [outcome EXCEPT ![t] = "abandoned"]
    /\ Count("failed")
    /\ UNCHANGED <<pc, tried, client, retries, due, expired, stored, pushes>>

-----------------------------------------------------------------------------
(* Placing a task on a worker: DistributeToWorkers and dispatchToWorker    *)
(* send to one worker, and after a timeout try each of the others once.    *)

Place(g, t, w) ==
    /\ w \notin tried[g]
    /\ Send(g, t, w)
    /\ tried' = [tried EXCEPT ![g] = {}]

FindFull(g, w) ==
    /\ w \notin tried[g]
    /\ ~Room(w)
    /\ tried' = [tried EXCEPT ![g] = @ \cup {w}]

GiveUpPlacing(g, s, t) ==
    /\ tried[g] = Workers
    /\ Spawn(g, s, t)
    /\ tried' = [tried EXCEPT ![g] = {}]

-----------------------------------------------------------------------------
(* runQueueManager: on every tick, drain the priority queues               *)

QueueTick ==
    /\ pc["runQueueManager"] = "idle"
    /\ Goto("runQueueManager", "highQueue")
    /\ UNCHANGED <<pipeline, tried, client, task, stats>>

\* GetNextTask polls the three queues one after the other.
PollTakes ==
    /\ pc["runQueueManager"] \in Queues
    /\ Receive("runQueueManager", pc["runQueueManager"])
    /\ Goto("runQueueManager", "place")
    /\ UNCHANGED <<tried, client, task, stats>>

\* Mutant: the low queue is never polled.
PollSkipsLow ==
    /\ pc["runQueueManager"] \in Queues
    /\ chan[pc["runQueueManager"]] = <<>>
    /\ Goto("runQueueManager",
            IF pc["runQueueManager"] = "highQueue" THEN "normalQueue" ELSE "idle")
    /\ UNCHANGED <<pipeline, tried, client, task, stats>>

PollFindsNothing ==
    /\ pc["runQueueManager"] \in Queues
    /\ chan[pc["runQueueManager"]] = <<>>
    /\ Goto("runQueueManager",
            CASE pc["runQueueManager"] = "highQueue"   -> "normalQueue"
              [] pc["runQueueManager"] = "normalQueue" -> "lowQueue"
              [] OTHER -> "idle")
    /\ UNCHANGED <<pipeline, tried, client, task, stats>>

Distribute ==
    /\ pc["runQueueManager"] = "place"
    /\ \E t \in held["runQueueManager"], w \in Workers :
         Place("runQueueManager", t, w)
    /\ Goto("runQueueManager", "highQueue")
    /\ UNCHANGED <<client, task, stats>>

DistributeFindsFull ==
    /\ pc["runQueueManager"] = "place"
    /\ \E w \in Workers : FindFull("runQueueManager", w)
    /\ UNCHANGED <<pipeline, pc, client, task, stats>>

DistributeFails ==
    /\ pc["runQueueManager"] = "place"
    /\ \E t \in held["runQueueManager"] :
         GiveUpPlacing("runQueueManager", "requeue", t)
    /\ Goto("runQueueManager", "idle")
    /\ UNCHANGED <<client, task, stats>>

\* The spawned goroutine ignores the result of its DispatchTask.
Requeue(t) ==
    /\ \/ Send("requeue", t, QueueOf(t))
       \/ ~Room(QueueOf(t)) /\ Release("requeue", t)
    /\ UNCHANGED <<pc, tried, client, task, stats>>

-----------------------------------------------------------------------------
(* A worker: processTask, deliverToUser, CreateMessage                     *)

WorkerTake(w) ==
    /\ pc[w] = "idle"
    /\ Receive(w, w)
    /\ Goto(w, "check")
    /\ UNCHANGED <<tried, client, task, stats>>

CheckExpired(w) ==
    /\ pc[w] = "check"
    /\ \E t \in held[w] : Goto(w, IF expired[t] THEN "schedule" ELSE "insert")
    /\ UNCHANGED <<pipeline, tried, client, task, stats>>

\* Mutant: goes on although nothing was stored.
InsertIgnoresError(w) ==
    /\ pc[w] = "insert"
    /\ Goto(w, "touch")
    /\ UNCHANGED <<pipeline, tried, client, task, stats>>

\* The INSERT of a message already there violates the primary key.
Insert(w) ==
    /\ pc[w] = "insert"
    /\ \E t \in held[w] : /\ ~stored[t]
                          /\ stored' = [stored EXCEPT ![t] = TRUE]
    /\ Goto(w, "touch")
    /\ UNCHANGED <<pipeline, tried, client, retries, due, expired, pushes,
                   outcome, stats>>

\* updateChannelLastMessage succeeds.
TouchChannel(w) ==
    /\ pc[w] = "touch"
    /\ Goto(w, "push")
    /\ UNCHANGED <<pipeline, tried, client, task, stats>>

\* No workspace, no connection, or one of the two statements fails.
DatabaseFails(w) ==
    /\ pc[w] \in {"insert", "touch"}
    /\ Goto(w, "schedule")
    /\ UNCHANGED <<pipeline, tried, client, task, stats>>

\* Mutant: a delivered task is scheduled for retry as well.
PushAndRetry(w) ==
    /\ pc[w] = "push"
    /\ \E t \in held[w] :
         /\ pushes' = [pushes EXCEPT ![t] = @ + 1]
         /\ outcome' = [outcome EXCEPT ![t] = "delivered"]
         /\ Send(w, t, "retryQueue")
    /\ Count("delivered")
    /\ Goto(w, "idle")
    /\ UNCHANGED <<tried, client, retries, due, expired, stored>>

Push(w) ==
    /\ pc[w] = "push"
    /\ \E t \in held[w] :
         /\ pushes' = [pushes EXCEPT ![t] = @ + 1]
         /\ outcome' = [outcome EXCEPT ![t] = "delivered"]
         /\ Release(w, t)
    /\ Count("delivered")
    /\ Goto(w, "idle")
    /\ UNCHANGED <<tried, client, retries, due, expired, stored>>

-----------------------------------------------------------------------------
(* ScheduleRetry, and the worker that calls it                             *)

CanRetry(t) == retries[t] < MaxRetries /\ Room("retryQueue")

ScheduleRetry(g, t) ==
    /\ CanRetry(t)
    /\ Send(g, t, "retryQueue")
    /\ due' = [due EXCEPT ![t] = FALSE]

WorkerRetries(w) ==
    /\ pc[w] = "schedule"
    /\ \E t \in held[w] : ScheduleRetry(w, t)
    /\ Count("retried")
    /\ Goto(w, "idle")
    /\ UNCHANGED <<tried, client, retries, expired, stored, pushes, outcome>>

WorkerAbandons(w) ==
    /\ pc[w] = "schedule"
    /\ \E t \in held[w] :
         /\ ~CanRetry(t)
         /\ Release(w, t)
         /\ outcome' = [outcome EXCEPT ![t] = "abandoned"]
    /\ Count("failed")
    /\ Goto(w, "idle")
    /\ UNCHANGED <<tried, client, retries, due, expired, stored, pushes>>

-----------------------------------------------------------------------------
(* RetryWorker: on every tick, scan the retry queue                        *)

RetryTick ==
    /\ pc["retryWorker"] = "idle"
    /\ Goto("retryWorker", "scan")
    /\ UNCHANGED <<pipeline, tried, client, task, stats>>

ScanEnds ==
    /\ pc["retryWorker"] = "scan"
    /\ chan["retryQueue"] = <<>>
    /\ Goto("retryWorker", "idle")
    /\ UNCHANGED <<pipeline, tried, client, task, stats>>

ScanTakesDue ==
    /\ pc["retryWorker"] = "scan"
    /\ Receive("retryWorker", "retryQueue")
    /\ due[Head(chan["retryQueue"])]
    /\ retries' = [retries EXCEPT ![Head(chan["retryQueue"])] = @ + 1]
    /\ Goto("retryWorker", "send")
    /\ UNCHANGED <<tried, client, due, expired, stored, pushes, outcome, stats>>

ScanTakesEarly ==
    /\ pc["retryWorker"] = "scan"
    /\ Receive("retryWorker", "retryQueue")
    /\ ~due[Head(chan["retryQueue"])]
    /\ Goto("retryWorker", "putBack")
    /\ UNCHANGED <<tried, client, task, stats>>

\* Mutant: an early retry is not put back.
PutBackForgets ==
    /\ pc["retryWorker"] = "putBack"
    /\ \E t \in held["retryWorker"] : Release("retryWorker", t)
    /\ Goto("retryWorker", "scan")
    /\ UNCHANGED <<tried, client, task, stats>>

\* A full queue loses the task: only a log line says so.
PutBack ==
    /\ pc["retryWorker"] = "putBack"
    /\ \E t \in held["retryWorker"] :
         \/ Send("retryWorker", t, "retryQueue")
         \/ ~Room("retryQueue") /\ Release("retryWorker", t)
    /\ Goto("retryWorker", "scan")
    /\ UNCHANGED <<tried, client, task, stats>>

SendRetry ==
    /\ pc["retryWorker"] = "send"
    /\ \E t \in held["retryWorker"] :
         \/ Send("retryWorker", t, "workerChan")
         \/ ~Room("workerChan") /\ Spawn("retryWorker", "reschedule", t)
    /\ Goto("retryWorker", "scan")
    /\ UNCHANGED <<tried, client, task, stats>>

\* The spawned goroutine ignores the result of its ScheduleRetry.
Reschedule(t) ==
    /\ \/ ScheduleRetry("reschedule", t)
       \/ ~CanRetry(t) /\ Release("reschedule", t) /\ UNCHANGED due
    /\ UNCHANGED <<pc, tried, client, retries, expired, stored, pushes, outcome,
                   stats>>

-----------------------------------------------------------------------------
(* runRetryManager: hand due retries to the workers                        *)

RetryManagerTake ==
    /\ held["runRetryManager"] = {}
    /\ Receive("runRetryManager", "workerChan")
    /\ UNCHANGED <<pc, tried, client, task, stats>>

DispatchToWorker ==
    /\ \E t \in held["runRetryManager"], w \in Workers :
         Place("runRetryManager", t, w)
    /\ UNCHANGED <<pc, client, task, stats>>

DispatchFindsFull ==
    /\ held["runRetryManager"] # {}
    /\ \E w \in Workers : FindFull("runRetryManager", w)
    /\ UNCHANGED <<pipeline, pc, client, task, stats>>

DispatchFails ==
    /\ \E t \in held["runRetryManager"] :
         GiveUpPlacing("runRetryManager", "resend", t)
    /\ UNCHANGED <<pc, client, task, stats>>

\* A plain send: it waits for room in the input channel.
Resend(t) ==
    /\ Send("resend", t, "inputChan")
    /\ UNCHANGED <<pc, tried, client, task, stats>>

-----------------------------------------------------------------------------
(* Time passes                                                             *)

Expire(t) ==
    /\ ~expired[t]
    /\ client[t] = "sending" \/ InFlight(t)
    /\ expired' = [expired EXCEPT ![t] = TRUE]
    /\ UNCHANGED <<pipeline, pc, tried, client, retries, due, stored, pushes,
                   outcome, stats>>

BecomeDue(t) ==
    /\ ~due[t]
    /\ t \in Range(chan["retryQueue"]) \/ t \in held["retryWorker"]
    /\ due' = [due EXCEPT ![t] = TRUE]
    /\ UNCHANGED <<pipeline, pc, tried, client, retries, expired, stored, pushes,
                   outcome, stats>>

-----------------------------------------------------------------------------
Handler(t) == Reject(t) \/ Accept(t)
Submit(t)  == Enqueue(t) \/ SubmitTimeout(t) \/ Acknowledge(t)
MainLoop   == MainTake \/ MainDispatch \/ MainDrop
QueueManager == \/ QueueTick \/ PollTakes \/ PollFindsNothing
                \/ Distribute \/ DistributeFindsFull \/ DistributeFails
Worker(w)  == \/ WorkerTake(w) \/ CheckExpired(w) \/ Insert(w)
              \/ TouchChannel(w) \/ DatabaseFails(w) \/ Push(w)
              \/ WorkerRetries(w) \/ WorkerAbandons(w)
RetryWorker  == \/ RetryTick \/ ScanEnds \/ ScanTakesDue \/ ScanTakesEarly
                \/ PutBack \/ SendRetry
RetryManager == \/ RetryManagerTake \/ DispatchToWorker
                \/ DispatchFindsFull \/ DispatchFails
Time(t)      == Expire(t) \/ BecomeDue(t)

Next ==
    \/ MainLoop \/ QueueManager \/ RetryWorker \/ RetryManager
    \/ \E w \in Workers : Worker(w)
    \/ \E t \in Tasks : \/ Handler(t) \/ Submit(t) \/ Time(t)
                        \/ Requeue(t) \/ Reschedule(t) \/ Resend(t)

Spec == Init /\ [][Next]_vars

\* Every goroutine that can run eventually runs, and a retry delay ends.
Fairness ==
    /\ WF_vars(MainLoop) /\ WF_vars(QueueManager)
    /\ WF_vars(RetryWorker) /\ WF_vars(RetryManager)
    /\ \A w \in Workers : WF_vars(Worker(w))
    /\ \A t \in Tasks : /\ WF_vars(Submit(t)) /\ WF_vars(BecomeDue(t))
                        /\ WF_vars(Requeue(t)) /\ WF_vars(Reschedule(t))
                        /\ WF_vars(Resend(t))

FairSpec == Spec /\ Fairness
-----------------------------------------------------------------------------
(* Properties                                                              *)

\* Every variable has its type.
TypeOK ==
    /\ chan \in [Channels -> Seq(Tasks)]
    /\ held \in [Goroutines -> SUBSET Tasks]
    /\ pc \in [Loops -> Queues \cup {"idle", "place", "scan", "putBack", "send",
                         "check", "insert", "touch", "push", "schedule"}]
    /\ tried \in [Placers -> SUBSET Workers]
    /\ client \in [Tasks -> {"idle", "sending", "sent", "accepted", "rejected"}]
    /\ retries \in [Tasks -> Nat]
    /\ due \in [Tasks -> BOOLEAN]
    /\ expired \in [Tasks -> BOOLEAN]
    /\ stored \in [Tasks -> BOOLEAN]
    /\ pushes \in [Tasks -> Nat]
    /\ outcome \in [Tasks -> {"pending", "delivered", "abandoned"}]
    /\ stats \in [received : Nat, delivered : Nat, failed : Nat, retried : Nat]

\* Whatever is requeued, resent or rescheduled by a spawned goroutine, a task
\* is never in two channels, twice in one, or still held by its sender: no
\* hand-over of the pipeline copies it.
SingleCopy ==
    /\ \A c \in Channels : IsInjective(chan[c])
    /\ \A c, d \in Channels : c # d => Range(chan[c]) \cap Range(chan[d]) = {}
    /\ \A g, h \in Goroutines : g # h => held[g] \cap held[h] = {}
    /\ \A c \in Channels, g \in Goroutines : Range(chan[c]) \cap held[g] = {}

\* A task the counters call delivered or failed, or one that SubmitTask
\* refused, is nowhere in the pipeline: no retry of it is still to come.
ResolvedIsGone ==
    \A t \in Tasks : InFlight(t) => /\ client[t] \in {"sent", "accepted"}
                                    /\ outcome[t] = "pending"

\* A message is broadcast at most once however often its task is retried, and
\* only when it is already in the user's database (the store-then-push flow).
PushedOnceStored ==
    \A t \in Tasks : /\ pushes[t] <= 1
                     /\ pushes[t] = 1 => stored[t] /\ outcome[t] = "delivered"

\* RetryCount never exceeds max_retries, and a task that waits in the retry
\* queue still has an attempt left, on both ways into that queue.
RetryBudget ==
    \A t \in Tasks :
        /\ retries[t] <= MaxRetries
        /\ t \in Range(chan["retryQueue"]) => retries[t] < MaxRetries

\* TotalDelivered and TotalFailed count each request once, whichever of the
\* four places that count it is reached, and deliveries run ahead of
\* TotalReceived only by the handlers that have not counted their send yet.
CountedOnce ==
    /\ stats.delivered = Cardinality({t \in Tasks : outcome[t] = "delivered"})
    /\ stats.failed = Cardinality({t \in Tasks : \/ outcome[t] = "abandoned"
                                                \/ client[t] = "rejected"})
    /\ stats.delivered <= stats.received
                            + Cardinality({t \in Tasks : client[t] = "sent"})

\* Once a task is counted its fate is final: a later step neither counts it
\* again, nor stores or pushes it.
FateIsFinal ==
    [][\A t \in Tasks : outcome[t] # "pending" =>
          /\ outcome'[t] = outcome[t]
          /\ stored'[t] = stored[t]
          /\ pushes'[t] = pushes[t]]_vars

\* A channel is full, or the task has no attempt left, where the code drops it.
DroppedWhenFull(t) ==
    \/ t \in held["requeue"] /\ ~Room(QueueOf(t))
    \/ t \in held["retryWorker"] \cup held["reschedule"] /\ ~Room("retryQueue")
    \/ t \in held["reschedule"] /\ retries[t] = MaxRetries

\* A task leaves the pipeline without being counted only where a full channel
\* makes the code drop it: its priority queue, the retry queue, or, for a task
\* on its last attempt, workerChan, which sent it to be rescheduled.  With room
\* everywhere each request that entered is counted in the end (see Drains).
LostOnlyWhenFull ==
    [][\A t \in Tasks : InFlight(t) /\ ~InFlight(t)' /\ outcome'[t] = "pending" =>
          DroppedWhenFull(t)]_vars

\* No task circulates or stays blocked for ever: every one that enters leaves
\* the pipeline, even when every channel fills up.
Drains == \A t \in Tasks : client[t] = "sent" ~> ~InFlight(t)

-----------------------------------------------------------------------------
(* The contract of DeliveryContract                                        *)

\* The requests that are somewhere in the pipeline.
Present == {t \in Tasks : InFlight(t)}

\* What has become of a request, read off the state of the pipeline.
Fate == [t \in Tasks |->
    CASE client[t] \in {"idle", "sending"} -> "new"
      [] client[t] = "rejected"            -> "refused"
      [] OTHER -> CASE outcome[t] = "delivered" -> "delivered"
                    [] outcome[t] = "abandoned" -> "failed"
                    [] OTHER -> IF t \in Present THEN "pending" ELSE "lost"]

InDatabase == {t \in Tasks : stored[t]}
Broadcast  == {t \in Tasks : pushes[t] > 0}

Contract == INSTANCE DeliveryContract WITH
    Messages <- Tasks, fate <- Fate, stored <- InDatabase, pushed <- Broadcast

\* The pipeline implements the contract: no step takes a message through a
\* change of fate, a store or a push that the contract does not allow.
ImplementsContract == Contract!Spec
=============================================================================
