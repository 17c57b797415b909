---------------------------- MODULE StoreAndPush ----------------------------
(***************************************************************************)
(* One message through all components: the request names its users         *)
(* (src/internal/middleware, models), a worker gets the workspace, stores  *)
(* the message and pushes it (delivery/worker.go), while the cache closes  *)
(* workspaces, connections come and go, and the process may crash.  The    *)
(* queues between submission and worker are one set here (see Delivery),   *)
(* the cache and the hub are reduced to what the worker sees of them (see  *)
(* WorkspaceCache and WebSocketHub; the hub runs).                         *)
(***************************************************************************)
EXTENDS Integers, Sequences, FiniteSets

CONSTANTS
    Users,
    Default,        \* the user of a request without User-ID header
    None,
    Messages,
    Conns,          \* WebSocket connections, one at a time each
    Workers,
    MaxRetries

\* What GetUserWorkspace returns: whose workspace, and what the cache does with it.
Handles == [user : Users, state : {"new", "cached", "leaked", "closed"}]

ASSUME UsersAssumption ==
    /\ Default \in Users
    /\ None \notin Users
    /\ None \notin Handles
ASSUME RetriesAssumption == MaxRetries \in Nat

VARIABLES
    request,    \* owner (header) and user (message.UserID) of each message
    phase,      \* what has become of it
    attempts,   \* its RetryCount
    pushed,     \* messages that were broadcast
    pc, at,     \* progress of each worker, and the message it delivers
    ws,         \* the workspace it holds: whose, and whether still cached
    built,      \* how many parts the current creation has made; 0 without one
    cached,     \* users whose workspace is in the cache
    made,       \* parts that exist in each user's databases (on disk)
    rows,       \* rows of messages in each user's database (on disk)
    conn,       \* user of each registered connection
    frames      \* messages queued on or written to each connection

message == <<request, phase, attempts, pushed>>
worker  == <<pc, at, ws>>
space   == <<built, cached, made>>
hub     == <<conn, frames>>
vars    == <<request, phase, attempts, pushed, pc, at, ws, built, cached, made,
             rows, conn, frames>>

\* initDatabase makes these one after the other, each only if it is missing.
Parts == <<"messages", "channels", "defaultChannel", "readStatus">>

AllParts == {Parts[i] : i \in 1..Len(Parts)}

Building == {w \in Workers : pc[w] = "create"}
Target(w) == request[at[w]].owner
Usable(w) == ws[w].state # "closed"

Goto(w, l)   == pc' = [pc EXCEPT ![w] = l]
Becomes(m, p) == phase' = [phase EXCEPT ![m] = p]

Init ==
    /\ request = [m \in Messages |-> None]
    /\ phase = [m \in Messages |-> "new"]
    /\ attempts = [m \in Messages |-> 0]
    /\ pushed = {}
    /\ pc = [w \in Workers |-> "idle"]
    /\ at = [w \in Workers |-> None]
    /\ ws = [w \in Workers |-> None]
    /\ built = 0
    /\ cached = {}
    /\ made = [u \in Users |-> {}]
    /\ rows = [u \in Users |-> {}]
    /\ conn = [c \in Conns |-> None]
    /\ frames = [c \in Conns |-> {}]

-----------------------------------------------------------------------------
(* Requests                                                                *)

\* UserIDMiddleware: an absent or blank header stands for the default user.
UserID(header) == IF header = None THEN Default ELSE header

\* NewMessage: the body's user_id, if there is one, is the message's user.
MessageUser(body, owner) == IF body = None THEN owner ELSE body

\* CreateMessage submits the message to the header's user; its body may name
\* anybody.
CreateMessage(m) ==
    /\ phase[m] = "new"
    /\ \E header \in Users \cup {None}, body \in Users \cup {None} :
         LET owner == UserID(header) IN
         request' = [request EXCEPT ![m] =
                        [owner |-> owner, user |-> MessageUser(body, owner)]]
    /\ \/ Becomes(m, "queued")
       \/ Becomes(m, "refused")
    /\ UNCHANGED <<attempts, pushed, worker, space, rows, hub>>

\* The pipeline drops a task before or between its attempts; not every drop is
\* counted as failed.
Drop(m) ==
    /\ phase[m] = "queued"
    /\ Becomes(m, "failed") \/ Becomes(m, "lost")
    /\ UNCHANGED <<request, attempts, pushed, worker, space, rows, hub>>

-----------------------------------------------------------------------------
(* A worker: processTask and deliverToUser                                 *)

\* An expired task goes straight to its retry.
Take(w, m) ==
    /\ pc[w] = "idle"
    /\ phase[m] = "queued"
    /\ Becomes(m, "working")
    /\ at' = [at EXCEPT ![w] = m]
    /\ Goto(w, "get") \/ Goto(w, "schedule")
    /\ UNCHANGED <<request, attempts, pushed, ws, space, rows, hub>>

\* GetUserWorkspace finds the workspace, at its first or at its second look.
GetCached(w) ==
    /\ pc[w] = "get"
    /\ Target(w) \in cached
    /\ ws' = [ws EXCEPT ![w] = [user |-> Target(w), state |-> "cached"]]
    /\ Goto(w, "check")
    /\ UNCHANGED <<message, at, space, rows, hub>>

\* It finds none, or an expired one, and creates one under Manager.mu.
StartCreate(w) ==
    /\ pc[w] = "get"
    /\ Building = {}
    /\ ws' = [ws EXCEPT ![w] = [user |-> Target(w), state |-> "new"]]
    /\ built' = 0
    /\ Goto(w, "create")
    /\ UNCHANGED <<message, at, cached, made, rows, hub>>

\* Mutant: a workspace that has its first table is taken for complete.
BuildSkipsExisting(w) ==
    /\ pc[w] = "create"
    /\ built < Len(Parts)
    /\ LET u == Target(w) IN
       IF Parts[1] \in made[u] /\ built = 0
       THEN built' = Len(Parts) /\ UNCHANGED made
       ELSE /\ made' = [made EXCEPT ![u] = @ \cup {Parts[built + 1]}]
            /\ built' = built + 1
    /\ UNCHANGED <<message, worker, cached, rows, hub>>

Build(w) ==
    /\ pc[w] = "create"
    /\ built < Len(Parts)
    /\ made' = [made EXCEPT ![Target(w)] = @ \cup {Parts[built + 1]}]
    /\ built' = built + 1
    /\ UNCHANGED <<message, worker, cached, rows, hub>>

CreateFails(w) ==
    /\ pc[w] = "create"
    /\ built < Len(Parts)
    /\ built' = 0
    /\ ws' = [ws EXCEPT ![w] = None]
    /\ Goto(w, "schedule")
    /\ UNCHANGED <<message, at, cached, made, rows, hub>>

\* Those who hold an expired entry that Put overwrites keep it, and nobody will
\* close it.
Put(w) ==
    /\ pc[w] = "create"
    /\ built = Len(Parts)
    /\ built' = 0
    /\ cached' = cached \cup {Target(w)}
    /\ ws' = [v \in Workers |->
                 IF v = w THEN [user |-> Target(w), state |-> "cached"]
                 ELSE IF ws[v] = [user |-> Target(w), state |-> "cached"]
                      THEN [user |-> Target(w), state |-> "leaked"]
                      ELSE ws[v]]
    /\ Goto(w, "check")
    /\ UNCHANGED <<message, at, made, rows, hub>>

\* isDatabaseAvailable
Check(w) ==
    /\ pc[w] = "check"
    /\ Usable(w)
    /\ Goto(w, "insert")
    /\ UNCHANGED <<message, at, ws, space, rows, hub>>

\* The INSERT of CreateMessage; a second one violates the primary key.
Insert(w) ==
    /\ pc[w] = "insert"
    /\ Usable(w)
    /\ at[w] \notin rows[ws[w].user]
    /\ rows' = [rows EXCEPT ![ws[w].user] = @ \cup {at[w]}]
    /\ Goto(w, "touch")
    /\ UNCHANGED <<message, at, ws, space, hub>>

\* Its UPDATE of the channel.
Touch(w) ==
    /\ pc[w] = "touch"
    /\ Usable(w)
    /\ Goto(w, "push")
    /\ UNCHANGED <<message, at, ws, space, rows, hub>>

\* Mutant: the error of a statement is logged and no more.
ErrorIsIgnored(w) ==
    /\ pc[w] \in {"check", "insert", "touch"}
    /\ Goto(w, "push")
    /\ UNCHANGED <<message, at, ws, space, rows, hub>>

\* The database was closed under the worker, or is locked, or the key is there.
StatementFails(w) ==
    /\ pc[w] \in {"check", "insert", "touch"}
    /\ ws' = [ws EXCEPT ![w] = None]
    /\ Goto(w, "schedule")
    /\ UNCHANGED <<message, at, space, rows, hub>>

Reset(w) ==
    /\ ws' = [ws EXCEPT ![w] = None]
    /\ at' = [at EXCEPT ![w] = None]
    /\ Goto(w, "idle")

\* Mutant: every connection gets the frame.
PushToAll(w) ==
    /\ pc[w] = "push"
    /\ \E got \in SUBSET {c \in Conns : conn[c] # None} :
         frames' = [c \in Conns |-> IF c \in got THEN frames[c] \cup {at[w]}
                                    ELSE frames[c]]
    /\ pushed' = pushed \cup {at[w]}
    /\ Becomes(at[w], "delivered")
    /\ Reset(w)
    /\ UNCHANGED <<request, attempts, space, rows, conn>>

\* Mutant: a broadcast that no connection takes counts as a failed delivery.
PushOrRetry(w) ==
    /\ pc[w] = "push"
    /\ \E got \in SUBSET {c \in Conns : conn[c] = request[at[w]].user} :
         /\ frames' = [c \in Conns |-> IF c \in got THEN frames[c] \cup {at[w]}
                                       ELSE frames[c]]
         /\ pushed' = pushed \cup {at[w]}
         /\ IF got = {} THEN Goto(w, "schedule") /\ UNCHANGED <<phase, at, ws>>
                        ELSE Becomes(at[w], "delivered") /\ Reset(w)
    /\ UNCHANGED <<request, attempts, space, rows, conn>>

\* BroadcastMessage: the connections of the message's user whose queue has room.
Push(w) ==
    /\ pc[w] = "push"
    /\ \E got \in SUBSET {c \in Conns : conn[c] = request[at[w]].user} :
         frames' = [c \in Conns |-> IF c \in got THEN frames[c] \cup {at[w]}
                                    ELSE frames[c]]
    /\ pushed' = pushed \cup {at[w]}
    /\ Becomes(at[w], "delivered")
    /\ Reset(w)
    /\ UNCHANGED <<request, attempts, space, rows, conn>>

\* Mutant: the budget of attempts is not looked at.
RetryAlways(w) ==
    /\ pc[w] = "schedule"
    /\ attempts' = [attempts EXCEPT ![at[w]] = @ + 1]
    /\ Becomes(at[w], "queued")
    /\ Reset(w)
    /\ UNCHANGED <<request, pushed, space, rows, hub>>

\* Mutant: the attempts are not counted.
RetryUncounted(w) ==
    /\ pc[w] = "schedule"
    /\ attempts[at[w]] < MaxRetries
    /\ Becomes(at[w], "queued")
    /\ Reset(w)
    /\ UNCHANGED <<request, attempts, pushed, space, rows, hub>>

Retry(w) ==
    /\ pc[w] = "schedule"
    /\ attempts[at[w]] < MaxRetries
    /\ attempts' = [attempts EXCEPT ![at[w]] = @ + 1]
    /\ Becomes(at[w], "queued")
    /\ Reset(w)
    /\ UNCHANGED <<request, pushed, space, rows, hub>>

\* No attempt is left, or the retry queue is full.
GiveUp(w) ==
    /\ pc[w] = "schedule"
    /\ Becomes(at[w], "failed")
    /\ Reset(w)
    /\ UNCHANGED <<request, attempts, pushed, space, rows, hub>>

-----------------------------------------------------------------------------
(* What happens around the workers                                         *)

\* The cache evicts, expires or removes the entry and closes the databases.
CloseWorkspace(u) ==
    /\ u \in cached
    /\ cached' = cached \ {u}
    /\ ws' = [w \in Workers |->
                 IF ws[w] = [user |-> u, state |-> "cached"]
                 THEN [user |-> u, state |-> "closed"] ELSE ws[w]]
    /\ UNCHANGED <<message, pc, at, built, made, rows, hub>>

\* HandleWebSocket takes the user from the same middleware as the requests.
Connect(c) ==
    /\ conn[c] = None
    /\ \E header \in Users \cup {None} :
         conn' = [conn EXCEPT ![c] = UserID(header)]
    /\ UNCHANGED <<message, worker, space, rows, frames>>

Disconnect(c) ==
    /\ conn[c] # None
    /\ conn' = [conn EXCEPT ![c] = None]
    /\ frames' = [frames EXCEPT ![c] = {}]
    /\ UNCHANGED <<message, worker, space, rows>>

\* The process ends and is started again: the databases are what remains.
Crash ==
    /\ phase' = [m \in Messages |->
                    IF phase[m] \in {"queued", "working"} THEN "lost" ELSE phase[m]]
    /\ pc' = [w \in Workers |-> "idle"]
    /\ at' = [w \in Workers |-> None]
    /\ ws' = [w \in Workers |-> None]
    /\ built' = 0
    /\ cached' = {}
    /\ conn' = [c \in Conns |-> None]
    /\ frames' = [c \in Conns |-> {}]
    /\ UNCHANGED <<request, attempts, pushed, made, rows>>

-----------------------------------------------------------------------------
Create(w) == StartCreate(w) \/ Build(w) \/ CreateFails(w) \/ Put(w)
Deliver(w) == \/ GetCached(w) \/ Create(w)
              \/ Check(w) \/ Insert(w) \/ Touch(w) \/ StatementFails(w) \/ Push(w)
Schedule(w) == Retry(w) \/ GiveUp(w)
Worker(w) == (\E m \in Messages : Take(w, m)) \/ Deliver(w) \/ Schedule(w)

Next ==
    \/ \E m \in Messages : CreateMessage(m) \/ Drop(m)
    \/ \E w \in Workers : Worker(w)
    \/ \E u \in Users : CloseWorkspace(u)
    \/ \E c \in Conns : Connect(c) \/ Disconnect(c)
    \/ Crash

Spec == Init /\ [][Next]_vars

\* The worker goroutines are scheduled; nothing else has to happen.
FairSpec == Spec /\ \A w \in Workers : WF_vars(Worker(w))

-----------------------------------------------------------------------------
(* Properties                                                              *)

Phases == {"new", "refused", "queued", "working", "delivered", "failed", "lost"}

\* Every variable has its type; no message has more attempts than its budget.
TypeOK ==
    /\ request \in [Messages -> [owner : Users, user : Users] \cup {None}]
    /\ phase \in [Messages -> Phases]
    /\ attempts \in [Messages -> 0..MaxRetries]
    /\ pushed \subseteq Messages
    /\ pc \in [Workers -> {"idle", "get", "create", "check", "insert", "touch",
                           "push", "schedule"}]
    /\ at \in [Workers -> Messages \cup {None}]
    /\ ws \in [Workers -> Handles \cup {None}]
    /\ built \in 0..Len(Parts)
    /\ cached \subseteq Users
    /\ made \in [Users -> SUBSET AllParts]
    /\ rows \in [Users -> SUBSET Messages]
    /\ conn \in [Conns -> Users \cup {None}]
    /\ frames \in [Conns -> SUBSET Messages]

\* A message that has reached a connection is one for the connection's user, by
\* the name in its body, and is stored in the workspace of the user that sent it,
\* whatever was closed, retried, left half done or crashed in between.
PushedIsStored ==
    \A c \in Conns : \A m \in frames[c] :
        conn[c] = request[m].user /\ m \in rows[request[m].owner]

\* worker.go delivers a message to a user: it is stored in the user's database and
\* broadcast to the user.  Whoever is pushed a message finds it there.
PushedCanBeFetched ==
    \A c \in Conns : \A m \in frames[c] : m \in rows[conn[c]]

\* A workspace that the cache holds or a worker uses has all its tables and the
\* default channel, also after a crash or a failure in the middle of an earlier
\* creation.
HandedOutComplete ==
    \A u \in Users :
        \/ made[u] = AllParts
        \/ /\ u \notin cached
           /\ \A w \in Workers : ws[w] # None /\ ws[w].user = u => pc[w] = "create"

\* No message that was admitted stays with the queue and the workers: it is
\* delivered, failed or lost in the end, and workers do not wait for ever for one
\* another or for a workspace.
EveryMessageEnds ==
    \A m \in Messages : []<>(phase[m] \notin {"queued", "working"})

\* The composed system keeps the contract that the pipeline alone keeps.
Contract == INSTANCE DeliveryContract WITH
    fate   <- [m \in Messages |->
                  IF phase[m] \in {"queued", "working"} THEN "pending" ELSE phase[m]],
    stored <- {m \in Messages : \E u \in Users : m \in rows[u]},
    pushed <- pushed

ImplementsContract == Contract!Spec
=============================================================================
