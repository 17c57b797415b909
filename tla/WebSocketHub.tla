---------------------------- MODULE WebSocketHub ----------------------------
(***************************************************************************)
(* The WebSocket hub (src/internal/websocket/manager.go): the goroutine    *)
(* Run that keeps the maps of clients, the handler that registers a        *)
(* connection, its two pumps, and BroadcastMessage called by the delivery  *)
(* workers.  m.clients and m.userClients always change together and are    *)
(* one set here; nothing sends on m.broadcast, so its case is left out.    *)
(***************************************************************************)
EXTENDS Integers, Sequences, SequencesExt

CONSTANTS
    Clients,    \* connections, each made once
    Messages,   \* messages, each broadcast once, by a goroutine of its own
    Users,
    BufSize,    \* capacity of Client.Send, 256 in the code
    HubRuns,    \* whether Run was started; main.go does not start it
    None

ASSUME HubAssumption ==
    /\ BufSize \in Nat \ {0}
    /\ HubRuns \in BOOLEAN
    /\ None \notin Clients \cup Messages

VARIABLES
    userOf,     \* user_id of each client and of each message
    hub,        \* what Run has received and not handled: <<kind, client>>
    clients,    \* m.clients and m.userClients
    active,     \* the clients with Active set
    send,       \* contents of each client's Send
    closed,     \* the clients whose Send was closed
    socket,     \* state of each connection
    reader,     \* progress of each readPump
    writer,     \* progress of each writePump
    frame,      \* the messages writePump has put into the frame it writes
    left,       \* how many more it is to put there
    pc,         \* progress of each BroadcastMessage
    todo,       \* the clients it has not come to
    at,         \* the client it has found active and is sending to
    received    \* the frames each client has been sent

pumpVars == <<socket, reader, writer, frame, left, received>>
castVars == <<pc, todo, at>>
vars == <<userOf, hub, clients, active, send, closed, pumpVars, castVars>>

Idle == <<"idle", None>>

Init ==
    /\ userOf \in [Clients \cup Messages -> Users]
    /\ hub = Idle
    /\ clients = {}
    /\ active = {}
    /\ send = [c \in Clients |-> <<>>]
    /\ closed = {}
    /\ socket = [c \in Clients |-> "none"]
    /\ reader = [c \in Clients |-> "none"]
    /\ writer = [c \in Clients |-> "none"]
    /\ frame = [c \in Clients |-> <<>>]
    /\ left = [c \in Clients |-> 0]
    /\ pc = [m \in Messages |-> "new"]
    /\ todo = [m \in Messages |-> {}]
    /\ at = [m \in Messages |-> None]
    /\ received = [c \in Clients |-> <<>>]

-----------------------------------------------------------------------------
(* HandleWebSocket and Run.                                                *)

\* The connection is upgraded; the handler blocks on m.register.
Upgrade(c) ==
    /\ socket[c] = "none"
    /\ socket' = [socket EXCEPT ![c] = "open"]
    /\ active' = active \cup {c}
    /\ UNCHANGED <<userOf, hub, clients, send, closed, reader, writer, frame, left,
                   received, castVars>>

Registering(c) == socket[c] = "open" /\ reader[c] = "none"

\* Run receives the client and the handler goes on to start both pumps.
TakeRegister(c) ==
    /\ HubRuns
    /\ hub = Idle
    /\ Registering(c)
    /\ hub' = <<"register", c>>
    /\ reader' = [reader EXCEPT ![c] = "reading"]
    /\ writer' = [writer EXCEPT ![c] = "waiting"]
    /\ UNCHANGED <<userOf, clients, active, send, closed, socket, frame, left, received,
                   castVars>>

TakeUnregister(c) ==
    /\ HubRuns
    /\ hub = Idle
    /\ reader[c] = "leaving"
    /\ hub' = <<"unregister", c>>
    /\ reader' = [reader EXCEPT ![c] = "closing"]
    /\ UNCHANGED <<userOf, clients, active, send, closed, socket, writer, frame, left,
                   received, castVars>>

\* m.mu is read-locked by a BroadcastMessage.
ReadLocked == \E m \in Messages : pc[m] = "sending"

Register(c) ==
    /\ hub = <<"register", c>>
    /\ ~ReadLocked
    /\ clients' = clients \cup {c}
    /\ hub' = Idle
    /\ UNCHANGED <<userOf, active, send, closed, pumpVars, castVars>>

RemoveClient(c) ==
    /\ hub = <<"unregister", c>>
    /\ clients' = clients \ {c}
    /\ IF c \in clients
       THEN closed' = closed \cup {c} /\ active' = active \ {c}
       ELSE UNCHANGED <<closed, active>>
    /\ hub' = Idle
    /\ UNCHANGED <<userOf, send, pumpVars, castVars>>

\* Mutant: the maps change without the write lock.
UnregisterUnlocked(c) == RemoveClient(c)

Unregister(c) == ~ReadLocked /\ RemoveClient(c)

-----------------------------------------------------------------------------
(* readPump and writePump.                                                 *)

\* Mutant: the pump ends without telling the hub.
ReadFailsSilently(c) ==
    /\ reader[c] = "reading"
    /\ reader' = [reader EXCEPT ![c] = "closing"]
    /\ UNCHANGED <<userOf, hub, clients, active, send, closed, socket, writer,
                   frame, left, received, castVars>>

\* The peer has gone, the 60 seconds without a pong are over, or the socket was
\* closed by the other pump.
ReadFails(c) ==
    /\ reader[c] = "reading"
    /\ reader' = [reader EXCEPT ![c] = "leaving"]
    /\ UNCHANGED <<userOf, hub, clients, active, send, closed, socket, writer,
                   frame, left, received, castVars>>

ReaderCloses(c) ==
    /\ reader[c] = "closing"
    /\ reader' = [reader EXCEPT ![c] = "ended"]
    /\ socket' = [socket EXCEPT ![c] = "closed"]
    /\ UNCHANGED <<userOf, hub, clients, active, send, closed, writer, frame, left,
                   received, castVars>>

\* Mutant: what is queued waits for a next message that wakes the pump.
WriterSleeps(c) ==
    /\ writer[c] = "waiting"
    /\ Len(send[c]) > 1
    /\ frame' = [frame EXCEPT ![c] = <<Head(send[c])>>]
    /\ send' = [send EXCEPT ![c] = Tail(@)]
    /\ writer' = [writer EXCEPT ![c] = "framing"]
    /\ UNCHANGED <<userOf, hub, clients, active, closed, socket, reader, left,
                   received, castVars>>

\* A message is received from Send and a frame begun.
WriterTakes(c) ==
    /\ writer[c] = "waiting"
    /\ send[c] # <<>>
    /\ frame' = [frame EXCEPT ![c] = <<Head(send[c])>>]
    /\ send' = [send EXCEPT ![c] = Tail(@)]
    /\ writer' = [writer EXCEPT ![c] = "framing"]
    /\ UNCHANGED <<userOf, hub, clients, active, closed, socket, reader, left,
                   received, castVars>>

\* Mutant: the loop runs once too often.
CountOneMore(c) ==
    /\ writer[c] = "framing"
    /\ left' = [left EXCEPT ![c] = Len(send[c]) + 1]
    /\ writer' = [writer EXCEPT ![c] = "draining"]
    /\ UNCHANGED <<userOf, hub, clients, active, send, closed, socket, reader,
                   frame, received, castVars>>

\* n := len(c.Send); broadcasts append to the queue and the hub may close it
\* while the pump receives that many.
CountQueue(c) ==
    /\ writer[c] = "framing"
    /\ left' = [left EXCEPT ![c] = Len(send[c])]
    /\ writer' = [writer EXCEPT ![c] = "draining"]
    /\ UNCHANGED <<userOf, hub, clients, active, send, closed, socket, reader,
                   frame, received, castVars>>

DrainOne(c) ==
    /\ left[c] > 0
    /\ send[c] # <<>>
    /\ frame' = [frame EXCEPT ![c] = Append(@, Head(send[c]))]
    /\ send' = [send EXCEPT ![c] = Tail(@)]
    /\ left' = [left EXCEPT ![c] = @ - 1]
    /\ UNCHANGED <<userOf, hub, clients, active, closed, socket, reader, writer,
                   received, castVars>>

WriteFrame(c) ==
    /\ writer[c] = "draining" /\ left[c] = 0
    /\ socket[c] = "open"
    /\ received' = [received EXCEPT ![c] = Append(@, frame[c])]
    /\ frame' = [frame EXCEPT ![c] = <<>>]
    /\ writer' = [writer EXCEPT ![c] = "waiting"]
    /\ UNCHANGED <<userOf, hub, clients, active, send, closed, socket, reader,
                   left, castVars>>

\* A frame cannot be begun or finished, a ping cannot be written, or Send was
\* closed and is empty: the pump ends and closes the socket; a frame that fails
\* takes what it holds.
WriterEnds(c) ==
    /\ writer[c] \in {"waiting", "framing", "draining"} /\ left[c] = 0
    /\ writer' = [writer EXCEPT ![c] = "ended"]
    /\ socket' = [socket EXCEPT ![c] = "closed"]
    /\ frame' = [frame EXCEPT ![c] = <<>>]
    /\ UNCHANGED <<userOf, hub, clients, active, send, closed, reader, left,
                   received, castVars>>

-----------------------------------------------------------------------------
(* BroadcastMessage, under the read lock.                                  *)

\* Mutant: every connected client is sent the message.
BroadcastToAll(m) ==
    /\ pc[m] = "new"
    /\ pc' = [pc EXCEPT ![m] = "sending"]
    /\ todo' = [todo EXCEPT ![m] = clients]
    /\ UNCHANGED <<userOf, hub, clients, active, send, closed, pumpVars, at>>

Broadcast(m) ==
    /\ pc[m] = "new"
    /\ pc' = [pc EXCEPT ![m] = "sending"]
    /\ todo' = [todo EXCEPT ![m] = {c \in clients : userOf[c] = userOf[m]}]
    /\ UNCHANGED <<userOf, hub, clients, active, send, closed, pumpVars, at>>

CheckActive(m, c) ==
    /\ at[m] = None
    /\ c \in todo[m]
    /\ todo' = [todo EXCEPT ![m] = @ \ {c}]
    /\ at' = [at EXCEPT ![m] = IF c \in active THEN c ELSE None]
    /\ UNCHANGED <<userOf, hub, clients, active, send, closed, pumpVars, pc>>

\* Mutant: a full queue is not noticed.
EnqueueAlways(m) ==
    LET c == at[m] IN
    /\ c # None
    /\ send' = [send EXCEPT ![c] = Append(@, m)]
    /\ at' = [at EXCEPT ![m] = None]
    /\ UNCHANGED <<userOf, hub, clients, active, closed, pumpVars, pc, todo>>

\* The send does not block: with the queue full the client is deactivated.
Enqueue(m) ==
    LET c == at[m] IN
    /\ c # None
    /\ IF Len(send[c]) < BufSize
       THEN send' = [send EXCEPT ![c] = Append(@, m)] /\ UNCHANGED active
       ELSE active' = active \ {c} /\ UNCHANGED send
    /\ at' = [at EXCEPT ![m] = None]
    /\ UNCHANGED <<userOf, hub, clients, closed, pumpVars, pc, todo>>

Return(m) ==
    /\ pc[m] = "sending"
    /\ todo[m] = {} /\ at[m] = None
    /\ pc' = [pc EXCEPT ![m] = "done"]
    /\ UNCHANGED <<userOf, hub, clients, active, send, closed, pumpVars, todo, at>>

Handle(c) == TakeRegister(c) \/ TakeUnregister(c) \/ Register(c) \/ Unregister(c)

ReadPump(c) == ReadFails(c) \/ ReaderCloses(c)

PumpGoesOn(c) == WriterTakes(c) \/ CountQueue(c) \/ DrainOne(c) \/ WriteFrame(c)

WritePump(c) == PumpGoesOn(c) \/ WriterEnds(c)

BroadcastMessage(m) ==
    \/ Broadcast(m) \/ Enqueue(m) \/ Return(m)
    \/ \E c \in Clients : CheckActive(m, c)

Next ==
    \/ \E c \in Clients : Upgrade(c) \/ Handle(c) \/ ReadPump(c) \/ WritePump(c)
    \/ \E m \in Messages : BroadcastMessage(m)

Spec == Init /\ [][Next]_vars

MustEnd(c) == socket[c] = "closed" \/ (c \in closed /\ send[c] = <<>>)

\* Goroutines are scheduled and no broadcast blocks under the read lock.  A pump is
\* sure to notice a closed socket (the read fails; the next ping does) or a closed
\* Send, not to fail on a healthy one.
Fairness ==
    /\ \A c \in Clients :
        /\ WF_vars(Handle(c))
        /\ WF_vars((socket[c] = "closed" /\ ReadFails(c)) \/ ReaderCloses(c))
        /\ WF_vars(PumpGoesOn(c) \/ (MustEnd(c) /\ WriterEnds(c)))
    /\ \A m \in Messages : WF_vars(pc[m] # "new" /\ BroadcastMessage(m))

FairSpec == Spec /\ Fairness

-----------------------------------------------------------------------------
(* Properties.                                                             *)

\* Every variable has its type; no queue exceeds its capacity.
TypeOK ==
    /\ userOf \in [Clients \cup Messages -> Users]
    /\ hub \in {Idle} \cup ({"register", "unregister"} \X Clients)
    /\ clients \subseteq Clients
    /\ active \subseteq Clients
    /\ send \in [Clients -> Seq(Messages)]
    /\ \A c \in Clients : Len(send[c]) <= BufSize
    /\ closed \subseteq Clients
    /\ socket \in [Clients -> {"none", "open", "closed"}]
    /\ reader \in [Clients -> {"none", "reading", "leaving", "closing", "ended"}]
    /\ writer \in [Clients -> {"none", "waiting", "framing", "draining", "ended"}]
    /\ frame \in [Clients -> Seq(Messages)]
    /\ left \in [Clients -> 0..BufSize]
    /\ pc \in [Messages -> {"new", "sending", "done"}]
    /\ todo \in [Messages -> SUBSET Clients]
    /\ at \in [Messages -> Clients \cup {None}]
    /\ received \in [Clients -> Seq(Seq(Messages))]

\* A broadcast never sends on a channel that the hub has closed, which would be
\* a panic, although it checks the client and sends in two steps.
NoSendOnClosed == \A m \in Messages : at[m] # None => at[m] \notin closed

\* A client whose pump has signed off is never in the maps again, in particular
\* not when it did so before the hub had registered it; so Send is closed once.
LeftIsRemoved ==
    \A c \in Clients :
        /\ c \in closed => c \notin clients /\ hub # <<"register", c>>
        /\ reader[c] \in {"closing", "ended"} =>
               c \notin clients \/ hub = <<"unregister", c>>

\* What the pump counted is still in the queue when it comes to receive it,
\* whatever is appended or closed meanwhile: it never blocks in the middle of a
\* frame, holding the messages it has already taken.
DrainNeverBlocks == \A c \in Clients : left[c] <= Len(send[c])

\* The messages a client has been written in frames, and all that it was sent.
Written(c) == UNION {Range(received[c][f]) : f \in DOMAIN received[c]}
SentTo(c) == Written(c) \cup Range(frame[c]) \cup Range(send[c])

\* Through queue, pump and frames, a client gets messages of its own user only,
\* and each at most once: within a frame, in two frames, in the frame the pump
\* is filling or in the queue.
OwnMessagesOnce ==
    \A c \in Clients :
        /\ \A m \in SentTo(c) : userOf[m] = userOf[c]
        /\ \A f \in DOMAIN received[c] : IsInjective(received[c][f])
        /\ \A f, g \in DOMAIN received[c] :
              f # g => Range(received[c][f]) \cap Range(received[c][g]) = {}
        /\ IsInjective(send[c]) /\ IsInjective(frame[c])
        /\ Range(send[c]) \cap (Range(frame[c]) \cup Written(c)) = {}
        /\ Range(frame[c]) \cap Written(c) = {}

\* A queued message is written, unless the connection ends: there is always again
\* a moment when no message is left in the queue or in an unfinished frame.
QueuedIsWritten ==
    \A c \in Clients :
        []<>(socket[c] = "closed" \/ (send[c] = <<>> /\ frame[c] = <<>>))

\* When a connection is over for one pump, the other one ends too and the hub
\* forgets the client, whatever broadcasts are under way.
ClosedIsCleanedUp ==
    \A c \in Clients :
        []<>(socket[c] = "closed" =>
             c \notin clients /\ reader[c] = "ended" /\ writer[c] = "ended")

\* README.md: a client that connects to /ws receives the pushes.  Its handler
\* gets past the registration.
UpgradedIsRegistered == \A c \in Clients : Registering(c) ~> reader[c] # "none"
=============================================================================
