------------------------- MODULE WebSocketHubProofs -------------------------
(***************************************************************************)
(* Proofs about WebSocketHub, for any clients, messages and queue size.    *)
(***************************************************************************)
EXTENDS WebSocketHub, SequenceTheorems, TLAPS

LEMMA QueueFacts ==
    ASSUME NEW S, NEW q \in Seq(S)
    PROVE  /\ Len(q) \in Nat
           /\ \A x \in S : Append(q, x) \in Seq(S) /\ Len(Append(q, x)) = Len(q) + 1
           /\ q # <<>> => /\ Head(q) \in S /\ Tail(q) \in Seq(S)
                          /\ Len(Tail(q)) = Len(q) - 1
           /\ \A x \in S : <<x>> \in Seq(S)
           /\ <<>> \in Seq(S) /\ Len(<<>>) = 0
OBVIOUS

LEMMA TypesHold == TypeOK /\ [Next]_vars => TypeOK'
<1> SUFFICES ASSUME TypeOK, [Next]_vars PROVE TypeOK'
  OBVIOUS
<1> USE HubAssumption
<1>1. ASSUME NEW c \in Clients, Upgrade(c) PROVE TypeOK'
  BY <1>1 DEF Upgrade, castVars, TypeOK
<1>2. ASSUME NEW c \in Clients, Handle(c) PROVE TypeOK'
  <2>1. CASE TakeRegister(c)
    BY <2>1 DEF TakeRegister, castVars, TypeOK
  <2>2. CASE TakeUnregister(c)
    BY <2>2 DEF TakeUnregister, castVars, TypeOK
  <2>3. CASE Register(c)
    BY <2>3 DEF Register, pumpVars, castVars, TypeOK
  <2>4. CASE Unregister(c)
    BY <2>4 DEF Unregister, RemoveClient, pumpVars, castVars, TypeOK
  <2> QED
    BY <1>2, <2>1, <2>2, <2>3, <2>4 DEF Handle
<1>3. ASSUME NEW c \in Clients, ReadPump(c) PROVE TypeOK'
  <2>1. CASE ReadFails(c)
    BY <2>1 DEF ReadFails, castVars, TypeOK
  <2>2. CASE ReaderCloses(c)
    BY <2>2 DEF ReaderCloses, castVars, TypeOK
  <2> QED
    BY <1>3, <2>1, <2>2 DEF ReadPump
<1>4. ASSUME NEW c \in Clients, WriterTakes(c) \/ DrainOne(c) PROVE TypeOK'
  <2>1. /\ Head(send[c]) \in Messages
        /\ Tail(send[c]) \in Seq(Messages)
        /\ Len(Tail(send[c])) = Len(send[c]) - 1
        /\ Len(send[c]) \in Nat /\ Len(send[c]) <= BufSize
    BY <1>4, QueueFacts DEF WriterTakes, DrainOne, TypeOK
  <2>2. send' = [send EXCEPT ![c] = Tail(send[c])]
    BY <1>4 DEF WriterTakes, DrainOne
  <2>3. send' \in [Clients -> Seq(Messages)] /\ \A d \in Clients : Len(send'[d]) <= BufSize
    BY <2>1, <2>2 DEF TypeOK
  <2>4. <<Head(send[c])>> \in Seq(Messages) /\ Append(frame[c], Head(send[c])) \in Seq(Messages)
    BY <2>1, QueueFacts DEF TypeOK
  <2>5. CASE WriterTakes(c)
    BY <2>3, <2>4, <2>5 DEF WriterTakes, castVars, TypeOK
  <2>6. CASE DrainOne(c)
    <3>1. left' \in [Clients -> 0..BufSize]
      BY <2>6 DEF DrainOne, TypeOK
    <3> QED
      BY <2>3, <2>4, <2>6, <3>1 DEF DrainOne, castVars, TypeOK
  <2> QED
    BY <1>4, <2>5, <2>6
<1>5. ASSUME NEW c \in Clients, CountQueue(c) PROVE TypeOK'
  <2>1. Len(send[c]) \in 0..BufSize
    BY QueueFacts DEF TypeOK
  <2> QED
    BY <1>5, <2>1 DEF CountQueue, castVars, TypeOK
<1>6. ASSUME NEW c \in Clients, WriteFrame(c) PROVE TypeOK'
  <2>1. Append(received[c], frame[c]) \in Seq(Seq(Messages)) /\ <<>> \in Seq(Messages)
    BY QueueFacts DEF TypeOK
  <2> QED
    BY <1>6, <2>1 DEF WriteFrame, castVars, TypeOK
<1>7. ASSUME NEW c \in Clients, WriterEnds(c) PROVE TypeOK'
  BY <1>7, QueueFacts DEF WriterEnds, castVars, TypeOK
<1>8. ASSUME NEW m \in Messages, Broadcast(m) \/ Return(m) PROVE TypeOK'
  <2>1. CASE Broadcast(m)
    <3>1. {c \in clients : userOf[c] = userOf[m]} \in SUBSET Clients
      BY DEF TypeOK
    <3> QED
      BY <2>1, <3>1 DEF Broadcast, pumpVars, TypeOK
  <2>2. CASE Return(m)
    BY <2>2 DEF Return, pumpVars, TypeOK
  <2> QED
    BY <1>8, <2>1, <2>2
<1>9. ASSUME NEW m \in Messages, NEW c \in Clients, CheckActive(m, c) PROVE TypeOK'
  BY <1>9 DEF CheckActive, pumpVars, TypeOK
<1>10. ASSUME NEW m \in Messages, Enqueue(m) PROVE TypeOK'
  <2>1. PICK c \in Clients : c = at[m]
    BY <1>10 DEF Enqueue, TypeOK
  <2>2. /\ Append(send[c], m) \in Seq(Messages)
        /\ Len(Append(send[c], m)) = Len(send[c]) + 1
        /\ Len(send[c]) \in Nat
    BY QueueFacts DEF TypeOK
  <2>3. send' \in [Clients -> Seq(Messages)] /\ \A d \in Clients : Len(send'[d]) <= BufSize
    <3>1. CASE Len(send[c]) < BufSize
      <4>1. send' = [send EXCEPT ![c] = Append(send[c], m)]
        BY <1>10, <2>1, <3>1 DEF Enqueue
      <4>2. Len(Append(send[c], m)) <= BufSize
        BY <2>2, <3>1
      <4> QED
        BY <2>2, <4>1, <4>2 DEF TypeOK
    <3>2. CASE ~(Len(send[c]) < BufSize)
      BY <1>10, <2>1, <3>2 DEF Enqueue, TypeOK
    <3> QED
      BY <3>1, <3>2
  <2>4. active' \subseteq Clients /\ at' \in [Messages -> Clients \cup {None}]
    BY <1>10 DEF Enqueue, TypeOK
  <2> QED
    BY <1>10, <2>3, <2>4 DEF Enqueue, pumpVars, TypeOK
<1>11. CASE UNCHANGED vars
  BY <1>11 DEF vars, pumpVars, castVars, TypeOK
<1> QED
  BY <1>1, <1>2, <1>3, <1>4, <1>5, <1>6, <1>7, <1>8, <1>9, <1>10, <1>11
     DEF Next, WritePump, PumpGoesOn, BroadcastMessage

\* Every variable is well typed in every reachable state of the hub, and the
\* queue of a client never holds more than its capacity.
THEOREM TypeCorrect == Spec => []TypeOK
<1>1. Init => TypeOK
  <2> SUFFICES ASSUME Init PROVE TypeOK
    OBVIOUS
  <2>1. <<>> \in Seq(Messages) /\ <<>> \in Seq(Seq(Messages)) /\ Len(<<>>) = 0
    BY QueueFacts
  <2>2. /\ send \in [Clients -> Seq(Messages)] /\ frame \in [Clients -> Seq(Messages)]
        /\ received \in [Clients -> Seq(Seq(Messages))]
        /\ left \in [Clients -> 0..BufSize]
    BY <2>1, HubAssumption DEF Init
  <2>3. /\ socket \in [Clients -> {"none", "open", "closed"}]
        /\ reader \in [Clients -> {"none", "reading", "leaving", "closing", "ended"}]
        /\ writer \in [Clients -> {"none", "waiting", "framing", "draining", "ended"}]
    BY DEF Init
  <2>4. /\ pc \in [Messages -> {"new", "sending", "done"}]
        /\ todo \in [Messages -> SUBSET Clients]
        /\ at \in [Messages -> Clients \cup {None}]
    BY DEF Init
  <2>5. \A c \in Clients : Len(send[c]) <= BufSize
    BY <2>1, HubAssumption DEF Init
  <2> QED
    BY <2>2, <2>3, <2>4, <2>5 DEF Init, TypeOK
<1> QED
  BY <1>1, TypesHold, PTL DEF Spec

-----------------------------------------------------------------------------
(* The count of writePump and the queue it counted.                        *)

\* The pump has something to receive only while it drains, and runs only once the
\* handler has got past the registration.
LeftIsCounted ==
    \A c \in Clients :
        /\ writer[c] # "draining" => left[c] = 0
        /\ reader[c] = "none" => writer[c] = "none"

LEMMA DrainStep ==
    TypeOK /\ DrainNeverBlocks /\ LeftIsCounted /\ [Next]_vars
       => (DrainNeverBlocks /\ LeftIsCounted)'
<1> SUFFICES ASSUME TypeOK, DrainNeverBlocks, LeftIsCounted, [Next]_vars
             PROVE  DrainNeverBlocks' /\ LeftIsCounted'
  OBVIOUS
<1>1. ASSUME UNCHANGED <<send, left, reader>>,
             \A c \in Clients : writer'[c] = "draining" \/ left[c] = 0,
             \A c \in Clients : writer'[c] = "none" <=> writer[c] = "none"
      PROVE  DrainNeverBlocks' /\ LeftIsCounted'
  BY <1>1 DEF DrainNeverBlocks, LeftIsCounted
<1>2. ASSUME UNCHANGED <<send, left, writer>>,
             \A c \in Clients : reader'[c] = "none" => reader[c] = "none"
      PROVE  DrainNeverBlocks' /\ LeftIsCounted'
  BY <1>2 DEF DrainNeverBlocks, LeftIsCounted
<1>3. ASSUME NEW c \in Clients, Upgrade(c) \/ Handle(c) \/ ReadPump(c)
      PROVE  DrainNeverBlocks' /\ LeftIsCounted'
  <2>1. CASE TakeRegister(c)
    BY <2>1 DEF TakeRegister, Registering, DrainNeverBlocks, LeftIsCounted, TypeOK
  <2>2. CASE ~TakeRegister(c)
    <3>1. UNCHANGED <<send, left, writer>>
      BY <1>3, <2>2 DEF Upgrade, Handle, TakeUnregister, Register, Unregister,
         RemoveClient, ReadPump, ReadFails, ReaderCloses, pumpVars
    <3>2. \/ reader' = reader
          \/ \E v \in {"closing", "leaving", "ended"} : reader' = [reader EXCEPT ![c] = v]
      BY <1>3, <2>2 DEF Upgrade, Handle, TakeUnregister, Register, Unregister,
         RemoveClient, ReadPump, ReadFails, ReaderCloses, pumpVars
    <3> QED
      BY <1>2, <3>1, <3>2 DEF TypeOK
  <2> QED
    BY <2>1, <2>2
<1>4. ASSUME NEW c \in Clients, WritePump(c) PROVE DrainNeverBlocks' /\ LeftIsCounted'
  <2>1. /\ send[c] # <<>> => Len(Tail(send[c])) = Len(send[c]) - 1
        /\ Len(send[c]) \in Nat /\ left[c] \in Nat
        /\ \A d \in Clients : left[d] \in Nat /\ Len(send[d]) \in Nat
    BY QueueFacts, HubAssumption DEF TypeOK
  <2>2. CASE WriterTakes(c)
    <3>1. left' = left /\ left[c] = 0 /\ reader' = reader
      BY <2>2 DEF WriterTakes, LeftIsCounted
    <3>2. \A d \in Clients : left'[d] <= Len(send'[d])
      BY <2>1, <2>2, <3>1 DEF WriterTakes, DrainNeverBlocks, TypeOK
    <3>3. LeftIsCounted'
      BY <2>2, <3>1 DEF WriterTakes, LeftIsCounted, TypeOK
    <3> QED
      BY <3>2, <3>3 DEF DrainNeverBlocks
  <2>3. CASE CountQueue(c)
    BY <2>1, <2>3 DEF CountQueue, DrainNeverBlocks, LeftIsCounted, TypeOK
  <2>4. CASE DrainOne(c)
    BY <2>1, <2>4 DEF DrainOne, DrainNeverBlocks, LeftIsCounted, TypeOK
  <2>5. CASE WriteFrame(c) \/ WriterEnds(c)
    BY <1>1, <2>5 DEF WriteFrame, WriterEnds, LeftIsCounted, TypeOK
  <2> QED
    BY <1>4, <2>2, <2>3, <2>4, <2>5 DEF WritePump, PumpGoesOn
<1>5. ASSUME NEW m \in Messages, BroadcastMessage(m) PROVE DrainNeverBlocks' /\ LeftIsCounted'
  <2>1. CASE Enqueue(m)
    <3>1. UNCHANGED <<left, writer, reader>>
      BY <2>1 DEF Enqueue, pumpVars
    <3>2. \A c \in Clients : Len(send'[c]) = Len(send[c]) \/ Len(send'[c]) = Len(send[c]) + 1
      <4>1. PICK c \in Clients : c = at[m]
        BY <2>1 DEF Enqueue, TypeOK
      <4>2. send' = send \/ send' = [send EXCEPT ![c] = Append(send[c], m)]
        BY <2>1, <4>1 DEF Enqueue
      <4>3. Len(Append(send[c], m)) = Len(send[c]) + 1
        BY QueueFacts DEF TypeOK
      <4> QED
        BY <4>2, <4>3 DEF TypeOK
    <3>3. \A c \in Clients : Len(send[c]) \in Nat /\ left[c] \in Nat
      BY QueueFacts, HubAssumption DEF TypeOK
    <3>4. DrainNeverBlocks'
      BY <3>1, <3>2, <3>3 DEF DrainNeverBlocks
    <3> QED
      BY <3>1, <3>4 DEF LeftIsCounted
  <2>2. CASE ~Enqueue(m)
    BY <1>2, <1>5, <2>2 DEF BroadcastMessage, Broadcast, CheckActive, Return, pumpVars
  <2> QED
    BY <2>1, <2>2
<1>6. CASE UNCHANGED vars
  BY <1>2, <1>6 DEF vars, pumpVars
<1> QED
  BY <1>3, <1>4, <1>5, <1>6 DEF Next

\* Whatever broadcasts append to a queue and whether or not the hub closes it,
\* the messages that a pump has counted are there when it receives them.
THEOREM CountedIsThere == Spec => []DrainNeverBlocks
<1>1. Init => DrainNeverBlocks /\ LeftIsCounted
  BY QueueFacts DEF Init, DrainNeverBlocks, LeftIsCounted
<1> QED
  BY <1>1, TypeCorrect, DrainStep, PTL DEF Spec

-----------------------------------------------------------------------------
(* The inductive invariant: a client goes through the hub once, and while  *)
(* a broadcast has a client in its hands the maps still hold it.           *)

\* Where a client stands with the hub, by the progress of its readPump.
Registration ==
    \A c \in Clients :
        /\ reader[c] = "none" => c \notin clients /\ hub # <<"register", c>>
        /\ reader[c] \in {"none", "reading", "leaving"} =>
               c \notin closed /\ hub # <<"unregister", c>>
        /\ reader[c] \in {"closing", "ended"} => hub # <<"register", c>>

\* A broadcast under way, its rest of clients and the one it is sending to.
CastHolds ==
    \A m \in Messages :
        /\ at[m] # None => pc[m] = "sending" /\ at[m] \in clients
        /\ pc[m] = "sending" => todo[m] \subseteq clients
        /\ pc[m] # "sending" => todo[m] = {}

IInv == Registration /\ LeftIsRemoved /\ CastHolds

\* Steps that leave the hub, the maps and the read pumps alone.
LEMMA HubUntouched ==
    ASSUME IInv, UNCHANGED <<hub, clients, closed, reader>>, CastHolds'
    PROVE  IInv'
BY DEF IInv, Registration, LeftIsRemoved

LEMMA StepPreserves == TypeOK /\ IInv /\ [Next]_vars => IInv'
<1> SUFFICES ASSUME TypeOK, IInv, [Next]_vars PROVE IInv'
  OBVIOUS
<1> USE HubAssumption
<1>1. ASSUME NEW c \in Clients, Upgrade(c) \/ WritePump(c) PROVE IInv'
  BY <1>1, HubUntouched DEF Upgrade, WritePump, PumpGoesOn, WriterTakes, CountQueue,
     DrainOne, WriteFrame, WriterEnds, castVars, IInv, CastHolds
<1>2. ASSUME NEW c \in Clients, TakeRegister(c) PROVE IInv'
  <2>1. Registration'
    BY <1>2 DEF TakeRegister, Registering, Idle, TypeOK, IInv, Registration
  <2>2. LeftIsRemoved'
    BY <1>2 DEF TakeRegister, Registering, Idle, TypeOK, IInv, Registration,
       LeftIsRemoved
  <2>3. CastHolds'
    BY <1>2 DEF TakeRegister, castVars, IInv, CastHolds
  <2> QED
    BY <2>1, <2>2, <2>3 DEF IInv
<1>3. ASSUME NEW c \in Clients, TakeUnregister(c) PROVE IInv'
  <2>1. Registration'
    BY <1>3 DEF TakeUnregister, Idle, TypeOK, IInv, Registration
  <2>2. LeftIsRemoved'
    BY <1>3 DEF TakeUnregister, Idle, TypeOK, IInv, Registration, LeftIsRemoved
  <2>3. CastHolds'
    BY <1>3 DEF TakeUnregister, castVars, IInv, CastHolds
  <2> QED
    BY <2>1, <2>2, <2>3 DEF IInv
<1>4. ASSUME NEW c \in Clients, Register(c) PROVE IInv'
  <2>1. Registration'
    BY <1>4 DEF Register, Idle, pumpVars, TypeOK, IInv, Registration
  <2>2. LeftIsRemoved'
    BY <1>4 DEF Register, Idle, pumpVars, TypeOK, IInv, Registration, LeftIsRemoved
  <2>3. CastHolds'
    BY <1>4 DEF Register, castVars, IInv, CastHolds
  <2> QED
    BY <2>1, <2>2, <2>3 DEF IInv
<1>5. ASSUME NEW c \in Clients, Unregister(c) PROVE IInv'
  <2>1. Registration'
    BY <1>5 DEF Unregister, RemoveClient, Idle, pumpVars, TypeOK, IInv, Registration
  <2>2. LeftIsRemoved'
    BY <1>5 DEF Unregister, RemoveClient, Idle, pumpVars, TypeOK, IInv, Registration,
       LeftIsRemoved
  <2>3. CastHolds'
    BY <1>5 DEF Unregister, RemoveClient, ReadLocked, castVars, TypeOK, IInv, CastHolds
  <2> QED
    BY <2>1, <2>2, <2>3 DEF IInv
<1>6. ASSUME NEW c \in Clients, ReadPump(c) PROVE IInv'
  <2>1. UNCHANGED <<hub, clients, closed, castVars>>
    BY <1>6 DEF ReadPump, ReadFails, ReaderCloses
  <2>2. \/ reader[c] = "reading" /\ reader' = [reader EXCEPT ![c] = "leaving"]
        \/ reader[c] = "closing" /\ reader' = [reader EXCEPT ![c] = "ended"]
    BY <1>6 DEF ReadPump, ReadFails, ReaderCloses
  <2>3. Registration'
    BY <2>1, <2>2 DEF TypeOK, IInv, Registration
  <2>4. LeftIsRemoved'
    BY <2>1, <2>2 DEF TypeOK, IInv, LeftIsRemoved
  <2>5. CastHolds'
    BY <2>1 DEF castVars, IInv, CastHolds
  <2> QED
    BY <2>3, <2>4, <2>5 DEF IInv
<1>7. ASSUME NEW m \in Messages, BroadcastMessage(m) PROVE IInv'
  <2>1. CASE Broadcast(m)
    <3>1. CastHolds'
      BY <2>1 DEF Broadcast, TypeOK, IInv, CastHolds
    <3> QED
      BY <2>1, <3>1, HubUntouched DEF Broadcast, pumpVars
  <2>2. ASSUME NEW c \in Clients, CheckActive(m, c) PROVE IInv'
    <3>1. pc[m] = "sending"
      BY <2>2 DEF CheckActive, IInv, CastHolds
    <3>2. CastHolds'
      BY <2>2, <3>1 DEF CheckActive, TypeOK, IInv, CastHolds
    <3> QED
      BY <2>2, <3>2, HubUntouched DEF CheckActive, pumpVars
  <2>3. CASE Enqueue(m)
    <3>1. CastHolds'
      BY <2>3 DEF Enqueue, TypeOK, IInv, CastHolds
    <3> QED
      BY <2>3, <3>1, HubUntouched DEF Enqueue, pumpVars
  <2>4. CASE Return(m)
    <3>1. CastHolds'
      BY <2>4 DEF Return, TypeOK, IInv, CastHolds
    <3> QED
      BY <2>4, <3>1, HubUntouched DEF Return, pumpVars
  <2> QED
    BY <1>7, <2>1, <2>2, <2>3, <2>4 DEF BroadcastMessage
<1>8. CASE UNCHANGED vars
  BY <1>8, HubUntouched DEF vars, pumpVars, castVars, IInv, CastHolds
<1> QED
  BY <1>1, <1>2, <1>3, <1>4, <1>5, <1>6, <1>7, <1>8 DEF Next, Handle

LEMMA Inductive == Spec => []IInv
<1>1. Init => IInv
  BY DEF Init, Idle, IInv, Registration, LeftIsRemoved, CastHolds
<1> QED
  BY <1>1, TypeCorrect, StepPreserves, PTL DEF Spec

\* No broadcast can panic: the hub closes a client's Send under the write lock,
\* after which no broadcast finds that client.
THEOREM NeverSendsOnClosed == Spec => []NoSendOnClosed
<1>1. TypeOK /\ IInv => NoSendOnClosed
  BY DEF TypeOK, IInv, LeftIsRemoved, CastHolds, NoSendOnClosed
<1> QED
  BY <1>1, TypeCorrect, Inductive, PTL

\* A client that has signed off is gone from the maps for good.
THEOREM LeavingIsFinal == Spec => []LeftIsRemoved
BY Inductive, PTL DEF IInv

-----------------------------------------------------------------------------
(* Every message on its way to a client, or sent to it, is in one place.   *)

\* What a broadcast has still to do is for clients of its user, each once.
Addressed ==
    /\ \A m \in Messages : at[m] # None => at[m] \notin todo[m]
    /\ \A m \in Messages, c \in Clients :
          c \in todo[m] \/ at[m] = c => userOf[m] = userOf[c]

\* A message that has reached a client is not on its way there once more.
NotAgain ==
    \A c \in Clients, m \in Messages :
        m \in SentTo(c) => pc[m] # "new" /\ c \notin todo[m] /\ at[m] # c

OnceInv == OwnMessagesOnce /\ Addressed /\ NotAgain

\* The empty queue, and the elements of one.
LEMMA QueueElements ==
    ASSUME NEW S, NEW q \in Seq(S)
    PROVE  Range(q) \subseteq S /\ Range(<<>>) = {} /\ IsInjective(<<>>)
<1>1. \A i \in DOMAIN q : q[i] \in S
  OBVIOUS
<1> QED
  BY <1>1 DEF Range, IsInjective

\* The elements of a queue that grows.
LEMMA AppendElements ==
    ASSUME NEW S, NEW q \in Seq(S), NEW x \in S
    PROVE  /\ Range(Append(q, x)) = Range(q) \cup {x}
           /\ IsInjective(q) /\ x \notin Range(q) => IsInjective(Append(q, x))
<1>1. /\ DOMAIN q = 1..Len(q) /\ Len(q) \in Nat
      /\ DOMAIN Append(q, x) = 1..(Len(q) + 1)
      /\ \A i \in 1..Len(q) : Append(q, x)[i] = q[i]
      /\ Append(q, x)[Len(q) + 1] = x
  OBVIOUS
<1>2. Range(Append(q, x)) = Range(q) \cup {x}
  BY <1>1 DEF Range
<1>3. ASSUME IsInjective(q), x \notin Range(q) PROVE IsInjective(Append(q, x))
  <2>1. \A i \in DOMAIN q : q[i] # x
    BY <1>3 DEF Range
  <2> QED
    BY <1>1, <1>3, <2>1 DEF IsInjective
<1> QED
  BY <1>2, <1>3

\* The elements of the rest of a queue.
LEMMA RestElements ==
    ASSUME NEW S, NEW q \in Seq(S), q # <<>>
    PROVE  /\ Head(q) \in S /\ Range(q) = {Head(q)} \cup Range(Tail(q))
           /\ IsInjective(q) => IsInjective(Tail(q)) /\ Head(q) \notin Range(Tail(q))
<1>1. /\ DOMAIN q = 1..Len(q) /\ Len(q) \in Nat \ {0}
      /\ Head(q) = q[1] /\ Head(q) \in S
      /\ DOMAIN Tail(q) = 1..(Len(q) - 1)
      /\ \A i \in 1..(Len(q) - 1) : Tail(q)[i] = q[i + 1]
  OBVIOUS
<1>2. \A i \in 1..(Len(q) - 1) : i + 1 \in DOMAIN q
  BY <1>1
<1>3. \A i \in DOMAIN q : i # 1 => i - 1 \in 1..(Len(q) - 1) /\ Tail(q)[i - 1] = q[i]
  BY <1>1
<1>4. Range(q) = {Head(q)} \cup Range(Tail(q))
  <2>1. \A i \in DOMAIN q : q[i] = Head(q) \/ \E j \in DOMAIN Tail(q) : q[i] = Tail(q)[j]
    BY <1>1, <1>3
  <2>2. \A y \in Range(q) : y = Head(q) \/ y \in Range(Tail(q))
    BY <2>1, Zenon DEF Range
  <2>3. 1 \in DOMAIN q /\ \A i \in DOMAIN Tail(q) : i + 1 \in DOMAIN q /\ Tail(q)[i] = q[i + 1]
    BY <1>1
  <2>4. \A y \in Range(Tail(q)) : y \in Range(q)
    BY <2>3, Zenon DEF Range
  <2>5. Head(q) \in Range(q)
    BY <1>1, <2>3, Zenon DEF Range
  <2> QED
    BY <2>2, <2>4, <2>5
<1>5. ASSUME IsInjective(q) PROVE IsInjective(Tail(q)) /\ Head(q) \notin Range(Tail(q))
  <2>1. \A i, j \in 1..(Len(q) - 1) : q[i + 1] = q[j + 1] => i = j
    <3>1. \A i, j \in 1..(Len(q) - 1) : q[i + 1] = q[j + 1] => i + 1 = j + 1
      BY <1>2, <1>5, Zenon DEF IsInjective
    <3> QED
      BY <1>1, <3>1
  <2>2. \A i \in 1..(Len(q) - 1) : q[i + 1] # q[1]
    BY <1>1, <1>2, <1>5 DEF IsInjective
  <2>3. \A i, j \in DOMAIN Tail(q) : Tail(q)[i] = Tail(q)[j] => i = j
    BY <1>1, <2>1
  <2>4. \A i \in DOMAIN Tail(q) : Tail(q)[i] # Head(q)
    BY <1>1, <2>2
  <2>5. IsInjective(Tail(q))
    BY <2>3, Zenon DEF IsInjective
  <2>6. Head(q) \notin Range(Tail(q))
    BY <2>4, Zenon DEF Range
  <2> QED
    BY <2>5, <2>6
<1> QED
  BY <1>1, <1>4, <1>5

\* What OwnMessagesOnce says of one client: its frames, the one that its pump is
\* filling and its queue.
InFrames(r) == UNION {Range(r[i]) : i \in DOMAIN r}
AllOf(r, f, q) == InFrames(r) \cup Range(f) \cup Range(q)

Distinct(r, f, q) ==
    /\ \A i \in DOMAIN r : IsInjective(r[i])
    /\ \A i, j \in DOMAIN r : i # j => Range(r[i]) \cap Range(r[j]) = {}
    /\ IsInjective(q) /\ IsInjective(f)
    /\ Range(q) \cap (Range(f) \cup InFrames(r)) = {}
    /\ Range(f) \cap InFrames(r) = {}

LEMMA OwnForm ==
    /\ OwnMessagesOnce <=>
          \A c \in Clients :
             /\ Distinct(received[c], frame[c], send[c])
             /\ \A m \in SentTo(c) : userOf[m] = userOf[c]
    /\ \A c \in Clients : SentTo(c) = AllOf(received[c], frame[c], send[c])
BY DEF OwnMessagesOnce, Distinct, SentTo, Written, AllOf, InFrames

\* The same, after a step.
LEMMA OwnFormNext ==
    /\ OwnMessagesOnce' <=>
          \A c \in Clients :
             /\ Distinct(received'[c], frame'[c], send'[c])
             /\ \A m \in SentTo(c)' : userOf'[m] = userOf'[c]
    /\ \A c \in Clients : SentTo(c)' = AllOf(received'[c], frame'[c], send'[c])
BY DEF OwnMessagesOnce, Distinct, SentTo, Written, AllOf, InFrames

\* The pump begins a frame with the first message of the queue.
LEMMA TakingKeeps ==
    ASSUME NEW r, NEW f, NEW q \in Seq(Messages), q # <<>>, Distinct(r, f, q)
    PROVE  /\ Distinct(r, <<Head(q)>>, Tail(q))
           /\ AllOf(r, <<Head(q)>>, Tail(q)) \subseteq AllOf(r, f, q)
<1>1. /\ Range(q) = {Head(q)} \cup Range(Tail(q))
      /\ IsInjective(Tail(q)) /\ Head(q) \notin Range(Tail(q))
  BY RestElements DEF Distinct
<1>2. Range(<<Head(q)>>) = {Head(q)} /\ IsInjective(<<Head(q)>>)
  BY DEF Range, IsInjective
<1> QED
  BY <1>1, <1>2 DEF Distinct, AllOf

\* The pump moves a message from the queue into the frame.
LEMMA DrainingKeeps ==
    ASSUME NEW r, NEW f \in Seq(Messages), NEW q \in Seq(Messages), q # <<>>,
           Distinct(r, f, q)
    PROVE  /\ Distinct(r, Append(f, Head(q)), Tail(q))
           /\ AllOf(r, Append(f, Head(q)), Tail(q)) \subseteq AllOf(r, f, q)
<1>1. /\ Head(q) \in Messages /\ Range(q) = {Head(q)} \cup Range(Tail(q))
      /\ IsInjective(Tail(q)) /\ Head(q) \notin Range(Tail(q))
  BY RestElements DEF Distinct
<1>2. Head(q) \notin Range(f) \cup InFrames(r)
  BY <1>1 DEF Distinct
<1>3. /\ Range(Append(f, Head(q))) = Range(f) \cup {Head(q)}
      /\ IsInjective(Append(f, Head(q)))
  BY <1>1, <1>2, AppendElements DEF Distinct
<1> QED
  BY <1>1, <1>2, <1>3 DEF Distinct, AllOf

\* The pump ends and takes the frame with it.
LEMMA EndingKeeps ==
    ASSUME NEW r, NEW f, NEW q, Distinct(r, f, q)
    PROVE  Distinct(r, <<>>, q) /\ AllOf(r, <<>>, q) \subseteq AllOf(r, f, q)
<1>1. Range(<<>>) = {} /\ IsInjective(<<>>)
  BY DEF Range, IsInjective
<1> QED
  BY <1>1 DEF Distinct, AllOf

\* The frame is written.
LEMMA WritingKeeps ==
    ASSUME NEW r \in Seq(Seq(Messages)), NEW f \in Seq(Messages), NEW q,
           Distinct(r, f, q)
    PROVE  /\ Distinct(Append(r, f), <<>>, q)
           /\ AllOf(Append(r, f), <<>>, q) \subseteq AllOf(r, f, q)
<1> DEFINE s == Append(r, f)
<1>1. /\ DOMAIN s = DOMAIN r \cup {Len(r) + 1} /\ Len(r) + 1 \notin DOMAIN r
      /\ \A i \in DOMAIN r : s[i] = r[i]
      /\ s[Len(r) + 1] = f
  OBVIOUS
<1>2. Range(<<>>) = {} /\ IsInjective(<<>>)
  BY DEF Range, IsInjective
<1> HIDE DEF s
<1>3. InFrames(s) = InFrames(r) \cup Range(f)
  BY <1>1 DEF InFrames
<1>4. \A i \in DOMAIN r : Range(r[i]) \subseteq InFrames(r)
  BY DEF InFrames
<1>5. \A i \in DOMAIN s : IsInjective(s[i])
  BY <1>1 DEF Distinct
<1>6. \A i, j \in DOMAIN s : i # j => Range(s[i]) \cap Range(s[j]) = {}
  BY <1>1, <1>4 DEF Distinct
<1>7. Distinct(s, <<>>, q)
  BY <1>2, <1>3, <1>5, <1>6 DEF Distinct
<1>8. AllOf(s, <<>>, q) \subseteq AllOf(r, f, q)
  BY <1>2, <1>3 DEF AllOf
<1> QED
  BY <1>7, <1>8 DEF s

\* A message that is nowhere at the client yet is queued.
LEMMA QueueingKeeps ==
    ASSUME NEW r, NEW f, NEW q \in Seq(Messages), NEW m \in Messages,
           Distinct(r, f, q), m \notin AllOf(r, f, q)
    PROVE  /\ Distinct(r, f, Append(q, m))
           /\ AllOf(r, f, Append(q, m)) = AllOf(r, f, q) \cup {m}
<1>1. IsInjective(q) /\ m \notin Range(q) \cup Range(f) \cup InFrames(r)
  BY DEF Distinct, AllOf
<1>2. Range(Append(q, m)) = Range(q) \cup {m} /\ IsInjective(Append(q, m))
  BY <1>1, AppendElements
<1>3. AllOf(r, f, Append(q, m)) = AllOf(r, f, q) \cup {m}
  BY <1>2 DEF AllOf
<1> QED
  BY <1>1, <1>2, <1>3 DEF Distinct

\* Steps that touch no message.
LEMMA MessagesUntouched ==
    ASSUME OnceInv, UNCHANGED <<userOf, send, frame, received, castVars>>
    PROVE  OnceInv'
BY DEF OnceInv, OwnMessagesOnce, Addressed, NotAgain, SentTo, Written, castVars

\* Steps of one client's writePump, which bring it nothing new.
LEMMA NothingNew ==
    ASSUME OnceInv, NEW c \in Clients, UNCHANGED <<userOf, castVars>>,
           \A d \in Clients \ {c} : /\ send'[d] = send[d] /\ frame'[d] = frame[d]
                                    /\ received'[d] = received[d],
           Distinct(received'[c], frame'[c], send'[c]),
           AllOf(received'[c], frame'[c], send'[c]) \subseteq
              AllOf(received[c], frame[c], send[c])
    PROVE  OnceInv'
<1>1. \A d \in Clients : SentTo(d)' \subseteq SentTo(d)
  <2>1. \A d \in Clients \ {c} : SentTo(d)' = SentTo(d)
    BY OwnForm, OwnFormNext
  <2> QED
    BY <2>1, OwnForm, OwnFormNext
<1>2. \A d \in Clients : Distinct(received'[d], frame'[d], send'[d])
  BY OwnForm DEF OnceInv
<1>3. OwnMessagesOnce'
  BY <1>1, <1>2, OwnForm, OwnFormNext DEF OnceInv
<1>4. Addressed' /\ NotAgain'
  BY <1>1 DEF OnceInv, Addressed, NotAgain, castVars
<1> QED
  BY <1>3, <1>4 DEF OnceInv

LEMMA OnceStep == TypeOK /\ IInv /\ OnceInv /\ [Next]_vars => OnceInv'
<1> SUFFICES ASSUME TypeOK, IInv, OnceInv, [Next]_vars PROVE OnceInv'
  OBVIOUS
<1> USE HubAssumption
<1>1. ASSUME NEW c \in Clients, Upgrade(c) \/ Handle(c) \/ ReadPump(c) PROVE OnceInv'
  BY <1>1, MessagesUntouched DEF Upgrade, Handle, TakeRegister, TakeUnregister, Register,
     Unregister, RemoveClient, ReadPump, ReadFails, ReaderCloses, pumpVars
<1>2. ASSUME NEW c \in Clients, WritePump(c) PROVE OnceInv'
  <2>0. /\ Distinct(received[c], frame[c], send[c]) /\ frame[c] \in Seq(Messages)
        /\ send[c] \in Seq(Messages) /\ received[c] \in Seq(Seq(Messages))
    BY OwnForm DEF OnceInv, TypeOK
  <2>1. CASE WriterTakes(c)
    <3>1. /\ send[c] # <<>> /\ frame'[c] = <<Head(send[c])>> /\ send'[c] = Tail(send[c])
          /\ received' = received /\ UNCHANGED <<userOf, castVars>>
          /\ \A d \in Clients \ {c} : send'[d] = send[d] /\ frame'[d] = frame[d]
      BY <2>1 DEF WriterTakes, TypeOK
    <3> QED
      <4>1. /\ Distinct(received[c], <<Head(send[c])>>, Tail(send[c]))
            /\ AllOf(received[c], <<Head(send[c])>>, Tail(send[c])) \subseteq
                  AllOf(received[c], frame[c], send[c])
        BY <2>0, <3>1, TakingKeeps, Zenon
      <4>2. /\ Distinct(received'[c], frame'[c], send'[c])
            /\ AllOf(received'[c], frame'[c], send'[c]) \subseteq
                  AllOf(received[c], frame[c], send[c])
        BY <3>1, <4>1, Zenon
      <4> QED
        BY <3>1, <4>2, NothingNew
  <2>2. CASE CountQueue(c)
    BY <2>2, MessagesUntouched DEF CountQueue
  <2>3. CASE DrainOne(c)
    <3>1. /\ send[c] # <<>> /\ frame'[c] = Append(frame[c], Head(send[c]))
          /\ send'[c] = Tail(send[c])
          /\ received' = received /\ UNCHANGED <<userOf, castVars>>
          /\ \A d \in Clients \ {c} : send'[d] = send[d] /\ frame'[d] = frame[d]
      BY <2>3 DEF DrainOne, TypeOK
    <3> QED
      <4>1. /\ Distinct(received[c], Append(frame[c], Head(send[c])), Tail(send[c]))
            /\ AllOf(received[c], Append(frame[c], Head(send[c])), Tail(send[c])) \subseteq
                  AllOf(received[c], frame[c], send[c])
        BY <2>0, <3>1, DrainingKeeps, Zenon
      <4>2. /\ Distinct(received'[c], frame'[c], send'[c])
            /\ AllOf(received'[c], frame'[c], send'[c]) \subseteq
                  AllOf(received[c], frame[c], send[c])
        BY <3>1, <4>1, Zenon
      <4> QED
        BY <3>1, <4>2, NothingNew
  <2>4. CASE WriteFrame(c)
    <3>1. /\ frame'[c] = <<>> /\ received'[c] = Append(received[c], frame[c])
          /\ send' = send /\ UNCHANGED <<userOf, castVars>>
          /\ \A d \in Clients \ {c} : frame'[d] = frame[d] /\ received'[d] = received[d]
      BY <2>4 DEF WriteFrame, TypeOK
    <3> QED
      <4>1. /\ Distinct(received'[c], frame'[c], send'[c])
            /\ AllOf(received'[c], frame'[c], send'[c]) \subseteq
                  AllOf(received[c], frame[c], send[c])
        BY <2>0, <3>1, WritingKeeps
      <4> QED
        BY <3>1, <4>1, NothingNew
  <2>5. CASE WriterEnds(c)
    <3>1. /\ frame'[c] = <<>> /\ UNCHANGED <<userOf, send, received, castVars>>
          /\ \A d \in Clients \ {c} : frame'[d] = frame[d]
      BY <2>5 DEF WriterEnds, TypeOK
    <3> QED
      BY <2>0, <3>1, EndingKeeps, NothingNew
  <2> QED
    BY <1>2, <2>1, <2>2, <2>3, <2>4, <2>5 DEF WritePump, PumpGoesOn
<1>3. ASSUME NEW m \in Messages, Broadcast(m) \/ Return(m) PROVE OnceInv'
  <2>1. UNCHANGED <<userOf, send, frame, received, at>> /\ at[m] = None
    BY <1>3 DEF Broadcast, Return, pumpVars, IInv, CastHolds
  <2>2. \A c \in Clients : SentTo(c)' = SentTo(c)
    BY <2>1 DEF SentTo, Written
  <2>3. OwnMessagesOnce'
    BY <2>1 DEF OnceInv, OwnMessagesOnce, SentTo, Written
  <2>4. CASE Broadcast(m)
    <3>1. Addressed'
      BY <2>1, <2>4 DEF Broadcast, OnceInv, Addressed, TypeOK
    <3>2. NotAgain'
      BY <2>1, <2>2, <2>4 DEF Broadcast, OnceInv, NotAgain, TypeOK
    <3> QED
      BY <2>3, <3>1, <3>2 DEF OnceInv
  <2>5. CASE Return(m)
    BY <2>1, <2>2, <2>3, <2>5 DEF Return, OnceInv, Addressed, NotAgain, TypeOK
  <2> QED
    BY <1>3, <2>4, <2>5
<1>4. ASSUME NEW m \in Messages, NEW c \in Clients, CheckActive(m, c) PROVE OnceInv'
  <2>1. UNCHANGED <<userOf, send, frame, received, pc>>
    BY <1>4 DEF CheckActive, pumpVars
  <2>2. \A d \in Clients : SentTo(d)' = SentTo(d)
    BY <2>1 DEF SentTo, Written
  <2>3. OwnMessagesOnce'
    BY <2>1 DEF OnceInv, OwnMessagesOnce, SentTo, Written
  <2>4. /\ at[m] = None /\ c \in todo[m]
        /\ todo' = [todo EXCEPT ![m] = @ \ {c}]
        /\ at' = [at EXCEPT ![m] = c] \/ at' = at
    BY <1>4 DEF CheckActive, TypeOK
  <2>5. Addressed'
    BY <2>1, <2>4 DEF OnceInv, Addressed, TypeOK
  <2>6. NotAgain'
    BY <2>1, <2>2, <2>4 DEF OnceInv, NotAgain, TypeOK
  <2> QED
    BY <2>3, <2>5, <2>6 DEF OnceInv
<1>5. ASSUME NEW m \in Messages, Enqueue(m) PROVE OnceInv'
  <2>1. PICK c \in Clients : c = at[m]
    BY <1>5 DEF Enqueue, TypeOK
  <2>2. /\ UNCHANGED <<userOf, frame, received, pc, todo>>
        /\ at' = [at EXCEPT ![m] = None]
        /\ send' = send \/ send' = [send EXCEPT ![c] = Append(send[c], m)]
    BY <1>5, <2>1 DEF Enqueue, pumpVars
  <2>3. /\ m \notin SentTo(c) /\ c \notin todo[m] /\ pc[m] # "new" /\ userOf[m] = userOf[c]
        /\ Distinct(received[c], frame[c], send[c])
        /\ send[c] \in Seq(Messages)
    <3>1. c # None
      BY HubAssumption
    <3>2. c \notin todo[m] /\ pc[m] = "sending" /\ userOf[m] = userOf[c] /\ m \notin SentTo(c)
      BY <2>1, <3>1 DEF OnceInv, Addressed, NotAgain, IInv, CastHolds
    <3> QED
      BY <3>2, OwnForm DEF OnceInv, TypeOK
  <2>4. Addressed'
    BY <2>2 DEF OnceInv, Addressed, TypeOK
  <2>5. CASE send' = send
    BY <2>2, <2>4, <2>5 DEF OnceInv, OwnMessagesOnce, NotAgain, SentTo, Written, TypeOK
  <2>6. CASE send' = [send EXCEPT ![c] = Append(send[c], m)]
    <3>1. \A d \in Clients : SentTo(d)' = AllOf(received'[d], frame'[d], send'[d])
      BY OwnFormNext
    <3>2. /\ SentTo(c)' = SentTo(c) \cup {m}
          /\ Distinct(received'[c], frame'[c], send'[c])
      <4>1. send'[c] = Append(send[c], m) /\ frame'[c] = frame[c] /\ received'[c] = received[c]
        BY <2>2, <2>6 DEF TypeOK
      <4>2. m \notin AllOf(received[c], frame[c], send[c])
        BY <2>3, OwnForm
      <4>3. /\ Distinct(received[c], frame[c], Append(send[c], m))
            /\ AllOf(received[c], frame[c], Append(send[c], m)) =
                  AllOf(received[c], frame[c], send[c]) \cup {m}
        BY <2>3, <4>2, QueueingKeeps
      <4> QED
        BY <3>1, <4>1, <4>3, OwnForm
    <3>3. \A d \in Clients \ {c} : /\ SentTo(d)' = SentTo(d)
                                    /\ Distinct(received'[d], frame'[d], send'[d])
      BY <2>2, <2>6, <3>1, OwnForm DEF OnceInv, TypeOK
    <3>4. OwnMessagesOnce'
      BY <2>2, <2>3, <3>2, <3>3, OwnForm, OwnFormNext DEF OnceInv
    <3>5. NotAgain'
      <4>1. \A n \in Messages \ {m} : at'[n] = at[n]
        BY <2>2 DEF TypeOK
      <4>2. at'[m] = None /\ \A d \in Clients : at'[m] # d
        BY <2>2 DEF TypeOK
      <4>3. ASSUME NEW d \in Clients, NEW n \in Messages, n \in SentTo(d)'
            PROVE  pc'[n] # "new" /\ d \notin todo'[n] /\ at'[n] # d
        <5>1. n \in SentTo(d) \/ (d = c /\ n = m)
          BY <3>2, <3>3, <4>3
        <5> QED
          BY <2>2, <2>3, <4>1, <4>2, <5>1 DEF OnceInv, NotAgain
      <4> QED
        BY <4>3 DEF NotAgain
    <3> QED
      BY <2>4, <3>4, <3>5 DEF OnceInv
  <2> QED
    BY <2>2, <2>5, <2>6
<1>6. CASE UNCHANGED vars
  BY <1>6, MessagesUntouched DEF vars, pumpVars
<1> QED
  BY <1>1, <1>2, <1>3, <1>4, <1>5, <1>6 DEF Next, BroadcastMessage

\* Every message that a client is sent is one of its user, and it is sent once.
THEOREM SentOnceToItsOwner == Spec => []OwnMessagesOnce
<1>1. Init => OnceInv
  <2> SUFFICES ASSUME Init PROVE OnceInv
    OBVIOUS
  <2>1. /\ Range(<<>>) = {} /\ IsInjective(<<>>) /\ DOMAIN <<>> = {}
    BY DEF Range, IsInjective
  <2>2. /\ \A m \in Messages : at[m] = None /\ todo[m] = {}
        /\ \A c \in Clients : received[c] = <<>> /\ send[c] = <<>> /\ frame[c] = <<>>
    BY DEF Init
  <2>3. \A c \in Clients : InFrames(received[c]) = {}
    BY <2>1, <2>2 DEF InFrames
  <2>4. \A c \in Clients : SentTo(c) = {} /\ Distinct(received[c], frame[c], send[c])
    BY <2>1, <2>2, <2>3, OwnForm DEF AllOf, Distinct
  <2>5. OwnMessagesOnce /\ NotAgain
    BY <2>4, OwnForm DEF NotAgain
  <2>6. Addressed
    BY <2>2, HubAssumption DEF Addressed
  <2> QED
    BY <2>5, <2>6 DEF OnceInv
<1>2. OnceInv => OwnMessagesOnce
  BY DEF OnceInv
<1> QED
  BY <1>1, <1>2, TypeCorrect, Inductive, OnceStep, PTL DEF Spec

-----------------------------------------------------------------------------
(* The program as main.go starts it, without Run                           *)

\* No client is registered, has a pump or has been written anything.
NobodyIsServed ==
    /\ clients = {}
    /\ \A c \in Clients : reader[c] = "none" /\ writer[c] = "none" /\ received[c] = <<>>

\* Without the hub no registration is ever received: every handler stays blocked
\* after the upgrade and no broadcast finds anybody (compare the hub_start run).
THEOREM NobodyIsServedWithoutHub ==
    ASSUME ~HubRuns PROVE Spec => []NobodyIsServed
<1> DEFINE Deaf == /\ hub = Idle /\ NobodyIsServed
                   /\ \A c \in Clients : left[c] = 0
                   /\ \A m \in Messages : at[m] = None /\ todo[m] = {}
<1>1. Init => Deaf
  BY DEF Init, NobodyIsServed
<1>2. TypeOK /\ Deaf /\ [Next]_vars => Deaf'
  <2> SUFFICES ASSUME TypeOK, Deaf, [Next]_vars PROVE Deaf'
    OBVIOUS
  <2>1. ASSUME NEW c \in Clients, Upgrade(c) PROVE Deaf'
    BY <2>1 DEF Upgrade, castVars, NobodyIsServed
  <2>2. ASSUME NEW c \in Clients PROVE ~Handle(c) /\ ~ReadPump(c) /\ ~WritePump(c)
    BY <2>2 DEF Handle, TakeRegister, TakeUnregister, Register, Unregister, RemoveClient,
       ReadPump, ReadFails, ReaderCloses, WritePump, PumpGoesOn, WriterTakes,
       CountQueue, DrainOne, WriteFrame, WriterEnds, Idle, NobodyIsServed
  <2>3. ASSUME NEW m \in Messages, BroadcastMessage(m) PROVE Deaf'
    <3>1. ~Enqueue(m) /\ \A c \in Clients : ~CheckActive(m, c)
      BY DEF Enqueue, CheckActive
    <3>2. CASE Broadcast(m)
      <4>1. {c \in clients : userOf[c] = userOf[m]} = {}
        BY DEF NobodyIsServed
      <4> QED
        BY <3>2, <4>1 DEF Broadcast, pumpVars, NobodyIsServed, TypeOK
    <3>3. CASE Return(m)
      BY <3>3 DEF Return, pumpVars, NobodyIsServed
    <3> QED
      BY <2>3, <3>1, <3>2, <3>3 DEF BroadcastMessage
  <2>4. CASE UNCHANGED vars
    BY <2>4 DEF vars, pumpVars, castVars, NobodyIsServed
  <2> QED
    BY <2>1, <2>2, <2>3, <2>4 DEF Next
<1>3. Deaf => NobodyIsServed
  OBVIOUS
<1> QED
  BY <1>1, <1>2, <1>3, TypeCorrect, PTL DEF Spec
=============================================================================
