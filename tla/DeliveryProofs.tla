--------------------------- MODULE DeliveryProofs ---------------------------
(***************************************************************************)
(* Proofs about Delivery, for every set of tasks and workers, all channel  *)
(* sizes and every retry limit.                                            *)
(***************************************************************************)
EXTENDS Delivery, TLAPS, FiniteSetTheorems

-----------------------------------------------------------------------------
(* Channels as sequences                                                   *)

\* Sending appends: the channel then holds one element more, and no element
\* twice when the new one was not there (the buffered send of Go).
LEMMA AppendFacts ==
    ASSUME NEW S, NEW s \in Seq(S), NEW e \in S
    PROVE  /\ Append(s, e) \in Seq(S)
           /\ Range(Append(s, e)) = Range(s) \cup {e}
           /\ IsInjective(s) /\ e \notin Range(s) => IsInjective(Append(s, e))
<1>1. Append(s, e) \in Seq(S)
  OBVIOUS
<1>2. /\ DOMAIN Append(s, e) = DOMAIN s \cup {Len(s) + 1}
      /\ \A i \in DOMAIN s : Append(s, e)[i] = s[i]
      /\ Append(s, e)[Len(s) + 1] = e
  OBVIOUS
<1>3. Range(Append(s, e)) = Range(s) \cup {e}
  BY <1>2 DEF Range
<1>4. IsInjective(s) /\ e \notin Range(s) => IsInjective(Append(s, e))
  BY <1>2 DEF Range, IsInjective
<1>5. QED
  BY <1>1, <1>3, <1>4

\* Receiving takes the oldest element, which is then gone from a channel that
\* does not hold it twice.
LEMMA TailFacts ==
    ASSUME NEW S, NEW s \in Seq(S), s # <<>>
    PROVE  /\ Tail(s) \in Seq(S)
           /\ Head(s) \in S
           /\ Head(s) \in Range(s)
           /\ Range(Tail(s)) \subseteq Range(s)
           /\ IsInjective(s) => /\ IsInjective(Tail(s))
                                /\ Range(Tail(s)) = Range(s) \ {Head(s)}
<1>1. /\ Tail(s) \in Seq(S) /\ Head(s) \in S
      /\ Head(s) = s[1] /\ 1 \in DOMAIN s
  OBVIOUS
<1>2. /\ DOMAIN s = 1 .. Len(s)
      /\ DOMAIN Tail(s) = 1 .. Len(s) - 1
      /\ Len(s) \in Nat \ {0}
      /\ \A i \in DOMAIN Tail(s) : Tail(s)[i] = s[i + 1]
  OBVIOUS
<1>3. Range(Tail(s)) = {s[i] : i \in 2 .. Len(s)}
  <2>1. ASSUME NEW x \in Range(Tail(s)) PROVE x \in {s[i] : i \in 2 .. Len(s)}
    <3>1. PICK i \in DOMAIN Tail(s) : x = Tail(s)[i]
      BY <2>1 DEF Range
    <3>2. x = s[i + 1] /\ i + 1 \in 2 .. Len(s)
      BY <1>2, <3>1
    <3>3. QED
      BY <3>2
  <2>2. ASSUME NEW i \in 2 .. Len(s) PROVE s[i] \in Range(Tail(s))
    <3>1. i - 1 \in DOMAIN Tail(s) /\ Tail(s)[i - 1] = s[i]
      BY <1>2
    <3>2. QED
      BY <3>1 DEF Range
  <2>3. QED
    BY <2>1, <2>2
<1>4. IsInjective(s) => IsInjective(Tail(s))
  <2>1. SUFFICES ASSUME IsInjective(s), NEW i \in DOMAIN Tail(s),
                        NEW j \in DOMAIN Tail(s), Tail(s)[i] = Tail(s)[j]
                 PROVE  i = j
    BY DEF IsInjective
  <2>2. i + 1 \in DOMAIN s /\ j + 1 \in DOMAIN s /\ i \in Int /\ j \in Int
    BY <1>2
  <2>3. s[i + 1] = s[j + 1]
    BY <1>2, <2>1
  <2>4. i + 1 = j + 1
    BY <2>1, <2>2, <2>3 DEF IsInjective
  <2>5. QED
    BY <2>2, <2>4
<1>5. IsInjective(s) => \A i \in 2 .. Len(s) : s[i] # s[1]
  BY <1>1, <1>2 DEF IsInjective
<1>6. Range(s) = {s[1]} \cup {s[i] : i \in 2 .. Len(s)}
  BY <1>1, <1>2 DEF Range
<1>7. QED
  BY <1>1, <1>3, <1>4, <1>5, <1>6

-----------------------------------------------------------------------------
(* What each hand-over does to the channels and the hands                  *)

Pipe == /\ chan \in [Channels -> Seq(Tasks)]
        /\ held \in [Goroutines -> SUBSET Tasks]
        /\ SingleCopy

\* A receive moves the oldest task of a channel into the receiver's hand.
LEMMA ReceiveFacts ==
    ASSUME Pipe, NEW g \in Goroutines, NEW c \in Channels, Receive(g, c)
    PROVE  /\ Pipe'
           /\ Head(chan[c]) \in Tasks
           /\ Head(chan[c]) \in Range(chan[c])
           /\ \A d \in Channels : Range(chan[d])' \subseteq Range(chan[d])
           /\ Head(chan[c]) \notin Range(chan[c])'
           /\ \A k \in Goroutines : held'[k] =
                  IF k = g THEN held[g] \cup {Head(chan[c])} ELSE held[k]
           /\ \A u \in Tasks : InFlight(u)' <=> InFlight(u)
<1> DEFINE h == Head(chan[c])
<1>1. /\ chan[c] \in Seq(Tasks) /\ chan[c] # <<>> /\ IsInjective(chan[c])
      /\ chan' = [chan EXCEPT ![c] = Tail(chan[c])]
      /\ held' = [held EXCEPT ![g] = held[g] \cup {h}]
  BY DEF Pipe, SingleCopy, Receive
<1>2. /\ Tail(chan[c]) \in Seq(Tasks) /\ h \in Tasks /\ h \in Range(chan[c])
      /\ IsInjective(Tail(chan[c]))
      /\ Range(Tail(chan[c])) = Range(chan[c]) \ {h}
  BY <1>1, TailFacts
<1> HIDE DEF h
<1>3. \A d \in Channels : chan'[d] = IF d = c THEN Tail(chan[c]) ELSE chan[d]
  BY <1>1 DEF Pipe
<1>4. \A k \in Goroutines : held'[k] = IF k = g THEN held[g] \cup {h} ELSE held[k]
  BY <1>1 DEF Pipe
<1>5. \A d \in Channels : /\ Range(chan'[d]) \subseteq Range(chan[d])
                          /\ h \notin Range(chan'[d])
                          /\ IsInjective(chan'[d])
  BY <1>2, <1>3 DEF Pipe, SingleCopy
<1>6. \A k \in Goroutines : h \notin held[k]
  BY <1>2 DEF Pipe, SingleCopy
<1>7. SingleCopy'
  <2>1. \A c1, d1 \in Channels : c1 # d1 => Range(chan'[c1]) \cap Range(chan'[d1]) = {}
    BY <1>5 DEF Pipe, SingleCopy
  <2>2. \A k, l \in Goroutines : k # l => held'[k] \cap held'[l] = {}
    BY <1>4, <1>6 DEF Pipe, SingleCopy
  <2>3. \A c1 \in Channels, k \in Goroutines : Range(chan'[c1]) \cap held'[k] = {}
    BY <1>4, <1>5 DEF Pipe, SingleCopy
  <2>4. QED
    BY <1>5, <2>1, <2>2, <2>3 DEF SingleCopy
<1>8. Pipe'
  BY <1>1, <1>2, <1>7 DEF Pipe
<1>9. \A u \in Tasks : InFlight(u)' <=> InFlight(u)
  <2>1. \A u \in Tasks : InFlight(u)' => InFlight(u)
    BY <1>2, <1>4, <1>5 DEF InFlight
  <2>2. \A d \in Channels : Range(chan[d]) \subseteq Range(chan'[d]) \cup {h}
    BY <1>2, <1>3
  <2>3. h \in held'[g] /\ \A k \in Goroutines : held[k] \subseteq held'[k]
    BY <1>4
  <2>4. QED
    BY <2>1, <2>2, <2>3 DEF InFlight
<1>10. QED
  BY <1>2, <1>4, <1>5, <1>8, <1>9 DEF h

\* A send moves a task from the sender's hand to the end of a channel.
LEMMA SendFacts ==
    ASSUME Pipe, NEW g \in Goroutines, NEW c \in Channels, NEW t \in Tasks,
           Send(g, t, c)
    PROVE  /\ Pipe'
           /\ \A d \in Channels : Range(chan[d])' \subseteq
                   Range(chan[d]) \cup (IF d = c THEN {t} ELSE {})
           /\ \A k \in Goroutines :
                  held'[k] = IF k = g THEN held[g] \ {t} ELSE held[k]
           /\ \A u \in Tasks : InFlight(u)' <=> InFlight(u)
<1>1. /\ chan[c] \in Seq(Tasks) /\ IsInjective(chan[c])
      /\ chan' = [chan EXCEPT ![c] = Append(chan[c], t)]
      /\ held' = [held EXCEPT ![g] = held[g] \ {t}]
      /\ t \in held[g]
  BY DEF Pipe, SingleCopy, Send
<1>2. \A d \in Channels : t \notin Range(chan[d])
  BY <1>1 DEF Pipe, SingleCopy
<1>3. /\ Append(chan[c], t) \in Seq(Tasks)
      /\ IsInjective(Append(chan[c], t))
      /\ Range(Append(chan[c], t)) = Range(chan[c]) \cup {t}
  BY <1>1, <1>2, AppendFacts
<1>4. \A d \in Channels : chan'[d] = IF d = c THEN Append(chan[c], t) ELSE chan[d]
  BY <1>1 DEF Pipe
<1>5. \A k \in Goroutines : held'[k] = IF k = g THEN held[g] \ {t} ELSE held[k]
  BY <1>1 DEF Pipe
<1>6. \A d \in Channels :
          /\ Range(chan'[d]) \subseteq Range(chan[d]) \cup {t}
          /\ d # c => Range(chan'[d]) = Range(chan[d])
          /\ IsInjective(chan'[d])
  BY <1>3, <1>4 DEF Pipe, SingleCopy
<1>7. \A k \in Goroutines : t \notin held'[k] /\ held'[k] \subseteq held[k]
  BY <1>1, <1>5 DEF Pipe, SingleCopy
<1>8. SingleCopy'
  <2>1. \A c1, d1 \in Channels : c1 # d1 => Range(chan'[c1]) \cap Range(chan'[d1]) = {}
    BY <1>2, <1>6 DEF Pipe, SingleCopy
  <2>2. \A k, l \in Goroutines : k # l => held'[k] \cap held'[l] = {}
    BY <1>7 DEF Pipe, SingleCopy
  <2>3. \A c1 \in Channels, k \in Goroutines : Range(chan'[c1]) \cap held'[k] = {}
    BY <1>6, <1>7 DEF Pipe, SingleCopy
  <2>4. QED
    BY <1>6, <2>1, <2>2, <2>3 DEF SingleCopy
<1>9. Pipe'
  BY <1>1, <1>3, <1>8 DEF Pipe
<1>10. \A u \in Tasks : InFlight(u)' <=> InFlight(u)
  <2>1. \A u \in Tasks : InFlight(u)' => InFlight(u)
    BY <1>1, <1>6, <1>7 DEF InFlight
  <2>2. t \in Range(chan'[c]) /\ \A d \in Channels : Range(chan[d]) \subseteq Range(chan'[d])
    BY <1>3, <1>4
  <2>3. \A k \in Goroutines : held[k] \subseteq held'[k] \cup {t}
    BY <1>5
  <2>4. QED
    BY <2>1, <2>2, <2>3 DEF InFlight
<1>11. QED
  BY <1>5, <1>6, <1>9, <1>10

\* A spawned goroutine takes over its parent's task.
LEMMA SpawnFacts ==
    ASSUME Pipe, NEW g \in Goroutines, NEW s \in Goroutines, g # s,
           NEW t \in Tasks, Spawn(g, s, t)
    PROVE  /\ Pipe'
           /\ \A k \in Goroutines \ {s} :
                  held'[k] = IF k = g THEN held[g] \ {t} ELSE held[k]
           /\ \A u \in Tasks : InFlight(u)' <=> InFlight(u)
<1>1. /\ held' = [held EXCEPT ![g] = held[g] \ {t}, ![s] = held[s] \cup {t}]
      /\ chan' = chan /\ t \in held[g]
  BY DEF Spawn
<1>2. \A k \in Goroutines : held'[k] = CASE k = g -> held[g] \ {t}
                                         [] k = s -> held[s] \cup {t}
                                         [] OTHER -> held[k]
  BY <1>1 DEF Pipe
<1>3. \A k \in Goroutines : k # g => t \notin held[k]
  BY <1>1 DEF Pipe, SingleCopy
<1>4. \A d \in Channels : t \notin Range(chan[d])
  BY <1>1 DEF Pipe, SingleCopy
<1>5. SingleCopy'
  BY <1>1, <1>2, <1>3, <1>4 DEF Pipe, SingleCopy
<1>6. Pipe'
  BY <1>1, <1>2, <1>5 DEF Pipe
<1>7. /\ t \in held'[s]
      /\ \A k \in Goroutines : /\ held[k] \subseteq held'[k] \cup {t}
                              /\ held'[k] \subseteq held[k] \cup {t}
  BY <1>2
<1>8. \A u \in Tasks : InFlight(u)' <=> InFlight(u)
  BY <1>1, <1>7 DEF InFlight
<1>9. QED
  BY <1>2, <1>6, <1>8

\* A task that its holder releases is nowhere any more.
LEMMA ReleaseFacts ==
    ASSUME Pipe, NEW g \in Goroutines, NEW t \in Tasks, Release(g, t)
    PROVE  /\ Pipe'
           /\ \A k \in Goroutines :
                  held'[k] = IF k = g THEN held[g] \ {t} ELSE held[k]
           /\ \A u \in Tasks : InFlight(u)' <=> InFlight(u) /\ u # t
<1>1. held' = [held EXCEPT ![g] = held[g] \ {t}] /\ chan' = chan /\ t \in held[g]
  BY DEF Release
<1>2. \A k \in Goroutines : held'[k] = IF k = g THEN held[g] \ {t} ELSE held[k]
  BY <1>1 DEF Pipe
<1>3. \A k \in Goroutines : t \notin held'[k] /\ held'[k] \subseteq held[k]
  BY <1>1, <1>2 DEF Pipe, SingleCopy
<1>4. \A d \in Channels : t \notin Range(chan[d])
  BY <1>1 DEF Pipe, SingleCopy
<1>5. SingleCopy'
  BY <1>1, <1>3 DEF Pipe, SingleCopy
<1>6. Pipe'
  BY <1>1, <1>3, <1>5 DEF Pipe
<1>7. \A u \in Tasks : InFlight(u)' <=> InFlight(u) /\ u # t
  <2>1. \A u \in Tasks : InFlight(u)' => InFlight(u) /\ u # t
    BY <1>1, <1>3, <1>4 DEF InFlight
  <2>2. \A k \in Goroutines : held[k] \subseteq held'[k] \cup {t}
    BY <1>2
  <2>3. QED
    BY <1>1, <2>1, <2>2 DEF InFlight
<1>8. QED
  BY <1>2, <1>6, <1>7
-----------------------------------------------------------------------------
(* The first inductive invariant                                          *)

\* Every variable but the channels and the hands has its type.
RestOK ==
    /\ pc \in [Loops -> Queues \cup {"idle", "place", "scan", "putBack", "send",
                         "check", "insert", "touch", "push", "schedule"}]
    /\ tried \in [Placers -> SUBSET Workers]
    /\ client \in [Tasks -> {"idle", "sending", "sent", "accepted", "rejected"}]
    /\ retries \in [Tasks -> Nat]
    /\ due \in [Tasks -> BOOLEAN]
    /\ expired \in [Tasks -> BOOLEAN]
    /\ stored \in [Tasks -> BOOLEAN]
    /\ pushes \in [Tasks -> Nat]
    /\ outcome \in [Tasks -> {"pending", "delivered", "abandoned"}]
    /\ stats \in [received : Nat, delivered : Nat, failed : Nat, retried : Nat]

\* Only a task that was sent is ever counted by a goroutine of the pipeline.
CountedWasSent ==
    \A t \in Tasks : outcome[t] # "pending" => client[t] \in {"sent", "accepted"}

Fates == ResolvedIsGone /\ CountedWasSent

\* SingleCopy is inductive only together with ResolvedIsGone: the submitter's
\* send would otherwise add a second copy of a task already on its way.  And
\* ResolvedIsGone needs CountedWasSent: what is sent was not counted before.
IInv == TypeOK /\ SingleCopy /\ Fates

LEMMA IInvParts == IInv <=> Pipe /\ RestOK /\ Fates
  BY DEF IInv, TypeOK, Pipe, RestOK

\* Counting adds one to one of the counters.
LEMMA CountFacts ==
    ASSUME RestOK, NEW s \in {"received", "delivered", "failed", "retried"},
           Count(s)
    PROVE  stats' \in [received : Nat, delivered : Nat, failed : Nat, retried : Nat]
  BY DEF RestOK, Count

\* The submitter's send adds a task that was nowhere.
LEMMA EnqueueFacts ==
    ASSUME IInv, NEW t \in Tasks, Enqueue(t)
    PROVE  Pipe' /\ \A u \in Tasks : InFlight(u)' <=> InFlight(u) \/ u = t
<1>1. /\ "inputChan" \in Channels
      /\ chan' = [chan EXCEPT !["inputChan"] = Append(chan["inputChan"], t)]
      /\ held' = held /\ ~InFlight(t) /\ Pipe
  BY IInvParts DEF Enqueue, Fates, ResolvedIsGone, Channels
<1>2. /\ \A d \in Channels : t \notin Range(chan[d])
      /\ \A k \in Goroutines : t \notin held[k]
  BY <1>1 DEF InFlight
<1>3. /\ chan["inputChan"] \in Seq(Tasks) /\ IsInjective(chan["inputChan"])
  BY <1>1 DEF Pipe, SingleCopy
<1>4. /\ Append(chan["inputChan"], t) \in Seq(Tasks)
      /\ IsInjective(Append(chan["inputChan"], t))
      /\ Range(Append(chan["inputChan"], t)) = Range(chan["inputChan"]) \cup {t}
  BY <1>2, <1>3, AppendFacts, <1>1
<1>5. \A d \in Channels : /\ Range(chan'[d]) \subseteq Range(chan[d]) \cup {t}
                          /\ d # "inputChan" => Range(chan'[d]) = Range(chan[d])
                          /\ IsInjective(chan'[d])
  BY <1>1, <1>4 DEF Pipe, SingleCopy
<1>6. SingleCopy'
  <2>1. \A c1, d1 \in Channels : c1 # d1 => Range(chan'[c1]) \cap Range(chan'[d1]) = {}
    BY <1>1, <1>2, <1>5 DEF Pipe, SingleCopy
  <2>2. \A c1 \in Channels, k \in Goroutines : Range(chan'[c1]) \cap held'[k] = {}
    BY <1>1, <1>2, <1>5 DEF Pipe, SingleCopy
  <2>3. QED
    BY <1>1, <1>5, <2>1, <2>2 DEF Pipe, SingleCopy
<1>7. Pipe'
  BY <1>1, <1>4, <1>6 DEF Pipe
<1>8. \A u \in Tasks : InFlight(u)' <=> InFlight(u) \/ u = t
  <2>1. \A u \in Tasks : InFlight(u)' => InFlight(u) \/ u = t
    BY <1>1, <1>5 DEF InFlight
  <2>2. /\ t \in Range(chan'["inputChan"])
        /\ \A d \in Channels : Range(chan[d]) \subseteq Range(chan'[d])
    BY <1>1, <1>4 DEF Pipe
  <2>3. QED
    BY <1>1, <2>1, <2>2 DEF InFlight
<1>9. QED
  BY <1>7, <1>8

\* A step that brings no task in, and changes neither what the client knows nor
\* what was counted, leaves the fates alone.
LEMMA QuietStep ==
    ASSUME Fates, client' = client, outcome' = outcome,
           \A u \in Tasks : InFlight(u)' => InFlight(u)
    PROVE  Fates'
  BY DEF Fates, ResolvedIsGone, CountedWasSent

\* Channels and goroutines by name.
LEMMA Names ==
    /\ \A w \in Workers : w \in Channels /\ w \in Goroutines
    /\ \A c \in Queues : c \in Channels
    /\ \A l \in Loops : l \in Goroutines
    /\ \A t \in Tasks : QueueOf(t) \in Channels
    /\ "inputChan" \in Channels /\ "retryQueue" \in Channels
    /\ "workerChan" \in Channels
    /\ "runMainLoop" \in Goroutines /\ "runQueueManager" \in Goroutines
    /\ "runRetryManager" \in Goroutines /\ "retryWorker" \in Goroutines
    /\ "requeue" \in Goroutines /\ "resend" \in Goroutines
    /\ "reschedule" \in Goroutines
  BY DEF Channels, Queues, Goroutines, Placers, Spawned, Loops, QueueOf

\* Every step keeps the invariant: each hand-over by its own facts, and a task is
\* counted only in the step that releases its one copy.
LEMMA IInvStep == IInv /\ [Next]_vars => IInv'
<1> SUFFICES ASSUME IInv, [Next]_vars
             PROVE  Pipe' /\ RestOK' /\ Fates'
  BY DEF IInv, TypeOK, Pipe, RestOK
<1>0. Pipe /\ RestOK /\ Fates
  BY IInvParts
<1>1. ASSUME NEW t \in Tasks, Reject(t) PROVE Pipe' /\ RestOK' /\ Fates'
  <2>1. Pipe' /\ \A u \in Tasks : InFlight(u)' => InFlight(u)
    BY <1>0, <1>1 DEF Reject, pipeline, Pipe, SingleCopy, InFlight
  <2>2. RestOK'
    BY <1>0, <1>1 DEF Reject, Count, task, RestOK,
           Loops, Placers, Queues
  <2>3. Fates'
    BY <1>0, <1>1, <2>1 DEF Reject, task, Fates, ResolvedIsGone, CountedWasSent, RestOK
  <2>4. QED
    BY <2>1, <2>2, <2>3
<1>2. ASSUME NEW t \in Tasks, Accept(t) PROVE Pipe' /\ RestOK' /\ Fates'
  <2>1. Pipe' /\ \A u \in Tasks : InFlight(u)' => InFlight(u)
    BY <1>0, <1>2 DEF Accept, pipeline, Pipe, SingleCopy, InFlight
  <2>2. RestOK'
    BY <1>0, <1>2 DEF Accept, task, RestOK,
           Loops, Placers, Queues
  <2>3. Fates'
    BY <1>0, <1>2, <2>1 DEF Accept, task, Fates, ResolvedIsGone, CountedWasSent, RestOK
  <2>4. QED
    BY <2>1, <2>2, <2>3
<1>3. ASSUME NEW t \in Tasks, Enqueue(t) PROVE Pipe' /\ RestOK' /\ Fates'
  <2>1. Pipe' /\ \A u \in Tasks : InFlight(u)' => InFlight(u) \/ u = t
    BY <1>3, EnqueueFacts
  <2>2. RestOK'
    BY <1>0, <1>3 DEF Enqueue, task, RestOK,
           Loops, Placers, Queues
  <2>3. Fates'
    BY <1>0, <1>3, <2>1 DEF Enqueue, task, Fates, ResolvedIsGone, CountedWasSent, RestOK
  <2>4. QED
    BY <2>1, <2>2, <2>3
<1>4. ASSUME NEW t \in Tasks, SubmitTimeout(t) PROVE Pipe' /\ RestOK' /\ Fates'
  <2>1. Pipe' /\ \A u \in Tasks : InFlight(u)' => InFlight(u)
    BY <1>0, <1>4 DEF SubmitTimeout, pipeline, Pipe, SingleCopy, InFlight
  <2>2. RestOK'
    BY <1>0, <1>4 DEF SubmitTimeout, Count, task, RestOK,
           Loops, Placers, Queues
  <2>3. Fates'
    BY <1>0, <1>4, <2>1 DEF SubmitTimeout, task, Fates, ResolvedIsGone,
       CountedWasSent, RestOK
  <2>4. QED
    BY <2>1, <2>2, <2>3
<1>5. ASSUME NEW t \in Tasks, Acknowledge(t) PROVE Pipe' /\ RestOK' /\ Fates'
  <2>1. Pipe' /\ \A u \in Tasks : InFlight(u)' => InFlight(u)
    BY <1>0, <1>5 DEF Acknowledge, pipeline, Pipe, SingleCopy, InFlight
  <2>2. RestOK'
    BY <1>0, <1>5 DEF Acknowledge, Count, task, RestOK,
           Loops, Placers, Queues
  <2>3. Fates'
    BY <1>0, <1>5, <2>1 DEF Acknowledge, task, Fates, ResolvedIsGone,
       CountedWasSent, RestOK
  <2>4. QED
    BY <2>1, <2>2, <2>3
<1>6. CASE MainTake
  <2>1. Pipe' /\ \A u \in Tasks : InFlight(u)' => InFlight(u)
    BY <1>0, <1>6, Names, ReceiveFacts
       DEF MainTake, Pipe, Placers, Spawned, Loops, Queues
  <2>2. RestOK'
    BY <1>0, <1>6 DEF MainTake, task, RestOK,
           Loops, Placers, Queues
  <2>3. Fates'
    BY <1>0, <1>6, <2>1, QuietStep DEF MainTake, task
  <2>4. QED
    BY <2>1, <2>2, <2>3
<1>7. CASE MainDispatch
  <2>1. Pipe' /\ \A u \in Tasks : InFlight(u)' => InFlight(u)
    BY <1>0, <1>7, Names, SendFacts
       DEF MainDispatch, Pipe, Placers, Spawned, Loops, Queues
  <2>2. RestOK'
    BY <1>0, <1>7 DEF MainDispatch, task, RestOK,
           Loops, Placers, Queues
  <2>3. Fates'
    BY <1>0, <1>7, <2>1, QuietStep DEF MainDispatch, task
  <2>4. QED
    BY <2>1, <2>2, <2>3
<1>8. CASE MainDrop
  <2>1. PICK t \in Tasks : /\ Release("runMainLoop", t)
                           /\ outcome' = [outcome EXCEPT ![t] = "abandoned"]
    BY <1>0, <1>8, Names DEF MainDrop, Pipe, Loops
  <2>2. Pipe' /\ \A u \in Tasks : InFlight(u)' => InFlight(u) /\ u # t
    BY <1>0, <2>1, Names, ReleaseFacts
  <2>3. RestOK'
    <3>1. Count("failed")
      BY <1>8 DEF MainDrop
    <3>2. outcome' \in [Tasks -> {"pending", "delivered", "abandoned"}]
      BY <1>0, <2>1 DEF RestOK
    <3>3. pushes' \in [Tasks -> Nat]
      BY <1>0, <1>8 DEF MainDrop, RestOK, Pipe, Loops
    <3>4. pc' \in [Loops -> Queues \cup {"idle", "place", "scan", "putBack", "send",
                         "check", "insert", "touch", "push", "schedule"}]
      BY <1>0, <1>8 DEF MainDrop, Goto, RestOK
    <3>5. QED
      BY <1>0, <1>8, <3>1, <3>2, <3>3, <3>4, CountFacts DEF MainDrop, RestOK
  <2>4. InFlight(t)
    BY <2>1, Names DEF Release, InFlight, Loops
  <2>5. Fates'
    BY <1>0, <1>8, <2>1, <2>2, <2>4 DEF MainDrop, Fates, ResolvedIsGone,
       CountedWasSent, RestOK
  <2>6. QED
    BY <2>2, <2>3, <2>5
<1>9. CASE QueueTick
  <2>1. Pipe' /\ \A u \in Tasks : InFlight(u)' => InFlight(u)
    BY <1>0, <1>9 DEF QueueTick, pipeline, Pipe, SingleCopy, InFlight
  <2>2. RestOK'
    BY <1>0, <1>9 DEF QueueTick, Goto, task, RestOK,
           Loops, Placers, Queues
  <2>3. Fates'
    BY <1>0, <1>9, <2>1, QuietStep DEF QueueTick, task
  <2>4. QED
    BY <2>1, <2>2, <2>3
<1>10. CASE PollTakes
  <2>1. Pipe' /\ \A u \in Tasks : InFlight(u)' => InFlight(u)
    BY <1>0, <1>10, Names, ReceiveFacts
       DEF PollTakes, Pipe, Placers, Spawned, Loops, Queues
  <2>2. RestOK'
    BY <1>0, <1>10 DEF PollTakes, Goto, task, RestOK,
           Loops, Placers, Queues
  <2>3. Fates'
    BY <1>0, <1>10, <2>1, QuietStep DEF PollTakes, task
  <2>4. QED
    BY <2>1, <2>2, <2>3
<1>11. CASE PollFindsNothing
  <2>1. Pipe' /\ \A u \in Tasks : InFlight(u)' => InFlight(u)
    BY <1>0, <1>11 DEF PollFindsNothing, pipeline, Pipe, SingleCopy, InFlight
  <2>2. RestOK'
    BY <1>0, <1>11 DEF PollFindsNothing, Goto, task, RestOK,
           Loops, Placers, Queues
  <2>3. Fates'
    BY <1>0, <1>11, <2>1, QuietStep DEF PollFindsNothing, task
  <2>4. QED
    BY <2>1, <2>2, <2>3
<1>12. CASE Distribute
  <2>1. Pipe' /\ \A u \in Tasks : InFlight(u)' => InFlight(u)
    BY <1>0, <1>12, Names, SendFacts
       DEF Distribute, Place, Pipe, Placers, Spawned, Loops, Queues
  <2>2. RestOK'
    BY <1>0, <1>12 DEF Distribute, Goto, Place, task, RestOK,
           Loops, Placers, Queues
  <2>3. Fates'
    BY <1>0, <1>12, <2>1, QuietStep DEF Distribute, task
  <2>4. QED
    BY <2>1, <2>2, <2>3
<1>13. CASE DistributeFindsFull
  <2>1. Pipe' /\ \A u \in Tasks : InFlight(u)' => InFlight(u)
    BY <1>0, <1>13 DEF DistributeFindsFull, pipeline, Pipe, SingleCopy, InFlight,
       FindFull
  <2>2. RestOK'
    BY <1>0, <1>13 DEF DistributeFindsFull, FindFull, task, RestOK,
           Loops, Placers, Queues
  <2>3. Fates'
    BY <1>0, <1>13, <2>1, QuietStep DEF DistributeFindsFull, task
  <2>4. QED
    BY <2>1, <2>2, <2>3
<1>14. CASE DistributeFails
  <2>1. Pipe' /\ \A u \in Tasks : InFlight(u)' => InFlight(u)
    BY <1>0, <1>14, Names, SpawnFacts
       DEF DistributeFails, GiveUpPlacing, Pipe, Placers, Spawned, Loops, Queues
  <2>2. RestOK'
    BY <1>0, <1>14 DEF DistributeFails, Goto, GiveUpPlacing, task, RestOK,
           Loops, Placers, Queues
  <2>3. Fates'
    BY <1>0, <1>14, <2>1, QuietStep DEF DistributeFails, task
  <2>4. QED
    BY <2>1, <2>2, <2>3
<1>15. ASSUME NEW t \in Tasks, Requeue(t) PROVE Pipe' /\ RestOK' /\ Fates'
  <2>1. Pipe' /\ \A u \in Tasks : InFlight(u)' => InFlight(u)
    BY <1>0, <1>15, Names, SendFacts, ReleaseFacts
       DEF Requeue, Pipe, Placers, Spawned, Loops, Queues
  <2>2. RestOK'
    BY <1>0, <1>15 DEF Requeue, task, RestOK,
           Loops, Placers, Queues
  <2>3. Fates'
    BY <1>0, <1>15, <2>1, QuietStep DEF Requeue, task
  <2>4. QED
    BY <2>1, <2>2, <2>3
<1>16. ASSUME NEW w \in Workers, WorkerTake(w) PROVE Pipe' /\ RestOK' /\ Fates'
  <2>1. Pipe' /\ \A u \in Tasks : InFlight(u)' => InFlight(u)
    BY <1>0, <1>16, Names, ReceiveFacts
       DEF WorkerTake, Pipe, Placers, Spawned, Loops, Queues
  <2>2. RestOK'
    BY <1>0, <1>16 DEF WorkerTake, Goto, task, RestOK,
           Loops, Placers, Queues
  <2>3. Fates'
    BY <1>0, <1>16, <2>1, QuietStep DEF WorkerTake, task
  <2>4. QED
    BY <2>1, <2>2, <2>3
<1>17. ASSUME NEW w \in Workers, CheckExpired(w) PROVE Pipe' /\ RestOK' /\ Fates'
  <2>1. Pipe' /\ \A u \in Tasks : InFlight(u)' => InFlight(u)
    BY <1>0, <1>17 DEF CheckExpired, pipeline, Pipe, SingleCopy, InFlight
  <2>2. RestOK'
    BY <1>0, <1>17 DEF CheckExpired, Goto, task, RestOK,
           Loops, Placers, Queues
  <2>3. Fates'
    BY <1>0, <1>17, <2>1, QuietStep DEF CheckExpired, task
  <2>4. QED
    BY <2>1, <2>2, <2>3
<1>18. ASSUME NEW w \in Workers, Insert(w) PROVE Pipe' /\ RestOK' /\ Fates'
  <2>1. Pipe' /\ \A u \in Tasks : InFlight(u)' => InFlight(u)
    BY <1>0, <1>18 DEF Insert, pipeline, Pipe, SingleCopy, InFlight
  <2>2. RestOK'
    BY <1>0, <1>18 DEF Insert, Goto, task, RestOK,
           Loops, Placers, Queues
  <2>3. Fates'
    BY <1>0, <1>18, <2>1, QuietStep DEF Insert, task
  <2>4. QED
    BY <2>1, <2>2, <2>3
<1>19. ASSUME NEW w \in Workers, TouchChannel(w) PROVE Pipe' /\ RestOK' /\ Fates'
  <2>1. Pipe' /\ \A u \in Tasks : InFlight(u)' => InFlight(u)
    BY <1>0, <1>19 DEF TouchChannel, pipeline, Pipe, SingleCopy, InFlight
  <2>2. RestOK'
    BY <1>0, <1>19 DEF TouchChannel, Goto, task, RestOK,
           Loops, Placers, Queues
  <2>3. Fates'
    BY <1>0, <1>19, <2>1, QuietStep DEF TouchChannel, task
  <2>4. QED
    BY <2>1, <2>2, <2>3
<1>20. ASSUME NEW w \in Workers, DatabaseFails(w) PROVE Pipe' /\ RestOK' /\ Fates'
  <2>1. Pipe' /\ \A u \in Tasks : InFlight(u)' => InFlight(u)
    BY <1>0, <1>20 DEF DatabaseFails, pipeline, Pipe, SingleCopy, InFlight
  <2>2. RestOK'
    BY <1>0, <1>20 DEF DatabaseFails, Goto, task, RestOK,
           Loops, Placers, Queues
  <2>3. Fates'
    BY <1>0, <1>20, <2>1, QuietStep DEF DatabaseFails, task
  <2>4. QED
    BY <2>1, <2>2, <2>3
<1>21. ASSUME NEW w \in Workers, Push(w) PROVE Pipe' /\ RestOK' /\ Fates'
  <2>1. PICK t \in Tasks : /\ Release(w, t)
                           /\ outcome' = [outcome EXCEPT ![t] = "delivered"]
    BY <1>0, <1>21, Names DEF Push, Pipe, Loops
  <2>2. Pipe' /\ \A u \in Tasks : InFlight(u)' => InFlight(u) /\ u # t
    BY <1>0, <2>1, Names, ReleaseFacts
  <2>3. RestOK'
    <3>1. Count("delivered")
      BY <1>21 DEF Push
    <3>2. outcome' \in [Tasks -> {"pending", "delivered", "abandoned"}]
      BY <1>0, <2>1 DEF RestOK
    <3>3. pushes' \in [Tasks -> Nat]
      <4>1. PICK u \in held[w] : pushes' = [pushes EXCEPT ![u] = @ + 1]
        BY <1>21 DEF Push
      <4>2. u \in Tasks
        BY <1>0, <4>1, Names DEF Pipe
      <4>3. QED
        BY <1>0, <4>1, <4>2 DEF RestOK
    <3>4. pc' \in [Loops -> Queues \cup {"idle", "place", "scan", "putBack", "send",
                         "check", "insert", "touch", "push", "schedule"}]
      BY <1>0, <1>21 DEF Push, Goto, RestOK
    <3>5. QED
      BY <1>0, <1>21, <3>1, <3>2, <3>3, <3>4, CountFacts DEF Push, RestOK
  <2>4. InFlight(t)
    BY <2>1, Names DEF Release, InFlight, Loops
  <2>5. Fates'
    BY <1>0, <1>21, <2>1, <2>2, <2>4 DEF Push, Fates, ResolvedIsGone,
       CountedWasSent, RestOK
  <2>6. QED
    BY <2>2, <2>3, <2>5
<1>22. ASSUME NEW w \in Workers, WorkerRetries(w) PROVE Pipe' /\ RestOK' /\ Fates'
  <2>1. Pipe' /\ \A u \in Tasks : InFlight(u)' => InFlight(u)
    BY <1>0, <1>22, Names, SendFacts
       DEF WorkerRetries, ScheduleRetry, Pipe, Placers, Spawned, Loops, Queues
  <2>2. RestOK'
    <3>1. PICK t \in held[w] : due' = [due EXCEPT ![t] = FALSE]
      BY <1>22 DEF WorkerRetries, ScheduleRetry
    <3>2. due' \in [Tasks -> BOOLEAN]
      BY <1>0, <3>1 DEF RestOK
    <3>3. stats' \in [received : Nat, delivered : Nat, failed : Nat, retried : Nat]
      BY <1>0, <1>22, CountFacts DEF WorkerRetries
    <3>4. QED
      BY <1>0, <1>22, <3>2, <3>3 DEF WorkerRetries, Goto, RestOK, Loops
  <2>3. Fates'
    BY <1>0, <1>22, <2>1, QuietStep DEF WorkerRetries, task
  <2>4. QED
    BY <2>1, <2>2, <2>3
<1>23. ASSUME NEW w \in Workers, WorkerAbandons(w) PROVE Pipe' /\ RestOK' /\ Fates'
  <2>1. PICK t \in Tasks : /\ Release(w, t)
                           /\ outcome' = [outcome EXCEPT ![t] = "abandoned"]
    BY <1>0, <1>23, Names DEF WorkerAbandons, Pipe, Loops
  <2>2. Pipe' /\ \A u \in Tasks : InFlight(u)' => InFlight(u) /\ u # t
    BY <1>0, <2>1, Names, ReleaseFacts
  <2>3. RestOK'
    <3>1. Count("failed")
      BY <1>23 DEF WorkerAbandons
    <3>2. outcome' \in [Tasks -> {"pending", "delivered", "abandoned"}]
      BY <1>0, <2>1 DEF RestOK
    <3>3. pushes' \in [Tasks -> Nat]
      BY <1>0, <1>23 DEF WorkerAbandons, RestOK, Pipe, Loops
    <3>4. pc' \in [Loops -> Queues \cup {"idle", "place", "scan", "putBack", "send",
                         "check", "insert", "touch", "push", "schedule"}]
      BY <1>0, <1>23 DEF WorkerAbandons, Goto, RestOK
    <3>5. QED
      BY <1>0, <1>23, <3>1, <3>2, <3>3, <3>4, CountFacts DEF WorkerAbandons, RestOK
  <2>4. InFlight(t)
    BY <2>1, Names DEF Release, InFlight, Loops
  <2>5. Fates'
    BY <1>0, <1>23, <2>1, <2>2, <2>4 DEF WorkerAbandons, Fates, ResolvedIsGone,
       CountedWasSent, RestOK
  <2>6. QED
    BY <2>2, <2>3, <2>5
<1>24. CASE RetryTick
  <2>1. Pipe' /\ \A u \in Tasks : InFlight(u)' => InFlight(u)
    BY <1>0, <1>24 DEF RetryTick, pipeline, Pipe, SingleCopy, InFlight
  <2>2. RestOK'
    BY <1>0, <1>24 DEF RetryTick, Goto, task, RestOK,
           Loops, Placers, Queues
  <2>3. Fates'
    BY <1>0, <1>24, <2>1, QuietStep DEF RetryTick, task
  <2>4. QED
    BY <2>1, <2>2, <2>3
<1>25. CASE ScanEnds
  <2>1. Pipe' /\ \A u \in Tasks : InFlight(u)' => InFlight(u)
    BY <1>0, <1>25 DEF ScanEnds, pipeline, Pipe, SingleCopy, InFlight
  <2>2. RestOK'
    BY <1>0, <1>25 DEF ScanEnds, Goto, task, RestOK,
           Loops, Placers, Queues
  <2>3. Fates'
    BY <1>0, <1>25, <2>1, QuietStep DEF ScanEnds, task
  <2>4. QED
    BY <2>1, <2>2, <2>3
<1>26. CASE ScanTakesDue
  <2>1. Pipe' /\ \A u \in Tasks : InFlight(u)' => InFlight(u)
    BY <1>0, <1>26, Names, ReceiveFacts
       DEF ScanTakesDue, Pipe, Placers, Spawned, Loops, Queues
  <2>2. RestOK'
    <3>1. Head(chan["retryQueue"]) \in Tasks
      BY <1>0, <1>26, Names, ReceiveFacts DEF ScanTakesDue
    <3>2. retries' \in [Tasks -> Nat]
      BY <1>0, <1>26, <3>1 DEF ScanTakesDue, RestOK
    <3>3. QED
      BY <1>0, <1>26, <3>2 DEF ScanTakesDue, Goto, RestOK, Loops
  <2>3. Fates'
    BY <1>0, <1>26, <2>1, QuietStep DEF ScanTakesDue, task
  <2>4. QED
    BY <2>1, <2>2, <2>3
<1>27. CASE ScanTakesEarly
  <2>1. Pipe' /\ \A u \in Tasks : InFlight(u)' => InFlight(u)
    BY <1>0, <1>27, Names, ReceiveFacts
       DEF ScanTakesEarly, Pipe, Placers, Spawned, Loops, Queues
  <2>2. RestOK'
    BY <1>0, <1>27 DEF ScanTakesEarly, Goto, task, RestOK,
           Loops, Placers, Queues
  <2>3. Fates'
    BY <1>0, <1>27, <2>1, QuietStep DEF ScanTakesEarly, task
  <2>4. QED
    BY <2>1, <2>2, <2>3
<1>28. CASE PutBack
  <2>1. Pipe' /\ \A u \in Tasks : InFlight(u)' => InFlight(u)
    BY <1>0, <1>28, Names, SendFacts, ReleaseFacts
       DEF PutBack, Pipe, Placers, Spawned, Loops, Queues
  <2>2. RestOK'
    BY <1>0, <1>28 DEF PutBack, Goto, task, RestOK,
           Loops, Placers, Queues
  <2>3. Fates'
    BY <1>0, <1>28, <2>1, QuietStep DEF PutBack, task
  <2>4. QED
    BY <2>1, <2>2, <2>3
<1>29. CASE SendRetry
  <2>1. Pipe' /\ \A u \in Tasks : InFlight(u)' => InFlight(u)
    BY <1>0, <1>29, Names, SendFacts, SpawnFacts
       DEF SendRetry, Pipe, Placers, Spawned, Loops, Queues
  <2>2. RestOK'
    BY <1>0, <1>29 DEF SendRetry, Goto, task, RestOK,
           Loops, Placers, Queues
  <2>3. Fates'
    BY <1>0, <1>29, <2>1, QuietStep DEF SendRetry, task
  <2>4. QED
    BY <2>1, <2>2, <2>3
<1>30. ASSUME NEW t \in Tasks, Reschedule(t) PROVE Pipe' /\ RestOK' /\ Fates'
  <2>1. Pipe' /\ \A u \in Tasks : InFlight(u)' => InFlight(u)
    BY <1>0, <1>30, Names, SendFacts, ReleaseFacts
       DEF Reschedule, ScheduleRetry, Pipe, Placers, Spawned, Loops, Queues
  <2>2. RestOK'
    BY <1>0, <1>30 DEF Reschedule, ScheduleRetry, task, RestOK,
           Loops, Placers, Queues
  <2>3. Fates'
    BY <1>0, <1>30, <2>1, QuietStep DEF Reschedule, task
  <2>4. QED
    BY <2>1, <2>2, <2>3
<1>31. CASE RetryManagerTake
  <2>1. Pipe' /\ \A u \in Tasks : InFlight(u)' => InFlight(u)
    BY <1>0, <1>31, Names, ReceiveFacts
       DEF RetryManagerTake, Pipe, Placers, Spawned, Loops, Queues
  <2>2. RestOK'
    BY <1>0, <1>31 DEF RetryManagerTake, task, RestOK,
           Loops, Placers, Queues
  <2>3. Fates'
    BY <1>0, <1>31, <2>1, QuietStep DEF RetryManagerTake, task
  <2>4. QED
    BY <2>1, <2>2, <2>3
<1>32. CASE DispatchToWorker
  <2>1. Pipe' /\ \A u \in Tasks : InFlight(u)' => InFlight(u)
    BY <1>0, <1>32, Names, SendFacts
       DEF DispatchToWorker, Place, Pipe, Placers, Spawned, Loops, Queues
  <2>2. RestOK'
    BY <1>0, <1>32 DEF DispatchToWorker, Place, task, RestOK,
           Loops, Placers, Queues
  <2>3. Fates'
    BY <1>0, <1>32, <2>1, QuietStep DEF DispatchToWorker, task
  <2>4. QED
    BY <2>1, <2>2, <2>3
<1>33. CASE DispatchFindsFull
  <2>1. Pipe' /\ \A u \in Tasks : InFlight(u)' => InFlight(u)
    BY <1>0, <1>33 DEF DispatchFindsFull, pipeline, Pipe, SingleCopy, InFlight, FindFull
  <2>2. RestOK'
    BY <1>0, <1>33 DEF DispatchFindsFull, FindFull, task, RestOK,
           Loops, Placers, Queues
  <2>3. Fates'
    BY <1>0, <1>33, <2>1, QuietStep DEF DispatchFindsFull, task
  <2>4. QED
    BY <2>1, <2>2, <2>3
<1>34. CASE DispatchFails
  <2>1. Pipe' /\ \A u \in Tasks : InFlight(u)' => InFlight(u)
    BY <1>0, <1>34, Names, SpawnFacts
       DEF DispatchFails, GiveUpPlacing, Pipe, Placers, Spawned, Loops, Queues
  <2>2. RestOK'
    BY <1>0, <1>34 DEF DispatchFails, GiveUpPlacing, task, RestOK,
           Loops, Placers, Queues
  <2>3. Fates'
    BY <1>0, <1>34, <2>1, QuietStep DEF DispatchFails, task
  <2>4. QED
    BY <2>1, <2>2, <2>3
<1>35. ASSUME NEW t \in Tasks, Resend(t) PROVE Pipe' /\ RestOK' /\ Fates'
  <2>1. Pipe' /\ \A u \in Tasks : InFlight(u)' => InFlight(u)
    BY <1>0, <1>35, Names, SendFacts
       DEF Resend, Pipe, Placers, Spawned, Loops, Queues
  <2>2. RestOK'
    BY <1>0, <1>35 DEF Resend, task, RestOK,
           Loops, Placers, Queues
  <2>3. Fates'
    BY <1>0, <1>35, <2>1, QuietStep DEF Resend, task
  <2>4. QED
    BY <2>1, <2>2, <2>3
<1>36. ASSUME NEW t \in Tasks, Expire(t) PROVE Pipe' /\ RestOK' /\ Fates'
  <2>1. Pipe' /\ \A u \in Tasks : InFlight(u)' => InFlight(u)
    BY <1>0, <1>36 DEF Expire, pipeline, Pipe, SingleCopy, InFlight
  <2>2. RestOK'
    BY <1>0, <1>36 DEF Expire, task, RestOK,
           Loops, Placers, Queues
  <2>3. Fates'
    BY <1>0, <1>36, <2>1, QuietStep DEF Expire, task
  <2>4. QED
    BY <2>1, <2>2, <2>3
<1>37. ASSUME NEW t \in Tasks, BecomeDue(t) PROVE Pipe' /\ RestOK' /\ Fates'
  <2>1. Pipe' /\ \A u \in Tasks : InFlight(u)' => InFlight(u)
    BY <1>0, <1>37 DEF BecomeDue, pipeline, Pipe, SingleCopy, InFlight
  <2>2. RestOK'
    BY <1>0, <1>37 DEF BecomeDue, task, RestOK,
           Loops, Placers, Queues
  <2>3. Fates'
    BY <1>0, <1>37, <2>1, QuietStep DEF BecomeDue, task
  <2>4. QED
    BY <2>1, <2>2, <2>3
<1>38. CASE UNCHANGED vars
  BY <1>0, <1>38 DEF vars, Pipe, SingleCopy, InFlight, RestOK, Fates,
     ResolvedIsGone, CountedWasSent
<1>39. QED
  BY <1>1, <1>2, <1>3, <1>4, <1>5, <1>6, <1>7, <1>8, <1>9, <1>10, <1>11, <1>12,
     <1>13, <1>14, <1>15, <1>16, <1>17, <1>18, <1>19, <1>20, <1>21, <1>22, <1>23,
     <1>24, <1>25, <1>26, <1>27, <1>28, <1>29, <1>30, <1>31, <1>32, <1>33, <1>34,
     <1>35, <1>36, <1>37, <1>38
     DEF Next, Handler, Submit, MainLoop, QueueManager, Worker, RetryWorker,
         RetryManager, Time

-----------------------------------------------------------------------------
(* Theorems                                                                *)

LEMMA IInvInvariant == Spec => []IInv
<1>1. Init => IInv
  BY DEF Init, IInv, TypeOK, SingleCopy, Fates, ResolvedIsGone, CountedWasSent,
         InFlight, Range, IsInjective, Goroutines, Loops, Placers, Spawned
<1>2. QED
  BY <1>1, IInvStep, PTL DEF Spec

\* Every reachable state of the pipeline is well typed, whatever the number of
\* tasks and workers and the size of the channels.
THEOREM TypeCorrect == Spec => []TypeOK
  BY IInvInvariant, PTL DEF IInv

\* Requeueing, resending and rescheduling never leave a task in two places.
THEOREM OneCopyOfEachTask == Spec => []SingleCopy
  BY IInvInvariant, PTL DEF IInv

\* What was counted or refused has left the pipeline for good.
THEOREM CountedTasksAreGone == Spec => []ResolvedIsGone
  BY IInvInvariant, PTL DEF IInv, Fates

-----------------------------------------------------------------------------
(* What a loop holds and where it stands                                   *)

\* The labels at which a loop has nothing in its hand.
Resting == Queues \cup {"idle", "scan"}

\* A loop works on one task at a time.
OneTask ==
    \A g \in Loops : IF pc[g] \in Resting THEN held[g] = {}
                     ELSE \E t \in Tasks : held[g] = {t}

\* What a worker is about to push is in the database.
StoreFirst ==
    \A w \in Workers : pc[w] \in {"touch", "push"} => \A t \in held[w] : stored[t]

\* The number of pushes is what the outcome says.
PushCount ==
    \A t \in Tasks : /\ pushes[t] = IF outcome[t] = "delivered" THEN 1 ELSE 0
                     /\ outcome[t] = "delivered" => stored[t]

\* A task in the retry queue, or one the scan puts back, has an attempt left.
AttemptLeft ==
    /\ RetryBudget
    /\ pc["retryWorker"] = "putBack" =>
          \A t \in held["retryWorker"] : retries[t] < MaxRetries

JInv == OneTask /\ StoreFirst /\ PushCount /\ AttemptLeft

-----------------------------------------------------------------------------
(* Steps that leave a part of the invariant alone                          *)

LEMMA Distinct ==
    /\ \A s \in Spawned : s \notin Loops
    /\ "runMainLoop" \notin Loops /\ "runRetryManager" \notin Loops
    /\ "requeue" \notin Loops /\ "resend" \notin Loops /\ "reschedule" \notin Loops
    /\ "runQueueManager" \notin Workers /\ "retryWorker" \notin Workers
    /\ "retryQueue" \notin Workers /\ "retryQueue" \notin Queues
    /\ \A t \in Tasks : QueueOf(t) # "retryQueue"
  BY WorkersAssumption
     DEF Loops, Spawned, Queues, Placers, Goroutines, QueueOf

LEMMA LoopsUndisturbed ==
    ASSUME OneTask, StoreFirst, pc' = pc, stored' = stored,
           \A l \in Loops : held'[l] = held[l]
    PROVE  OneTask' /\ StoreFirst'
  BY DEF OneTask, StoreFirst, Loops

\* Only loop l moves, and what it holds fits where it goes.
LEMMA LoopMoves ==
    ASSUME OneTask, RestOK, NEW l \in Loops, NEW x, Goto(l, x),
           \A k \in Loops \ {l} : held'[k] = held[k],
           IF x \in Resting THEN held'[l] = {} ELSE \E t \in Tasks : held'[l] = {t}
    PROVE  OneTask'
<1>1. \A k \in Loops : pc'[k] = IF k = l THEN x ELSE pc[k]
  BY DEF RestOK, Goto
<1>2. QED
  BY <1>1 DEF OneTask

\* Only loop l moves, and not to a place from which it pushes.
LEMMA StoresUndisturbed ==
    ASSUME StoreFirst, RestOK, NEW l \in Loops, NEW x, Goto(l, x),
           \A k \in Loops \ {l} : held'[k] = held[k],
           x \notin {"touch", "push"}, stored' = stored
    PROVE  StoreFirst'
<1>1. \A k \in Loops : pc'[k] = IF k = l THEN x ELSE pc[k]
  BY DEF RestOK, Goto
<1>2. QED
  BY <1>1 DEF StoreFirst, Loops

LEMMA CountsUndisturbed ==
    ASSUME PushCount, pushes' = pushes, stored' = stored, outcome' = outcome
    PROVE  PushCount'
  BY DEF PushCount

LEMMA AttemptsUndisturbed ==
    ASSUME AttemptLeft, retries' = retries,
           Range(chan["retryQueue"])' \subseteq Range(chan["retryQueue"]),
           pc'["retryWorker"] = "putBack" =>
               /\ pc["retryWorker"] = "putBack"
               /\ held'["retryWorker"] \subseteq held["retryWorker"]
    PROVE  AttemptLeft'
  BY DEF AttemptLeft, RetryBudget

\* Counting a pending task as abandoned leaves the push counts alone.
LEMMA AbandonCounts ==
    ASSUME PushCount, RestOK, NEW t \in Tasks, outcome[t] = "pending",
           outcome' = [outcome EXCEPT ![t] = "abandoned"],
           pushes' = pushes, stored' = stored
    PROVE  PushCount'
  BY DEF PushCount, RestOK

-----------------------------------------------------------------------------
LEMMA JInvStep == IInv /\ JInv /\ [Next]_vars => JInv'
<1> SUFFICES ASSUME IInv, JInv, [Next]_vars PROVE JInv'
  OBVIOUS
<1>0. Pipe /\ RestOK /\ Fates /\ OneTask /\ StoreFirst /\ PushCount /\ AttemptLeft
  BY IInvParts DEF JInv
<1>p. ASSUME NEW t \in Tasks, InFlight(t) PROVE outcome[t] = "pending"
  BY <1>0, <1>p DEF Fates, ResolvedIsGone
<1>t. \A g \in Goroutines : held[g] \subseteq Tasks
  BY <1>0 DEF Pipe
<1>r. "retryWorker" \in Goroutines /\ "retryQueue" \in Channels
  BY Names
<1>l. \A l \in Loops : l \in Goroutines
  BY Names
<1>1. ASSUME NEW t \in Tasks, Reject(t) PROVE JInv'
  <2>1. OneTask' /\ StoreFirst'
    BY <1>0, <1>1, LoopsUndisturbed DEF Reject, pipeline, task
  <2>2. PushCount'
    BY <1>0, <1>1, CountsUndisturbed DEF Reject, task
  <2>3. AttemptLeft'
    BY <1>0, <1>1, AttemptsUndisturbed DEF Reject, pipeline, task
  <2>4. QED
    BY <2>1, <2>2, <2>3 DEF JInv
<1>2. ASSUME NEW t \in Tasks, Accept(t) PROVE JInv'
  <2>1. OneTask' /\ StoreFirst'
    BY <1>0, <1>2, LoopsUndisturbed DEF Accept, pipeline, task
  <2>2. PushCount'
    BY <1>0, <1>2, CountsUndisturbed DEF Accept, task
  <2>3. AttemptLeft'
    BY <1>0, <1>2, AttemptsUndisturbed DEF Accept, pipeline, task
  <2>4. QED
    BY <2>1, <2>2, <2>3 DEF JInv
<1>3. ASSUME NEW t \in Tasks, Enqueue(t) PROVE JInv'
  <2>1. OneTask' /\ StoreFirst'
    BY <1>0, <1>3, LoopsUndisturbed DEF Enqueue, task
  <2>2. PushCount'
    BY <1>0, <1>3, CountsUndisturbed DEF Enqueue, task
  <2>3. chan'["retryQueue"] = chan["retryQueue"]
    BY <1>0, <1>3 DEF Enqueue, Pipe, Channels
  <2>4. AttemptLeft'
    BY <1>0, <1>3, <2>3, AttemptsUndisturbed DEF Enqueue, task
  <2>5. QED
    BY <2>1, <2>2, <2>4 DEF JInv
<1>4. ASSUME NEW t \in Tasks, SubmitTimeout(t) PROVE JInv'
  <2>1. OneTask' /\ StoreFirst'
    BY <1>0, <1>4, LoopsUndisturbed DEF SubmitTimeout, pipeline, task
  <2>2. PushCount'
    BY <1>0, <1>4, CountsUndisturbed DEF SubmitTimeout, task
  <2>3. AttemptLeft'
    BY <1>0, <1>4, AttemptsUndisturbed DEF SubmitTimeout, pipeline, task
  <2>4. QED
    BY <2>1, <2>2, <2>3 DEF JInv
<1>5. ASSUME NEW t \in Tasks, Acknowledge(t) PROVE JInv'
  <2>1. OneTask' /\ StoreFirst'
    BY <1>0, <1>5, LoopsUndisturbed DEF Acknowledge, pipeline, task
  <2>2. PushCount'
    BY <1>0, <1>5, CountsUndisturbed DEF Acknowledge, task
  <2>3. AttemptLeft'
    BY <1>0, <1>5, AttemptsUndisturbed DEF Acknowledge, pipeline, task
  <2>4. QED
    BY <2>1, <2>2, <2>3 DEF JInv
<1>6. CASE MainTake
  <2>0. Receive("runMainLoop", "inputChan")
    BY <1>6, <1>t, Names DEF MainTake, Placers
  <2>m. /\ "runMainLoop" \in Goroutines /\ "retryQueue" \in Channels
        /\ "runMainLoop" \notin Loops /\ "inputChan" \in Channels
        /\ "inputChan" # "retryQueue"
    BY Names, Distinct DEF Loops
  <2>1. \A l \in Loops : held'[l] = held[l]
    BY <1>0, <1>l, <2>0, <2>m DEF Pipe, Receive
  <2>2. OneTask' /\ StoreFirst'
    BY <1>0, <1>6, <2>1, LoopsUndisturbed DEF MainTake, task
  <2>3. PushCount'
    BY <1>0, <1>6, CountsUndisturbed DEF MainTake, task
  <2>4. Range(chan["retryQueue"])' \subseteq Range(chan["retryQueue"])
    BY <1>0, <2>0, <2>m, ReceiveFacts
  <2>5. AttemptLeft'
    BY <1>0, <1>6, <2>1, <2>4, AttemptsUndisturbed DEF MainTake, task, Loops
  <2>6. QED
    BY <2>2, <2>3, <2>5 DEF JInv
<1>7. CASE MainDispatch
  <2>0. PICK t \in Tasks :
             t \in held["runMainLoop"] /\ Send("runMainLoop", t, QueueOf(t))
    BY <1>7, <1>t, Names DEF MainDispatch, Placers
  <2>m. /\ "runMainLoop" \in Goroutines /\ "retryQueue" \in Channels
        /\ "runMainLoop" \notin Loops /\ QueueOf(t) \in Channels
        /\ QueueOf(t) # "retryQueue"
    BY Names, Distinct DEF Loops
  <2>1. \A l \in Loops : held'[l] = held[l]
    BY <1>0, <1>l, <2>0, <2>m DEF Pipe, Send
  <2>2. OneTask' /\ StoreFirst'
    BY <1>0, <1>7, <2>1, LoopsUndisturbed DEF MainDispatch, task
  <2>3. PushCount'
    BY <1>0, <1>7, CountsUndisturbed DEF MainDispatch, task
  <2>4. Range(chan["retryQueue"])' \subseteq Range(chan["retryQueue"])
    BY <1>0, <2>0, <2>m, SendFacts
  <2>5. AttemptLeft'
    BY <1>0, <1>7, <2>1, <2>4, AttemptsUndisturbed DEF MainDispatch, task, Loops
  <2>6. QED
    BY <2>2, <2>3, <2>5 DEF JInv
<1>8. CASE MainDrop
  <2>0. PICK t \in Tasks : Release("runMainLoop", t)
    BY <1>8, <1>t, Names DEF MainDrop, Placers
  <2>m. /\ "runMainLoop" \in Goroutines /\ "retryQueue" \in Channels
        /\ "runMainLoop" \notin Loops
    BY Names, Distinct DEF Loops
  <2>1. \A l \in Loops : held'[l] = held[l]
    BY <1>0, <1>l, <2>0, <2>m DEF Pipe, Release
  <2>2. OneTask' /\ StoreFirst'
    BY <1>0, <1>8, <2>1, LoopsUndisturbed DEF MainDrop, task
  <2>3. PushCount'
    <3>1. PICK u \in held["runMainLoop"] :
            outcome' = [outcome EXCEPT ![u] = "abandoned"]
      BY <1>8 DEF MainDrop
    <3>2. u \in Tasks /\ InFlight(u)
      BY <1>t, <3>1, Names DEF InFlight
    <3>3. QED
      BY <1>0, <1>8, <1>p, <3>1, <3>2, AbandonCounts DEF MainDrop
  <2>4. Range(chan["retryQueue"])' \subseteq Range(chan["retryQueue"])
    BY <1>0, <2>0, <2>m, ReleaseFacts DEF Release
  <2>5. AttemptLeft'
    BY <1>0, <1>8, <2>1, <2>4, AttemptsUndisturbed DEF MainDrop, task, Loops
  <2>6. QED
    BY <2>2, <2>3, <2>5 DEF JInv
<1>9. CASE QueueTick
  <2>1. OneTask'
    BY <1>0, <1>9, LoopMoves DEF QueueTick, pipeline, OneTask, Resting, Loops, Queues
  <2>2. StoreFirst'
    BY <1>0, <1>9, StoresUndisturbed DEF QueueTick, pipeline, task, Loops
  <2>3. PushCount'
    BY <1>0, <1>9, CountsUndisturbed DEF QueueTick, task
  <2>4. AttemptLeft'
    BY <1>0, <1>9, Distinct, AttemptsUndisturbed
       DEF QueueTick, Goto, pipeline, task, RestOK, Loops
  <2>5. QED
    BY <2>1, <2>2, <2>3, <2>4 DEF JInv
<1>10. CASE PollTakes
  <2>0. PICK c \in Queues : Receive("runQueueManager", c)
    BY <1>10, <1>t, Names DEF PollTakes, Placers
  <2>m. /\ "runQueueManager" \in Goroutines /\ "retryQueue" \in Channels
        /\ c \in Channels /\ c # "retryQueue"
    BY Names, Distinct DEF Loops
  <2>1. \A l \in Loops \ {"runQueueManager"} : held'[l] = held[l]
    BY <1>0, <1>l, <2>0, <2>m DEF Pipe, Receive
  <2>2. \E t \in Tasks : held'["runQueueManager"] = {t}
    <3>1. held["runQueueManager"] = {}
      BY <1>0, <1>10 DEF PollTakes, OneTask, Resting, Loops
    <3>2. Head(chan[c]) \in Tasks
      BY <1>0, <2>0, <2>m, ReceiveFacts
    <3>3. held'["runQueueManager"] = held["runQueueManager"] \cup {Head(chan[c])}
      BY <1>0, <2>0, <2>m DEF Pipe, Receive
    <3>4. QED
      BY <3>1, <3>2, <3>3
  <2>3. OneTask'
    BY <1>0, <1>10, <2>1, <2>2, LoopMoves DEF PollTakes, Resting, Loops, Queues
  <2>4. StoreFirst'
    BY <1>0, <1>10, <2>1, StoresUndisturbed DEF PollTakes, task, Loops
  <2>5. PushCount'
    BY <1>0, <1>10, CountsUndisturbed DEF PollTakes, task
  <2>6. Range(chan["retryQueue"])' \subseteq Range(chan["retryQueue"])
    BY <1>0, <2>0, <2>m, ReceiveFacts
  <2>7. AttemptLeft'
    BY <1>0, <1>10, <2>1, <2>6, Distinct, AttemptsUndisturbed
       DEF PollTakes, Goto, task, RestOK, Loops
  <2>8. QED
    BY <2>3, <2>4, <2>5, <2>7 DEF JInv
<1>11. CASE PollFindsNothing
  <2>1. OneTask'
    BY <1>0, <1>11, LoopMoves DEF PollFindsNothing, pipeline, OneTask, Resting,
       Loops, Queues
  <2>2. StoreFirst'
    BY <1>0, <1>11, StoresUndisturbed DEF PollFindsNothing, pipeline, task, Loops
  <2>3. PushCount'
    BY <1>0, <1>11, CountsUndisturbed DEF PollFindsNothing, task
  <2>4. AttemptLeft'
    BY <1>0, <1>11, Distinct, AttemptsUndisturbed
       DEF PollFindsNothing, Goto, pipeline, task, RestOK, Loops
  <2>5. QED
    BY <2>1, <2>2, <2>3, <2>4 DEF JInv
<1>12. CASE Distribute
  <2>0. PICK t \in Tasks, w \in Workers :
          t \in held["runQueueManager"] /\ Send("runQueueManager", t, w)
    BY <1>12, <1>t, Names DEF Distribute, Place, Placers
  <2>m. /\ "runQueueManager" \in Goroutines /\ "retryQueue" \in Channels
        /\ w \in Channels /\ w # "retryQueue"
    BY Names, Distinct DEF Loops
  <2>1. \A l \in Loops \ {"runQueueManager"} : held'[l] = held[l]
    BY <1>0, <1>l, <2>0, <2>m DEF Pipe, Send
  <2>2. held'["runQueueManager"] = {}
    <3>1. PICK u \in Tasks : held["runQueueManager"] = {u}
      BY <1>0, <1>12 DEF Distribute, OneTask, Resting, Loops, Queues
    <3>2. held'["runQueueManager"] = held["runQueueManager"] \ {t}
      BY <1>0, <1>l, <2>0, <2>m DEF Pipe, Send
    <3>3. QED
      BY <2>0, <3>1, <3>2
  <2>3. OneTask'
    BY <1>0, <1>12, <2>1, <2>2, LoopMoves DEF Distribute, Resting, Loops, Queues
  <2>4. StoreFirst'
    BY <1>0, <1>12, <2>1, StoresUndisturbed DEF Distribute, task, Loops
  <2>5. PushCount'
    BY <1>0, <1>12, CountsUndisturbed DEF Distribute, task
  <2>6. Range(chan["retryQueue"])' \subseteq Range(chan["retryQueue"])
    BY <1>0, <2>0, <2>m, SendFacts
  <2>7. AttemptLeft'
    BY <1>0, <1>12, <2>1, <2>6, Distinct, AttemptsUndisturbed
       DEF Distribute, Goto, task, RestOK, Loops
  <2>8. QED
    BY <2>3, <2>4, <2>5, <2>7 DEF JInv
<1>13. CASE DistributeFindsFull
  <2>1. OneTask' /\ StoreFirst'
    BY <1>0, <1>13, LoopsUndisturbed DEF DistributeFindsFull, FindFull, pipeline, task
  <2>2. PushCount'
    BY <1>0, <1>13, CountsUndisturbed DEF DistributeFindsFull, FindFull, task
  <2>3. AttemptLeft'
    BY <1>0, <1>13, AttemptsUndisturbed DEF DistributeFindsFull, FindFull,
       pipeline, task
  <2>4. QED
    BY <2>1, <2>2, <2>3 DEF JInv
<1>14. CASE DistributeFails
  <2>0. PICK t \in Tasks : /\ t \in held["runQueueManager"]
                           /\ Spawn("runQueueManager", "requeue", t)
    BY <1>14, <1>t, Names DEF DistributeFails, GiveUpPlacing, Placers
  <2>m. /\ "runQueueManager" \in Goroutines /\ "retryQueue" \in Channels
        /\ "requeue" \in Goroutines /\ "requeue" \notin Loops
    BY Names, Distinct DEF Loops
  <2>1. \A l \in Loops \ {"runQueueManager"} : held'[l] = held[l]
    BY <1>0, <1>l, <2>0, <2>m DEF Pipe, Spawn
  <2>2. held'["runQueueManager"] = {}
    <3>1. PICK u \in Tasks : held["runQueueManager"] = {u}
      BY <1>0, <1>14 DEF DistributeFails, OneTask, Resting, Loops, Queues
    <3>2. held'["runQueueManager"] = held["runQueueManager"] \ {t}
      BY <1>0, <1>l, <2>0, <2>m DEF Pipe, Spawn
    <3>3. QED
      BY <2>0, <3>1, <3>2
  <2>3. OneTask'
    BY <1>0, <1>14, <2>1, <2>2, LoopMoves DEF DistributeFails, Resting, Loops, Queues
  <2>4. StoreFirst'
    BY <1>0, <1>14, <2>1, StoresUndisturbed DEF DistributeFails, task, Loops
  <2>5. PushCount'
    BY <1>0, <1>14, CountsUndisturbed DEF DistributeFails, task
  <2>6. Range(chan["retryQueue"])' \subseteq Range(chan["retryQueue"])
    BY <1>0, <2>0, <2>m, SpawnFacts DEF Spawn
  <2>7. AttemptLeft'
    BY <1>0, <1>14, <2>1, <2>6, Distinct, AttemptsUndisturbed
       DEF DistributeFails, Goto, task, RestOK, Loops
  <2>8. QED
    BY <2>3, <2>4, <2>5, <2>7 DEF JInv
<1>15. ASSUME NEW t \in Tasks, Requeue(t) PROVE JInv'
  <2>0. Send("requeue", t, QueueOf(t)) \/ Release("requeue", t)
    BY <1>15, <1>t, Names DEF Requeue, Placers
  <2>m. /\ "requeue" \in Goroutines /\ "retryQueue" \in Channels
        /\ "requeue" \notin Loops /\ QueueOf(t) \in Channels
        /\ QueueOf(t) # "retryQueue"
    BY Names, Distinct DEF Loops
  <2>1. \A l \in Loops : held'[l] = held[l]
    BY <1>0, <1>l, <2>0, <2>m DEF Pipe, Send, Release
  <2>2. OneTask' /\ StoreFirst'
    BY <1>0, <1>15, <2>1, LoopsUndisturbed DEF Requeue, task
  <2>3. PushCount'
    BY <1>0, <1>15, CountsUndisturbed DEF Requeue, task
  <2>4. Range(chan["retryQueue"])' \subseteq Range(chan["retryQueue"])
    BY <1>0, <2>0, <2>m, SendFacts, ReleaseFacts DEF Release
  <2>5. AttemptLeft'
    BY <1>0, <1>15, <2>1, <2>4, AttemptsUndisturbed DEF Requeue, task, Loops
  <2>6. QED
    BY <2>2, <2>3, <2>5 DEF JInv
<1>16. ASSUME NEW w \in Workers, WorkerTake(w) PROVE JInv'
  <2>0. Receive(w, w)
    BY <1>16, <1>t, Names DEF WorkerTake, Placers
  <2>m. /\ w \in Goroutines /\ "retryQueue" \in Channels
        /\ w \in Channels /\ w # "retryQueue"
    BY Names, Distinct DEF Loops
  <2>1. \A l \in Loops \ {w} : held'[l] = held[l]
    BY <1>0, <1>l, <2>0, <2>m DEF Pipe, Receive
  <2>2. \E t \in Tasks : held'[w] = {t}
    <3>1. held[w] = {}
      BY <1>0, <1>16 DEF WorkerTake, OneTask, Resting, Loops
    <3>2. Head(chan[w]) \in Tasks
      BY <1>0, <2>0, <2>m, ReceiveFacts
    <3>3. held'[w] = held[w] \cup {Head(chan[w])}
      BY <1>0, <2>0, <2>m DEF Pipe, Receive
    <3>4. QED
      BY <3>1, <3>2, <3>3
  <2>3. OneTask'
    BY <1>0, <1>16, <2>1, <2>2, LoopMoves DEF WorkerTake, Resting, Loops, Queues
  <2>4. StoreFirst'
    BY <1>0, <1>16, <2>1, StoresUndisturbed DEF WorkerTake, task, Loops
  <2>5. PushCount'
    BY <1>0, <1>16, CountsUndisturbed DEF WorkerTake, task
  <2>6. Range(chan["retryQueue"])' \subseteq Range(chan["retryQueue"])
    BY <1>0, <2>0, <2>m, ReceiveFacts
  <2>7. AttemptLeft'
    BY <1>0, <1>16, <2>1, <2>6, Distinct, AttemptsUndisturbed
       DEF WorkerTake, Goto, task, RestOK, Loops
  <2>8. QED
    BY <2>3, <2>4, <2>5, <2>7 DEF JInv
<1>17. ASSUME NEW w \in Workers, CheckExpired(w) PROVE JInv'
  <2>1. OneTask'
    BY <1>0, <1>17, LoopMoves DEF CheckExpired, pipeline, OneTask, Resting, Loops,
       Queues
  <2>2. StoreFirst'
    BY <1>0, <1>17, StoresUndisturbed DEF CheckExpired, pipeline, task, Loops
  <2>3. PushCount'
    BY <1>0, <1>17, CountsUndisturbed DEF CheckExpired, task
  <2>4. AttemptLeft'
    BY <1>0, <1>17, Distinct, AttemptsUndisturbed
       DEF CheckExpired, Goto, pipeline, task, RestOK, Loops
  <2>5. QED
    BY <2>1, <2>2, <2>3, <2>4 DEF JInv
<1>18. ASSUME NEW w \in Workers, Insert(w) PROVE JInv'
  <2>1. PICK t \in Tasks : held[w] = {t}
    BY <1>0, <1>18 DEF Insert, OneTask, Resting, Loops, Queues
  <2>2. stored' = [stored EXCEPT ![t] = TRUE] /\ held' = held
    BY <1>18, <2>1 DEF Insert, pipeline
  <2>3. OneTask'
    BY <1>0, <1>18, <2>1, <2>2, LoopMoves DEF Insert, Resting, Loops, Queues
  <2>4. StoreFirst'
    BY <1>0, <1>18, <2>1, <2>2 DEF Insert, Goto, StoreFirst, RestOK, Loops
  <2>5. PushCount'
    BY <1>0, <1>18, <2>2 DEF Insert, PushCount, RestOK
  <2>6. AttemptLeft'
    BY <1>0, <1>18, Distinct, AttemptsUndisturbed
       DEF Insert, Goto, pipeline, RestOK, Loops
  <2>7. QED
    BY <2>3, <2>4, <2>5, <2>6 DEF JInv
<1>19. ASSUME NEW w \in Workers, TouchChannel(w) PROVE JInv'
  <2>1. OneTask'
    BY <1>0, <1>19, LoopMoves
       DEF TouchChannel, pipeline, OneTask, Resting, Loops, Queues
  <2>2. StoreFirst'
    BY <1>0, <1>19 DEF TouchChannel, Goto, pipeline, task, StoreFirst, RestOK, Loops
  <2>3. PushCount'
    BY <1>0, <1>19, CountsUndisturbed DEF TouchChannel, task
  <2>4. AttemptLeft'
    BY <1>0, <1>19, Distinct, AttemptsUndisturbed
       DEF TouchChannel, Goto, pipeline, task, RestOK, Loops
  <2>5. QED
    BY <2>1, <2>2, <2>3, <2>4 DEF JInv
<1>20. ASSUME NEW w \in Workers, DatabaseFails(w) PROVE JInv'
  <2>1. OneTask'
    BY <1>0, <1>20, LoopMoves DEF DatabaseFails, pipeline, OneTask, Resting, Loops,
       Queues
  <2>2. StoreFirst'
    BY <1>0, <1>20, StoresUndisturbed DEF DatabaseFails, pipeline, task, Loops
  <2>3. PushCount'
    BY <1>0, <1>20, CountsUndisturbed DEF DatabaseFails, task
  <2>4. AttemptLeft'
    BY <1>0, <1>20, Distinct, AttemptsUndisturbed
       DEF DatabaseFails, Goto, pipeline, task, RestOK, Loops
  <2>5. QED
    BY <2>1, <2>2, <2>3, <2>4 DEF JInv
<1>21. ASSUME NEW w \in Workers, Push(w) PROVE JInv'
  <2>1. PICK t \in Tasks : held[w] = {t}
    BY <1>0, <1>21 DEF Push, OneTask, Resting, Loops, Queues
  <2>2. Release(w, t) /\ outcome' = [outcome EXCEPT ![t] = "delivered"] /\ InFlight(t)
    BY <1>21, <2>1, Names DEF Push, InFlight
  <2>3. \A l \in Loops \ {w} : held'[l] = held[l]
    BY <1>0, <2>2, Names, Distinct, ReleaseFacts
  <2>4. held'[w] = {}
    BY <1>0, <2>1, <2>2, Names, ReleaseFacts
  <2>5. OneTask'
    BY <1>0, <1>21, <2>3, <2>4, LoopMoves DEF Push, Resting, Loops
  <2>6. StoreFirst'
    BY <1>0, <1>21, <2>3, StoresUndisturbed DEF Push, Loops
  <2>7. PushCount'
    <3>1. outcome[t] = "pending" /\ stored[t]
      BY <1>0, <1>21, <1>p, <2>1, <2>2 DEF Push, StoreFirst
    <3>2. pushes' = [pushes EXCEPT ![t] = @ + 1] /\ stored' = stored
      BY <1>21, <2>1 DEF Push
    <3>3. QED
      BY <1>0, <2>2, <3>1, <3>2 DEF PushCount, RestOK
  <2>8. AttemptLeft'
    BY <1>0, <1>21, <2>2, <2>3, Distinct, AttemptsUndisturbed
       DEF Push, Release, Goto, RestOK, Loops
  <2>9. QED
    BY <2>5, <2>6, <2>7, <2>8 DEF JInv
<1>22. ASSUME NEW w \in Workers, WorkerRetries(w) PROVE JInv'
  <2>1. PICK t \in Tasks : held[w] = {t}
    BY <1>0, <1>22 DEF WorkerRetries, OneTask, Resting, Loops, Queues
  <2>2. Send(w, t, "retryQueue") /\ retries[t] < MaxRetries
    BY <1>22, <2>1 DEF WorkerRetries, ScheduleRetry, CanRetry
  <2>3. \A k \in Goroutines : held'[k] = IF k = w THEN {} ELSE held[k]
    BY <1>0, <2>1, <2>2, Names DEF Pipe, Send
  <2>4. OneTask'
    BY <1>0, <1>22, <1>l, <2>3, LoopMoves DEF WorkerRetries, Resting, Loops
  <2>5. StoreFirst'
    BY <1>0, <1>22, <1>l, <2>3, StoresUndisturbed DEF WorkerRetries, Loops
  <2>6. PushCount'
    BY <1>0, <1>22, CountsUndisturbed DEF WorkerRetries
  <2>7. Range(chan["retryQueue"])' \subseteq Range(chan["retryQueue"]) \cup {t}
    BY <1>0, <2>2, Names, SendFacts
  <2>8. AttemptLeft'
    BY <1>0, <1>22, <2>2, <2>3, <2>7, Names, Distinct
       DEF WorkerRetries, AttemptLeft, RetryBudget, Goto, RestOK, Loops
  <2>9. QED
    BY <2>4, <2>5, <2>6, <2>8 DEF JInv
<1>23. ASSUME NEW w \in Workers, WorkerAbandons(w) PROVE JInv'
  <2>1. PICK t \in Tasks : held[w] = {t}
    BY <1>0, <1>23 DEF WorkerAbandons, OneTask, Resting, Loops, Queues
  <2>2. Release(w, t) /\ outcome' = [outcome EXCEPT ![t] = "abandoned"] /\ InFlight(t)
    BY <1>23, <2>1, Names DEF WorkerAbandons, InFlight
  <2>3. \A l \in Loops \ {w} : held'[l] = held[l]
    BY <1>0, <2>2, Names, Distinct, ReleaseFacts
  <2>4. held'[w] = {}
    BY <1>0, <2>1, <2>2, Names, ReleaseFacts
  <2>5. OneTask'
    BY <1>0, <1>23, <2>3, <2>4, LoopMoves DEF WorkerAbandons, Resting, Loops
  <2>6. StoreFirst'
    BY <1>0, <1>23, <2>3, StoresUndisturbed DEF WorkerAbandons, Loops
  <2>7. PushCount'
    BY <1>0, <1>23, <1>p, <2>2, AbandonCounts DEF WorkerAbandons
  <2>8. AttemptLeft'
    BY <1>0, <1>23, <2>2, <2>3, Distinct, AttemptsUndisturbed
       DEF WorkerAbandons, Release, Goto, RestOK, Loops
  <2>9. QED
    BY <2>5, <2>6, <2>7, <2>8 DEF JInv
<1>24. CASE RetryTick
  <2>1. OneTask'
    BY <1>0, <1>24, LoopMoves DEF RetryTick, pipeline, OneTask, Resting, Loops, Queues
  <2>2. StoreFirst'
    BY <1>0, <1>24, StoresUndisturbed DEF RetryTick, pipeline, task, Loops
  <2>3. PushCount'
    BY <1>0, <1>24, CountsUndisturbed DEF RetryTick, task
  <2>4. AttemptLeft'
    BY <1>0, <1>24, Distinct, AttemptsUndisturbed
       DEF RetryTick, Goto, pipeline, task, RestOK, Loops
  <2>5. QED
    BY <2>1, <2>2, <2>3, <2>4 DEF JInv
<1>25. CASE ScanEnds
  <2>1. OneTask'
    BY <1>0, <1>25, LoopMoves DEF ScanEnds, pipeline, OneTask, Resting, Loops, Queues
  <2>2. StoreFirst'
    BY <1>0, <1>25, StoresUndisturbed DEF ScanEnds, pipeline, task, Loops
  <2>3. PushCount'
    BY <1>0, <1>25, CountsUndisturbed DEF ScanEnds, task
  <2>4. AttemptLeft'
    BY <1>0, <1>25, Distinct, AttemptsUndisturbed
       DEF ScanEnds, Goto, pipeline, task, RestOK, Loops
  <2>5. QED
    BY <2>1, <2>2, <2>3, <2>4 DEF JInv
<1>26. CASE ScanTakesDue
  <2> DEFINE h == Head(chan["retryQueue"])
  <2>1. /\ h \in Tasks /\ h \in Range(chan["retryQueue"])
        /\ h \notin Range(chan["retryQueue"])'
        /\ Range(chan["retryQueue"])' \subseteq Range(chan["retryQueue"])
        /\ \A k \in Goroutines :
               held'[k] = IF k = "retryWorker"
                          THEN held["retryWorker"] \cup {h} ELSE held[k]
    <3>1. Receive("retryWorker", "retryQueue")
      BY <1>26 DEF ScanTakesDue
    <3>2. QED
      BY <1>0, <3>1, <1>r, ReceiveFacts
  <2> HIDE DEF h
  <2>2. /\ held'["retryWorker"] = {h}
        /\ \A l \in Loops \ {"retryWorker"} : held'[l] = held[l]
    BY <1>0, <1>26, <2>1, Names, Distinct DEF ScanTakesDue, OneTask, Resting, Loops
  <2>3. OneTask'
    BY <1>0, <1>26, <2>1, <2>2, LoopMoves DEF ScanTakesDue, Resting, Loops, Queues
  <2>4. StoreFirst'
    BY <1>0, <1>26, <2>2, StoresUndisturbed DEF ScanTakesDue, task, Loops
  <2>5. PushCount'
    BY <1>0, <1>26, CountsUndisturbed DEF ScanTakesDue, task
  <2>6. AttemptLeft'
    <3>1. retries' = [retries EXCEPT ![h] = @ + 1] /\ retries[h] < MaxRetries
      BY <1>0, <1>26, <2>1 DEF ScanTakesDue, AttemptLeft, RetryBudget, h
    <3>2. retries \in [Tasks -> Nat] /\ MaxRetries \in Nat
      BY <1>0, SizesAssumption DEF RestOK
    <3>3. \A t \in Tasks : retries'[t] = IF t = h THEN retries[t] + 1 ELSE retries[t]
      BY <3>1, <3>2
    <3>4. RetryBudget'
      BY <1>0, <2>1, <3>1, <3>2, <3>3 DEF AttemptLeft, RetryBudget
    <3>5. QED
      BY <1>0, <1>26, <3>4 DEF ScanTakesDue, Goto, AttemptLeft, RestOK, Loops
  <2>7. QED
    BY <2>3, <2>4, <2>5, <2>6 DEF JInv
<1>27. CASE ScanTakesEarly
  <2> DEFINE h == Head(chan["retryQueue"])
  <2>1. /\ h \in Tasks /\ h \in Range(chan["retryQueue"])
        /\ h \notin Range(chan["retryQueue"])'
        /\ Range(chan["retryQueue"])' \subseteq Range(chan["retryQueue"])
        /\ \A k \in Goroutines :
               held'[k] = IF k = "retryWorker"
                          THEN held["retryWorker"] \cup {h} ELSE held[k]
    <3>1. Receive("retryWorker", "retryQueue")
      BY <1>27 DEF ScanTakesEarly
    <3>2. QED
      BY <1>0, <3>1, <1>r, ReceiveFacts
  <2> HIDE DEF h
  <2>2. /\ held'["retryWorker"] = {h}
        /\ \A l \in Loops \ {"retryWorker"} : held'[l] = held[l]
    BY <1>0, <1>27, <2>1, Names, Distinct DEF ScanTakesEarly, OneTask, Resting, Loops
  <2>3. OneTask'
    BY <1>0, <1>27, <2>1, <2>2, LoopMoves DEF ScanTakesEarly, Resting, Loops, Queues
  <2>4. StoreFirst'
    BY <1>0, <1>27, <2>2, StoresUndisturbed DEF ScanTakesEarly, task, Loops
  <2>5. PushCount'
    BY <1>0, <1>27, CountsUndisturbed DEF ScanTakesEarly, task
  <2>6. AttemptLeft'
    BY <1>0, <1>27, <2>1, <2>2 DEF ScanTakesEarly, task, AttemptLeft, RetryBudget
  <2>7. QED
    BY <2>3, <2>4, <2>5, <2>6 DEF JInv
<1>28. CASE PutBack
  <2>1. PICK t \in Tasks : held["retryWorker"] = {t}
    BY <1>0, <1>28 DEF PutBack, OneTask, Resting, Loops, Queues
  <2>2. Send("retryWorker", t, "retryQueue") \/ Release("retryWorker", t)
    BY <1>28, <2>1 DEF PutBack
  <2>3. \A k \in Goroutines : held'[k] = IF k = "retryWorker" THEN {} ELSE held[k]
    <3>1. \A k \in Goroutines :
             held'[k] = IF k = "retryWorker" THEN held[k] \ {t} ELSE held[k]
      BY <1>0, <2>2, <1>r DEF Pipe, Send, Release
    <3>2. QED
      BY <2>1, <3>1
  <2>4. OneTask'
    BY <1>0, <1>28, <1>l, <2>3, LoopMoves DEF PutBack, Resting, Loops
  <2>5. StoreFirst'
    BY <1>0, <1>28, <1>l, <2>3, StoresUndisturbed DEF PutBack, task, Loops
  <2>6. PushCount'
    BY <1>0, <1>28, CountsUndisturbed DEF PutBack, task
  <2>7. Range(chan["retryQueue"])' \subseteq Range(chan["retryQueue"]) \cup {t}
    BY <1>0, <2>2, Names, SendFacts DEF Release
  <2>8. AttemptLeft'
    BY <1>0, <1>28, <2>1, <2>7
       DEF PutBack, task, AttemptLeft, RetryBudget, Goto, RestOK, Loops
  <2>9. QED
    BY <2>4, <2>5, <2>6, <2>8 DEF JInv
<1>29. CASE SendRetry
  <2>0. PICK t \in Tasks :
          /\ t \in held["retryWorker"]
          /\ \/ Send("retryWorker", t, "workerChan")
             \/ Spawn("retryWorker", "reschedule", t)
    BY <1>29, <1>t, Names DEF SendRetry, Placers
  <2>m. /\ "retryWorker" \in Goroutines /\ "retryQueue" \in Channels
        /\ "workerChan" \in Channels /\ "workerChan" # "retryQueue"
        /\ "reschedule" \in Goroutines /\ "reschedule" \notin Loops
    BY Names, Distinct DEF Loops
  <2>1. \A l \in Loops \ {"retryWorker"} : held'[l] = held[l]
    BY <1>0, <1>l, <2>0, <2>m DEF Pipe, Send, Spawn
  <2>2. held'["retryWorker"] = {}
    <3>1. PICK u \in Tasks : held["retryWorker"] = {u}
      BY <1>0, <1>29 DEF SendRetry, OneTask, Resting, Loops, Queues
    <3>2. held'["retryWorker"] = held["retryWorker"] \ {t}
      BY <1>0, <1>l, <2>0, <2>m DEF Pipe, Send, Spawn
    <3>3. QED
      BY <2>0, <3>1, <3>2
  <2>3. OneTask'
    BY <1>0, <1>29, <2>1, <2>2, LoopMoves DEF SendRetry, Resting, Loops, Queues
  <2>4. StoreFirst'
    BY <1>0, <1>29, <2>1, StoresUndisturbed DEF SendRetry, task, Loops
  <2>5. PushCount'
    BY <1>0, <1>29, CountsUndisturbed DEF SendRetry, task
  <2>6. Range(chan["retryQueue"])' \subseteq Range(chan["retryQueue"])
    BY <1>0, <2>0, <2>m, SendFacts, SpawnFacts DEF Spawn
  <2>7. AttemptLeft'
    BY <1>0, <1>29, <2>1, <2>6, Distinct, AttemptsUndisturbed
       DEF SendRetry, Goto, task, RestOK, Loops
  <2>8. QED
    BY <2>3, <2>4, <2>5, <2>7 DEF JInv
<1>30. ASSUME NEW t \in Tasks, Reschedule(t) PROVE JInv'
  <2>1. /\ t \in held["reschedule"]
        /\ Send("reschedule", t, "retryQueue") \/ Release("reschedule", t)
    BY <1>30 DEF Reschedule, ScheduleRetry, Send, Release
  <2>2. \A l \in Loops : held'[l] = held[l]
    BY <1>0, <2>1, Names, Distinct, SendFacts, ReleaseFacts DEF Spawned
  <2>3. OneTask' /\ StoreFirst'
    BY <1>0, <1>30, <2>2, LoopsUndisturbed DEF Reschedule
  <2>4. PushCount'
    BY <1>0, <1>30, CountsUndisturbed DEF Reschedule
  <2>5. CASE ScheduleRetry("reschedule", t)
    <3>1. Range(chan["retryQueue"])' \subseteq Range(chan["retryQueue"]) \cup {t}
      BY <1>0, <2>5, Names, SendFacts DEF ScheduleRetry, Spawned
    <3>2. AttemptLeft'
      BY <1>0, <1>30, <2>2, <2>5, <3>1
         DEF Reschedule, ScheduleRetry, CanRetry, AttemptLeft, RetryBudget, Loops
    <3>3. QED
      BY <2>3, <2>4, <3>2 DEF JInv
  <2>6. CASE Release("reschedule", t)
    <3>1. AttemptLeft'
      BY <1>0, <1>30, <2>2, <2>6, AttemptsUndisturbed DEF Reschedule, Release, Loops
    <3>2. QED
      BY <2>3, <2>4, <3>1 DEF JInv
  <2>7. QED
    BY <1>30, <2>5, <2>6 DEF Reschedule
<1>31. CASE RetryManagerTake
  <2>0. Receive("runRetryManager", "workerChan")
    BY <1>31, <1>t, Names DEF RetryManagerTake, Placers
  <2>m. /\ "runRetryManager" \in Goroutines /\ "retryQueue" \in Channels
        /\ "runRetryManager" \notin Loops /\ "workerChan" \in Channels
        /\ "workerChan" # "retryQueue"
    BY Names, Distinct DEF Loops
  <2>1. \A l \in Loops : held'[l] = held[l]
    BY <1>0, <1>l, <2>0, <2>m DEF Pipe, Receive
  <2>2. OneTask' /\ StoreFirst'
    BY <1>0, <1>31, <2>1, LoopsUndisturbed DEF RetryManagerTake, task
  <2>3. PushCount'
    BY <1>0, <1>31, CountsUndisturbed DEF RetryManagerTake, task
  <2>4. Range(chan["retryQueue"])' \subseteq Range(chan["retryQueue"])
    BY <1>0, <2>0, <2>m, ReceiveFacts
  <2>5. AttemptLeft'
    BY <1>0, <1>31, <2>1, <2>4, AttemptsUndisturbed DEF RetryManagerTake, task, Loops
  <2>6. QED
    BY <2>2, <2>3, <2>5 DEF JInv
<1>32. CASE DispatchToWorker
  <2>0. PICK t \in Tasks, w \in Workers :
          t \in held["runRetryManager"] /\ Send("runRetryManager", t, w)
    BY <1>32, <1>t, Names DEF DispatchToWorker, Place, Placers
  <2>m. /\ "runRetryManager" \in Goroutines /\ "retryQueue" \in Channels
        /\ "runRetryManager" \notin Loops /\ w \in Channels
        /\ w # "retryQueue"
    BY Names, Distinct DEF Loops
  <2>1. \A l \in Loops : held'[l] = held[l]
    BY <1>0, <1>l, <2>0, <2>m DEF Pipe, Send
  <2>2. OneTask' /\ StoreFirst'
    BY <1>0, <1>32, <2>1, LoopsUndisturbed DEF DispatchToWorker, task
  <2>3. PushCount'
    BY <1>0, <1>32, CountsUndisturbed DEF DispatchToWorker, task
  <2>4. Range(chan["retryQueue"])' \subseteq Range(chan["retryQueue"])
    BY <1>0, <2>0, <2>m, SendFacts
  <2>5. AttemptLeft'
    BY <1>0, <1>32, <2>1, <2>4, AttemptsUndisturbed DEF DispatchToWorker, task, Loops
  <2>6. QED
    BY <2>2, <2>3, <2>5 DEF JInv
<1>33. CASE DispatchFindsFull
  <2>1. OneTask' /\ StoreFirst'
    BY <1>0, <1>33, LoopsUndisturbed DEF DispatchFindsFull, FindFull, pipeline, task
  <2>2. PushCount'
    BY <1>0, <1>33, CountsUndisturbed DEF DispatchFindsFull, FindFull, task
  <2>3. AttemptLeft'
    BY <1>0, <1>33, AttemptsUndisturbed DEF DispatchFindsFull, FindFull, pipeline, task
  <2>4. QED
    BY <2>1, <2>2, <2>3 DEF JInv
<1>34. CASE DispatchFails
  <2>0. PICK t \in Tasks : /\ t \in held["runRetryManager"]
                           /\ Spawn("runRetryManager", "resend", t)
    BY <1>34, <1>t, Names DEF DispatchFails, GiveUpPlacing, Placers
  <2>m. /\ "runRetryManager" \in Goroutines /\ "retryQueue" \in Channels
        /\ "runRetryManager" \notin Loops /\ "resend" \in Goroutines
        /\ "resend" \notin Loops
    BY Names, Distinct DEF Loops
  <2>1. \A l \in Loops : held'[l] = held[l]
    BY <1>0, <1>l, <2>0, <2>m DEF Pipe, Spawn
  <2>2. OneTask' /\ StoreFirst'
    BY <1>0, <1>34, <2>1, LoopsUndisturbed DEF DispatchFails, task
  <2>3. PushCount'
    BY <1>0, <1>34, CountsUndisturbed DEF DispatchFails, task
  <2>4. Range(chan["retryQueue"])' \subseteq Range(chan["retryQueue"])
    BY <1>0, <2>0, <2>m, SpawnFacts DEF Spawn
  <2>5. AttemptLeft'
    BY <1>0, <1>34, <2>1, <2>4, AttemptsUndisturbed DEF DispatchFails, task, Loops
  <2>6. QED
    BY <2>2, <2>3, <2>5 DEF JInv
<1>35. ASSUME NEW t \in Tasks, Resend(t) PROVE JInv'
  <2>0. Send("resend", t, "inputChan")
    BY <1>35, <1>t, Names DEF Resend, Placers
  <2>m. /\ "resend" \in Goroutines /\ "retryQueue" \in Channels
        /\ "resend" \notin Loops /\ "inputChan" \in Channels
        /\ "inputChan" # "retryQueue"
    BY Names, Distinct DEF Loops
  <2>1. \A l \in Loops : held'[l] = held[l]
    BY <1>0, <1>l, <2>0, <2>m DEF Pipe, Send
  <2>2. OneTask' /\ StoreFirst'
    BY <1>0, <1>35, <2>1, LoopsUndisturbed DEF Resend, task
  <2>3. PushCount'
    BY <1>0, <1>35, CountsUndisturbed DEF Resend, task
  <2>4. Range(chan["retryQueue"])' \subseteq Range(chan["retryQueue"])
    BY <1>0, <2>0, <2>m, SendFacts
  <2>5. AttemptLeft'
    BY <1>0, <1>35, <2>1, <2>4, AttemptsUndisturbed DEF Resend, task, Loops
  <2>6. QED
    BY <2>2, <2>3, <2>5 DEF JInv
<1>36. ASSUME NEW t \in Tasks, Expire(t) PROVE JInv'
  <2>1. OneTask' /\ StoreFirst'
    BY <1>0, <1>36, LoopsUndisturbed DEF Expire, pipeline, task
  <2>2. PushCount'
    BY <1>0, <1>36, CountsUndisturbed DEF Expire, task
  <2>3. AttemptLeft'
    BY <1>0, <1>36, AttemptsUndisturbed DEF Expire, pipeline, task
  <2>4. QED
    BY <2>1, <2>2, <2>3 DEF JInv
<1>37. ASSUME NEW t \in Tasks, BecomeDue(t) PROVE JInv'
  <2>1. OneTask' /\ StoreFirst'
    BY <1>0, <1>37, LoopsUndisturbed DEF BecomeDue, pipeline, task
  <2>2. PushCount'
    BY <1>0, <1>37, CountsUndisturbed DEF BecomeDue, task
  <2>3. AttemptLeft'
    BY <1>0, <1>37, AttemptsUndisturbed DEF BecomeDue, pipeline, task
  <2>4. QED
    BY <2>1, <2>2, <2>3 DEF JInv
<1>38. CASE UNCHANGED vars
  BY <1>0, <1>38 DEF vars, JInv, OneTask, StoreFirst, PushCount, AttemptLeft,
     RetryBudget
<1>39. QED
  BY <1>1, <1>2, <1>3, <1>4, <1>5, <1>6, <1>7, <1>8, <1>9, <1>10, <1>11, <1>12,
     <1>13, <1>14, <1>15, <1>16, <1>17, <1>18, <1>19, <1>20, <1>21, <1>22, <1>23,
     <1>24, <1>25, <1>26, <1>27, <1>28, <1>29, <1>30, <1>31, <1>32, <1>33, <1>34,
     <1>35, <1>36, <1>37, <1>38
     DEF Next, Handler, Submit, MainLoop, QueueManager, Worker, RetryWorker,
         RetryManager, Time

LEMMA JInvInvariant == Spec => [](IInv /\ JInv)
<1>1. ASSUME Init PROVE JInv
  <2>1. OneTask
    BY <1>1, Names DEF Init, OneTask, Resting
  <2>2. StoreFirst /\ PushCount
    BY <1>1 DEF Init, StoreFirst, PushCount, Loops
  <2>3. chan["retryQueue"] = <<>> /\ pc["retryWorker"] = "idle"
    BY <1>1, Names DEF Init, Loops
  <2>4. AttemptLeft
    BY <1>1, <2>3, SizesAssumption DEF Init, AttemptLeft, RetryBudget, Range
  <2>5. QED
    BY <2>1, <2>2, <2>4 DEF JInv
<1>2. QED
  BY <1>1, IInvInvariant, JInvStep, PTL DEF Spec

\* However often a task is retried, its message is broadcast at most once, and
\* never before it is in the user's database.
THEOREM PushedAtMostOnce == Spec => []PushedOnceStored
<1>1. JInv => PushedOnceStored
  BY DEF JInv, PushCount, PushedOnceStored
<1>2. QED
  BY <1>1, JInvInvariant, PTL

\* No path into the retry queue lets RetryCount exceed max_retries.
THEOREM RetriesAreBounded == Spec => []RetryBudget
  BY JInvInvariant, PTL DEF JInv, AttemptLeft

-----------------------------------------------------------------------------
(* What a step does to the fate of a task and to the counters              *)

\* Task t, and no other, leaves the pipeline.
Leaves(t) == \A u \in Tasks : InFlight(u)' <=> InFlight(u) /\ u # t

Counters == <<stats.received, stats.delivered, stats.failed>>

\* A task is handed over, or a goroutine takes a step of its own.
Moves ==
    /\ UNCHANGED <<client, outcome, stored, pushes, Counters>>
    /\ \A u \in Tasks : InFlight(u)' <=> InFlight(u)

\* The INSERT of a delivery attempt.
Stores(t) ==
    /\ InFlight(t) /\ ~stored[t]
    /\ stored' = [stored EXCEPT ![t] = TRUE]
    /\ UNCHANGED <<client, outcome, pushes, Counters>>
    /\ \A u \in Tasks : InFlight(u)' <=> InFlight(u)

Delivers(t) ==
    /\ InFlight(t) /\ Leaves(t)
    /\ stored[t]
    /\ pushes' = [pushes EXCEPT ![t] = @ + 1]
    /\ outcome' = [outcome EXCEPT ![t] = "delivered"]
    /\ stats' = [stats EXCEPT !.delivered = @ + 1]
    /\ UNCHANGED <<client, stored>>

Abandons(t) ==
    /\ InFlight(t) /\ Leaves(t)
    /\ outcome' = [outcome EXCEPT ![t] = "abandoned"]
    /\ stats' = [stats EXCEPT !.failed = @ + 1]
    /\ UNCHANGED <<client, stored, pushes>>

\* The task is dropped and not counted.
Loses(t) ==
    /\ InFlight(t) /\ Leaves(t)
    /\ DroppedWhenFull(t)
    /\ UNCHANGED <<client, outcome, stored, pushes, Counters>>

PipelineStep == \/ Moves
                \/ \E t \in Tasks : Stores(t) \/ Delivers(t) \/ Abandons(t) \/ Loses(t)

\* What any step of the goroutines does to the fate of a task and to the counters.
LEMMA StepKinds ==
    ASSUME IInv, JInv, Next
    PROVE  \/ PipelineStep
           \/ \E t \in Tasks : Handler(t) \/ Submit(t)
<1>0. Pipe /\ RestOK /\ OneTask /\ StoreFirst /\ AttemptLeft
  BY IInvParts DEF JInv
<1>h. \A g \in Goroutines : held[g] \subseteq Tasks
  BY <1>0 DEF Pipe
<1>m. ASSUME UNCHANGED <<client, outcome, stored, pushes, stats>>,
             \A u \in Tasks : InFlight(u)' <=> InFlight(u)
      PROVE  PipelineStep
  BY <1>m DEF PipelineStep, Moves, Counters
<1>i. ASSUME UNCHANGED pipeline PROVE \A u \in Tasks : InFlight(u)' <=> InFlight(u)
  BY <1>i DEF pipeline, InFlight
<1>r. ASSUME NEW g \in Goroutines, NEW c \in Channels, Receive(g, c)
      PROVE  \A u \in Tasks : InFlight(u)' <=> InFlight(u)
  BY <1>0, <1>r, ReceiveFacts
<1>s. ASSUME NEW g \in Goroutines, NEW t \in held[g], NEW c \in Channels, Send(g, t, c)
      PROVE  \A u \in Tasks : InFlight(u)' <=> InFlight(u)
  BY <1>0, <1>h, <1>s, SendFacts
<1>p. ASSUME NEW g \in Placers, NEW s \in Spawned, NEW t \in held[g], Spawn(g, s, t)
      PROVE  \A u \in Tasks : InFlight(u)' <=> InFlight(u)
  BY <1>0, <1>h, <1>p, SpawnFacts DEF Placers, Spawned, Goroutines
<1>d. ASSUME NEW g \in Goroutines, NEW t \in held[g], Release(g, t)
      PROVE  t \in Tasks /\ InFlight(t) /\ Leaves(t)
  BY <1>0, <1>h, <1>d, ReleaseFacts DEF InFlight, Leaves
<1>1. CASE MainTake \/ MainDispatch
  BY <1>1, <1>m, <1>r, <1>s, <1>h, Names DEF MainTake, MainDispatch, task
<1>2. CASE MainDrop
  <2>1. PICK t \in held["runMainLoop"] :
          Release("runMainLoop", t) /\ outcome' = [outcome EXCEPT ![t] = "abandoned"]
    BY <1>2 DEF MainDrop
  <2>2. Abandons(t) /\ t \in Tasks
    BY <1>2, <2>1, <1>d, Names DEF MainDrop, Abandons, Count
  <2>3. QED
    BY <2>2 DEF PipelineStep
<1>3. CASE QueueTick \/ PollFindsNothing \/ DistributeFindsFull
  BY <1>3, <1>m, <1>i DEF QueueTick, PollFindsNothing, DistributeFindsFull, task
<1>4. CASE PollTakes
  BY <1>4, <1>m, <1>r, Names DEF PollTakes, task
<1>5. CASE Distribute
  BY <1>5, <1>m, <1>s, Names DEF Distribute, Place, task
<1>6. CASE DistributeFails
  BY <1>6, <1>m, <1>p DEF DistributeFails, GiveUpPlacing, task, Placers, Spawned
<1>7. ASSUME NEW t \in Tasks, Requeue(t) PROVE PipelineStep
  <2>1. CASE Send("requeue", t, QueueOf(t))
    BY <1>7, <2>1, <1>m, <1>s, Names DEF Requeue, task, Send
  <2>2. CASE ~Room(QueueOf(t)) /\ Release("requeue", t)
    <3>1. t \in held["requeue"]
      BY <2>2 DEF Release
    <3>2. Loses(t)
      BY <1>7, <2>2, <3>1, <1>d, Names DEF Requeue, task, Loses, DroppedWhenFull, Counters
    <3>3. QED
      BY <3>2 DEF PipelineStep
  <2>3. QED
    BY <1>7, <2>1, <2>2 DEF Requeue
<1>8. ASSUME NEW w \in Workers, WorkerTake(w) PROVE PipelineStep
  BY <1>8, <1>m, <1>r, Names DEF WorkerTake, task
<1>9. ASSUME NEW w \in Workers, CheckExpired(w) \/ TouchChannel(w) \/ DatabaseFails(w)
      PROVE  PipelineStep
  BY <1>9, <1>m, <1>i DEF CheckExpired, TouchChannel, DatabaseFails, task
<1>10. ASSUME NEW w \in Workers, Insert(w) PROVE PipelineStep
  <2>1. PICK t \in held[w] : ~stored[t] /\ stored' = [stored EXCEPT ![t] = TRUE]
    BY <1>10 DEF Insert
  <2>2. t \in Tasks /\ InFlight(t)
    BY <2>1, <1>h, Names DEF InFlight
  <2>3. Stores(t)
    BY <1>10, <2>1, <2>2, <1>i DEF Insert, Stores, Counters
  <2>4. QED
    BY <2>2, <2>3 DEF PipelineStep
<1>11. ASSUME NEW w \in Workers, Push(w) PROVE PipelineStep
  <2>1. PICK t \in held[w] : /\ Release(w, t)
                            /\ pushes' = [pushes EXCEPT ![t] = @ + 1]
                            /\ outcome' = [outcome EXCEPT ![t] = "delivered"]
    BY <1>11 DEF Push
  <2>2. stored[t]
    BY <1>0, <1>11, <2>1 DEF Push, StoreFirst
  <2>3. Delivers(t) /\ t \in Tasks
    BY <1>11, <2>1, <2>2, <1>d, Names DEF Push, Delivers, Count
  <2>4. QED
    BY <2>3 DEF PipelineStep
<1>12. ASSUME NEW w \in Workers, WorkerRetries(w) PROVE PipelineStep
  <2>1. \A u \in Tasks : InFlight(u)' <=> InFlight(u)
    BY <1>12, <1>s, Names DEF WorkerRetries, ScheduleRetry
  <2>2. UNCHANGED Counters
    BY <1>0, <1>12 DEF WorkerRetries, Count, RestOK, Counters
  <2>3. QED
    BY <1>12, <2>1, <2>2 DEF WorkerRetries, PipelineStep, Moves
<1>13. ASSUME NEW w \in Workers, WorkerAbandons(w) PROVE PipelineStep
  <2>1. PICK t \in held[w] : /\ Release(w, t)
                            /\ outcome' = [outcome EXCEPT ![t] = "abandoned"]
    BY <1>13 DEF WorkerAbandons
  <2>2. Abandons(t) /\ t \in Tasks
    BY <1>13, <2>1, <1>d, Names DEF WorkerAbandons, Abandons, Count
  <2>3. QED
    BY <2>2 DEF PipelineStep
<1>14. CASE RetryTick \/ ScanEnds
  BY <1>14, <1>m, <1>i DEF RetryTick, ScanEnds, task
<1>15. CASE ScanTakesDue \/ ScanTakesEarly
  BY <1>15, <1>m, <1>r, Names DEF ScanTakesDue, ScanTakesEarly, task
<1>16. CASE PutBack
  <2>1. PICK t \in held["retryWorker"] :
          \/ Send("retryWorker", t, "retryQueue")
          \/ ~Room("retryQueue") /\ Release("retryWorker", t)
    BY <1>16 DEF PutBack
  <2>2. CASE Send("retryWorker", t, "retryQueue")
    BY <1>16, <2>2, <1>m, <1>s, Names DEF PutBack, task
  <2>3. CASE ~Room("retryQueue") /\ Release("retryWorker", t)
    <3>1. Loses(t) /\ t \in Tasks
      BY <1>16, <2>3, <1>d, Names DEF PutBack, task, Loses, DroppedWhenFull, Counters
    <3>2. QED
      BY <3>1 DEF PipelineStep
  <2>4. QED
    BY <2>1, <2>2, <2>3
<1>17. CASE SendRetry
  <2>1. PICK t \in held["retryWorker"] :
          \/ Send("retryWorker", t, "workerChan")
          \/ Spawn("retryWorker", "reschedule", t)
    BY <1>17 DEF SendRetry
  <2>2. \A u \in Tasks : InFlight(u)' <=> InFlight(u)
    BY <1>0, <1>h, <2>1, Names, SendFacts, SpawnFacts
  <2>3. QED
    BY <1>17, <2>2, <1>m DEF SendRetry, task
<1>18. ASSUME NEW t \in Tasks, Reschedule(t) PROVE PipelineStep
  <2>1. CASE ScheduleRetry("reschedule", t)
    <3>1. t \in held["reschedule"] /\ Send("reschedule", t, "retryQueue")
      BY <2>1 DEF ScheduleRetry, Send
    <3>2. QED
      BY <1>18, <3>1, <1>m, <1>s, Names DEF Reschedule
  <2>2. CASE ~CanRetry(t) /\ Release("reschedule", t)
    <3>1. t \in held["reschedule"]
      BY <2>2 DEF Release
    <3>2. retries[t] = MaxRetries \/ ~Room("retryQueue")
      BY <1>0, <2>2, SizesAssumption DEF CanRetry, AttemptLeft, RetryBudget, RestOK
    <3>3. Loses(t)
      BY <1>18, <2>2, <3>1, <3>2, <1>d, Names
         DEF Reschedule, Loses, DroppedWhenFull, Counters
    <3>4. QED
      BY <3>3 DEF PipelineStep
  <2>3. QED
    BY <1>18, <2>1, <2>2 DEF Reschedule
<1>19. CASE RetryManagerTake
  BY <1>19, <1>m, <1>r, Names DEF RetryManagerTake, task
<1>20. CASE DispatchToWorker
  BY <1>20, <1>m, <1>s, Names DEF DispatchToWorker, Place, task
<1>21. CASE DispatchFindsFull
  BY <1>21, <1>m, <1>i DEF DispatchFindsFull, task
<1>22. CASE DispatchFails
  BY <1>22, <1>m, <1>p DEF DispatchFails, GiveUpPlacing, task, Placers, Spawned
<1>23. ASSUME NEW t \in Tasks, Resend(t) PROVE PipelineStep
  BY <1>23, <1>m, <1>s, Names DEF Resend, task, Send
<1>24. ASSUME NEW t \in Tasks, Time(t) PROVE PipelineStep
  BY <1>24, <1>m, <1>i DEF Time, Expire, BecomeDue, task
<1>25. QED
  BY <1>1, <1>2, <1>3, <1>4, <1>5, <1>6, <1>7, <1>8, <1>9, <1>10, <1>11, <1>12,
     <1>13, <1>14, <1>15, <1>16, <1>17, <1>18, <1>19, <1>20, <1>21, <1>22, <1>23,
     <1>24 DEF Next, MainLoop, QueueManager, Worker, RetryWorker, RetryManager
\* The submitter's steps, by what they do to the pipeline.
LEMMA SubmitterSteps ==
    ASSUME IInv, NEW t \in Tasks, Handler(t) \/ Submit(t)
    PROVE  /\ UNCHANGED <<outcome, stored, pushes>>
           /\ \A u \in Tasks : InFlight(u)' <=> InFlight(u) \/ (u = t /\ Enqueue(t))
<1>1. CASE Enqueue(t)
  BY <1>1, EnqueueFacts DEF Enqueue, task
<1>2. CASE ~Enqueue(t)
  <2>1. UNCHANGED <<pipeline, task>>
    BY <1>2 DEF Handler, Submit, Reject, Accept, SubmitTimeout, Acknowledge
  <2>2. QED
    BY <1>2, <2>1 DEF pipeline, task, InFlight
<1>3. QED
  BY <1>1, <1>2

-----------------------------------------------------------------------------
(* Fates are final, and nothing is dropped while there is room             *)

\* A task that was counted is never counted again, stored or pushed, by any
\* later step of any goroutine.
THEOREM FatesAreFinal == Spec => FateIsFinal
<1>1. ASSUME IInv, JInv, [Next]_vars, NEW t \in Tasks, outcome[t] # "pending"
      PROVE  /\ outcome'[t] = outcome[t]
             /\ stored'[t] = stored[t]
             /\ pushes'[t] = pushes[t]
  <2>0. ~InFlight(t) /\ RestOK
    BY <1>1, IInvParts DEF Fates, ResolvedIsGone
  <2>1. CASE PipelineStep
    BY <2>0, <2>1 DEF PipelineStep, Moves, Stores, Delivers, Abandons, Loses, RestOK
  <2>2. ASSUME NEW u \in Tasks, Handler(u) \/ Submit(u)
        PROVE  UNCHANGED <<outcome, stored, pushes>>
    BY <1>1, <2>2, SubmitterSteps
  <2>3. QED
    BY <1>1, <2>1, <2>2, StepKinds DEF vars
<1>2. IInv /\ JInv /\ [Next]_vars =>
        [\A t \in Tasks : outcome[t] # "pending" =>
            /\ outcome'[t] = outcome[t]
            /\ stored'[t] = stored[t]
            /\ pushes'[t] = pushes[t]]_vars
  BY <1>1
<1>3. QED
  BY <1>2, JInvInvariant, PTL DEF Spec, FateIsFinal

\* However the channels fill up, a task is dropped only at a full channel, or when
\* the goroutine that reschedules it finds no attempt left.
THEOREM DroppedOnlyWhenFull == Spec => LostOnlyWhenFull
<1>1. ASSUME IInv, JInv, [Next]_vars, NEW t \in Tasks,
             InFlight(t), ~InFlight(t)', outcome'[t] = "pending"
      PROVE  DroppedWhenFull(t)
  <2>1. CASE PipelineStep
    <3>1. ASSUME NEW u \in Tasks, Delivers(u) \/ Abandons(u) PROVE FALSE
      <4>1. u = t
        BY <1>1, <3>1 DEF Delivers, Abandons, Leaves
      <4>2. outcome'[t] # "pending"
        BY <1>1, <3>1, <4>1, IInvParts DEF Delivers, Abandons, RestOK
      <4>3. QED
        BY <1>1, <4>2
    <3>2. QED
      BY <1>1, <2>1, <3>1 DEF PipelineStep, Moves, Stores, Loses, Leaves
  <2>2. ASSUME NEW u \in Tasks, Handler(u) \/ Submit(u) PROVE FALSE
    BY <1>1, <2>2, SubmitterSteps
  <2>3. CASE UNCHANGED vars
    BY <1>1, <2>3 DEF vars, InFlight
  <2>4. QED
    BY <1>1, <2>1, <2>2, <2>3, StepKinds
<1>2. IInv /\ JInv /\ [Next]_vars =>
        [\A t \in Tasks : InFlight(t) /\ ~InFlight(t)' /\ outcome'[t] = "pending" =>
            DroppedWhenFull(t)]_vars
  BY <1>1
<1>3. QED
  BY <1>2, JInvInvariant, PTL DEF Spec, LostOnlyWhenFull

-----------------------------------------------------------------------------
(* The counters                                                            *)

Delivered == {t \in Tasks : outcome[t] = "delivered"}
Failed    == {t \in Tasks : outcome[t] = "abandoned" \/ client[t] = "rejected"}
With(c)   == {t \in Tasks : client[t] = c}

\* A counter is the number of the tasks of a kind, of which there are finitely
\* many, however many tasks there may be.
Counts(n, S) == IsFiniteSet(S) /\ n = Cardinality(S)

CInv == /\ Counts(stats.delivered, Delivered)
        /\ Counts(stats.failed, Failed)
        /\ Counts(stats.received, With("accepted"))
        /\ IsFiniteSet(With("sent"))

LEMMA CountsOneMore ==
    ASSUME NEW n, NEW S, Counts(n, S), NEW x, x \notin S
    PROVE  Counts(n + 1, S \cup {x})
BY FS_AddElement DEF Counts

LEMMA CInvStep == IInv /\ JInv /\ CInv /\ [Next]_vars => CInv'
<1> SUFFICES ASSUME IInv, JInv, CInv, [Next]_vars PROVE CInv'
  OBVIOUS
<1>0. RestOK /\ Fates
  BY IInvParts
<1>1. ASSUME UNCHANGED <<client, outcome, Counters>> PROVE CInv'
  BY <1>1 DEF CInv, Counters, Delivered, Failed, With
<1>2. ASSUME UNCHANGED client PROVE \A c : With(c)' = With(c)
  BY <1>2 DEF With
<1>3. ASSUME NEW t \in Tasks, Delivers(t) PROVE CInv'
  <2>1. outcome[t] = "pending" /\ client[t] \in {"sent", "accepted"}
    BY <1>0, <1>3 DEF Delivers, Fates, ResolvedIsGone
  <2>2. t \notin Delivered /\ Delivered' = Delivered \cup {t} /\ Failed' = Failed
    BY <1>0, <1>3, <2>1 DEF Delivers, Delivered, Failed, RestOK
  <2>3. /\ stats'.delivered = stats.delivered + 1
        /\ stats'.failed = stats.failed /\ stats'.received = stats.received
    BY <1>0, <1>3 DEF Delivers, RestOK
  <2>4. Counts(stats.delivered + 1, Delivered')
    BY <2>2, CountsOneMore DEF CInv
  <2>5. QED
    BY <1>2, <1>3, <2>2, <2>3, <2>4 DEF Delivers, CInv
<1>4. ASSUME NEW t \in Tasks, Abandons(t) PROVE CInv'
  <2>1. outcome[t] = "pending" /\ client[t] \in {"sent", "accepted"}
    BY <1>0, <1>4 DEF Abandons, Fates, ResolvedIsGone
  <2>2. t \notin Failed /\ Failed' = Failed \cup {t} /\ Delivered' = Delivered
    BY <1>0, <1>4, <2>1 DEF Abandons, Delivered, Failed, RestOK
  <2>3. /\ stats'.failed = stats.failed + 1
        /\ stats'.delivered = stats.delivered /\ stats'.received = stats.received
    BY <1>0, <1>4 DEF Abandons, RestOK
  <2>4. Counts(stats.failed + 1, Failed')
    BY <2>2, CountsOneMore DEF CInv
  <2>5. QED
    BY <1>2, <1>4, <2>2, <2>3, <2>4 DEF Abandons, CInv
<1>5. ASSUME NEW t \in Tasks, Reject(t) \/ SubmitTimeout(t) PROVE CInv'
  <2>1. /\ client[t] \in {"idle", "sending"} /\ client' = [client EXCEPT ![t] = "rejected"]
        /\ outcome' = outcome /\ stats' = [stats EXCEPT !.failed = @ + 1]
    BY <1>5 DEF Reject, SubmitTimeout, task, Count
  <2>2. outcome[t] = "pending"
    BY <1>0, <2>1 DEF Fates, CountedWasSent, RestOK
  <2>3. t \notin Failed /\ Failed' = Failed \cup {t} /\ Delivered' = Delivered
    BY <1>0, <2>1, <2>2 DEF Delivered, Failed, RestOK
  <2>4. With("accepted")' = With("accepted") /\ With("sent")' = With("sent")
    BY <1>0, <2>1 DEF With, RestOK
  <2>5. /\ stats'.failed = stats.failed + 1
        /\ stats'.delivered = stats.delivered /\ stats'.received = stats.received
    BY <1>0, <2>1 DEF RestOK
  <2>6. Counts(stats.failed + 1, Failed')
    BY <2>3, CountsOneMore DEF CInv
  <2>7. QED
    BY <2>3, <2>4, <2>5, <2>6 DEF CInv
<1>6. ASSUME NEW t \in Tasks, Accept(t) PROVE CInv'
  <2>1. UNCHANGED <<outcome, stats>> /\ With("accepted")' = With("accepted")
        /\ With("sent")' = With("sent") /\ Failed' = Failed /\ Delivered' = Delivered
    BY <1>0, <1>6 DEF Accept, task, With, Failed, Delivered, RestOK
  <2>2. QED
    BY <2>1 DEF CInv
<1>7. ASSUME NEW t \in Tasks, Enqueue(t) PROVE CInv'
  <2>1. /\ UNCHANGED <<outcome, stats>> /\ With("accepted")' = With("accepted")
        /\ Failed' = Failed /\ Delivered' = Delivered
        /\ With("sent")' = With("sent") \cup {t}
    BY <1>0, <1>7 DEF Enqueue, task, With, Failed, Delivered, RestOK
  <2>2. QED
    BY <2>1, FS_AddElement DEF CInv
<1>8. ASSUME NEW t \in Tasks, Acknowledge(t) PROVE CInv'
  <2>1. /\ UNCHANGED outcome /\ stats' = [stats EXCEPT !.received = @ + 1]
        /\ Failed' = Failed /\ Delivered' = Delivered
        /\ t \notin With("accepted")
        /\ With("accepted")' = With("accepted") \cup {t}
        /\ With("sent")' = With("sent") \ {t}
    BY <1>0, <1>8 DEF Acknowledge, Count, task, With, Failed, Delivered, RestOK
  <2>2. /\ stats'.received = stats.received + 1
        /\ stats'.delivered = stats.delivered /\ stats'.failed = stats.failed
    BY <1>0, <2>1 DEF RestOK
  <2>3. Counts(stats.received + 1, With("accepted")') /\ IsFiniteSet(With("sent")')
    BY <2>1, CountsOneMore, FS_RemoveElement DEF CInv
  <2>4. QED
    BY <2>1, <2>2, <2>3 DEF CInv
<1>9. CASE PipelineStep
  BY <1>1, <1>3, <1>4, <1>9 DEF PipelineStep, Moves, Stores, Loses
<1>10. CASE UNCHANGED vars
  BY <1>1, <1>10 DEF vars, Counters
<1>11. QED
  BY <1>5, <1>6, <1>7, <1>8, <1>9, <1>10, StepKinds DEF Handler, Submit

\* The counters of the delivery system count every request once, for any number
\* of concurrent requests.
THEOREM EachIsCountedOnce == Spec => []CountedOnce
<1>1. Init => CInv
  <2> SUFFICES ASSUME Init PROVE CInv
    OBVIOUS
  <2>1. /\ Delivered = {} /\ Failed = {} /\ With("accepted") = {} /\ With("sent") = {}
        /\ stats.delivered = 0 /\ stats.failed = 0 /\ stats.received = 0
    BY DEF Init, Delivered, Failed, With
  <2>2. QED
    BY <2>1, FS_EmptySet DEF CInv, Counts
<1>2. IInv /\ CInv => CountedOnce
  <2> SUFFICES ASSUME IInv, CInv PROVE CountedOnce
    OBVIOUS
  <2>1. Delivered \subseteq With("sent") \cup With("accepted")
    BY DEF IInv, Fates, CountedWasSent, Delivered, With
  <2>2. /\ IsFiniteSet(With("sent") \cup With("accepted"))
        /\ Cardinality(With("sent") \cup With("accepted"))
              = Cardinality(With("sent")) + Cardinality(With("accepted"))
    <3>1. With("sent") \cap With("accepted") = {}
      BY DEF With
    <3>2. IsFiniteSet(With("sent")) /\ IsFiniteSet(With("accepted"))
      BY DEF CInv, Counts
    <3>3. /\ Cardinality(With("sent")) \in Nat /\ Cardinality(With("accepted")) \in Nat
          /\ Cardinality(With("sent") \cap With("accepted")) = 0
      BY <3>1, <3>2, FS_CardinalityType, FS_EmptySet
    <3>4. /\ IsFiniteSet(With("sent") \cup With("accepted"))
          /\ Cardinality(With("sent") \cup With("accepted"))
                = Cardinality(With("sent")) + Cardinality(With("accepted"))
                     - Cardinality(With("sent") \cap With("accepted"))
      BY <3>2, FS_Union, Zenon
    <3>5. QED
      BY <3>3, <3>4
  <2>3. Cardinality(Delivered) <= Cardinality(With("sent") \cup With("accepted"))
    BY <2>1, <2>2, FS_Subset
  <2>4. stats.delivered <= stats.received + Cardinality(With("sent"))
    BY <2>2, <2>3, FS_CardinalityType DEF CInv, Counts
  <2>5. QED
    BY <2>4 DEF CInv, Counts, CountedOnce, Delivered, Failed, With
<1>3. QED
  BY <1>1, <1>2, CInvStep, JInvInvariant, PTL DEF Spec
-----------------------------------------------------------------------------
(* The contract of the delivery system                                     *)

\* Being present is being in the pipeline, before a step and after it.
LEMMA PresentIs ==
    /\ Present \subseteq Tasks /\ Present' \subseteq Tasks
    /\ \A t \in Tasks : (t \in Present <=> InFlight(t)) /\ (t \in Present' <=> InFlight(t)')
BY DEF Present, InFlight

\* A fate is read off the client, the outcome and the presence of the task.
LEMMA FateOf ==
    /\ Fate = [t \in Tasks |-> Fate[t]] /\ Fate' = [t \in Tasks |-> Fate'[t]]
    /\ \A t \in Tasks :
          LET admitted == client[t] \notin {"idle", "sending", "rejected"}
          IN  /\ client[t] \in {"idle", "sending"} => Fate[t] = "new"
              /\ client[t] = "rejected" => Fate[t] = "refused"
              /\ admitted /\ outcome[t] = "delivered" => Fate[t] = "delivered"
              /\ admitted /\ outcome[t] = "abandoned" => Fate[t] = "failed"
              /\ admitted /\ outcome[t] \notin {"delivered", "abandoned"} =>
                    Fate[t] = IF InFlight(t) THEN "pending" ELSE "lost"
    /\ \A t \in Tasks :
          LET admitted == client'[t] \notin {"idle", "sending", "rejected"}
          IN  /\ client'[t] \in {"idle", "sending"} => Fate'[t] = "new"
              /\ client'[t] = "rejected" => Fate'[t] = "refused"
              /\ admitted /\ outcome'[t] = "delivered" => Fate'[t] = "delivered"
              /\ admitted /\ outcome'[t] = "abandoned" => Fate'[t] = "failed"
              /\ admitted /\ outcome'[t] \notin {"delivered", "abandoned"} =>
                    Fate'[t] = IF InFlight(t)' THEN "pending" ELSE "lost"
<1>1. Fate = [t \in Tasks |-> Fate[t]] /\ Fate' = [t \in Tasks |-> Fate'[t]]
  BY DEF Fate
<1>2. ASSUME NEW t \in Tasks
      PROVE  /\ Fate[t] =
                   CASE client[t] \in {"idle", "sending"} -> "new"
                     [] client[t] = "rejected" -> "refused"
                     [] OTHER -> CASE outcome[t] = "delivered" -> "delivered"
                                   [] outcome[t] = "abandoned" -> "failed"
                                   [] OTHER -> IF t \in Present THEN "pending" ELSE "lost"
             /\ Fate'[t] =
                   CASE client'[t] \in {"idle", "sending"} -> "new"
                     [] client'[t] = "rejected" -> "refused"
                     [] OTHER -> CASE outcome'[t] = "delivered" -> "delivered"
                                   [] outcome'[t] = "abandoned" -> "failed"
                                   [] OTHER -> IF t \in Present' THEN "pending" ELSE "lost"
  BY DEF Fate
<1>3. ASSUME NEW t \in Tasks
      PROVE  LET admitted == client[t] \notin {"idle", "sending", "rejected"}
             IN  /\ client[t] \in {"idle", "sending"} => Fate[t] = "new"
                 /\ client[t] = "rejected" => Fate[t] = "refused"
                 /\ admitted /\ outcome[t] = "delivered" => Fate[t] = "delivered"
                 /\ admitted /\ outcome[t] = "abandoned" => Fate[t] = "failed"
                 /\ admitted /\ outcome[t] \notin {"delivered", "abandoned"} =>
                       Fate[t] = IF InFlight(t) THEN "pending" ELSE "lost"
  BY <1>2, PresentIs
<1>4. ASSUME NEW t \in Tasks
      PROVE  LET admitted == client'[t] \notin {"idle", "sending", "rejected"}
             IN  /\ client'[t] \in {"idle", "sending"} => Fate'[t] = "new"
                 /\ client'[t] = "rejected" => Fate'[t] = "refused"
                 /\ admitted /\ outcome'[t] = "delivered" => Fate'[t] = "delivered"
                 /\ admitted /\ outcome'[t] = "abandoned" => Fate'[t] = "failed"
                 /\ admitted /\ outcome'[t] \notin {"delivered", "abandoned"} =>
                       Fate'[t] = IF InFlight(t)' THEN "pending" ELSE "lost"
  BY <1>2, PresentIs
<1>5. QED
  BY <1>1, <1>3, <1>4

\* The abstract variables are the three maps.
LEMMA ContractForm ==
    /\ Contract!Init <=> /\ Fate = [t \in Tasks |-> "new"]
                         /\ InDatabase = {} /\ Broadcast = {}
    /\ \A t, from, to : Contract!Becomes(t, from, to) <=>
          Fate[t] = from /\ Fate' = [Fate EXCEPT ![t] = to]
BY PresentIs DEF Contract!Init, Contract!Becomes, InDatabase, Broadcast

LEMMA SameContractState ==
    ASSUME UNCHANGED <<Fate, InDatabase, Broadcast>> PROVE UNCHANGED Contract!vars
BY PresentIs DEF Contract!vars, InDatabase, Broadcast

\* A fate is read off the client, the outcome and the presence of the task.
LEMMA SameFate ==
    ASSUME NEW t \in Tasks, client'[t] = client[t], outcome'[t] = outcome[t],
           InFlight(t)' <=> InFlight(t)
    PROVE  Fate'[t] = Fate[t]
BY FateOf

\* What is in the pipeline is pending.
LEMMA InFlightIsPending ==
    ASSUME IInv, NEW t \in Tasks, InFlight(t)
    PROVE  Fate[t] = "pending" /\ client[t] \in {"sent", "accepted"} /\ outcome[t] = "pending"
BY FateOf, IInvParts DEF Fates, ResolvedIsGone

\* One task gets another fate.
LEMMA OneFate ==
    ASSUME NEW t \in Tasks, NEW from, NEW to, Fate[t] = from, Fate'[t] = to,
           \A u \in Tasks \ {t} : Fate'[u] = Fate[u]
    PROVE  Contract!Becomes(t, from, to)
BY FateOf, ContractForm

LEMMA PipelineKeepsContract ==
    ASSUME IInv, JInv, PipelineStep PROVE Contract!Next \/ UNCHANGED Contract!vars
<1>0. RestOK /\ PushCount
  BY IInvParts DEF JInv
<1>1. ASSUME UNCHANGED <<client, outcome>>, \A u \in Tasks : InFlight(u)' <=> InFlight(u)
      PROVE  Fate' = Fate
  BY FateOf, <1>1, SameFate
<1>2. CASE Moves
  <2>1. UNCHANGED <<Fate, InDatabase, Broadcast>>
    BY <1>1, <1>2 DEF Moves, InDatabase, Broadcast
  <2>2. QED
    BY <2>1, SameContractState
<1>3. ASSUME NEW t \in Tasks, Stores(t) PROVE Contract!Store(t)
  <2>1. Fate[t] = "pending" /\ Fate' = Fate
    BY FateOf, <1>1, <1>3, InFlightIsPending DEF Stores
  <2>2. t \notin InDatabase /\ InDatabase' = InDatabase \cup {t} /\ Broadcast' = Broadcast
    BY <1>0, <1>3 DEF Stores, InDatabase, Broadcast, RestOK
  <2>3. QED
    BY FateOf, <2>1, <2>2 DEF Contract!Store, InDatabase, Broadcast
<1>4. ASSUME NEW t \in Tasks, InFlight(t), Leaves(t), UNCHANGED client,
             \A u \in Tasks \ {t} : outcome'[u] = outcome[u]
      PROVE  /\ Contract!Becomes(t, "pending", Fate'[t])
             /\ client'[t] \in {"sent", "accepted"} /\ ~InFlight(t)'
  <2>1. Fate[t] = "pending" /\ client[t] \in {"sent", "accepted"}
    BY <1>4, InFlightIsPending
  <2>2. \A u \in Tasks \ {t} : Fate'[u] = Fate[u]
    BY <1>4, SameFate DEF Leaves
  <2>3. QED
    BY <1>4, <2>1, <2>2, OneFate DEF Leaves
<1>5. ASSUME NEW t \in Tasks, Delivers(t) PROVE Contract!Deliver(t)
  <2>1. outcome'[t] = "delivered" /\ \A u \in Tasks \ {t} : outcome'[u] = outcome[u]
    BY <1>0, <1>5 DEF Delivers, RestOK
  <2>2. Contract!Becomes(t, "pending", "delivered")
    <3>1. /\ Contract!Becomes(t, "pending", Fate'[t])
          /\ client'[t] \in {"sent", "accepted"}
      BY <1>4, <1>5, <2>1 DEF Delivers
    <3>2. Fate'[t] = "delivered"
      BY FateOf, <2>1, <3>1
    <3>3. QED
      BY <3>1, <3>2
  <2>3. pushes[t] = 0
    BY <1>0, <1>5, InFlightIsPending DEF Delivers, PushCount
  <2>4. /\ t \in InDatabase \ Broadcast
        /\ Broadcast' = Broadcast \cup {t} /\ InDatabase' = InDatabase
    BY <1>0, <1>5, <2>3 DEF Delivers, InDatabase, Broadcast, RestOK
  <2>5. QED
    BY <2>2, <2>4 DEF Contract!Deliver, InDatabase, Broadcast
<1>6. ASSUME NEW t \in Tasks, Abandons(t) PROVE Contract!Fail(t)
  <2>1. outcome'[t] = "abandoned" /\ \A u \in Tasks \ {t} : outcome'[u] = outcome[u]
    BY <1>0, <1>6 DEF Abandons, RestOK
  <2>2. /\ Contract!Becomes(t, "pending", Fate'[t])
        /\ client'[t] \in {"sent", "accepted"}
    BY <1>4, <1>6, <2>1 DEF Abandons
  <2>3. Fate'[t] = "failed"
    BY FateOf, <2>1, <2>2
  <2>4. QED
    BY <1>6, <2>2, <2>3 DEF Abandons, Contract!Fail, InDatabase, Broadcast
<1>7. ASSUME NEW t \in Tasks, Loses(t) PROVE Contract!Lose(t)
  <2>1. outcome'[t] = "pending"
    BY <1>7, InFlightIsPending DEF Loses
  <2>2. /\ Contract!Becomes(t, "pending", Fate'[t])
        /\ client'[t] \in {"sent", "accepted"} /\ ~InFlight(t)'
    BY <1>4, <1>7 DEF Loses
  <2>3. Fate'[t] = "lost"
    BY FateOf, <2>1, <2>2
  <2>4. QED
    BY <1>7, <2>2, <2>3 DEF Loses, Contract!Lose, InDatabase, Broadcast
<1>8. QED
  BY <1>2, <1>3, <1>5, <1>6, <1>7 DEF PipelineStep, Contract!Next

LEMMA SubmitterKeepsContract ==
    ASSUME IInv, NEW t \in Tasks, Handler(t) \/ Submit(t)
    PROVE  Contract!Next \/ UNCHANGED Contract!vars
<1>0. RestOK
  BY IInvParts
<1>1. UNCHANGED <<InDatabase, Broadcast>>
  BY SubmitterSteps DEF InDatabase, Broadcast
<1>2. \A u \in Tasks \ {t} : client'[u] = client[u]
  BY <1>0 DEF Handler, Submit, Reject, Accept, Enqueue, SubmitTimeout, Acknowledge, RestOK
<1>3. \A u \in Tasks \ {t} : Fate'[u] = Fate[u]
  BY <1>2, SubmitterSteps, SameFate
<1>4. CASE Reject(t) \/ SubmitTimeout(t)
  <2>1. Fate[t] = "new" /\ Fate'[t] = "refused"
    BY FateOf, <1>0, <1>4 DEF Reject, SubmitTimeout, RestOK
  <2>2. Contract!Refuse(t)
    BY <1>1, <1>3, <2>1, OneFate DEF Contract!Refuse, InDatabase, Broadcast
  <2>3. QED
    BY <2>2 DEF Contract!Next
<1>5. CASE Enqueue(t)
  <2>1. client[t] = "sending" /\ client'[t] = "sent" /\ InFlight(t)' /\ outcome'[t] = "pending"
    BY <1>0, <1>5, SubmitterSteps, IInvParts DEF Enqueue, RestOK, Fates, CountedWasSent
  <2>2. Fate[t] = "new" /\ Fate'[t] = "pending"
    BY FateOf, <2>1
  <2>3. Contract!Admit(t)
    BY <1>1, <1>3, <2>2, OneFate DEF Contract!Admit, InDatabase, Broadcast
  <2>4. QED
    BY <2>3 DEF Contract!Next
<1>6. CASE Accept(t) \/ Acknowledge(t)
  <2>1. Fate'[t] = Fate[t]
    <3>1. outcome'[t] = outcome[t] /\ (InFlight(t)' <=> InFlight(t))
      BY <1>6 DEF Accept, Acknowledge, task, pipeline, InFlight
    <3>2. \/ client[t] = "idle" /\ client'[t] = "sending"
          \/ client[t] = "sent" /\ client'[t] = "accepted"
      BY <1>0, <1>6 DEF Accept, Acknowledge, RestOK
    <3>3. QED
      BY FateOf, <3>1, <3>2
  <2>2. Fate' = Fate
    BY FateOf, <1>3, <2>1
  <2>3. QED
    BY <1>1, <2>2, SameContractState
<1>7. QED
  BY <1>4, <1>5, <1>6 DEF Handler, Submit

\* The pipeline, with all its channels, goroutines, timeouts and retries, implements
\* the contract: a message is refused or admitted, an admitted one is stored and then
\* pushed once, fails, or is lost.
THEOREM PipelineImplements == Spec => ImplementsContract
<1>1. Init => Contract!Init
  <2> SUFFICES ASSUME Init PROVE Contract!Init
    OBVIOUS
  <2>1. Fate = [t \in Tasks |-> "new"] /\ InDatabase = {} /\ Broadcast = {}
    <3>1. \A t \in Tasks : Fate[t] = "new"
      BY FateOf DEF Init
    <3>2. Fate = [t \in Tasks |-> "new"]
      BY <3>1, FateOf
    <3>3. QED
      BY <3>2 DEF Init, InDatabase, Broadcast
  <2>2. QED
    BY <2>1, ContractForm
<1>2. IInv /\ JInv /\ [Next]_vars => [Contract!Next]_Contract!vars
  <2> SUFFICES ASSUME IInv, JInv, [Next]_vars
               PROVE  Contract!Next \/ UNCHANGED Contract!vars
    OBVIOUS
  <2>1. CASE UNCHANGED vars
    <3>1. UNCHANGED <<Fate, InDatabase, Broadcast>>
      BY FateOf, <2>1, SameFate DEF vars, InFlight, InDatabase, Broadcast
    <3>2. QED
      BY <3>1, SameContractState
  <2>2. QED
    BY <2>1, StepKinds, PipelineKeepsContract, SubmitterKeepsContract
<1>3. QED
  BY <1>1, <1>2, JInvInvariant, PTL DEF Spec, ImplementsContract, Contract!Spec
=============================================================================
