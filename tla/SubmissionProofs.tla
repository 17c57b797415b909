-------------------------- MODULE SubmissionProofs --------------------------
(***************************************************************************)
(* Proofs about Submission and the admission control it calls, for any     *)
(* requests, batch sizes, priorities, queue capacity and readers.          *)
(***************************************************************************)
EXTENDS Submission, FiniteSetTheorems, TLAPS

-----------------------------------------------------------------------------
(* The admission control.                                                  *)

LEMMA AdmissionType ==
    ASSUME CountersOK, NEW p, ShouldAccept(p)
    PROVE  CountersOK'
<1>1. CASE AcceptFirst
  BY <1>1 DEF AcceptFirst, Accept, CountersOK
<1>2. ASSUME NEW m \in Pressures, Decide(p, m) PROVE CountersOK'
  <2>1. (~Refuses(p, m)) \in BOOLEAN /\ (m = "critical") \in BOOLEAN
    BY DEF Refuses
  <2>2. last' \in [critical : BOOLEAN, accepted : BOOLEAN]
    BY <1>2, <2>1 DEF Decide
  <2>3. sawCritical' \in BOOLEAN
    BY <1>2 DEF Decide
  <2> QED
    BY <1>2, <2>2, <2>3 DEF Decide, Accept, Reject, CountersOK
<1> QED
  BY <1>1, <1>2 DEF ShouldAccept

LEMMA AdmissionThrottles ==
    ASSUME CountersOK, ThrottleNeedsCritical, NEW p, ShouldAccept(p)
    PROVE  ThrottleNeedsCritical'
<1>1. ASSUME NEW m \in Pressures, Decide(p, m) PROVE ThrottleNeedsCritical'
  <2>1. CASE sawCritical \/ m = "critical"
    BY <1>1, <2>1 DEF Decide, ThrottleNeedsCritical
  <2>2. CASE ~sawCritical /\ m # "critical"
    <3>1. rejectionCount = 0
      BY <2>2 DEF CountersOK, ThrottleNeedsCritical
    <3>2. ~RateOver(3) /\ ~RateOver(5)
      BY <3>1 DEF RateOver, Total, CountersOK
    <3>3. ~Refuses(p, m)
      BY <2>2, <3>2 DEF Refuses
    <3> QED
      BY <1>1, <3>1, <3>3 DEF Decide, Accept, ThrottleNeedsCritical
  <2> QED
    BY <2>1, <2>2
<1>2. CASE AcceptFirst
  BY <1>2 DEF AcceptFirst, Accept, ThrottleNeedsCritical
<1> QED
  BY <1>1, <1>2 DEF ShouldAccept

LEMMA AdmissionReleases ==
    ASSUME CountersOK, ~RateOver(3), NEW p, ShouldAccept(p), ~last'.critical
    PROVE  ~RateOver(3)'
<1>1. ~RateOver(5)
  BY DEF RateOver, Total, CountersOK
<1>2. ASSUME NEW m \in Pressures, Decide(p, m) PROVE ~RateOver(3)'
  <2>1. m # "critical"
    BY <1>2 DEF Decide
  <2>2. ~Refuses(p, m)
    BY <1>1, <2>1 DEF Refuses
  <2> QED
    BY <1>2, <2>2 DEF Decide, Accept, RateOver, Total, CountersOK
<1>3. CASE AcceptFirst
  BY <1>3 DEF AcceptFirst, Accept, RateOver, Total, CountersOK
<1> QED
  BY <1>2, <1>3 DEF ShouldAccept

\* Every step but Admit leaves the admission control alone.
LEMMA OnlyAdmitCalls ==
    ASSUME [Next]_vars
    PROVE  \/ UNCHANGED backpressure
           \/ \E p \in Priorities : ShouldAccept(Priority(p))
BY DEF Next, vars, Handler, Stats, Bind, Admit, Send, SendTimesOut, Count,
   CountFailure, Answer, Take, Ask, Read, Respond

LEMMA CountersAreTyped == Spec => []CountersOK
<1>1. Init => CountersOK
  <2> SUFFICES ASSUME Init PROVE CountersOK
    OBVIOUS
  <2>1. last \in [critical : BOOLEAN, accepted : BOOLEAN]
    BY DEF Init, NewBackpressureCtrl
  <2> QED
    BY <2>1 DEF Init, NewBackpressureCtrl, CountersOK
<1>2. CountersOK /\ [Next]_vars => CountersOK'
  <2> SUFFICES ASSUME CountersOK, [Next]_vars PROVE CountersOK'
    OBVIOUS
  <2>1. CASE UNCHANGED backpressure
    BY <2>1 DEF backpressure, CountersOK
  <2> QED
    BY <2>1, OnlyAdmitCalls, AdmissionType
<1> QED
  BY <1>1, <1>2, PTL DEF Spec

\* Without critical pressure no task is ever refused: the rejection rate cannot
\* leave zero.
THEOREM OnlyCriticalStartsThrottling == Spec => []ThrottleNeedsCritical
<1>1. Init => ThrottleNeedsCritical
  BY DEF Init, NewBackpressureCtrl, ThrottleNeedsCritical
<1>2. CountersOK /\ ThrottleNeedsCritical /\ [Next]_vars => ThrottleNeedsCritical'
  <2> SUFFICES ASSUME CountersOK, ThrottleNeedsCritical, [Next]_vars
               PROVE  ThrottleNeedsCritical'
    OBVIOUS
  <2>1. CASE UNCHANGED backpressure
    BY <2>1 DEF backpressure, ThrottleNeedsCritical
  <2> QED
    BY <2>1, OnlyAdmitCalls, AdmissionThrottles
<1> QED
  BY <1>1, <1>2, CountersAreTyped, PTL DEF Spec

\* Neither high nor medium pressure brings a released limit back.
THEOREM ReleaseIsFinal == Spec => ReleasedStaysReleased
<1>1. CountersOK /\ [Next]_vars
        => [~RateOver(3) /\ ~last'.critical => ~RateOver(3)']_backpressure
  <2> SUFFICES ASSUME CountersOK, [Next]_vars, ~RateOver(3), ~last'.critical,
                      ~UNCHANGED backpressure
               PROVE  ~RateOver(3)'
    BY DEF backpressure
  <2> QED
    BY OnlyAdmitCalls, AdmissionReleases
<1> QED
  BY <1>1, CountersAreTyped, PTL DEF Spec, ReleasedStaysReleased

-----------------------------------------------------------------------------
(* The handlers.  What they have noted is counted one by one: a set that    *)
(* grows by one message with every counter step.                           *)

Outcomes == {"submitted", "error"}

AllNoted(result) == UNION {{r} \X Noted(r, result) : r \in Requests}

Counter(result) == IF result = "submitted" THEN "received" ELSE "failed"

NotedAreCounted ==
    \A result \in Outcomes :
        /\ IsFiniteSet(AllNoted(result))
        /\ Cardinality(AllNoted(result)) <= stats[Counter(result)]

\* A handler at work on a message has not noted all of them yet.
Unfinished ==
    \A r \in Requests : pc[r] \in {"send", "count", "fail"} => Len(results[r]) < Size[r]

Inv == TypeOK /\ Unfinished /\ NotedAreCounted

\* What the answers say is among what was noted.
LEMMA ResultsAreCounted ==
    ASSUME TypeOK, NotedAreCounted, NEW result \in Outcomes
    PROVE  /\ Cardinality(Results(result)) \in Nat
           /\ Cardinality(Results(result)) <= stats[Counter(result)]
<1>1. Results(result) \subseteq AllNoted(result)
  BY DEF Results, AllNoted
<1>2. IsFiniteSet(AllNoted(result))
  BY DEF NotedAreCounted
<1>3. /\ Cardinality(Results(result)) \in Nat
      /\ Cardinality(AllNoted(result)) \in Nat
      /\ Cardinality(Results(result)) <= Cardinality(AllNoted(result))
  BY <1>1, <1>2, FS_Subset, FS_CardinalityType
<1>4. stats[Counter(result)] \in Nat
  BY DEF TypeOK, Counter, Fields
<1> QED
  BY <1>3, <1>4 DEF NotedAreCounted

LEMMA NoteAddsOne ==
    ASSUME TypeOK, NEW r \in Requests, NEW x \in Outcomes, Note(r, x),
           NEW y \in Outcomes
    PROVE  AllNoted(y)' = IF y = x THEN AllNoted(y) \cup {Current(r)} ELSE AllNoted(y)
<1>1. /\ \A q \in Requests \ {r} : results'[q] = results[q]
      /\ results'[r] = Append(results[r], x)
      /\ results[r] \in Seq(Outcomes)
  BY DEF Note, TypeOK, Outcomes
<1>2. /\ DOMAIN results[r] = 1..Len(results[r]) /\ Len(results[r]) \in Nat
      /\ DOMAIN results'[r] = 1..(Len(results[r]) + 1)
      /\ results'[r][Len(results[r]) + 1] = x
      /\ \A i \in 1..Len(results[r]) : results'[r][i] = results[r][i]
  BY <1>1
<1>3. \A q \in Requests \ {r} : Noted(q, y)' = Noted(q, y)
  BY <1>1 DEF Noted
<1>4. Noted(r, y)' = IF y = x THEN Noted(r, y) \cup {Len(results[r]) + 1}
                     ELSE Noted(r, y)
  BY <1>2 DEF Noted
<1> QED
  BY <1>3, <1>4 DEF AllNoted, Current

LEMMA NoteCounts ==
    ASSUME Inv, NEW r \in Requests, NEW x \in Outcomes, Note(r, x),
           stats' = [stats EXCEPT ![Counter(x)] = @ + 1]
    PROVE  NotedAreCounted'
<1> SUFFICES ASSUME NEW y \in Outcomes
             PROVE  /\ IsFiniteSet(AllNoted(y)')
                    /\ Cardinality(AllNoted(y)') <= stats'[Counter(y)]
  BY DEF NotedAreCounted
<1>1. /\ IsFiniteSet(AllNoted(y)) /\ Cardinality(AllNoted(y)) \in Nat
      /\ Cardinality(AllNoted(y)) <= stats[Counter(y)]
  BY FS_CardinalityType DEF Inv, NotedAreCounted
<1>2. /\ stats \in [Fields -> Nat] /\ Counter(x) \in Fields /\ Counter(y) \in Fields
      /\ Counter(x) = Counter(y) <=> x = y
  BY DEF Inv, TypeOK, Fields, Counter, Outcomes
<1>3. CASE y = x
  <2>1. AllNoted(y)' = AllNoted(y) \cup {Current(r)}
    BY <1>3, NoteAddsOne DEF Inv
  <2>2. Current(r) \notin AllNoted(y)
    <3>1. results[r] \in Seq(Outcomes)
      BY DEF Inv, TypeOK, Outcomes
    <3>2. Len(results[r]) + 1 \notin DOMAIN results[r]
      BY <3>1
    <3> QED
      BY <3>2 DEF AllNoted, Noted, Current
  <2>3. /\ IsFiniteSet(AllNoted(y)')
        /\ Cardinality(AllNoted(y)') = Cardinality(AllNoted(y)) + 1
    BY <1>1, <2>1, <2>2, FS_AddElement
  <2>4. stats'[Counter(y)] = stats[Counter(y)] + 1
    BY <1>2, <1>3
  <2> QED
    BY <1>1, <1>2, <2>3, <2>4
<1>4. CASE y # x
  <2>1. AllNoted(y)' = AllNoted(y)
    BY <1>4, NoteAddsOne DEF Inv
  <2>2. stats'[Counter(y)] = stats[Counter(y)]
    BY <1>2, <1>4
  <2> QED
    BY <1>1, <2>1, <2>2
<1> QED
  BY <1>3, <1>4

\* A view has some of the counters.
LEMMA ViewsForm == \A v : v \in Views <=> \E D \in SUBSET Fields : v \in [D -> Nat]
<1>1. SUBSET Fields = {{}, {"received"}, {"failed"}, Fields}
  BY DEF Fields
<1> QED
  BY <1>1 DEF Views

LEMMA InitInv == ASSUME Init PROVE Inv
<1>1. CountersOK
  <2>1. last \in [critical : BOOLEAN, accepted : BOOLEAN]
    BY DEF Init, NewBackpressureCtrl
  <2> QED
    BY <2>1 DEF Init, NewBackpressureCtrl, CountersOK
<1>2. \A r \in Requests : results[r] = <<>> /\ Len(results[r]) <= Size[r]
  BY SubmissionAssumption DEF Init
<1>3. view \in [Readers -> Views]
  <2>1. [f \in {} |-> 0] \in [{} -> Nat]
    OBVIOUS
  <2>2. [f \in {} |-> 0] \in Views
    BY <2>1, ViewsForm
  <2> QED
    BY <2>2 DEF Init
<1>4. TypeOK
  <2>1. results \in [Requests -> Seq({"submitted", "error"})]
    BY DEF Init
  <2>2. /\ inputChan \in Seq(Requests \X Nat) /\ Len(inputChan) <= QueueLimit
        /\ taken \subseteq Requests \X Nat
    BY SubmissionAssumption DEF Init
  <2>3. before \in [Readers -> [submitted : Nat, errors : Nat]]
    BY DEF Init
  <2>4. /\ pc \in [Requests -> {"new", "next", "send", "count", "fail", "done"}]
        /\ status \in [Requests -> Codes]
        /\ stats \in [Fields -> Nat]
        /\ reader \in [Readers -> {"new", "reading", "empty", "answered"}]
    BY DEF Init, Codes
  <2> QED
    BY <1>1, <1>2, <1>3, <2>1, <2>2, <2>3, <2>4 DEF TypeOK
<1>5. Unfinished
  BY DEF Init, Unfinished
<1>6. NotedAreCounted
  <2> SUFFICES ASSUME NEW x \in Outcomes
               PROVE  /\ IsFiniteSet(AllNoted(x))
                      /\ Cardinality(AllNoted(x)) <= stats[Counter(x)]
    BY DEF NotedAreCounted
  <2>1. \A r \in Requests : Noted(r, x) = {}
    BY <1>2 DEF Noted
  <2>2. AllNoted(x) = {}
    BY <2>1 DEF AllNoted
  <2>3. stats[Counter(x)] = 0
    BY DEF Init, Counter, Fields
  <2> QED
    BY <2>2, <2>3, FS_EmptySet
<1> QED
  BY <1>4, <1>5, <1>6 DEF Inv

\* A step that notes nothing and resets no counter keeps what was counted.
LEMMA NothingNoted ==
    ASSUME NotedAreCounted, UNCHANGED <<results, stats>> PROVE NotedAreCounted'
BY DEF NotedAreCounted, AllNoted, Noted

LEMMA HandlerKeepsInv ==
    ASSUME Inv, NEW r \in Requests, Handler(r) PROVE Inv'
<1> USE SubmissionAssumption DEF Inv, TypeOK
<1>0. UNCHANGED backpressure => CountersOK'
  BY DEF backpressure, CountersOK
<1>1. CASE Bind(r)
  <2>1. TypeOK'
    BY <1>0, <1>1 DEF Bind, Goto, pipeline, readings, Codes
  <2>2. Unfinished'
    BY <1>1 DEF Bind, Goto, Unfinished
  <2> QED
    BY <1>1, <2>1, <2>2, NothingNoted DEF Bind
<1>2. CASE Admit(r)
  <2>1. CountersOK'
    BY <1>2, AdmissionType DEF Admit
  <2>2. TypeOK'
    BY <1>2, <2>1 DEF Admit, Goto, pipeline, readings
  <2>3. Unfinished'
    BY <1>2 DEF Admit, Goto, Unfinished
  <2> QED
    BY <1>2, <2>2, <2>3, NothingNoted DEF Admit
<1>3. CASE Send(r)
  <2>1. Current(r) \in Requests \X Nat
    BY DEF Current
  <2>2. inputChan' \in Seq(Requests \X Nat) /\ Len(inputChan') <= QueueLimit
    BY <1>3, <2>1 DEF Send
  <2>3. TypeOK'
    BY <1>0, <1>3, <2>2 DEF Send, Goto, readings
  <2>4. Unfinished'
    BY <1>3 DEF Send, Goto, Unfinished
  <2> QED
    BY <1>3, <2>3, <2>4, NothingNoted DEF Send
<1>4. CASE SendTimesOut(r)
  <2>1. TypeOK'
    BY <1>0, <1>4 DEF SendTimesOut, Goto, pipeline, readings
  <2>2. Unfinished'
    BY <1>4 DEF SendTimesOut, Goto, Unfinished
  <2> QED
    BY <1>4, <2>1, <2>2, NothingNoted DEF SendTimesOut
<1>5. ASSUME NEW x \in Outcomes, Note(r, x), Goto(r, "next"),
             stats' = [stats EXCEPT ![Counter(x)] = @ + 1],
             pc[r] \in {"count", "fail"},
             UNCHANGED <<backpressure, status, pipeline, readings>>
      PROVE  Inv'
  <2>1. /\ results' \in [Requests -> Seq({"submitted", "error"})]
        /\ \A q \in Requests : Len(results'[q]) <= Size[q]
    <3>1. results[r] \in Seq({"submitted", "error"}) /\ Len(results[r]) < Size[r]
      BY <1>5 DEF Unfinished
    <3>2. /\ Append(results[r], x) \in Seq({"submitted", "error"})
          /\ Len(Append(results[r], x)) <= Size[r]
      BY <3>1 DEF Outcomes
    <3> QED
      BY <1>5, <3>2 DEF Note
  <2>2. stats' \in [Fields -> Nat]
    BY <1>5 DEF Counter, Fields
  <2>3. TypeOK'
    BY <1>0, <1>5, <2>1, <2>2 DEF Goto, pipeline, readings
  <2>4. Unfinished'
    BY <1>5 DEF Goto, Unfinished, Note
  <2>5. NotedAreCounted'
    BY <1>5, NoteCounts
  <2> QED
    BY <2>3, <2>4, <2>5
<1>6. CASE Count(r)
  BY <1>5, <1>6 DEF Count, Counter, Outcomes
<1>7. CASE CountFailure(r)
  BY <1>5, <1>7 DEF CountFailure, Counter, Outcomes
<1>8. CASE Answer(r)
  <2>1. Code(r) \in Codes
    BY DEF Code, Codes
  <2>2. TypeOK'
    BY <1>0, <1>8, <2>1 DEF Answer, Goto, pipeline, readings
  <2>3. Unfinished'
    BY <1>8 DEF Answer, Goto, Unfinished
  <2> QED
    BY <1>8, <2>2, <2>3, NothingNoted DEF Answer
<1> QED
  BY <1>1, <1>2, <1>3, <1>4, <1>6, <1>7, <1>8 DEF Handler

LEMMA OthersKeepInv ==
    ASSUME Inv, Take \/ (\E s \in Readers : Stats(s)) \/ UNCHANGED vars PROVE Inv'
<1> USE SubmissionAssumption DEF Inv, TypeOK
<1>0. UNCHANGED backpressure => CountersOK'
  BY DEF backpressure, CountersOK
<1>1. UNCHANGED requests => Unfinished'
  BY DEF requests, Unfinished
<1>2. CASE Take
  <2>1. /\ inputChan' \in Seq(Requests \X Nat) /\ Len(inputChan') <= QueueLimit
        /\ Head(inputChan) \in Requests \X Nat
    BY <1>2 DEF Take
  <2>2. TypeOK'
    BY <1>0, <1>2, <2>1 DEF Take, requests, readings
  <2> QED
    BY <1>1, <1>2, <2>2, NothingNoted DEF Take, requests
<1>3. ASSUME NEW s \in Readers, Ask(s) PROVE Inv'
  <2>1. /\ Cardinality(Results("submitted")) \in Nat
        /\ Cardinality(Results("error")) \in Nat
    BY ResultsAreCounted DEF Outcomes
  <2>2. before' \in [Readers -> [submitted : Nat, errors : Nat]]
    BY <1>3, <2>1 DEF Ask
  <2>3. TypeOK'
    BY <1>0, <1>3, <2>2 DEF Ask, requests, pipeline
  <2> QED
    BY <1>1, <1>3, <2>3, NothingNoted DEF Ask, requests
<1>4. ASSUME NEW s \in Readers, NEW f \in Fields, Read(s, f) PROVE Inv'
  <2>1. PICK D \in SUBSET Fields : view[s] \in [D -> Nat]
    BY ViewsForm
  <2>2. view'[s] \in [D \cup {f} -> Nat]
    BY <1>4, <2>1 DEF Read
  <2>3. view' \in [Readers -> Views]
    <3>1. view'[s] \in Views
      BY <2>2, ViewsForm
    <3>2. \E v : view' = [view EXCEPT ![s] = v]
      BY <1>4 DEF Read
    <3> QED
      BY <3>1, <3>2
  <2>4. TypeOK'
    BY <1>0, <1>4, <2>3 DEF Read, requests, pipeline
  <2> QED
    BY <1>1, <1>4, <2>4, NothingNoted DEF Read, requests
<1>5. ASSUME NEW s \in Readers, Respond(s) PROVE Inv'
  <2>1. TypeOK'
    BY <1>0, <1>5 DEF Respond, requests, pipeline
  <2> QED
    BY <1>1, <1>5, <2>1, NothingNoted DEF Respond, requests
<1>6. CASE UNCHANGED vars
  <2>1. TypeOK'
    BY <1>0, <1>6 DEF vars, requests, pipeline, readings
  <2> QED
    BY <1>1, <1>6, <2>1, NothingNoted DEF vars, requests
<1> QED
  BY <1>2, <1>3, <1>4, <1>5, <1>6 DEF Stats

\* The types, and that the counters cover what the handlers noted, are inductive.
THEOREM InvIsInvariant == Spec => []Inv
<1>1. Init => Inv
  BY InitInv
<1>2. Inv /\ [Next]_vars => Inv'
  BY HandlerKeepsInv, OthersKeepInv DEF Next
<1> QED
  BY <1>1, <1>2, PTL DEF Spec

\* Every variable keeps its type, and the entry queue keeps to its capacity.
THEOREM TypeCorrect == Spec => []TypeOK
BY InvIsInvariant, PTL DEF Inv

-----------------------------------------------------------------------------
(* What a client is told.  Between the send and the count the task is in   *)
(* the pipeline and not yet noted; nothing else is ahead of the notes.     *)

CountedIsEntered == \A r \in Requests : pc[r] = "count" => Current(r) \in Entered

LEMMA SendEnters ==
    ASSUME TypeOK, NEW r \in Requests, Send(r)
    PROVE  Entered' = Entered \cup {Current(r)}
<1>1. /\ inputChan \in Seq(Requests \X Nat)
      /\ inputChan' = Append(inputChan, Current(r)) /\ taken' = taken
  BY DEF TypeOK, Send
<1>2. /\ DOMAIN inputChan = 1..Len(inputChan) /\ Len(inputChan) \in Nat
      /\ DOMAIN inputChan' = 1..(Len(inputChan) + 1)
      /\ inputChan'[Len(inputChan) + 1] = Current(r)
      /\ \A i \in 1..Len(inputChan) : inputChan'[i] = inputChan[i]
  BY <1>1
<1> QED
  BY <1>1, <1>2 DEF Entered

LEMMA TakeLeavesEntered ==
    ASSUME TypeOK, Take PROVE Entered' = Entered
<1>1. /\ inputChan \in Seq(Requests \X Nat) /\ inputChan # <<>>
      /\ inputChan' = Tail(inputChan)
      /\ taken' = taken \cup {inputChan[1]}
  BY DEF TypeOK, Take
<1>2. /\ Len(inputChan) \in Nat \ {0} /\ DOMAIN inputChan = 1..Len(inputChan)
      /\ DOMAIN inputChan' = 1..(Len(inputChan) - 1)
      /\ \A i \in 1..(Len(inputChan) - 1) : inputChan'[i] = inputChan[i + 1]
  BY <1>1
<1>3. \A i \in 2..Len(inputChan) : inputChan[i] = inputChan'[i - 1]
                                   /\ i - 1 \in DOMAIN inputChan'
  BY <1>2
<1>4. {inputChan[i] : i \in DOMAIN inputChan}
        = {inputChan'[i] : i \in DOMAIN inputChan'} \cup {inputChan[1]}
  <2>1. ASSUME NEW i \in DOMAIN inputChan
        PROVE  inputChan[i] \in {inputChan'[j] : j \in DOMAIN inputChan'} \cup {inputChan[1]}
    BY <1>2, <1>3
  <2>2. ASSUME NEW i \in DOMAIN inputChan'
        PROVE  inputChan'[i] \in {inputChan[j] : j \in DOMAIN inputChan}
    BY <1>2
  <2>3. inputChan[1] \in {inputChan[j] : j \in DOMAIN inputChan}
    BY <1>2
  <2> QED
    BY <2>1, <2>2, <2>3
<1> QED
  BY <1>1, <1>4 DEF Entered

\* Nothing that they speak of changes.
LEMMA AnswersStay ==
    ASSUME AnswersAreTrue, CountedIsEntered, Entered' = Entered,
           UNCHANGED results,
           \A r \in Requests : pc'[r] = "count" <=> pc[r] = "count"
    PROVE  AnswersAreTrue' /\ CountedIsEntered'
<1>1. \A r \in Requests : Current(r)' = Current(r)
  BY DEF Current
<1> QED
  BY <1>1 DEF AnswersAreTrue, CountedIsEntered

LEMMA NoteIsTrue ==
    ASSUME TypeOK, AnswersAreTrue, CountedIsEntered,
           NEW r \in Requests, NEW x \in Outcomes, Note(r, x), Goto(r, "next"),
           pc[r] = (IF x = "submitted" THEN "count" ELSE "fail"),
           UNCHANGED pipeline
    PROVE  AnswersAreTrue' /\ CountedIsEntered'
<1>1. /\ \A q \in Requests \ {r} : results'[q] = results[q]
      /\ results'[r] = Append(results[r], x)
      /\ results[r] \in Seq(Outcomes)
  BY DEF Note, TypeOK, Outcomes
<1>2. /\ DOMAIN results[r] = 1..Len(results[r]) /\ Len(results[r]) \in Nat
      /\ DOMAIN results'[r] = 1..(Len(results[r]) + 1)
      /\ results'[r][Len(results[r]) + 1] = x
      /\ \A i \in 1..Len(results[r]) : results'[r][i] = results[r][i]
  BY <1>1
<1>3. Entered' = Entered /\ Current(r) = <<r, Len(results[r]) + 1>>
  BY DEF Entered, pipeline, Current
<1>4. /\ \A q \in Requests \ {r} : pc'[q] = pc[q] /\ Current(q)' = Current(q)
      /\ pc'[r] = "next"
  BY <1>1 DEF Goto, TypeOK, Current
<1>5. Current(r) \in Entered <=> x = "submitted"
  <2>1. CASE x = "submitted"
    BY <2>1 DEF CountedIsEntered
  <2>2. CASE x = "error"
    <3>1. Current(r) \in Entered => pc[r] = "count"
      BY <1>2, <1>3 DEF AnswersAreTrue
    <3> QED
      BY <2>2, <3>1
  <2> QED
    BY <2>1, <2>2 DEF Outcomes
<1>6. ASSUME NEW q \in Requests, NEW i \in DOMAIN results'[q]
      PROVE  results'[q][i] = "submitted" <=> <<q, i>> \in Entered
  <2>1. CASE q # r
    BY <1>1, <1>6, <2>1 DEF AnswersAreTrue
  <2>2. CASE q = r /\ i \in DOMAIN results[r]
    BY <1>2, <2>2 DEF AnswersAreTrue
  <2>3. CASE q = r /\ i = Len(results[r]) + 1
    BY <1>2, <1>3, <1>5, <2>3 DEF Outcomes
  <2> QED
    BY <1>2, <1>6, <2>1, <2>2, <2>3
<1>7. ASSUME NEW t \in Entered, NEW q \in Requests,
             t[1] = q, t[2] \notin DOMAIN results'[q]
      PROVE  pc'[q] = "count" /\ t = Current(q)'
  <2>1. CASE q # r
    BY <1>1, <1>4, <1>7, <2>1 DEF AnswersAreTrue
  <2>2. CASE q = r
    <3>1. t[2] \notin DOMAIN results[r]
      BY <1>2, <1>7, <2>2
    <3>2. t = Current(r)
      BY <1>7, <2>2, <3>1 DEF AnswersAreTrue
    <3> QED
      BY <1>2, <1>3, <1>7, <2>2, <3>2
  <2> QED
    BY <2>1, <2>2
<1>8. AnswersAreTrue'
  BY <1>3, <1>6, <1>7 DEF AnswersAreTrue
<1>9. CountedIsEntered'
  BY <1>3, <1>4 DEF CountedIsEntered
<1> QED
  BY <1>8, <1>9

\* A client is told the truth of every message, in a batch of any size.
THEOREM AnswersHold == Spec => []AnswersAreTrue
<1> DEFINE A == AnswersAreTrue /\ CountedIsEntered
<1>1. Init => A
  BY DEF Init, AnswersAreTrue, CountedIsEntered, Entered
<1>2. TypeOK /\ A /\ [Next]_vars => A'
  <2> SUFFICES ASSUME TypeOK, A, [Next]_vars PROVE A'
    OBVIOUS
  <2>0. UNCHANGED pipeline => Entered' = Entered
    BY DEF pipeline, Entered
  <2>1. ASSUME NEW r \in Requests, NEW l \in {"next", "send", "fail", "done"},
               pc[r] # "count", Goto(r, l), UNCHANGED <<results, pipeline>>
        PROVE  A'
    <3>1. \A q \in Requests : pc'[q] = "count" <=> pc[q] = "count"
      BY <2>1 DEF Goto, TypeOK
    <3> QED
      BY <2>0, <2>1, <3>1, AnswersStay
  <2>2. ASSUME NEW r \in Requests,
               Bind(r) \/ Admit(r) \/ SendTimesOut(r) \/ Answer(r) PROVE A'
    BY <2>1, <2>2 DEF Bind, Admit, SendTimesOut, Answer
  <2>3. ASSUME NEW r \in Requests, Send(r) PROVE A'
    <3>1. Entered' = Entered \cup {Current(r)}
      BY <2>3, SendEnters
    <3>2. \A q \in Requests : Current(q)' = Current(q)
      BY <2>3 DEF Send, Current
    <3>3. /\ pc'[r] = "count" /\ pc[r] = "send"
          /\ \A q \in Requests \ {r} : pc'[q] = pc[q]
      BY <2>3 DEF Send, Goto, TypeOK
    <3>4. Len(results[r]) + 1 \notin DOMAIN results[r]
      BY DEF TypeOK
    <3>5. \A q \in Requests : \A i \in DOMAIN results[q] : <<q, i>> # Current(r)
      BY <3>4 DEF Current
    <3>6. AnswersAreTrue'
      <4>1. \A q \in Requests : \A i \in DOMAIN results[q] :
                results[q][i] = "submitted" <=> <<q, i>> \in Entered'
        BY <3>1, <3>5 DEF AnswersAreTrue
      <4>2. ASSUME NEW t \in Entered', NEW q \in Requests,
                   t[1] = q, t[2] \notin DOMAIN results[q]
            PROVE  pc'[q] = "count" /\ t = Current(q)
        <5>1. CASE t = Current(r)
          BY <3>3, <4>2, <5>1 DEF Current
        <5>2. CASE t \in Entered
          <6>1. pc[q] = "count" /\ t = Current(q)
            BY <4>2, <5>2 DEF AnswersAreTrue
          <6> QED
            BY <3>3, <6>1
        <5> QED
          BY <3>1, <5>1, <5>2
      <4> QED
        BY <2>3, <3>2, <4>1, <4>2 DEF AnswersAreTrue, Send
    <3>7. CountedIsEntered'
      BY <3>1, <3>2, <3>3 DEF CountedIsEntered
    <3> QED
      BY <3>6, <3>7
  <2>4. ASSUME NEW r \in Requests, Count(r) \/ CountFailure(r) PROVE A'
    BY <2>4, NoteIsTrue DEF Count, CountFailure, Outcomes
  <2>5. CASE Take
    BY <2>5, TakeLeavesEntered, AnswersStay DEF Take, requests
  <2>6. CASE UNCHANGED vars \/ \E s \in Readers : Stats(s)
    <3>1. UNCHANGED <<requests, pipeline>>
      BY <2>6 DEF vars, Stats, Ask, Read, Respond
    <3> QED
      BY <2>0, <3>1, AnswersStay DEF requests
  <2> QED
    BY <2>2, <2>3, <2>4, <2>5, <2>6 DEF Next, Handler
<1> QED
  BY <1>1, <1>2, TypeCorrect, PTL DEF Spec

-----------------------------------------------------------------------------
(* What the statistics say.  A counter is at least what was noted when the *)
(* request came, from then on and so at the moment it is read.             *)

Seen(s, field) == IF field = "received" THEN before[s].submitted ELSE before[s].errors

ViewsAreFresh ==
    \A s \in Readers : \A f \in Fields :
        /\ reader[s] = "new" => f \notin DOMAIN view[s]
        /\ reader[s] # "new" => Seen(s, f) <= stats[f]
        /\ reader[s] # "new" /\ f \in DOMAIN view[s] => Seen(s, f) <= view[s][f]
        /\ reader[s] \in {"empty", "answered"} => f \in DOMAIN view[s]
        /\ reader[s] = "empty" => view[s]["received"] = 0

\* Statistics asked for after an answer include it.
THEOREM StatsAreFresh == Spec => []StatsShowAnswers
<1>1. Init => ViewsAreFresh
  BY DEF Init, ViewsAreFresh
<1>2. Inv /\ ViewsAreFresh /\ [Next]_vars => ViewsAreFresh'
  <2> SUFFICES ASSUME Inv, ViewsAreFresh, [Next]_vars PROVE ViewsAreFresh'
    OBVIOUS
  <2>1. CASE UNCHANGED <<stats, readings>>
    BY <2>1 DEF ViewsAreFresh, Seen, readings
  <2>2. ASSUME NEW r \in Requests, Count(r) \/ CountFailure(r) PROVE ViewsAreFresh'
    <3>1. \A f \in Fields : stats[f] <= stats'[f] /\ stats[f] \in Nat /\ stats'[f] \in Nat
      <4>1. stats \in [Fields -> Nat]
        BY DEF Inv, TypeOK
      <4>2. PICK g \in Fields : stats' = [stats EXCEPT ![g] = @ + 1]
        BY <2>2 DEF Count, CountFailure, Fields
      <4> QED
        BY <4>1, <4>2
    <3>2. \A s \in Readers : \A f \in Fields : Seen(s, f) \in Nat
      BY DEF Inv, TypeOK, Seen
    <3>3. UNCHANGED readings
      BY <2>2 DEF Count, CountFailure
    <3> QED
      BY <3>1, <3>2, <3>3 DEF ViewsAreFresh, Seen, readings
  <2>3. ASSUME NEW s \in Readers, Ask(s) PROVE ViewsAreFresh'
    <3>1. /\ Cardinality(Results("submitted")) <= stats["received"]
          /\ Cardinality(Results("error")) <= stats["failed"]
      BY ResultsAreCounted DEF Inv, Outcomes, Counter
    <3>2. \A f \in Fields : Seen(s, f)' <= stats[f]
      BY <2>3, <3>1 DEF Ask, Seen, Fields, Inv, TypeOK
    <3>3. \A q \in Readers \ {s} : /\ reader'[q] = reader[q]
                                   /\ \A f \in Fields : Seen(q, f)' = Seen(q, f)
      BY <2>3 DEF Ask, Seen, Inv, TypeOK
    <3>4. reader'[s] = "reading" /\ reader[s] = "new" /\ UNCHANGED <<stats, view>>
      BY <2>3 DEF Ask, Inv, TypeOK
    <3> QED
      BY <3>2, <3>3, <3>4 DEF ViewsAreFresh
  <2>4. ASSUME NEW s \in Readers, NEW g \in Fields, Read(s, g) PROVE ViewsAreFresh'
    <3>1. /\ view'[s] = [h \in DOMAIN view[s] \cup {g} |->
                            IF h = g THEN stats[g] ELSE view[s][h]]
          /\ \A q \in Readers \ {s} : view'[q] = view[q]
          /\ reader[s] = "reading"
          /\ UNCHANGED <<reader, before, stats>>
      BY <2>4 DEF Read, Inv, TypeOK
    <3>2. /\ DOMAIN view'[s] = DOMAIN view[s] \cup {g}
          /\ \A f \in DOMAIN view'[s] :
                view'[s][f] = IF f = g THEN stats[g] ELSE view[s][f]
      BY <3>1
    <3>3. \A f \in Fields : f \in DOMAIN view'[s] => Seen(s, f) <= view'[s][f]
      BY <3>1, <3>2 DEF ViewsAreFresh
    <3>4. \A q \in Readers, f \in Fields : Seen(q, f)' = Seen(q, f)
      BY <3>1 DEF Seen
    <3>5. ASSUME NEW q \in Readers, NEW f \in Fields, q # s
          PROVE  /\ view'[q] = view[q] /\ reader'[q] = reader[q]
                 /\ stats'[f] = stats[f] /\ Seen(q, f)' = Seen(q, f)
      BY <3>1, <3>4, <3>5
    <3>6. reader'[s] = "reading" /\ stats' = stats
      BY <3>1
    <3>7. \A f \in Fields : Seen(s, f) <= stats[f]
      BY <3>1 DEF ViewsAreFresh
    <3> QED
      BY <3>3, <3>4, <3>5, <3>6, <3>7 DEF ViewsAreFresh
  <2>5. ASSUME NEW s \in Readers, Respond(s) PROVE ViewsAreFresh'
    <3>1. /\ \A q \in Readers \ {s} : reader'[q] = reader[q]
          /\ reader'[s] = IF view[s]["received"] = 0 THEN "empty" ELSE "answered"
          /\ reader[s] = "reading" /\ DOMAIN view[s] = Fields
          /\ UNCHANGED <<view, before, stats>>
      BY <2>5 DEF Respond, Inv, TypeOK
    <3> QED
      BY <3>1 DEF ViewsAreFresh, Seen, Fields
  <2> QED
    BY <2>1, <2>2, <2>3, <2>4, <2>5 DEF Next, Handler, Stats, vars, Bind, Admit,
       Send, SendTimesOut, Answer, Take
<1>3. Inv /\ ViewsAreFresh => StatsShowAnswers
  <2> SUFFICES ASSUME Inv, ViewsAreFresh, NEW s \in Readers
               PROVE  /\ reader[s] = "answered" =>
                            /\ view[s]["received"] >= before[s].submitted
                            /\ view[s]["failed"] >= before[s].errors
                      /\ reader[s] = "empty" => before[s].submitted = 0
    BY DEF StatsShowAnswers
  <2>1. before[s].submitted \in Nat /\ before[s].errors \in Nat
    BY DEF Inv, TypeOK
  <2>2. CASE reader[s] = "answered"
    <3>1. /\ Seen(s, "received") <= view[s]["received"]
          /\ Seen(s, "failed") <= view[s]["failed"]
      BY <2>2 DEF ViewsAreFresh, Fields
    <3>2. PICK D \in SUBSET Fields : view[s] \in [D -> Nat]
      BY ViewsForm DEF Inv, TypeOK
    <3>3. "received" \in D /\ "failed" \in D
      BY <2>2, <3>2 DEF ViewsAreFresh, Fields
    <3> QED
      BY <2>1, <2>2, <3>1, <3>2, <3>3 DEF Seen
  <2>3. CASE reader[s] = "empty"
    BY <2>1, <2>3 DEF ViewsAreFresh, Fields, Seen
  <2> QED
    BY <2>2, <2>3
<1> QED
  BY <1>1, <1>2, <1>3, InvIsInvariant, PTL DEF Spec
=============================================================================
