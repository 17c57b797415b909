----------------------------- MODULE Submission -----------------------------
(***************************************************************************)
(* How messages get in (CreateMessage and CreateMessagesBatch of           *)
(* src/internal/api/api_simple.go, SubmitTask of delivery/system.go) and   *)
(* what GetDeliveryStats says of them: handlers that run concurrently, the *)
(* admission control of Backpressure, an entry queue that may be full, and *)
(* counters that are updated and read one by one.  What is behind the      *)
(* queue is Delivery's.                                                    *)
(***************************************************************************)
EXTENDS Backpressure, Sequences, FiniteSets

CONSTANTS
    Requests,
    Singles,        \* those that post one message, the others a batch
    Size,           \* how many messages each request carries
    Priorities,     \* what a request may say of the priority, 0 for nothing
    QueueLimit,     \* capacity of inputChan
    Readers         \* requests for the statistics

ASSUME SubmissionAssumption ==
    /\ Singles \subseteq Requests
    /\ Size \in [Requests -> Nat]
    /\ \A r \in Singles : Size[r] = 1
    /\ Priorities \subseteq Int
    /\ QueueLimit \in Nat \ {0}

VARIABLES
    pc,         \* progress of each handler
    results,    \* what it has noted of each message: "submitted" or "error"
    status,     \* the code in the body of its answer
    inputChan,
    taken,      \* the tasks that the main loop has taken from it
    stats,      \* TotalReceived, and TotalFailed without what workers add
    reader,     \* progress of each statistics request
    view,       \* the counters it has read
    before      \* what had been answered when it came

requests == <<pc, results, status>>
pipeline == <<inputChan, taken>>
readings == <<reader, view, before>>
vars == <<backpressure, requests, pipeline, stats, readings>>

Fields == {"received", "failed"}
\* The counters that a statistics request may have read so far.
Views == [{} -> Nat] \cup [{"received"} -> Nat] \cup [{"failed"} -> Nat]
            \cup [Fields -> Nat]

Codes == {"none", "200", "202", "400", "500"}

\* The task that request r is submitting, or has submitted last.
Current(r) == <<r, Len(results[r]) + 1>>

Entered == {inputChan[i] : i \in DOMAIN inputChan} \cup taken

Noted(r, result) == {i \in DOMAIN results[r] : results[r][i] = result}

\* What the answers given so far say has become of the messages.
Results(result) ==
    UNION {{r} \X Noted(r, result) : r \in {q \in Requests : status[q] # "none"}}

Init ==
    /\ NewBackpressureCtrl
    /\ pc = [r \in Requests |-> "new"]
    /\ results = [r \in Requests |-> <<>>]
    /\ status = [r \in Requests |-> "none"]
    /\ inputChan = <<>>
    /\ taken = {}
    /\ stats = [f \in Fields |-> 0]
    /\ reader = [s \in Readers |-> "new"]
    /\ view = [s \in Readers |-> [f \in {} |-> 0]]
    /\ before = [s \in Readers |-> [submitted |-> 0, errors |-> 0]]

-----------------------------------------------------------------------------
(* The two handlers                                                        *)

Goto(r, l) == pc' = [pc EXCEPT ![r] = l]

\* ShouldBindJSON; the messages inside a batch are not validated.
Bind(r) ==
    /\ pc[r] = "new"
    /\ \/ Goto(r, "next") /\ UNCHANGED status
       \/ Goto(r, "done") /\ status' = [status EXCEPT ![r] = "400"]
    /\ UNCHANGED <<backpressure, results, pipeline, stats, readings>>

Priority(p) == IF p = 0 THEN 5 ELSE p

\* SubmitTask asks for admission first.
Admit(r) ==
    /\ pc[r] = "next"
    /\ Len(results[r]) < Size[r]
    /\ \E p \in Priorities : ShouldAccept(Priority(p))
    /\ Goto(r, IF last'.accepted THEN "send" ELSE "fail")
    /\ UNCHANGED <<results, status, pipeline, stats, readings>>

\* Mutant: the handler takes the way of the timeout although it has sent.
SendAndTimeOut(r) ==
    /\ pc[r] = "send"
    /\ Len(inputChan) < QueueLimit
    /\ inputChan' = Append(inputChan, Current(r))
    /\ Goto(r, "count") \/ Goto(r, "fail")
    /\ UNCHANGED <<backpressure, results, status, taken, stats, readings>>

\* Mutant: a full queue takes the task all the same.
SendAlways(r) ==
    /\ pc[r] = "send"
    /\ inputChan' = Append(inputChan, Current(r))
    /\ Goto(r, "count")
    /\ UNCHANGED <<backpressure, results, status, taken, stats, readings>>

Send(r) ==
    /\ pc[r] = "send"
    /\ Len(inputChan) < QueueLimit
    /\ inputChan' = Append(inputChan, Current(r))
    /\ Goto(r, "count")
    /\ UNCHANGED <<backpressure, results, status, taken, stats, readings>>

\* Mutant: the send waits until there is room.
NeverTimesOut(r) ==
    /\ pc[r] = "send"
    /\ Len(inputChan) > QueueLimit
    /\ Goto(r, "fail")
    /\ UNCHANGED <<backpressure, results, status, pipeline, stats, readings>>

\* The queue stayed full for 100 ms; a send that waits gets the first room.
SendTimesOut(r) ==
    /\ pc[r] = "send"
    /\ Len(inputChan) = QueueLimit
    /\ Goto(r, "fail")
    /\ UNCHANGED <<backpressure, results, status, pipeline, stats, readings>>

Note(r, result) == results' = [results EXCEPT ![r] = Append(@, result)]

\* Mutant: a batch counts as one message.
CountRequest(r) ==
    /\ pc[r] = "count"
    /\ stats' = [stats EXCEPT !["received"] = @ + IF results[r] = <<>> THEN 1 ELSE 0]
    /\ Note(r, "submitted")
    /\ Goto(r, "next")
    /\ UNCHANGED <<backpressure, status, pipeline, readings>>

\* TotalReceived is counted after the send, not with it.
Count(r) ==
    /\ pc[r] = "count"
    /\ stats' = [stats EXCEPT !["received"] = @ + 1]
    /\ Note(r, "submitted")
    /\ Goto(r, "next")
    /\ UNCHANGED <<backpressure, status, pipeline, readings>>

CountFailure(r) ==
    /\ pc[r] = "fail"
    /\ stats' = [stats EXCEPT !["failed"] = @ + 1]
    /\ Note(r, "error")
    /\ Goto(r, "next")
    /\ UNCHANGED <<backpressure, status, pipeline, readings>>

\* A batch is answered with code 200 and both lists, whatever they hold.
Code(r) ==
    CASE r \notin Singles -> "200"
      [] r \in Singles /\ results[r] = <<"submitted">> -> "202"
      [] OTHER -> "500"

Answer(r) ==
    /\ pc[r] = "next"
    /\ Len(results[r]) = Size[r]
    /\ status' = [status EXCEPT ![r] = Code(r)]
    /\ Goto(r, "done")
    /\ UNCHANGED <<backpressure, results, pipeline, stats, readings>>

-----------------------------------------------------------------------------
(* The main loop                                                           *)

Take ==
    /\ inputChan # <<>>
    /\ taken' = taken \cup {Head(inputChan)}
    /\ inputChan' = Tail(inputChan)
    /\ UNCHANGED <<backpressure, requests, stats, readings>>

-----------------------------------------------------------------------------
(* GetDeliveryStats                                                        *)

Ask(s) ==
    /\ reader[s] = "new"
    /\ reader' = [reader EXCEPT ![s] = "reading"]
    /\ before' = [before EXCEPT ![s] =
                     [submitted |-> Cardinality(Results("submitted")),
                      errors    |-> Cardinality(Results("error"))]]
    /\ UNCHANGED <<backpressure, requests, pipeline, stats, view>>

\* GetStats copies the counters while others add to them: statsMutex does not
\* keep them out.
Read(s, f) ==
    /\ reader[s] = "reading"
    /\ f \notin DOMAIN view[s]
    /\ view' = [view EXCEPT ![s] =
                   [g \in DOMAIN @ \cup {f} |-> IF g = f THEN stats[f] ELSE @[g]]]
    /\ UNCHANGED <<backpressure, requests, pipeline, stats, reader, before>>

\* The rates divide by received: without any they are not numbers, the encoder
\* refuses them and the answer has no body.
Respond(s) ==
    /\ reader[s] = "reading"
    /\ DOMAIN view[s] = Fields
    /\ reader' = [reader EXCEPT ![s] =
                     IF view[s]["received"] = 0 THEN "empty" ELSE "answered"]
    /\ UNCHANGED <<backpressure, requests, pipeline, stats, view, before>>

-----------------------------------------------------------------------------
Handler(r) == \/ Bind(r) \/ Admit(r) \/ Send(r) \/ SendTimesOut(r)
              \/ Count(r) \/ CountFailure(r) \/ Answer(r)

Stats(s) == Ask(s) \/ (\E f \in Fields : Read(s, f)) \/ Respond(s)

Next ==
    \/ \E r \in Requests : Handler(r)
    \/ Take
    \/ \E s \in Readers : Stats(s)

Spec == Init /\ [][Next]_vars

\* The handlers run and the 100 ms pass; the pipeline need not go on.
FairSpec == Spec /\ \A r \in Requests : WF_vars(Handler(r))

-----------------------------------------------------------------------------
(* Properties                                                              *)

\* Every variable has its type; the entry queue keeps to its limit.
TypeOK ==
    /\ CountersOK
    /\ pc \in [Requests -> {"new", "next", "send", "count", "fail", "done"}]
    /\ results \in [Requests -> Seq({"submitted", "error"})]
    /\ \A r \in Requests : Len(results[r]) <= Size[r]
    /\ status \in [Requests -> Codes]
    /\ inputChan \in Seq(Requests \X Nat)
    /\ Len(inputChan) <= QueueLimit
    /\ taken \subseteq Requests \X Nat
    /\ stats \in [Fields -> Nat]
    /\ reader \in [Readers -> {"new", "reading", "empty", "answered"}]
    /\ view \in [Readers -> Views]
    /\ before \in [Readers -> [submitted : Nat, errors : Nat]]

\* A client is told the truth of each message, in a batch too: what it is told
\* was submitted is in the pipeline, and what it is told has failed, by refusal
\* or by timeout, is not and will not be, so that posting it again does not
\* double it.
AnswersAreTrue ==
    /\ \A r \in Requests : \A i \in DOMAIN results[r] :
          results[r][i] = "submitted" <=> <<r, i>> \in Entered
    /\ \A t \in Entered : \A r \in Requests :
          t[1] = r /\ t[2] \notin DOMAIN results[r] => pc[r] = "count" /\ t = Current(r)

\* Statistics asked for after an answer count what that answer said; so once
\* any message was acknowledged their rates are numbers.
StatsShowAnswers ==
    \A s \in Readers :
        /\ reader[s] = "answered" =>
              /\ view[s]["received"] >= before[s].submitted
              /\ view[s]["failed"] >= before[s].errors
        /\ reader[s] = "empty" => before[s].submitted = 0

\* Every request is answered, even when nothing leaves the entry queue any more.
EveryRequestAnswered == \A r \in Requests : pc[r] # "new" ~> status[r] # "none"
=============================================================================
