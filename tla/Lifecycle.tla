----------------------------- MODULE Lifecycle -----------------------------
(***************************************************************************)
(* Start and Stop of the delivery system (src/internal/delivery/system.go, *)
(* main_loops.go): which goroutines the WaitGroup counts, which of them    *)
(* tell it that they have ended, what Stop reports, and which goroutines   *)
(* outlive the system.  Nothing orders Stop and Start: Stop may come       *)
(* before, between or after the four launches.                             *)
(***************************************************************************)
EXTENDS Integers, Sequences, FiniteSets

CONSTANTS
    Workers,     \* the delivery workers, started by the constructor
    Capacity,    \* of inputChan
    MaxResends   \* bound on the resend goroutines alive at a time

\* The loops that Start launches, each after a wg.Add(1), in this order.
Launches   == <<"queueManager", "retryManager", "mainLoop", "statsCollector">>
Managers   == {"queueManager", "retryManager", "mainLoop", "statsCollector"}
\* The goroutines that run under a deferred wg.Done().
Counted    == Workers \cup {"retryWorker"}
\* The loops of the system.  The other goroutines it spawns are the waiter of
\* Stop and the resend goroutines; each has a variable of its own.
Goroutines == Managers \cup Counted

ASSUME WorkersAssumption ==
    /\ IsFiniteSet(Workers)
    /\ Workers \cap (Managers \cup {"retryWorker"}) = {}

ASSUME BoundsAssumption == Capacity \in Nat /\ MaxResends \in Nat

VARIABLES
    wg,         \* counter of ds.wg
    ctx,        \* ds.ctx
    run,        \* whether each loop is not yet launched, running or ended
    launched,   \* how many of the Launches Start has done
    stop,       \* progress of Stop
    waiter,     \* the goroutine of Stop that calls wg.Wait and closes done
    input,      \* tasks in inputChan
    resends     \* goroutines that want to send a task into inputChan

vars == <<wg, ctx, run, launched, stop, waiter, input, resends>>

\* The constructor has returned: initWorkers has launched the workers.
Init ==
    /\ wg = Cardinality(Workers)
    /\ ctx = "live"
    /\ run = [g \in Goroutines |-> IF g \in Workers THEN "running" ELSE "new"]
    /\ launched = 0
    /\ stop = "no" /\ waiter = "none"
    /\ input = 0 /\ resends = 0

-----------------------------------------------------------------------------
(* Start                                                                   *)

LaunchNext ==
    /\ launched < Len(Launches)
    /\ run' = [run EXCEPT ![Launches[launched + 1]] = "running"]
    /\ launched' = launched + 1
    /\ UNCHANGED <<ctx, stop, waiter, input, resends>>

\* Mutant: the loops are launched without wg.Add.
LaunchUncounted == LaunchNext /\ UNCHANGED wg

\* The next wg.Add(1) of Start and its go statement.  What is added here is never
\* taken off again, so nobody can tell the moment between the two.
Launch == LaunchNext /\ wg' = wg + 1

\* The first thing runRetryManager does; only then does it look at ctx.
LaunchRetryWorker ==
    /\ run["retryManager"] = "running"
    /\ run["retryWorker"] = "new"
    /\ run' = [run EXCEPT !["retryWorker"] = "running"]
    /\ wg' = wg + 1
    /\ UNCHANGED <<ctx, launched, stop, waiter, input, resends>>

-----------------------------------------------------------------------------
(* The ends of the loops                                                   *)

Ends(g) ==
    /\ ctx = "cancelled"
    /\ run[g] = "running"
    /\ run' = [run EXCEPT ![g] = "ended"]
    /\ UNCHANGED <<ctx, launched, stop, input, resends>>

\* The Done that brings the counter to zero releases whoever waits.
Done(n) ==
    /\ wg' = wg - n
    /\ waiter' = IF waiter = "blocked" /\ wg' = 0 THEN "ended" ELSE waiter

\* Mutant: Done is deferred twice.
CountedEndsTwice(g) == Ends(g) /\ Done(2)

CountedEnds(g) == Ends(g) /\ Done(1)

\* Mutant: only the main loop watches the context.
OnlyMainLoopEnds(g) == g = "mainLoop" /\ Ends(g) /\ UNCHANGED <<wg, waiter>>

\* A manager returns without a wg.Done().
ManagerEnds(g) ==
    /\ g = "retryManager" => run["retryWorker"] # "new"
    /\ Ends(g)
    /\ UNCHANGED <<wg, waiter>>

-----------------------------------------------------------------------------
(* Stop                                                                    *)

Stop ==
    /\ stop = "no"
    /\ ctx' = "cancelled"
    /\ stop' = "waiting"
    /\ waiter' = "new"
    /\ UNCHANGED <<wg, run, launched, input, resends>>

\* wg.Wait returns at once when the counter is zero.
Wait ==
    /\ waiter = "new"
    /\ waiter' = IF wg = 0 THEN "ended" ELSE "blocked"
    /\ UNCHANGED <<wg, ctx, run, launched, stop, input, resends>>

StopGracefully ==
    /\ stop = "waiting"
    /\ waiter = "ended"
    /\ stop' = "graceful"
    /\ UNCHANGED <<wg, ctx, run, launched, waiter, input, resends>>

StopTimesOut ==
    /\ stop = "waiting"
    /\ stop' = "timeout"
    /\ UNCHANGED <<wg, ctx, run, launched, waiter, input, resends>>

-----------------------------------------------------------------------------
(* inputChan, as far as it decides which goroutines end                    *)

\* Neither SubmitTask nor the API looks at ctx.
Submit ==
    /\ input < Capacity
    /\ input' = input + 1
    /\ UNCHANGED <<wg, ctx, run, launched, stop, waiter, resends>>

\* The main loop receives a buffered task or, without a buffer, one from a
\* goroutine that is waiting to send it.
MainLoopReceives ==
    /\ run["mainLoop"] = "running"
    /\ \/ input > 0 /\ input' = input - 1 /\ UNCHANGED resends
       \/ Capacity = 0 /\ resends > 0 /\ resends' = resends - 1 /\ UNCHANGED input
    /\ UNCHANGED <<wg, ctx, run, launched, stop, waiter>>

\* dispatchToWorker found every worker busy.
SpawnResend ==
    /\ run["retryManager"] = "running" /\ run["retryWorker"] # "new"
    /\ resends < MaxResends
    /\ resends' = resends + 1
    /\ UNCHANGED <<wg, ctx, run, launched, stop, waiter, input>>

\* Mutant: a resend goroutine waits for the main loop to make room.
ResendBehindMainLoop ==
    /\ resends > 0 /\ input < Capacity /\ run["mainLoop"] = "running"
    /\ resends' = resends - 1 /\ input' = input + 1
    /\ UNCHANGED <<wg, ctx, run, launched, stop, waiter>>

Resend ==
    /\ resends > 0 /\ input < Capacity
    /\ resends' = resends - 1 /\ input' = input + 1
    /\ UNCHANGED <<wg, ctx, run, launched, stop, waiter>>

-----------------------------------------------------------------------------
Next ==
    \/ Launch \/ LaunchRetryWorker
    \/ \E g \in Counted : CountedEnds(g)
    \/ \E g \in Managers : ManagerEnds(g)
    \/ Stop \/ Wait \/ StopGracefully \/ StopTimesOut
    \/ Submit \/ MainLoopReceives \/ SpawnResend \/ Resend

Spec == Init /\ [][Next]_vars

\* Every goroutine is scheduled, a Start once begun goes on, and the 30
\* seconds of Stop pass.  Nobody has to call Start, Stop or SubmitTask.
Fairness ==
    /\ WF_vars(launched > 0 /\ Launch)
    /\ WF_vars(LaunchRetryWorker)
    /\ WF_vars(Wait)
    /\ WF_vars(StopGracefully \/ StopTimesOut)
    /\ WF_vars(Resend)
    /\ \A g \in Counted : WF_vars(CountedEnds(g))
    /\ \A g \in Managers : WF_vars(ManagerEnds(g))

FairSpec == Spec /\ Fairness

-----------------------------------------------------------------------------
(* Properties                                                              *)

Running(S) == {g \in S : run[g] = "running"}

\* Every variable has its type; in particular the WaitGroup never goes below
\* zero, which is a panic in Go.
TypeOK ==
    /\ wg \in Nat
    /\ ctx \in {"live", "cancelled"}
    /\ run \in [Goroutines -> {"new", "running", "ended"}]
    /\ launched \in 0..Len(Launches)
    /\ stop \in {"no", "waiting", "graceful", "timeout"}
    /\ waiter \in {"none", "new", "blocked", "ended"}
    /\ input \in 0..Capacity /\ resends \in 0..MaxResends

\* At the moment the wait of Stop is over no loop of the system runs, wherever
\* Stop fell between the launches of Start and of the retry worker.
WaitMeansOver ==
    [][waiter # "ended" /\ waiter' = "ended" => Running(Goroutines)' = {}]_vars

\* The four managers never call Done: once Start has launched one of them, a
\* wait that is not over by then never is, and Stop can only time out.  (A Stop
\* that was through before Start has reported success, and Start launches its
\* loops all the same.)
StartedWaitsForEver ==
    [][launched > 0 /\ waiter # "ended" => waiter' # "ended"]_vars

\* Stop returns whatever is still running, and every loop that runs after the
\* cancellation, also one launched after it, ends.
LoopsEnd ==
    /\ stop = "waiting" ~> stop \in {"graceful", "timeout"}
    /\ \A g \in Goroutines : ctx = "cancelled" /\ run[g] = "running" ~> run[g] = "ended"

\* The only goroutines besides the waiter that can outlive a stopped system are
\* resends in front of a full inputChan that no main loop empties any more.
OnlyFullInputKeepsResends ==
    ctx = "cancelled" ~>
        [](resends = 0 \/ (input = Capacity /\ run["mainLoop"] = "ended"))
=============================================================================
