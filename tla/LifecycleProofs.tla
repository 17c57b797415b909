--------------------------- MODULE LifecycleProofs ---------------------------
(***************************************************************************)
(* Proofs about Lifecycle, for every finite set of workers.                *)
(***************************************************************************)
EXTENDS Lifecycle, FiniteSetTheorems, TLAPS

\* What the WaitGroup counts: the goroutines that will call Done, and the
\* managers launched so far, which never will.
WgCounts == wg = Cardinality(Running(Counted)) + launched

\* The managers are launched in the order of Start, the retry worker by one of
\* them.
Launched ==
    /\ (run["queueManager"] = "new") <=> (launched < 1)
    /\ (run["retryManager"] = "new") <=> (launched < 2)
    /\ (run["mainLoop"] = "new") <=> (launched < 3)
    /\ (run["statsCollector"] = "new") <=> (launched < 4)

Types ==
    /\ ctx \in {"live", "cancelled"}
    /\ run \in [Goroutines -> {"new", "running", "ended"}]
    /\ launched \in 0..4
    /\ stop \in {"no", "waiting", "graceful", "timeout"}
    /\ waiter \in {"none", "new", "blocked", "ended"}
    /\ input \in 0..Capacity /\ resends \in 0..MaxResends

Inv == Types /\ WgCounts /\ Launched

LEMMA CountedIsFinite == IsFiniteSet(Counted)
<1>1. Counted = Workers \cup {"retryWorker"}
  BY DEF Counted
<1>2. QED
  BY <1>1, WorkersAssumption, FS_AddElement

LEMMA NamesDiffer ==
    /\ Counted \cap Managers = {} /\ Counted \subseteq Goroutines
    /\ Managers \subseteq Goroutines
    /\ "mainLoop" \in Managers /\ "retryManager" \in Managers
    /\ "retryWorker" \in Counted /\ "retryWorker" \notin Workers
    /\ Workers \subseteq Counted
  BY WorkersAssumption DEF Counted, Managers, Goroutines

LEMMA RunningIsFinite ==
    IsFiniteSet(Running(Counted)) /\ Cardinality(Running(Counted)) \in Nat
<1>1. Running(Counted) \subseteq Counted
  BY DEF Running
<1>2. QED
  BY <1>1, CountedIsFinite, FS_Subset, FS_CardinalityType

\* Steps that launch or end no counted goroutine.
LEMMA SameRunning ==
    ASSUME \A g \in Counted : (run'[g] = "running") <=> (run[g] = "running")
    PROVE  Running(Counted)' = Running(Counted)
  BY DEF Running

LEMMA InitInv == Init => Inv
<1> SUFFICES ASSUME Init PROVE Inv
  OBVIOUS
<1>1. Running(Counted) = Workers
  BY NamesDiffer DEF Init, Running, Counted
<1>2. Types
  BY BoundsAssumption DEF Init, Types
<1>3. WgCounts
  BY <1>1, WorkersAssumption, FS_CardinalityType DEF Init, WgCounts
<1>4. Launched
  BY NamesDiffer, WorkersAssumption DEF Init, Launched, Managers
<1>5. QED
  BY <1>2, <1>3, <1>4 DEF Inv

\* Launch starts the manager whose turn it is.
LEMMA LaunchTurn ==
    ASSUME Inv, LaunchNext
    PROVE  \E m \in Managers :
              /\ run[m] = "new"
              /\ run' = [run EXCEPT ![m] = "running"]
              /\ launched' = launched + 1 /\ launched' \in 0..4
              /\ Launched'
<1>1. launched \in {0, 1, 2, 3}
  BY DEF Inv, Types, LaunchNext, Launches
<1>2. CASE launched = 0
  BY <1>2, NamesDiffer DEF Inv, Types, Launched, LaunchNext, Launches, Managers
<1>3. CASE launched = 1
  BY <1>3, NamesDiffer DEF Inv, Types, Launched, LaunchNext, Launches, Managers
<1>4. CASE launched = 2
  BY <1>4, NamesDiffer DEF Inv, Types, Launched, LaunchNext, Launches, Managers
<1>5. CASE launched = 3
  BY <1>5, NamesDiffer DEF Inv, Types, Launched, LaunchNext, Launches, Managers
<1>6. QED
  BY <1>1, <1>2, <1>3, <1>4, <1>5

LEMMA StepInv == Inv /\ [Next]_vars => Inv'
<1> SUFFICES ASSUME Inv, [Next]_vars PROVE Inv'
  OBVIOUS
<1>0. /\ Types /\ WgCounts /\ Launched
      /\ IsFiniteSet(Running(Counted)) /\ Cardinality(Running(Counted)) \in Nat
      /\ wg \in Nat /\ launched \in Nat
  BY RunningIsFinite DEF Inv, WgCounts, Types
<1>1. CASE Launch
  <2>1. PICK m \in Managers :
          /\ run[m] = "new"
          /\ run' = [run EXCEPT ![m] = "running"]
          /\ launched' = launched + 1 /\ launched' \in 0..4
          /\ Launched'
    BY <1>1, LaunchTurn DEF Launch
  <2>2. Types'
    BY <1>0, <1>1, <2>1, NamesDiffer DEF Launch, LaunchNext, Types
  <2>3. Running(Counted)' = Running(Counted)
    BY <1>0, <2>1, NamesDiffer, SameRunning DEF Types
  <2>4. WgCounts'
    BY <1>0, <1>1, <2>1, <2>3 DEF Launch, WgCounts
  <2>5. QED
    BY <2>1, <2>2, <2>4 DEF Inv
<1>2. CASE LaunchRetryWorker
  <2>1. Running(Counted)' = Running(Counted) \cup {"retryWorker"}
    BY <1>0, <1>2, NamesDiffer DEF LaunchRetryWorker, Running, Types
  <2>2. "retryWorker" \notin Running(Counted)
    BY <1>2 DEF LaunchRetryWorker, Running
  <2>3. Cardinality(Running(Counted)') = Cardinality(Running(Counted)) + 1
    BY <1>0, <2>1, <2>2, FS_AddElement
  <2>4. WgCounts'
    BY <1>0, <1>2, <2>3 DEF LaunchRetryWorker, WgCounts
  <2>5. Types' /\ Launched'
    BY <1>0, <1>2, NamesDiffer DEF LaunchRetryWorker, Launched, Types, Managers
  <2>6. QED
    BY <2>4, <2>5 DEF Inv
<1>3. ASSUME NEW g \in Counted, CountedEnds(g) PROVE Inv'
  <2>1. Running(Counted)' = Running(Counted) \ {g}
    BY <1>0, <1>3, NamesDiffer DEF CountedEnds, Ends, Running, Types
  <2>2. g \in Running(Counted)
    BY <1>3 DEF CountedEnds, Ends, Running
  <2>3. Cardinality(Running(Counted)') = Cardinality(Running(Counted)) - 1
    BY <1>0, <2>1, <2>2, FS_RemoveElement
  <2>4. WgCounts'
    BY <1>0, <1>3, <2>3 DEF CountedEnds, Ends, Done, WgCounts
  <2>5. Types' /\ Launched'
    BY <1>0, <1>3, NamesDiffer
       DEF CountedEnds, Ends, Done, Launched, Types, Managers
  <2>6. QED
    BY <2>4, <2>5 DEF Inv
<1>4. ASSUME NEW g \in Managers, ManagerEnds(g) PROVE Inv'
  <2>1. Running(Counted)' = Running(Counted)
    BY <1>0, <1>4, NamesDiffer, SameRunning DEF ManagerEnds, Ends, Types
  <2>2. WgCounts'
    BY <1>0, <1>4, <2>1 DEF ManagerEnds, Ends, WgCounts
  <2>3. Types' /\ Launched'
    BY <1>0, <1>4, NamesDiffer DEF ManagerEnds, Ends, Launched, Types, Managers
  <2>4. QED
    BY <2>2, <2>3 DEF Inv
<1>5. CASE Stop \/ Wait \/ StopGracefully \/ StopTimesOut
  BY <1>0, <1>5 DEF Stop, Wait, StopGracefully, StopTimesOut, Inv, Types, WgCounts,
     Launched, Running
<1>6. CASE Submit \/ MainLoopReceives \/ SpawnResend \/ Resend
  <2>1. Types'
    BY <1>0, <1>6, BoundsAssumption
       DEF Submit, MainLoopReceives, SpawnResend, Resend, Types
  <2>2. UNCHANGED <<wg, run, launched>>
    BY <1>6 DEF Submit, MainLoopReceives, SpawnResend, Resend
  <2>3. QED
    BY <1>0, <2>1, <2>2 DEF Inv, WgCounts, Launched, Running
<1>7. CASE UNCHANGED vars
  BY <1>7 DEF vars, Inv, Types, WgCounts, Launched, Running
<1>8. QED
  BY <1>1, <1>2, <1>3, <1>4, <1>5, <1>6, <1>7 DEF Next

LEMMA InvInvariant == Spec => []Inv
  BY InitInv, StepInv, PTL DEF Spec

\* A wait is over only by a step after which the counter is zero.
LEMMA OverAtZero ==
    ASSUME [Next]_vars, waiter # "ended", waiter' = "ended"
    PROVE  wg' = 0 /\ launched' = launched
<1>1. CASE Wait
  BY <1>1 DEF Wait
<1>2. ASSUME NEW g \in Counted, CountedEnds(g) PROVE wg' = 0 /\ launched' = launched
  BY <1>2 DEF CountedEnds, Ends, Done
<1>3. ASSUME NEW g \in Managers, ManagerEnds(g) PROVE FALSE
  BY <1>3 DEF ManagerEnds
<1>4. CASE Launch \/ LaunchRetryWorker \/ Stop \/ StopGracefully \/ StopTimesOut
           \/ Submit \/ MainLoopReceives \/ SpawnResend \/ Resend
  BY <1>4 DEF Launch, LaunchNext, LaunchRetryWorker, Stop, StopGracefully,
     StopTimesOut, Submit, MainLoopReceives, SpawnResend, Resend
<1>5. CASE UNCHANGED vars
  BY <1>5 DEF vars
<1>6. QED
  BY <1>1, <1>2, <1>3, <1>4, <1>5 DEF Next

\* With the counter at zero nothing was launched and nothing counted runs.
LEMMA ZeroMeansOver == Inv /\ wg = 0 => launched = 0 /\ Running(Goroutines) = {}
<1> SUFFICES ASSUME Inv, wg = 0 PROVE launched = 0 /\ Running(Goroutines) = {}
  OBVIOUS
<1>1. launched = 0 /\ Cardinality(Running(Counted)) = 0
  BY RunningIsFinite DEF Inv, Types, WgCounts
<1>2. Running(Counted) = {}
  BY <1>1, RunningIsFinite, FS_EmptySet
<1>3. \A g \in Managers : run[g] = "new"
  BY <1>1 DEF Inv, Launched, Managers
<1>4. QED
  BY <1>1, <1>2, <1>3 DEF Running, Goroutines

\* The WaitGroup counter never becomes negative, whatever the number of workers
\* and the order in which Start, Stop and the ends of the goroutines interleave.
THEOREM TypeCorrect == Spec => []TypeOK
<1>1. Inv => TypeOK
  BY RunningIsFinite DEF Inv, Types, TypeOK, WgCounts, Launches
<1>2. QED
  BY <1>1, InvInvariant, PTL

\* The wait of Stop is over only when no loop of the system runs: whatever Start
\* has launched by then holds it back.
THEOREM WaitIsComplete == Spec => WaitMeansOver
<1>1. Inv /\ Inv' /\ [Next]_vars
        => [waiter # "ended" /\ waiter' = "ended" => Running(Goroutines)' = {}]_vars
  <2> SUFFICES ASSUME Inv', [Next]_vars, waiter # "ended", waiter' = "ended"
               PROVE  Running(Goroutines)' = {}
    OBVIOUS
  <2>1. wg' = 0
    BY OverAtZero
  <2>2. (Inv /\ wg = 0 => launched = 0 /\ Running(Goroutines) = {})'
    BY ZeroMeansOver, PTL
  <2>3. QED
    BY <2>1, <2>2
<1>2. QED
  BY <1>1, InvInvariant, PTL DEF Spec, WaitMeansOver

\* Once Start has launched one of its loops, a wait that is not over never is:
\* Stop of a started system times out, for any number of workers.
THEOREM StartedIsNeverOver == Spec => StartedWaitsForEver
<1>1. Inv /\ Inv' /\ [Next]_vars
        => [launched > 0 /\ waiter # "ended" => waiter' # "ended"]_vars
  <2> SUFFICES ASSUME Inv', [Next]_vars, launched > 0, waiter # "ended",
                      waiter' = "ended"
               PROVE  FALSE
    OBVIOUS
  <2>1. wg' = 0 /\ launched' = launched
    BY OverAtZero
  <2>2. (Inv /\ wg = 0 => launched = 0 /\ Running(Goroutines) = {})'
    BY ZeroMeansOver, PTL
  <2>3. QED
    BY <2>1, <2>2
<1>2. QED
  BY <1>1, InvInvariant, PTL DEF Spec, StartedWaitsForEver

=============================================================================
