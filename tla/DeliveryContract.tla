-------------------------- MODULE DeliveryContract --------------------------
(***************************************************************************)
(* What the delivery system promises to whoever submits a message, without *)
(* its channels and goroutines: a message is refused or admitted; an       *)
(* admitted one is stored and then pushed once, or it fails, or it is lost *)
(* without a trace when a queue is full or the process ends.  The code     *)
(* keeps the last case out of its counters, so the contract has to name it.*)
(***************************************************************************)
CONSTANT Messages

VARIABLES
    fate,     \* what has become of each message
    stored,   \* the messages in their user's database
    pushed    \* the messages broadcast to their user's connections

vars == <<fate, stored, pushed>>

Init ==
    /\ fate = [m \in Messages |-> "new"]
    /\ stored = {}
    /\ pushed = {}

Becomes(m, from, to) == fate[m] = from /\ fate' = [fate EXCEPT ![m] = to]

Refuse(m)  == Becomes(m, "new", "refused") /\ UNCHANGED <<stored, pushed>>
Admit(m)   == Becomes(m, "new", "pending") /\ UNCHANGED <<stored, pushed>>

Store(m) ==
    /\ fate[m] = "pending"
    /\ m \notin stored
    /\ stored' = stored \cup {m}
    /\ UNCHANGED <<fate, pushed>>

Deliver(m) ==
    /\ m \in stored \ pushed
    /\ Becomes(m, "pending", "delivered")
    /\ pushed' = pushed \cup {m}
    /\ UNCHANGED stored

Fail(m) == Becomes(m, "pending", "failed") /\ UNCHANGED <<stored, pushed>>
Lose(m) == Becomes(m, "pending", "lost") /\ UNCHANGED <<stored, pushed>>

\* The process ends: what is pending was only in its memory.
Restart ==
    /\ fate' = [m \in Messages |-> IF fate[m] = "pending" THEN "lost" ELSE fate[m]]
    /\ UNCHANGED <<stored, pushed>>

Next ==
    \/ \E m \in Messages : \/ Refuse(m) \/ Admit(m) \/ Store(m)
                           \/ Deliver(m) \/ Fail(m) \/ Lose(m)
    \/ Restart

Spec == Init /\ [][Next]_vars
=============================================================================
