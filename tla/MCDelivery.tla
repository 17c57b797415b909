----------------------------- MODULE MCDelivery -----------------------------
(* Small instances of Delivery.                                            *)
EXTENDS Delivery, TLC

TasksSymmetry == Permutations(Tasks)

\* Both tasks compete for the first or for the last priority queue.
HighPriority == [t \in Tasks |-> 3]
LowPriority  == [t \in Tasks |-> 8]
=============================================================================
