---------------------------- MODULE MCSubmission ----------------------------
(* A small instance of Submission: single messages and batches.            *)
EXTENDS Submission

CONSTANT BatchSize

Sizes == [r \in Requests |-> IF r \in Singles THEN 1 ELSE BatchSize]
=============================================================================
