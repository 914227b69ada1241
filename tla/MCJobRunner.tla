----------------------------- MODULE MCJobRunner -----------------------------
(* JobRunner on small instances: two jobs already queued, two pool slots.  *)
EXTENDS JobRunner, TLC

CONSTANTS j1, j2, s1, s2, w1, w2

(* One slot on each of two workers, or both on the first. *)
TwoWorkers == (s1 :> w1) @@ (s2 :> w2)
OneWorker == [s \in {s1, s2} |-> w1]

(* A code both call sites retry, one that only the first does, and one     *)
(* that neither does.                                                      *)
RetriedByInvoke == {"ThrottlingException", "ServiceUnavailable", "InternalServerException"} \cap AwsErrors
RetriedByPoll == {"ThrottlingException", "ServiceUnavailable"} \cap AwsErrors

JobSymmetry == Permutations(Jobs)

(* With a slot on each worker, exchanging the slots exchanges the workers, *)
(* which no variable names: the two halves of a state stand for each other.*)
SlotSymmetry == Permutations(Slots)
=============================================================================
