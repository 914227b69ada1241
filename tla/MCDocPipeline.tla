---------------------------- MODULE MCDocPipeline ----------------------------
(* DocPipeline on a small instance: a batch of two files and one of a single*)
(* file, over one worker.                                                  *)
EXTENDS DocPipeline, TLC

CONSTANTS r1, r2, s1, w1

FilesOf == (r1 :> 2) @@ (r2 :> 1)
OneSlot == s1 :> w1

Symmetry == Permutations(Jobs)
=============================================================================
