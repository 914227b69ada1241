---------------------------- MODULE JobLifecycle ----------------------------
(***************************************************************************)
(* What a client of the API may expect of the status of a job: it appears  *)
(* queued, is taken up for processing and ends in success or failed.  With *)
(* Reopening, a job that ended may be processed again, which is what a     *)
(* second delivery of its message does.                                    *)
(***************************************************************************)
CONSTANTS
    Jobs,
    Reopening    \* BOOLEAN: may a job that ended be processed again?

VARIABLE status  \* job -> its status, or "absent"

Init == status \in [Jobs -> {"absent", "queued"}]

Become(j, from, to) ==
    /\ status[j] \in from
    /\ status' = [status EXCEPT ![j] = to]

Submit(j) == Become(j, {"absent"}, "queued")

Start(j) == Become(j, {"queued"}, "processing")

Finish(j, outcome) == Become(j, {"processing"}, outcome)

Reopen(j) == Reopening /\ Become(j, {"success", "failed"}, "processing")

(* A second attempt comes to another end than the first, both having been  *)
(* under way together.                                                     *)
Overrule(j, outcome) == Reopening /\ Become(j, {"success", "failed"}, outcome)

Next ==
    \E j \in Jobs :
        \/ Submit(j) \/ Start(j) \/ Reopen(j)
        \/ \E outcome \in {"success", "failed"} : Finish(j, outcome) \/ Overrule(j, outcome)

Spec == Init /\ [][Next]_status

TypeOK == status \in [Jobs -> {"absent", "queued", "processing", "success", "failed"}]
=============================================================================
