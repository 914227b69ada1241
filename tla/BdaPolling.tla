----------------------------- MODULE BdaPolling -----------------------------
(***************************************************************************)
(* The clock of wait_for_completion: it asks for the status of an          *)
(* invocation, sleeps as BACKOFF_SCHEDULE says, and asks again, until the  *)
(* invocation has ended, its own deadline has passed, or the soft time     *)
(* limit of the task is due.  The limit and the deadline are the same      *)
(* number of seconds, the limit counted from the start of the task, the    *)
(* deadline from the start of the loop; a pool that cannot interrupt its   *)
(* tasks, and the tests, go without the limit.  What the answers do to the *)
(* job is the concern of JobRunner, where all of this takes no time.       *)
(***************************************************************************)
EXTENDS Integers

CONSTANTS
    MaxSeconds,  \* settings.bda_poll_max_seconds
    MaxCheck     \* the longest _check_status takes, its retries included

ASSUME PollingConstants == MaxSeconds \in Nat \ {0} /\ MaxCheck \in Nat

VARIABLE poll    \* the polling: where it stands and what the clock says

(* BACKOFF_SCHEDULE, indexed from 0 and continued by its last entry. *)
Backoff(idx) == CASE idx = 0 -> 3 [] idx = 1 -> 5 [] idx = 2 -> 8 [] idx = 3 -> 13 [] OTHER -> 21

LongestBackoff == 21

(* task_soft_time_limit, where the pool enforces it. *)
SoftLimitDue(p, moment) == p.limited /\ moment >= MaxSeconds

Deadline(p) == p.begun + MaxSeconds

(* The loop begins once the invocation was started, which took a while;    *)
(* the invocation ends some time after that.                               *)
PollingInit ==
    \E begun \in 0 .. MaxCheck, ends \in 0 .. MaxSeconds + 2 * LongestBackoff, limited \in BOOLEAN :
        /\ begun <= ends
        /\ poll = [pc |-> "check", now |-> begun, begun |-> begun, ends |-> ends,
                   limited |-> limited, idx |-> 0]

(* Time goes on to the given moment and the loop with it, unless the soft  *)
(* time limit is due before.                                               *)
Until(moment, next) ==
    poll' = IF SoftLimitDue(poll, moment) THEN [next EXCEPT !.now = MaxSeconds, !.pc = "cancelled"]
                                          ELSE [next EXCEPT !.now = moment]

PastDeadline == poll.now > Deadline(poll)

(* The service answers by what is true when it is asked. *)
Check ==
    /\ poll.pc = "check" /\ ~ PastDeadline
    /\ \E time \in 0 .. MaxCheck :
          Until(poll.now + time,
                [poll EXCEPT !.pc = IF poll.ends <= poll.now THEN "answered" ELSE "sleep"])

(* A status call raises, after its retries. *)
CheckRaises ==
    /\ poll.pc = "check" /\ ~ PastDeadline
    /\ \E time \in 0 .. MaxCheck : Until(poll.now + time, [poll EXCEPT !.pc = "raised"])

GiveUpPolling ==
    /\ poll.pc = "check" /\ PastDeadline
    /\ poll' = [poll EXCEPT !.pc = "timeout"]

(* SleepDoubled is not the code: the waits double without a bound.         *)
SleepDoubled ==
    /\ poll.pc = "sleep"
    /\ Until(poll.now + 3 * 2 ^ poll.idx, [poll EXCEPT !.idx = @ + 1, !.pc = "check"])

Sleep ==
    /\ poll.pc = "sleep"
    /\ Until(poll.now + Backoff(poll.idx), [poll EXCEPT !.idx = @ + 1, !.pc = "check"])

PollingNext == Check \/ CheckRaises \/ GiveUpPolling \/ Sleep

PollingSpec == PollingInit /\ [][PollingNext]_poll

-----------------------------------------------------------------------------
(* Properties. *)

(* The end of an invocation is noticed within the longest wait and the two *)
(* checks around it; none that ends early enough for that is cut off by    *)
(* the soft time limit or given up at the deadline.  "A hard deadline       *)
(* (BDA_POLL_MAX_SECONDS)": where nothing interrupts the loop, it goes on  *)
(* beyond its deadline for one check and one wait at most.                 *)
Notice == LongestBackoff + 2 * MaxCheck

EndNoticed ==
    /\ poll.pc \in {"answered", "check", "sleep"} => poll.now - poll.ends <= Notice
    /\ poll.pc = "cancelled" => poll.ends + Notice >= MaxSeconds
    /\ poll.pc = "timeout" => poll.ends + LongestBackoff + MaxCheck >= Deadline(poll)
    /\ poll.now <= Deadline(poll) + MaxCheck + LongestBackoff
=============================================================================
