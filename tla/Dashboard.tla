----------------------------- MODULE Dashboard -----------------------------
(***************************************************************************)
(* The administrator's dashboard: three buckets of the jobs created since  *)
(* midnight, in 7 days and in 30 days, each read by two queries, one after *)
(* the other, while jobs are committed and change.  Readers of the table   *)
(* do not disturb each other, and a behaviour has one of them: here the    *)
(* listings of Listings or a dashboard.                                    *)
(***************************************************************************)
EXTENDS Listings

CONSTANT
    Since        \* bucket -> the created_at it begins with

Buckets == {"today", "last_7d", "last_30d"}

(* The three are computed from one reading of the clock. *)
ASSUME SinceOrdered ==
    /\ Since \in [Buckets -> Nat]
    /\ Since["last_30d"] <= Since["last_7d"] /\ Since["last_7d"] <= Since["today"]

VARIABLES
    costed,      \* the jobs whose pages and cost are set
    board        \* the dashboard being put together, or what it shows

NoFigures == [jobs |-> 0, cost |-> 0, ok |-> 0, came |-> 0]

Closed == [pc |-> "closed", bucket |-> "today", at |-> [b \in Buckets |-> NoFigures]]

boardVars == <<costed, board>>

(* Without a dashboard there is a listing. *)
BoardInit ==
    /\ costed = {}
    /\ board \in {Closed, [Closed EXCEPT !.pc = "totals"]}
    /\ board # Closed => listing = "jobs" /\ filter = "any"

-----------------------------------------------------------------------------
(* A job that succeeds gets its pages and its cost, and keeps them if it is *)
(* processed again.  came counts the jobs committed between the two        *)
(* queries of a bucket (a history variable).                               *)
JobStep ==
    /\ Lifecycle!Next
    /\ costed' = costed \cup {r \in Rows : table'[r] = "success"}
    /\ board' = IF board.pc = "rate" /\ \E r \in Rows : table[r] = "absent" /\ table'[r] # "absent"
                THEN [board EXCEPT !.at[board.bucket].came = @ + 1]
                ELSE board
    /\ UNCHANGED <<listing, filter, walk, unseen, left, grew>>

CreatedSince(b) == {r \in Rows : table[r] # "absent" /\ r >= Since[b]}

(* _bucket, the first query: of all jobs, whatever their status. *)
Totals ==
    LET rows == CreatedSince(board.bucket) IN
    /\ board.pc = "totals"
    /\ board' = [board EXCEPT !.pc = "rate",
                    !.at[board.bucket] = [jobs |-> Cardinality(rows),
                                          cost |-> Cardinality(rows \cap costed),
                                          ok |-> 0, came |-> 0]]
    /\ UNCHANGED <<listingVars, costed>>

(* NextBucketBack is not the code: it reads the largest bucket first.      *)
NextBucketBack(b) ==
    CASE b = "today" -> "last_30d" [] b = "last_30d" -> "last_7d" [] OTHER -> "today"

NextBucket(b) ==
    CASE b = "today" -> "last_7d" [] b = "last_7d" -> "last_30d" [] OTHER -> "today"

(* SucceededEver is not the code: it forgets where the bucket begins.      *)
SucceededEver(b) == {r \in Rows : table[r] = "success"}

Succeeded(b) == {r \in CreatedSince(b) : table[r] = "success"}

(* _bucket, the second query, and on to the next bucket; after the third   *)
(* the dashboard is shown.                                                 *)
Rate ==
    LET b == board.bucket
        next == NextBucket(b) IN
    /\ board.pc = "rate"
    /\ board' = [board EXCEPT !.pc = IF next = "today" THEN "shown" ELSE "totals",
                              !.bucket = next,
                              !.at[b].ok = Cardinality(Succeeded(b))]
    /\ UNCHANGED <<listingVars, costed>>

(* The page is opened again. *)
Refresh ==
    /\ board.pc = "shown"
    /\ board' = [Closed EXCEPT !.pc = "totals"]
    /\ UNCHANGED <<listingVars, costed>>

BoardNext == board.pc # "closed" /\ (JobStep \/ Totals \/ Rate \/ Refresh)

-----------------------------------------------------------------------------
(* Properties. *)

BoardTypeOK ==
    /\ costed \subseteq Rows
    /\ board \in [pc : {"closed", "totals", "rate", "shown"}, bucket : Buckets,
                  at : [Buckets -> [jobs : 0 .. MaxRow, cost : 0 .. MaxRow,
                                    ok : 0 .. MaxRow, came : 0 .. MaxRow]]]

(* The figures of a dashboard fit together although they are read one      *)
(* after the other: a longer period never shows fewer jobs, or a smaller   *)
(* cost, than a shorter one.                                               *)
BucketsNest ==
    board.pc = "shown" =>
        LET short == board.at["today"]
            week == board.at["last_7d"]
            month == board.at["last_30d"] IN
        /\ short.jobs <= week.jobs /\ week.jobs <= month.jobs
        /\ short.cost <= week.cost /\ week.cost <= month.cost

(* A success rate exceeds 100 % by those jobs at most that were committed  *)
(* between the two queries and have succeeded before the second.           *)
RateIsARate ==
    \A b \in Buckets : board.at[b].ok <= board.at[b].jobs + board.at[b].came
=============================================================================
