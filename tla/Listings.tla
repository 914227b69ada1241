------------------------------ MODULE Listings ------------------------------
(***************************************************************************)
(* The paged listings: a user's jobs, all jobs, users and the audit log.   *)
(* One request counts the rows that match the filter and then reads one    *)
(* page of them, newest first, by offset; the page shows Prev and Next     *)
(* buttons computed from the count.  Between the two queries, and between  *)
(* two pages, rows are committed and change, and so enter and leave what   *)
(* is listed.  The jobs of the table live as JobLifecycle says.            *)
(***************************************************************************)
EXTENDS Naturals, FiniteSets

CONSTANTS
    MaxRow,      \* rows the table may come to have
    Size,        \* rows of a page
    MaxLeft      \* a bound: how often a listed row may leave the listing

ASSUME ListingConstants == MaxRow \in Nat /\ Size \in Nat \ {0} /\ MaxLeft \in Nat

(* A row is named by its created_at, which is the start of its transaction *)
(* to the microsecond: a larger number is newer, rows may be committed in  *)
(* any order, and no two rows of a listing are taken to share one.         *)
Rows == 1 .. MaxRow

VARIABLES
    listing,     \* what is listed: "jobs", "users" or "audit"
    filter,      \* the status asked for, or "any"
    table,       \* row -> its status, or "absent"
    walk,        \* the page on the screen and the request for another
    unseen,      \* rows listed at the first count that never left since and
                 \* have not been on a page yet
    left,        \* how often a listed row left since then
    grew         \* rows that entered between the last count and its page
                 \* (unseen, left and grew are history variables)

listingVars == <<listing, filter, table, walk, unseen, left, grew>>

JobStatuses == {"queued", "processing", "success", "failed"}

UserStatuses == {"active", "suspended"}

(* Rows are filtered by a status or not at all; it stands for every column *)
(* that changes while rows are listed (a role, a document type).  A filter *)
(* by a user or by dates, which a row keeps, only makes the table smaller. *)
Filters(what) ==
    CASE what = "jobs"  -> JobStatuses \cup {"any"}
      [] what = "users" -> UserStatuses \cup {"any"}
      [] what = "audit" -> {"any"}

(* A walk starts at page 1, as if it were the next after a page 0. *)
IdleWalk == [pc |-> "idle", page |-> 0, asked |-> 0, total |-> 0, top |-> 0]

ListingsInit ==
    /\ listing \in {"jobs", "users", "audit"}
    /\ filter \in Filters(listing)
    /\ table = [r \in Rows |-> "absent"]
    /\ walk = IdleWalk
    /\ unseen = {} /\ left = 0 /\ grew = 0

-----------------------------------------------------------------------------
(* The table. *)

MatchesIn(t, r) == t[r] \notin {"absent", "deleted"} /\ filter \in {"any", t[r]}

Listed == {r \in Rows : MatchesIn(table, r)}

Lifecycle == INSTANCE JobLifecycle WITH Jobs <- Rows, Reopening <- TRUE, status <- table

UserStep ==
    \E r \in Rows, to \in UserStatuses \cup {"deleted"} :
        /\ table[r] = "absent" => to = "active"
        /\ table[r] # "deleted"
        /\ table' = [table EXCEPT ![r] = to]

EntryStep ==
    \E r \in Rows : table[r] = "absent" /\ table' = [table EXCEPT ![r] = "written"]

TableStep ==
    \/ listing = "jobs" /\ Lifecycle!Next
    \/ listing = "users" /\ UserStep
    \/ listing = "audit" /\ EntryStep

(* A transaction is committed; the rest keeps the history. *)
Commit ==
    /\ TableStep
    /\ UNCHANGED <<listing, filter, walk>>
    /\ Listed \subseteq Listed' \/ left < MaxLeft
    /\ unseen' = unseen \cap Listed'
    /\ left' = IF Listed \subseteq Listed' THEN left ELSE left + 1
    /\ grew' = IF walk.pc = "counted" /\ ~ Listed' \subseteq Listed THEN grew + 1 ELSE grew

-----------------------------------------------------------------------------
(* The walk through the pages. *)

(* A row's place in the listing, from 1, newest first. *)
Rank(r) == Cardinality({s \in Listed : s >= r})

(* offset((page - 1) * size).limit(size).                                  *)
(* WindowSkipping is not the code: it takes the page for its last row.     *)
WindowSkipping(page) ==
    {r \in Listed : (page - 1) * Size + 1 < Rank(r) /\ Rank(r) <= page * Size + 1}

Window(page) ==
    {r \in Listed : (page - 1) * Size < Rank(r) /\ Rank(r) <= page * Size}

(* renderPaginator: Next is dead on the last page of those counted. *)
LastPage == walk.page * Size >= walk.total

(* The filter is set, or the page opened: page 1 is asked for. *)
Open ==
    /\ walk.pc \in {"idle", "shown"}
    /\ walk' = [IdleWalk EXCEPT !.pc = "asked", !.asked = 1]
    /\ unseen' = {} /\ left' = 0 /\ grew' = 0
    /\ UNCHANGED <<listing, filter, table>>

(* Prev, Next, or the same page again; Prev is dead on page 1.             *)
(* TurnBelow is not the code: Prev is always alive.                        *)
TurnBelow ==
    /\ walk.pc = "shown"
    /\ \E page \in {walk.page - 1, walk.page, walk.page + 1} :
          /\ page > walk.page => ~ LastPage
          /\ walk' = [walk EXCEPT !.pc = "asked", !.asked = page]
    /\ UNCHANGED <<listing, filter, table, unseen, left, grew>>

Turn ==
    /\ walk.pc = "shown"
    /\ \E page \in {walk.page - 1, walk.page, walk.page + 1} :
          /\ page >= 1 /\ (page > walk.page => ~ LastPage)
          /\ walk' = [walk EXCEPT !.pc = "asked", !.asked = page]
    /\ UNCHANGED <<listing, filter, table, unseen, left, grew>>

(* list_paged, the first query. *)
Count ==
    /\ walk.pc = "asked"
    /\ walk' = [walk EXCEPT !.pc = "counted", !.total = Cardinality(Listed)]
    /\ unseen' = IF walk.top = 0 THEN Listed ELSE unseen
    /\ grew' = 0
    /\ UNCHANGED <<listing, filter, table, left>>

(* list_paged, the second query; the page is shown. *)
Show ==
    /\ walk.pc = "counted"
    /\ walk' = [walk EXCEPT !.pc = "shown", !.page = walk.asked,
                            !.top = IF walk.asked > @ THEN walk.asked ELSE @]
    /\ unseen' = unseen \ Window(walk.asked)
    /\ UNCHANGED <<listing, filter, table, left, grew>>

ListingsNext == Commit \/ Open \/ Turn \/ Count \/ Show

ListingsSpec == ListingsInit /\ [][ListingsNext]_listingVars

-----------------------------------------------------------------------------
(* Properties. *)

ListingsTypeOK ==
    /\ listing \in {"jobs", "users", "audit"}
    /\ filter \in Filters(listing)
    /\ table \in [Rows -> {"absent", "deleted", "written"} \cup JobStatuses \cup UserStatuses]
    /\ walk \in [pc : {"idle", "asked", "counted", "shown"}, page : Nat, asked : Nat,
                 total : 0 .. MaxRow, top : Nat]
    /\ unseen \subseteq Rows
    /\ left \in 0 .. MaxLeft
    /\ grew \in Nat

(* Paging through to where Next goes dead shows every row that was listed  *)
(* from the first count on, except one at most for each row that left the  *)
(* listing on the way and for each that entered it between the last count  *)
(* and its page.                                                           *)
WalkMissesFew ==
    walk.pc = "shown" /\ LastPage => Cardinality(unseen) <= left + grew
=============================================================================
