----------------------------- MODULE DetailPage -----------------------------
(***************************************************************************)
(* The page of one job, which asks for the job every three seconds until   *)
(* it has ended, and the readers of the tables together: a behaviour has a *)
(* listing, a dashboard or a detail page.                                  *)
(***************************************************************************)
EXTENDS Dashboard

VARIABLE page    \* the detail page of a job

Unfinished == {"queued", "processing"}

NoPage == [pc |-> "closed", of |-> 0, shows |-> "nothing"]

queryVars == <<listingVars, boardVars, page>>

QueriesInit ==
    /\ ListingsInit /\ BoardInit
    /\ page \in {NoPage, [NoPage EXCEPT !.pc = "ready"]}
    /\ page # NoPage => board = Closed /\ listing = "jobs" /\ filter = "any"

-----------------------------------------------------------------------------
(* A job is opened from where it was listed. *)
OpenPage ==
    /\ page.pc \in {"ready", "stopped", "broken"}
    /\ \E r \in Rows : table[r] # "absent" /\ page' = [pc |-> "polling", of |-> r, shows |-> "nothing"]
    /\ UNCHANGED <<listingVars, boardVars>>

(* tick and get_job.                                                       *)
(* TickOnceStarted is not the code: it asks again of a queued job only.    *)
TickOnceStarted ==
    LET status == table[page.of] IN
    /\ page.pc = "polling"
    /\ page' = [page EXCEPT !.shows = status, !.pc = IF status = "queued" THEN @ ELSE "stopped"]
    /\ UNCHANGED <<listingVars, boardVars>>

Tick ==
    LET status == table[page.of] IN
    /\ page.pc = "polling"
    /\ page' = [page EXCEPT !.shows = status,
                            !.pc = IF status \in Unfinished THEN @ ELSE "stopped"]
    /\ UNCHANGED <<listingVars, boardVars>>

(* apiFetch throws, and nothing asks again. *)
TickFails ==
    /\ page.pc = "polling"
    /\ page' = [page EXCEPT !.pc = "broken"]
    /\ UNCHANGED <<listingVars, boardVars>>

PageNext ==
    /\ page.pc # "closed"
    /\ \/ JobStep /\ UNCHANGED page
       \/ OpenPage \/ Tick \/ TickFails

(* The steps of the listings, of the dashboard and of the detail page. *)
QueriesNext ==
    \/ page.pc = "closed" /\ board.pc = "closed" /\ ListingsNext /\ UNCHANGED <<boardVars, page>>
    \/ BoardNext /\ UNCHANGED page
    \/ PageNext

QueriesSpec == QueriesInit /\ [][QueriesNext]_queryVars

(* The browser's timer fires. *)
FairQueriesSpec == QueriesSpec /\ WF_queryVars(Tick)

-----------------------------------------------------------------------------
(* Properties. *)

QueriesTypeOK ==
    /\ ListingsTypeOK /\ BoardTypeOK
    /\ page \in [pc : {"closed", "ready", "polling", "stopped", "broken"},
                  of : 0 .. MaxRow, shows : {"nothing"} \cup JobStatuses]

(* "Detail page polls GET /jobs/{id} every 3 s while in non-terminal       *)
(* state": unless a request fails, a page that polls comes to show how its *)
(* job ended, if the job comes to stay ended.                              *)
Ended(r) == table[r] \in {"success", "failed"}

PageShowsTheEnd ==
    \A r \in Rows :
        [](page.pc = "polling" /\ page.of = r /\ <>[] Ended(r) =>
              <>(page.pc = "broken" \/ page.shows \in {"success", "failed"}))
=============================================================================
