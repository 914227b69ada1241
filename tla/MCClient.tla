------------------------------ MODULE MCClient ------------------------------
(* What a client is shown: the functions of the BDA client, which make the *)
(* result of a document, and the listings, dashboards and detail pages     *)
(* over a small table, with one job in each period of the dashboard.  They *)
(* share no state, so a behaviour is of the functions or of the pages.     *)
EXTENDS MCBdaClient, DetailPage

VARIABLE part    \* "result" or "pages"

MCSince == [today |-> 3, last_7d |-> 2, last_30d |-> 1]

bdaVars == <<doc, output, poll>>

NoQueries == QueriesInit /\ listing = "jobs" /\ filter = "any" /\ page = NoPage /\ board = Closed

NoDocument == doc = SomeDocument /\ output = SomeOutput /\ poll = Polled

ClientInit == \/ part = "result" /\ MCInit /\ NoQueries
              \/ part = "pages" /\ QueriesInit /\ NoDocument

ClientNext == \/ part = "result" /\ MCNext /\ UNCHANGED <<part, queryVars>>
              \/ part = "pages" /\ QueriesNext /\ UNCHANGED <<part, bdaVars>>

(* The browser's timer fires, as in FairQueriesSpec. *)
ClientSpec ==
    /\ ClientInit /\ [][ClientNext]_<<part, bdaVars, queryVars>>
    /\ WF_queryVars(part = "pages" /\ Tick)
=============================================================================
