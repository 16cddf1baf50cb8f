----------------------------- MODULE QueryCache -----------------------------
(***************************************************************************)
(* One cached query of the dashboard: @tanstack/react-query with the       *)
(* defaults of providers.tsx, as the pages use it.                         *)
(*                                                                         *)
(* A datum is a set of at most one element: what the API had when the      *)
(* request was read.  Within the five minutes of staleTime a query that    *)
(* has data is fetched again only when it was invalidated: at once if      *)
(* somebody shows it, else when somebody does.  A fetch that is under way  *)
(* is begun again by an invalidation if the query is shown and has data;   *)
(* else it goes on, and its answer counts as fresh although it may be      *)
(* older than what invalidated it.  deaf says that this happened.          *)
(***************************************************************************)

Unread == {}

Query(D) ==
    [data : SUBSET D, get : SUBSET D, stale : BOOLEAN, deaf : BOOLEAN]

NewQuery    == [data |-> Unread, get |-> Unread, stale |-> TRUE, deaf |-> FALSE]
Holding(d)  == [NewQuery EXCEPT !.data = {d}, !.stale = FALSE]
Fetching(q) == q.get # Unread
Loaded(q)   == q.data # Unread

\* An observer is mounted, or its key changes to this query, with now at the API.
Observed(q, now) ==
    IF ~Fetching(q) /\ (~Loaded(q) \/ q.stale)
    THEN [q EXCEPT !.get = {now}, !.deaf = FALSE]
    ELSE q

\* invalidateQueries
Invalidated(q, shown, now) ==
    IF Fetching(q) /\ ~(shown /\ Loaded(q))
    THEN [q EXCEPT !.stale = TRUE, !.deaf = TRUE]
    ELSE IF shown
    THEN [q EXCEPT !.stale = TRUE, !.get = {now}, !.deaf = FALSE]
    ELSE [q EXCEPT !.stale = TRUE]

Answered(q) == [q EXCEPT !.data = q.get, !.get = Unread, !.stale = FALSE]
Failed(q)   == [q EXCEPT !.get = Unread]

\* The data are to be trusted: nothing under way, the last fetch succeeded, and
\* no invalidation was missed.
Trusted(q)  == Loaded(q) /\ ~Fetching(q) /\ ~q.stale /\ ~q.deaf
=============================================================================
