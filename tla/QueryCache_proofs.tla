------------------------- MODULE QueryCache_proofs --------------------------
(***************************************************************************)
(* What the operations on a cached query preserve.  A query is sound for   *)
(* what the API has now if an answer under way that no invalidation has    *)
(* overtaken brings it, if data that are to be trusted are it, and if data *)
(* are fetched again only when they are stale.  The last is what a fetch   *)
(* that fails leaves behind.                                               *)
(***************************************************************************)
EXTENDS QueryCache, TLAPS

Sound(q, now) ==
    /\ Fetching(q) /\ ~q.deaf => q.get = {now}
    /\ Trusted(q) => q.data = {now}
    /\ Fetching(q) /\ Loaded(q) => q.stale

\* The operations keep the type, whatever has changed meanwhile.
LEMMA QueryType ==
    ASSUME NEW D, NEW now \in D, NEW q \in Query(D)
    PROVE  /\ Observed(q, now) \in Query(D)
           /\ Answered(q) \in Query(D) /\ Failed(q) \in Query(D)
BY DEF Observed, Answered, Failed, Query, Unread

\* A query nobody has fetched, and one that has just been answered, are sound.
LEMMA NewSound ==
    ASSUME NEW D, NEW now \in D
    PROVE  /\ NewQuery \in Query(D) /\ Sound(NewQuery, now)
           /\ Holding(now) \in Query(D) /\ Sound(Holding(now), now)
BY DEF NewQuery, Holding, Query, Sound, Fetching, Loaded, Trusted, Unread

\* Showing a query keeps it sound.
LEMMA ObservedSound ==
    ASSUME NEW D, NEW now \in D, NEW q \in Query(D), Sound(q, now)
    PROVE  Observed(q, now) \in Query(D) /\ Sound(Observed(q, now), now)
BY DEF Observed, Query, Sound, Fetching, Loaded, Trusted, Unread

\* Invalidating a query makes it sound, whatever has changed.
LEMMA InvalidatedSound ==
    ASSUME NEW D, NEW now \in D, NEW q \in Query(D), NEW shown \in BOOLEAN
    PROVE  /\ Invalidated(q, shown, now) \in Query(D)
           /\ Sound(Invalidated(q, shown, now), now)
BY DEF Invalidated, Query, Sound, Fetching, Loaded, Trusted, Unread

\* An answer, and a failure, keep it sound.
LEMMA FetchedSound ==
    ASSUME NEW D, NEW now \in D, NEW q \in Query(D), Fetching(q), Sound(q, now)
    PROVE  /\ Answered(q) \in Query(D) /\ Sound(Answered(q), now)
           /\ Failed(q) \in Query(D) /\ Sound(Failed(q), now)
BY DEF Answered, Failed, Query, Sound, Fetching, Loaded, Trusted, Unread
=============================================================================
