----------------------------- MODULE MCSessions -----------------------------
(***************************************************************************)
(* Small instances of Sessions for TLC.                                    *)
(***************************************************************************)
EXTENDS Sessions, TLC

CONSTANT MaxConcurrentSessions  \* settings.MAX_CONCURRENT_SESSIONS

\* Session ids and requests are interchangeable in every safety property.
Symmetry == Permutations(Sids) \cup Permutations(Requests)

\* docs/pages/security-overview.md, 4: "MAX_CONCURRENT_SESSIONS (default 5) -
\* oldest session evicted when exceeded", so no user holds more than that many.
SessionLimit ==
    \A u \in Users : Cardinality(KeysOf(u)) <= MaxConcurrentSessions
=============================================================================
