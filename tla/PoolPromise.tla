---------------------------- MODULE PoolPromise ----------------------------
(***************************************************************************)
(* What the proxy pool promises those who share it, without attempts,      *)
(* hunts, flights or heartbeats: an endpoint is in it at most once, and it *)
(* changes by one endpoint leaving, new ones coming behind, or the first   *)
(* becoming the last.                                                      *)
(***************************************************************************)
EXTENDS Naturals, SequencesExt

CONSTANTS Endpoints, PoolSize

VARIABLE pool

\* At most PoolSize endpoints, none of them twice.
Pools ==
    {s \in UNION {[1..n -> Endpoints] : n \in 0..PoolSize} : IsInjective(s)}

Init == pool \in Pools

Drop(e) == pool' = RemoveFirst(pool, e)

\* A hunt found something; what the pool had stays in front.
Merge == pool' \in {s \in Pools \ {<<>>} : IsPrefix(pool, s)}

Promote ==
    /\ Len(pool) >= 2
    /\ pool' = Append(Tail(pool), Head(pool))

Next ==
    \/ \E e \in Endpoints : Drop(e)
    \/ Merge
    \/ Promote

Spec == Init /\ [][Next]_pool
=============================================================================
