--------------------------- MODULE MCClusterCaches ---------------------------
(* Small instances of ClusterCaches for TLC, and beside them, as they share     *)
(* nothing, of RolloutsCache: what happens within the calls of the rollouts     *)
(* cache, which WorkloadCaches takes as single steps.                           *)
EXTENDS ClusterCaches

CONSTANTS i1, i2, v1, v2, n1, n2, s1, s2, Threads, Clusters, Maps, NoMap, NoKey

VARIABLES rolloutcache, heap, deleting, loaded, wasAbsent

Calls == INSTANCE RolloutsCache

ASSUME CallsAssumption == Calls!CacheAssumption

clusterVars == <<vars, workloadVars>>
cacheVars == <<rolloutcache, heap, deleting, loaded, wasAbsent>>

MCInit == BothInit /\ Calls!Init

\* Either the cluster changes or the cache is called, as they share nothing.
ClusterAtRest == changes = 0 /\ started = 0 /\ serviceChanges = 0
CacheAtRest ==
    /\ \A c \in Clusters : rolloutcache[c] = NoMap
    /\ \A t \in Threads : deleting[t] = NoKey

MCNext ==
    \/ CacheAtRest /\ BothNext /\ UNCHANGED cacheVars
    \/ ClusterAtRest /\ Calls!Next /\ UNCHANGED clusterVars

MCSpec == MCInit /\ [][MCNext]_<<clusterVars, cacheVars>> /\ Kept!Fairness

\* The properties of the rollouts cache, under the names they have in RolloutsCache.
StaleMapIsEmpty == Calls!StaleMapIsEmpty
ImplementsAtomicCache == Calls!ImplementsAtomicCache

\* A workload in the mesh, in another environment, under another identity,
\* out of the mesh, and without identity.
SomeSpecs ==
    {[identity |-> i1, env |-> v1, meshed |-> TRUE],
     [identity |-> i1, env |-> v2, meshed |-> TRUE],
     [identity |-> i2, env |-> v1, meshed |-> TRUE],
     [identity |-> i1, env |-> v1, meshed |-> FALSE],
     [identity |-> NoIdentity, env |-> v1, meshed |-> TRUE]}

SomeNames == {<<n1, s1>>, <<n1, s2>>, <<n2, s1>>}
=============================================================================
