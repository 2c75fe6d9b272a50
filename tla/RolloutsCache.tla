---------------------------- MODULE RolloutsCache ----------------------------
(***************************************************************************)
(* internal/cache/cluster_rollouts_cache.go: a sync.Map from cluster to a  *)
(* plain map from identity to the entry with the rollout of each           *)
(* environment.  Add does all its work under rolloutcacheLock.  Delete     *)
(* loads the cluster's map BEFORE it takes the lock, so the map it then    *)
(* changes may meanwhile have been dropped from the sync.Map and replaced. *)
(*                                                                         *)
(* A map is a set of <<identity, environment>> pairs, as the code keeps no *)
(* entry without rollouts.  Threads are the rollout controllers' workers.  *)
(***************************************************************************)
CONSTANTS
    Threads, Clusters, Identities, Envs,
    Maps,       \* map objects; one that nothing refers to may be allocated
    NoMap, NoKey

Pairs == Identities \X Envs
Keys == Clusters \X Identities \X Envs

\* Assumed by the proofs and by the modules that use this one.
CacheAssumption == NoMap \notin Maps /\ NoKey \notin Keys

VARIABLES
    rolloutcache,   \* sync.Map: cluster -> its map object, or NoMap
    heap,           \* the pairs in each map object
    deleting,       \* the key of the Delete a thread is in, or NoKey
    loaded,         \* the map object that Delete has loaded, or NoMap
    wasAbsent       \* history: the key was absent at some time in the call

vars == <<rolloutcache, heap, deleting, loaded, wasAbsent>>

Init ==
    /\ rolloutcache = [c \in Clusters |-> NoMap]
    /\ heap = [m \in Maps |-> {}]
    /\ deleting = [t \in Threads |-> NoKey]
    /\ loaded = [t \in Threads |-> NoMap]
    /\ wasAbsent = [t \in Threads |-> FALSE]

PairsOf(c) == IF rolloutcache[c] = NoMap THEN {} ELSE heap[rolloutcache[c]]
Content == {k \in Keys : <<k[2], k[3]>> \in PairsOf(k[1])}

Unreferenced(m) ==
    /\ \A c \in Clusters : rolloutcache[c] # m
    /\ \A t \in Threads : loaded[t] # m

-----------------------------------------------------------------------------

AddToNewMap(c, p, m) ==
    /\ rolloutcache[c] = NoMap
    /\ Unreferenced(m)
    /\ heap' = [heap EXCEPT ![m] = {p}]
    /\ rolloutcache' = [rolloutcache EXCEPT ![c] = m]
    /\ UNCHANGED <<deleting, loaded, wasAbsent>>

AddToMap(c, p) ==
    /\ rolloutcache[c] # NoMap
    /\ heap' = [heap EXCEPT ![rolloutcache[c]] = @ \cup {p}]
    /\ UNCHANGED <<rolloutcache, deleting, loaded, wasAbsent>>

Add(t, c, p) ==
    /\ deleting[t] = NoKey
    /\ AddToMap(c, p) \/ \E m \in Maps : AddToNewMap(c, p, m)

\* Delete up to the Load, without the lock.
DeleteLoads(t, k) ==
    /\ deleting[t] = NoKey
    /\ deleting' = [deleting EXCEPT ![t] = k]
    /\ loaded' = [loaded EXCEPT ![t] = rolloutcache[k[1]]]
    /\ wasAbsent' = [wasAbsent EXCEPT ![t] = k \notin Content]
    /\ UNCHANGED <<rolloutcache, heap>>

Return(t) ==
    /\ deleting' = [deleting EXCEPT ![t] = NoKey]
    /\ loaded' = [loaded EXCEPT ![t] = NoMap]

\* The cluster had a map, and that map has an entry for the identity.
FindsEntry(t) ==
    loaded[t] # NoMap /\ \E p \in heap[loaded[t]] : p[1] = deleting[t][2]

\* Mutant of DeleteFindsNothing: an empty map is dropped here, too.
DeleteFindsNothingDrops(t) ==
    /\ deleting[t] # NoKey
    /\ ~FindsEntry(t)
    /\ Return(t)
    /\ wasAbsent' = [wasAbsent EXCEPT ![t] = FALSE]
    /\ rolloutcache' = IF loaded[t] # NoMap /\ heap[loaded[t]] = {}
                       THEN [rolloutcache EXCEPT ![deleting[t][1]] = NoMap]
                       ELSE rolloutcache
    /\ UNCHANGED heap

DeleteFindsNothing(t) ==
    /\ deleting[t] # NoKey
    /\ ~FindsEntry(t)
    /\ Return(t)
    /\ wasAbsent' = [wasAbsent EXCEPT ![t] = FALSE]
    /\ UNCHANGED <<rolloutcache, heap>>

\* Mutant of DeleteLocked: the map is dropped when only the identity's entry,
\* not the whole map, is empty.
DeleteLockedDropsEarly(t) ==
    /\ deleting[t] # NoKey
    /\ FindsEntry(t)
    /\ LET k == deleting[t]
           left == heap[loaded[t]] \ {<<k[2], k[3]>>}
       IN  /\ heap' = [heap EXCEPT ![loaded[t]] = left]
           /\ rolloutcache' = IF \A p \in left : p[1] # k[2]
                              THEN [rolloutcache EXCEPT ![k[1]] = NoMap]
                              ELSE rolloutcache
           /\ wasAbsent' = [u \in Threads |-> u # t /\ (wasAbsent[u] \/ deleting[u] = k)]
    /\ Return(t)

\* Delete under the lock.
DeleteLocked(t) ==
    /\ deleting[t] # NoKey
    /\ FindsEntry(t)
    /\ LET k == deleting[t]
           left == heap[loaded[t]] \ {<<k[2], k[3]>>}
       IN  /\ heap' = [heap EXCEPT ![loaded[t]] = left]
           /\ rolloutcache' = IF left = {} THEN [rolloutcache EXCEPT ![k[1]] = NoMap]
                              ELSE rolloutcache
           /\ wasAbsent' = [u \in Threads |-> u # t /\ (wasAbsent[u] \/ deleting[u] = k)]
    /\ Return(t)

Next ==
    \E t \in Threads :
        \/ \E c \in Clusters, p \in Pairs : Add(t, c, p)
        \/ \E k \in Keys : DeleteLoads(t, k)
        \/ DeleteFindsNothing(t)
        \/ DeleteLocked(t)

Spec == Init /\ [][Next]_vars

-----------------------------------------------------------------------------

\* Types of the variables.
TypeOK ==
    /\ rolloutcache \in [Clusters -> Maps \cup {NoMap}]
    /\ heap \in [Maps -> SUBSET Pairs]
    /\ deleting \in [Threads -> Keys \cup {NoKey}]
    /\ loaded \in [Threads -> Maps \cup {NoMap}]
    /\ wasAbsent \in [Threads -> BOOLEAN]

\* A map object is empty exactly when the cache does not refer to it: no rollout
\* is in a map that was dropped while a Delete still held it, so that Delete
\* takes its early return and cannot drop the map that replaced it.
StaleMapIsEmpty ==
    \A m \in Maps : heap[m] = {} <=> \A c \in Clusters : rolloutcache[c] # m

Cache == INSTANCE AtomicCache WITH content <- Content

\* Although Delete loads outside the lock, callers cannot tell the cache from
\* one with atomic operations: only Delete removes a key, only its own one, and
\* it leaves the key in place only if it was absent during the call.
ImplementsAtomicCache == Cache!Spec
=============================================================================
