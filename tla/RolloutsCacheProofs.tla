-------------------------- MODULE RolloutsCacheProofs --------------------------
(***************************************************************************)
(* The rollouts cache is atomic, whatever the number of workers, clusters, *)
(* identities and environments.  The invariant follows the map objects: a  *)
(* map belongs to at most one cluster, a Delete holds a map of its own     *)
(* cluster or one that no cluster has, and a Delete whose key was never    *)
(* absent still holds the map the key is in.                               *)
(***************************************************************************)
EXTENDS RolloutsCache, TLAPS

\* No two clusters share a map.
MapsAreOwned ==
    \A c, d \in Clusters :
        rolloutcache[c] # NoMap /\ rolloutcache[c] = rolloutcache[d] => c = d

\* A Delete holds no map of another cluster, and nothing between two calls.
LoadedInv ==
    \A t \in Threads :
        /\ deleting[t] = NoKey => loaded[t] = NoMap
        /\ \A c \in Clusters :
              loaded[t] # NoMap /\ rolloutcache[c] = loaded[t] => c = deleting[t][1]

\* A key that was present ever since the call is in the map that was loaded.
PresentInv ==
    \A t \in Threads :
        deleting[t] \in Keys /\ ~wasAbsent[t] =>
            /\ loaded[t] # NoMap
            /\ rolloutcache[deleting[t][1]] = loaded[t]
            /\ <<deleting[t][2], deleting[t][3]>> \in heap[loaded[t]]

IInv == TypeOK /\ StaleMapIsEmpty /\ MapsAreOwned /\ LoadedInv /\ PresentInv

-----------------------------------------------------------------------------

\* A key is its cluster and its pair.
LEMMA KeyFacts ==
  ASSUME NEW k \in Keys
  PROVE  k[1] \in Clusters /\ k[2] \in Identities /\ k[3] \in Envs
         /\ <<k[2], k[3]>> \in Pairs /\ k = <<k[1], k[2], k[3]>>
  BY DEF Keys, Pairs

\* The invariant holds initially.
LEMMA InitIInv == ASSUME CacheAssumption  PROVE Init => IInv
  BY DEF CacheAssumption, Init, IInv, TypeOK, StaleMapIsEmpty, MapsAreOwned, LoadedInv, PresentInv

\* Adding to a cluster without a map preserves the invariant: nothing refers to
\* the new map.
LEMMA AddToNewMapStep ==
  ASSUME CacheAssumption, IInv, NEW c \in Clusters, NEW p \in Pairs, NEW m \in Maps, AddToNewMap(c, p, m)
  PROVE  IInv'
<1>1. /\ rolloutcache[c] = NoMap /\ Unreferenced(m) /\ m # NoMap
      /\ heap' = [heap EXCEPT ![m] = {p}]
      /\ rolloutcache' = [rolloutcache EXCEPT ![c] = m]
      /\ UNCHANGED <<deleting, loaded, wasAbsent>>
  BY DEF CacheAssumption, AddToNewMap
<1>2. TypeOK'
  BY <1>1 DEF IInv, TypeOK
<1>3. StaleMapIsEmpty' /\ MapsAreOwned'
  BY <1>1 DEF CacheAssumption, IInv, TypeOK, StaleMapIsEmpty, MapsAreOwned, Unreferenced
<1>4. LoadedInv'
  BY <1>1 DEF IInv, TypeOK, LoadedInv, Unreferenced
<1>5. PresentInv'
  BY <1>1, KeyFacts DEF IInv, TypeOK, PresentInv, Unreferenced
<1>6. QED
  BY <1>2, <1>3, <1>4, <1>5 DEF IInv

\* Adding to a cluster's map preserves the invariant.
LEMMA AddToMapStep ==
  ASSUME CacheAssumption, IInv, NEW c \in Clusters, NEW p \in Pairs, AddToMap(c, p)
  PROVE  IInv'
<1>1. /\ rolloutcache[c] \in Maps
      /\ heap' = [heap EXCEPT ![rolloutcache[c]] = @ \cup {p}]
      /\ UNCHANGED <<rolloutcache, deleting, loaded, wasAbsent>>
  BY DEF IInv, TypeOK, AddToMap
<1>2. TypeOK'
  BY <1>1 DEF IInv, TypeOK
<1>3. StaleMapIsEmpty' /\ MapsAreOwned' /\ LoadedInv'
  BY <1>1 DEF IInv, TypeOK, StaleMapIsEmpty, MapsAreOwned, LoadedInv
<1>4. PresentInv'
  BY <1>1 DEF IInv, TypeOK, PresentInv
<1>5. QED
  BY <1>2, <1>3, <1>4 DEF IInv

\* The unlocked Load preserves the invariant: a key that is present now is in
\* the map that is loaded.
LEMMA DeleteLoadsStep ==
  ASSUME CacheAssumption, IInv, NEW t \in Threads, NEW k \in Keys, DeleteLoads(t, k)
  PROVE  IInv'
<1>1. /\ deleting' = [deleting EXCEPT ![t] = k]
      /\ loaded' = [loaded EXCEPT ![t] = rolloutcache[k[1]]]
      /\ wasAbsent' = [wasAbsent EXCEPT ![t] = k \notin Content]
      /\ UNCHANGED <<rolloutcache, heap>>
  BY DEF DeleteLoads
<1>2. TypeOK'
  BY <1>1, KeyFacts DEF IInv, TypeOK
<1>3. StaleMapIsEmpty' /\ MapsAreOwned'
  BY <1>1 DEF IInv, StaleMapIsEmpty, MapsAreOwned
<1>4. LoadedInv'
  BY <1>1, KeyFacts DEF CacheAssumption, IInv, TypeOK, LoadedInv, MapsAreOwned
<1>5. PresentInv'
  <2>1. k \in Content => /\ rolloutcache[k[1]] # NoMap
                         /\ <<k[2], k[3]>> \in heap[rolloutcache[k[1]]]
    BY DEF Content, PairsOf
  <2>2. QED
    BY <1>1, <2>1 DEF IInv, TypeOK, PresentInv
<1>6. QED
  BY <1>2, <1>3, <1>4, <1>5 DEF IInv

\* The early returns preserve the invariant.
LEMMA DeleteFindsNothingStep ==
  ASSUME CacheAssumption, IInv, NEW t \in Threads, DeleteFindsNothing(t)
  PROVE  IInv'
<1>1. /\ deleting' = [deleting EXCEPT ![t] = NoKey]
      /\ loaded' = [loaded EXCEPT ![t] = NoMap]
      /\ wasAbsent' = [wasAbsent EXCEPT ![t] = FALSE]
      /\ UNCHANGED <<rolloutcache, heap>>
  BY DEF DeleteFindsNothing, Return
<1>2. TypeOK' /\ StaleMapIsEmpty' /\ MapsAreOwned'
  BY <1>1 DEF IInv, TypeOK, StaleMapIsEmpty, MapsAreOwned
<1>3. LoadedInv' /\ PresentInv'
  BY <1>1 DEF CacheAssumption, IInv, TypeOK, LoadedInv, PresentInv
<1>4. QED
  BY <1>2, <1>3 DEF IInv

\* What the locked part of Delete does: the map it holds is its cluster's.
LEMMA DeleteLockedEffect ==
  ASSUME CacheAssumption, IInv, NEW t \in Threads, DeleteLocked(t)
  PROVE  LET k == deleting[t]
             left == heap[loaded[t]] \ {<<k[2], k[3]>>}
         IN  /\ k \in Keys /\ loaded[t] \in Maps /\ rolloutcache[k[1]] = loaded[t]
             /\ heap' = [heap EXCEPT ![loaded[t]] = left]
             /\ rolloutcache' = IF left = {} THEN [rolloutcache EXCEPT ![k[1]] = NoMap]
                                ELSE rolloutcache
             /\ wasAbsent' = [u \in Threads |-> u # t /\ (wasAbsent[u] \/ deleting[u] = k)]
             /\ deleting' = [deleting EXCEPT ![t] = NoKey]
             /\ loaded' = [loaded EXCEPT ![t] = NoMap]
<1>1. deleting[t] \in Keys /\ loaded[t] \in Maps /\ heap[loaded[t]] # {}
  BY DEF IInv, TypeOK, DeleteLocked, FindsEntry
<1>2. rolloutcache[deleting[t][1]] = loaded[t]
  BY <1>1 DEF CacheAssumption, IInv, StaleMapIsEmpty, LoadedInv
<1>3. QED
  BY <1>1, <1>2 DEF DeleteLocked, Return

\* The locked part of Delete preserves the invariant: it drops the map of its
\* own cluster, and only when nothing is left in it.
LEMMA DeleteLockedStep ==
  ASSUME CacheAssumption, IInv, NEW t \in Threads, DeleteLocked(t)
  PROVE  IInv'
<1> DEFINE k == deleting[t]
           left == heap[loaded[t]] \ {<<k[2], k[3]>>}
<1>1. /\ k \in Keys /\ loaded[t] \in Maps /\ rolloutcache[k[1]] = loaded[t]
      /\ heap' = [heap EXCEPT ![loaded[t]] = left]
      /\ rolloutcache' = IF left = {} THEN [rolloutcache EXCEPT ![k[1]] = NoMap]
                         ELSE rolloutcache
      /\ wasAbsent' = [u \in Threads |-> u # t /\ (wasAbsent[u] \/ deleting[u] = k)]
      /\ deleting' = [deleting EXCEPT ![t] = NoKey]
      /\ loaded' = [loaded EXCEPT ![t] = NoMap]
  BY DeleteLockedEffect
<1>2. k[1] \in Clusters
  BY <1>1, KeyFacts
<1>3. TypeOK'
  BY <1>1, <1>2 DEF IInv, TypeOK
<1>4. StaleMapIsEmpty' /\ MapsAreOwned'
  BY <1>1, <1>2 DEF CacheAssumption, IInv, TypeOK, StaleMapIsEmpty, MapsAreOwned
<1>5. LoadedInv'
  BY <1>1, <1>2 DEF CacheAssumption, IInv, TypeOK, LoadedInv
<1>6. PresentInv'
  <2> SUFFICES ASSUME NEW u \in Threads, deleting'[u] \in Keys, ~wasAbsent'[u]
               PROVE  /\ loaded'[u] # NoMap
                      /\ rolloutcache'[deleting'[u][1]] = loaded'[u]
                      /\ <<deleting'[u][2], deleting'[u][3]>> \in heap'[loaded'[u]]
    BY DEF PresentInv
  <2>1. /\ u # t /\ deleting'[u] = deleting[u] /\ loaded'[u] = loaded[u]
        /\ ~wasAbsent[u] /\ deleting[u] # k
    BY <1>1 DEF CacheAssumption, IInv, TypeOK
  <2>2. /\ loaded[u] # NoMap /\ rolloutcache[deleting[u][1]] = loaded[u]
        /\ <<deleting[u][2], deleting[u][3]>> \in heap[loaded[u]]
    BY <2>1 DEF IInv, PresentInv
  <2>3. deleting[u][1] \in Clusters /\ loaded[u] \in Maps
    BY <2>1, <2>2, KeyFacts DEF IInv, TypeOK
  <2>4. CASE deleting[u][1] # k[1]
    BY <1>1, <1>2, <2>1, <2>2, <2>3, <2>4 DEF IInv, TypeOK, MapsAreOwned
  <2>5. CASE deleting[u][1] = k[1]
    <3>1. <<deleting[u][2], deleting[u][3]>> # <<k[2], k[3]>>
      BY <1>1, <2>1, <2>5, KeyFacts
    <3>2. <<deleting[u][2], deleting[u][3]>> \in left
      BY <1>1, <2>2, <2>5, <3>1
    <3>3. QED
      BY <1>1, <2>1, <2>2, <2>3, <2>5, <3>2 DEF IInv, TypeOK
  <2>6. QED
    BY <2>4, <2>5
<1>7. QED
  BY <1>3, <1>4, <1>5, <1>6 DEF IInv

\* Every step of the cache's users preserves the invariant.
LEMMA NextIInv == ASSUME CacheAssumption  PROVE IInv /\ [Next]_vars => IInv'
<1> SUFFICES ASSUME IInv, [Next]_vars PROVE IInv'
  OBVIOUS
<1>1. CASE UNCHANGED vars
  BY <1>1 DEF vars, IInv, TypeOK, StaleMapIsEmpty, MapsAreOwned, LoadedInv, PresentInv
<1>2. ASSUME NEW t \in Threads, NEW c \in Clusters, NEW p \in Pairs, Add(t, c, p)
      PROVE  IInv'
  BY <1>2, AddToMapStep, AddToNewMapStep DEF Add
<1>3. QED
  BY <1>1, <1>2, DeleteLoadsStep, DeleteFindsNothingStep, DeleteLockedStep DEF Next

\* The invariant holds of every behaviour.
THEOREM Inductive == ASSUME CacheAssumption  PROVE Spec => []IInv
  BY InitIInv, NextIInv, PTL DEF Spec

\* Every variable keeps its type.
THEOREM TypeCorrect == ASSUME CacheAssumption  PROVE Spec => []TypeOK
<1>1. IInv => TypeOK
  BY DEF IInv
<1>2. QED
  BY <1>1, Inductive, PTL

\* A map that a Delete of rolloutClusterCache holds although it was dropped from
\* the cache is empty, whatever the workers did since the Load.
THEOREM StaleMapsAreEmpty == ASSUME CacheAssumption  PROVE Spec => []StaleMapIsEmpty
<1>1. IInv => StaleMapIsEmpty
  BY DEF IInv
<1>2. QED
  BY <1>1, Inductive, PTL

-----------------------------------------------------------------------------
(* RolloutsCache implements AtomicCache.                                     *)

\* Membership in the cache's content.
LEMMA ContentFacts ==
  ASSUME NEW k \in Keys
  PROVE  /\ k \in Content <=> /\ rolloutcache[k[1]] # NoMap
                              /\ <<k[2], k[3]>> \in heap[rolloutcache[k[1]]]
         /\ k \in Content' <=> /\ rolloutcache'[k[1]] # NoMap
                               /\ <<k[2], k[3]>> \in heap'[rolloutcache'[k[1]]]
  BY DEF Content, PairsOf

\* Initial states map to initial states.
LEMMA CacheInit == Init => Cache!Init
<1>1. Init => Content = {}
  BY KeyFacts DEF Init, Content, PairsOf
<1>2. QED
  BY <1>1 DEF Init, Cache!Init

\* Add is Put.
LEMMA AddPuts ==
  ASSUME CacheAssumption, IInv, NEW t \in Threads, NEW c \in Clusters, NEW p \in Pairs, Add(t, c, p)
  PROVE  Cache!Next
<1> DEFINE k == <<c, p[1], p[2]>>
<1>1. k \in Keys /\ p = <<p[1], p[2]>>
  BY DEF Keys, Pairs
<1>2. ASSUME NEW j \in Keys PROVE j \in Content' <=> j \in Content \/ j = k
  <2>1. j[1] \in Clusters /\ (j = k <=> j[1] = c /\ <<j[2], j[3]>> = p)
    <3>1. j[1] \in Clusters /\ j = <<j[1], j[2], j[3]>>
      BY KeyFacts
    <3>2. j = k <=> j[1] = c /\ j[2] = p[1] /\ j[3] = p[2]
      BY <3>1
    <3>3. <<j[2], j[3]>> = p <=> j[2] = p[1] /\ j[3] = p[2]
      BY <1>1
    <3>4. QED
      BY <3>1, <3>2, <3>3
  <2>2. CASE AddToMap(c, p)
    BY <2>1, <2>2, ContentFacts DEF AddToMap, IInv, TypeOK, MapsAreOwned
  <2>3. ASSUME NEW m \in Maps, AddToNewMap(c, p, m)
        PROVE  j \in Content' <=> j \in Content \/ j = k
    BY <2>1, <2>3, ContentFacts
       DEF CacheAssumption, AddToNewMap, Unreferenced, IInv, TypeOK
  <2>4. QED
    BY <2>2, <2>3 DEF Add
<1>3. Content' = Content \cup {k}
  BY <1>1, <1>2 DEF Content
<1>4. UNCHANGED <<deleting, wasAbsent>>
  BY DEF Add, AddToMap, AddToNewMap
<1>5. QED
  BY <1>1, <1>3, <1>4 DEF Cache!Next, Cache!Put

\* The locked part of Delete is Remove.
LEMMA DeleteRemoves ==
  ASSUME CacheAssumption, IInv, NEW t \in Threads, DeleteLocked(t)
  PROVE  Cache!Next
<1> DEFINE k == deleting[t]
           left == heap[loaded[t]] \ {<<k[2], k[3]>>}
<1>1. /\ k \in Keys /\ loaded[t] \in Maps /\ rolloutcache[k[1]] = loaded[t]
      /\ heap' = [heap EXCEPT ![loaded[t]] = left]
      /\ rolloutcache' = IF left = {} THEN [rolloutcache EXCEPT ![k[1]] = NoMap]
                         ELSE rolloutcache
      /\ wasAbsent' = [u \in Threads |-> u # t /\ (wasAbsent[u] \/ deleting[u] = k)]
      /\ deleting' = [deleting EXCEPT ![t] = NoKey]
  BY DeleteLockedEffect
<1>2. ASSUME NEW j \in Keys PROVE j \in Content' <=> j \in Content /\ j # k
  <2>1. j[1] \in Clusters /\ k[1] \in Clusters /\ loaded[t] # NoMap
        /\ (j = k <=> j[1] = k[1] /\ <<j[2], j[3]>> = <<k[2], k[3]>>)
    BY <1>1, KeyFacts DEF CacheAssumption
  <2>2. CASE j[1] = k[1]
    <3>1. /\ j \in Content <=> <<j[2], j[3]>> \in heap[loaded[t]]
          /\ <<j[2], j[3]>> \in left <=> <<j[2], j[3]>> \in heap[loaded[t]] /\ j # k
      BY <1>1, <2>1, <2>2, ContentFacts
    <3>2. heap'[loaded[t]] = left
      BY <1>1 DEF IInv, TypeOK
    <3>3. CASE left = {}
      BY <1>1, <2>1, <2>2, <3>1, <3>3, ContentFacts DEF IInv, TypeOK
    <3>4. CASE left # {}
      BY <1>1, <2>1, <2>2, <3>1, <3>2, <3>4, ContentFacts
    <3>5. QED
      BY <3>3, <3>4
  <2>3. CASE j[1] # k[1]
    BY <1>1, <2>1, <2>3, ContentFacts DEF IInv, TypeOK, MapsAreOwned
  <2>4. QED
    BY <2>2, <2>3
<1>3. Content' = Content \ {k}
  BY <1>2 DEF Content
<1>4. Cache!Remove(t)
  BY <1>1, <1>3 DEF Cache!Remove
<1>5. QED
  BY <1>4 DEF Cache!Next

\* An early return is ReturnNotFound: the key was absent since the call, or the
\* loaded map would have an entry for its identity.
LEMMA DeleteReturns ==
  ASSUME CacheAssumption, IInv, NEW t \in Threads, DeleteFindsNothing(t)
  PROVE  Cache!Next
<1>1. /\ deleting[t] \in Keys /\ ~FindsEntry(t)
      /\ deleting' = [deleting EXCEPT ![t] = NoKey]
      /\ wasAbsent' = [wasAbsent EXCEPT ![t] = FALSE]
      /\ UNCHANGED <<rolloutcache, heap>>
  BY DEF IInv, TypeOK, DeleteFindsNothing, Return
<1>2. wasAbsent[t]
  <2> SUFFICES ASSUME ~wasAbsent[t] PROVE FALSE
    OBVIOUS
  <2>1. loaded[t] # NoMap /\ <<deleting[t][2], deleting[t][3]>> \in heap[loaded[t]]
    BY <1>1 DEF IInv, PresentInv
  <2>2. <<deleting[t][2], deleting[t][3]>>[1] = deleting[t][2]
    OBVIOUS
  <2>3. QED
    BY <1>1, <2>1, <2>2 DEF FindsEntry
<1>3. UNCHANGED Content
  BY <1>1 DEF Content, PairsOf
<1>4. QED
  BY <1>1, <1>2, <1>3 DEF Cache!Next, Cache!ReturnNotFound

\* Every step maps to a step of the atomic cache or to a stutter.
LEMMA NextCache == ASSUME CacheAssumption  PROVE IInv /\ [Next]_vars => [Cache!Next]_<<Content, deleting, wasAbsent>>
<1> SUFFICES ASSUME IInv, [Next]_vars
             PROVE  Cache!Next \/ UNCHANGED <<Content, deleting, wasAbsent>>
  OBVIOUS
<1>1. CASE UNCHANGED vars
  BY <1>1 DEF vars, Content, PairsOf
<1>2. ASSUME NEW t \in Threads, NEW k \in Keys, DeleteLoads(t, k) PROVE Cache!Next
  <2>1. UNCHANGED Content
    BY <1>2 DEF DeleteLoads, Content, PairsOf
  <2>2. QED
    BY <1>2, <2>1 DEF DeleteLoads, Cache!Next, Cache!Call
<1>3. QED
  BY <1>1, <1>2, AddPuts, DeleteRemoves, DeleteReturns DEF Next

\* The rollouts cache cannot be told from an atomic one, for every number of
\* workers and map objects: the Load outside the lock is harmless.
THEOREM Refinement == ASSUME CacheAssumption  PROVE Spec => ImplementsAtomicCache
  BY CacheInit, NextCache, Inductive, PTL DEF Spec, ImplementsAtomicCache, Cache!Spec
===============================================================================
