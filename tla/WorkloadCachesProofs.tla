------------------------- MODULE WorkloadCachesProofs -------------------------
(***************************************************************************)
(* What the caches know of the workloads of a cluster once all is handled, *)
(* for any workloads, specs and numbers of changes.                        *)
(*                                                                         *)
(* A place is a set of keys of one identity: one key, for the entry of a   *)
(* cache, or all keys of an identity, for its place in IdentityCluster.    *)
(* Calls set or clear places, and what a place will hold depends on the    *)
(* last call to come: EndsWith says which kind it is, Pending that there   *)
(* is one.                                                                 *)
(***************************************************************************)
EXTENDS WorkloadCaches, TLAPS

Effects == {"set", "clear"}
Other(effect) == IF effect = "set" THEN "clear" ELSE "set"

Caches == {"kind", "identity"}
OpOf(c, effect) ==
    IF c = "kind" THEN IF effect = "set" THEN "Add" ELSE "Delete"
    ELSE IF effect = "set" THEN "AddClusterToIdentity" ELSE "DeleteClusterFromIdentity"

KeysOf(i) == {i} \X Envs
PlaceOf(c, key) == IF c = "kind" THEN {key} ELSE KeysOf(key[1])

\* A call has the effect on a place in a cache.
Has(call, effect, c, place) == call.op = OpOf(c, effect) /\ call.key \in place

\* A workload leaves its old key: it is deleted, or moved to another identity.
Leaves(n) ==
    \/ n.type = "delete" /\ Admitted(n.old)
    \/ n.type = "update" /\ Admitted(n.new) /\ n.old.identity \notin {NoIdentity, n.new.identity}

Enters(n) == n.type \in {"add", "update"} /\ Admitted(n.new)

\* The handling of a notification will have the effect on a place, in both caches.
Does(n, effect, place) ==
    \/ effect = "set" /\ Enters(n) /\ KeyOf(n.new) \in place
    \/ effect = "clear" /\ Leaves(n) /\ KeyOf(n.old) \in place

\* There will be a call with the effect.
PendingIn(k, effect, place) == \E i \in 1 .. Len(queue[k]) : Does(queue[k][i], effect, place)

Pending(k, effect, c, place) ==
    \/ \E i \in 1 .. Len(calls[k]) : Has(calls[k][i], effect, c, place)
    \/ PendingIn(k, effect, place)

\* Every call with the other effect is followed by one with this effect.
CallsEndWith(k, effect, c, place) ==
    \A i \in 1 .. Len(calls[k]) : Has(calls[k][i], Other(effect), c, place) =>
        \/ \E j \in 1 .. Len(calls[k]) : i < j /\ Has(calls[k][j], effect, c, place)
        \/ PendingIn(k, effect, place)

QueueEndsWith(k, effect, place) ==
    \A i \in 1 .. Len(queue[k]) : Does(queue[k][i], Other(effect), place) =>
        \E j \in 1 .. Len(queue[k]) : i < j /\ Does(queue[k][j], effect, place)

EndsWith(k, effect, c, place) ==
    CallsEndWith(k, effect, c, place) /\ QueueEndsWith(k, effect, place)

-----------------------------------------------------------------------------
(* The inductive invariant.                                                 *)

SpecsOrNone == Specs \cup {NoSpec}
Notifications ==
    [type : {"add", "update", "delete", "tombstone"}, workload : Workloads,
     old : SpecsOrNone, new : SpecsOrNone]
CallsOfCaches ==
    [op : {"Add", "Delete", "AddClusterToIdentity", "DeleteClusterFromIdentity"},
     workload : Workloads, key : Keys]

TypeOK ==
    /\ spec \in [Workloads -> SpecsOrNone]
    /\ queue \in [Kinds -> Seq(Notifications)]
    /\ calls \in [Kinds -> Seq(CallsOfCaches)]
    /\ cache \in [Kinds -> [Keys -> Workloads \cup {NoWorkload}]]
    /\ identityCluster \subseteq Identities
    /\ everHad \in [Workloads -> SUBSET (Identities \cup {NoIdentity})]

HadIdentity(w, s) == s # NoSpec => s.identity \in everHad[w]

\* A controller is told of workloads of its kind, under identities they had.
NotifiedOK(k, n) ==
    /\ KindOf(n.workload) = k
    /\ HadIdentity(n.workload, n.old) /\ HadIdentity(n.workload, n.new)
    /\ n.type \in {"add", "update"} => n.new # NoSpec
    /\ n.type # "add" => n.old # NoSpec

CalledOK(k, c) == KindOf(c.workload) = k /\ c.key[1] \in everHad[c.workload]

OriginInv ==
    /\ \A w \in Workloads : HadIdentity(w, spec[w])
    /\ \A k \in Kinds :
          /\ \A i \in 1 .. Len(queue[k]) : NotifiedOK(k, queue[k][i])
          /\ \A i \in 1 .. Len(calls[k]) : CalledOK(k, calls[k][i])
          /\ \A key \in Keys : cache[k][key] # NoWorkload =>
                KindOf(cache[k][key]) = k /\ key[1] \in everHad[cache[k][key]]

\* A workload is at the place, or was when it left without being removed.
Needed(k, place) ==
    \/ \E w \in Workloads : KindOf(w) = k /\ Admitted(spec[w]) /\ KeyOf(spec[w]) \in place
    \/ \E key \in place : <<k, key>> \in orphans

\* What nobody needs will be cleared.
LingerInv ==
    /\ \A k \in Kinds, c \in Caches, key \in Keys :
          EndsWith(k, "clear", c, PlaceOf(c, key)) \/ Needed(k, PlaceOf(c, key))
    /\ \A k \in Kinds, key \in Keys : cache[k][key] # NoWorkload =>
          Pending(k, "clear", "kind", {key}) \/ Needed(k, {key})
    /\ \A i \in identityCluster : \E k \in Kinds :
          Pending(k, "clear", "identity", KeysOf(i)) \/ Needed(k, KeysOf(i))

\* No other workload ever had the identity.
Own(w) ==
    Admitted(spec[w]) /\ \A v \in Workloads \ {w} : spec[w].identity \notin everHad[v]

\* The key will be set, and its identity.
KnownAt(k, key) ==
    /\ \A c \in Caches : EndsWith(k, "set", c, PlaceOf(c, key))
    /\ cache[k][key] = NoWorkload => Pending(k, "set", "kind", {key})
    /\ key[1] \notin identityCluster => Pending(k, "set", "identity", KeysOf(key[1]))

\* Where a workload is under an identity of its own will be set.
KnownInv ==
    \A w \in Workloads, key \in Keys : Own(w) /\ KeyOf(spec[w]) = key =>
        KnownAt(KindOf(w), key)

IInv == TypeOK /\ OriginInv /\ LingerInv /\ KnownInv

-----------------------------------------------------------------------------
(* Facts about calls and notifications.                                     *)

\* What is behind the head keeps its order.
LEMMA TailFacts ==
  ASSUME NEW S, NEW s \in Seq(S), s # <<>>
  PROVE  /\ Len(s) \in Nat \ {0} /\ Head(s) = s[1] /\ s[1] \in S /\ Tail(s) \in Seq(S)
         /\ Len(Tail(s)) = Len(s) - 1
         /\ \A i \in 1 .. Len(Tail(s)) : Tail(s)[i] = s[i + 1]
  OBVIOUS

\* Appending keeps the places of all others.
LEMMA AppendFacts ==
  ASSUME NEW S, NEW s \in Seq(S), NEW x \in S
  PROVE  /\ Len(s) \in Nat /\ Append(s, x) \in Seq(S) /\ Len(Append(s, x)) = Len(s) + 1
         /\ \A i \in 1 .. Len(s) : Append(s, x)[i] = s[i]
         /\ Append(s, x)[Len(s) + 1] = x
  OBVIOUS

\* No notification both sets and clears what belongs to one identity.
LEMMA NotBoth ==
  ASSUME NEW n, NEW place, NEW i, \A key \in place : key[1] = i,
         Does(n, "set", place), Does(n, "clear", place)
  PROVE  FALSE
  BY DEF Does, Enters, Leaves, KeyOf

\* The places of a cache are each of one identity.
LEMMA PlacesOfOne ==
  ASSUME NEW c, NEW key
  PROVE  \A other \in PlaceOf(c, key) : other[1] = key[1]
  BY DEF PlaceOf, KeysOf

\* The calls that a handler makes of a notification.
CallsFor(n) ==
    {call \in {Call("AddClusterToIdentity", n.workload, n.new), Call("Add", n.workload, n.new)} :
        Enters(n)}
    \cup
    {call \in {Call("DeleteClusterFromIdentity", n.workload, n.old), Call("Delete", n.workload, n.old)} :
        Leaves(n)}

\* They have the effects that the notification has.
LEMMA CallsForEffects ==
  ASSUME NEW n, NEW effect \in Effects, NEW c \in Caches, NEW place
  PROVE  (\E call \in CallsFor(n) : Has(call, effect, c, place)) <=> Does(n, effect, place)
<1> DEFINE ac == Call("AddClusterToIdentity", n.workload, n.new)
           a == Call("Add", n.workload, n.new)
           dc == Call("DeleteClusterFromIdentity", n.workload, n.old)
           d == Call("Delete", n.workload, n.old)
<1>1. /\ ac.op = "AddClusterToIdentity" /\ a.op = "Add" /\ ac.key = KeyOf(n.new) /\ a.key = KeyOf(n.new)
      /\ dc.op = "DeleteClusterFromIdentity" /\ d.op = "Delete"
      /\ dc.key = KeyOf(n.old) /\ d.key = KeyOf(n.old)
  BY DEF Call
<1>2. CallsFor(n) = {call \in {ac, a} : Enters(n)} \cup {call \in {dc, d} : Leaves(n)}
  BY DEF CallsFor
<1> HIDE DEF ac, a, dc, d
<1>3. CASE effect = "set"
  <2>1. ASSUME NEW call \in CallsFor(n), Has(call, effect, c, place)  PROVE Does(n, effect, place)
    BY <1>1, <1>2, <1>3, <2>1 DEF Has, OpOf, Does, Caches
  <2>2. ASSUME Does(n, effect, place)  PROVE \E call \in CallsFor(n) : Has(call, effect, c, place)
    <3>1. Enters(n) /\ KeyOf(n.new) \in place
      BY <1>3, <2>2 DEF Does
    <3>2. Has(ac, effect, "identity", place) /\ Has(a, effect, "kind", place)
      BY <1>1, <1>3, <3>1 DEF Has, OpOf
    <3> QED  BY <1>2, <3>1, <3>2 DEF Caches
  <2> QED  BY <2>1, <2>2
<1>4. CASE effect = "clear"
  <2>1. ASSUME NEW call \in CallsFor(n), Has(call, effect, c, place)  PROVE Does(n, effect, place)
    BY <1>1, <1>2, <1>4, <2>1 DEF Has, OpOf, Does, Caches
  <2>2. ASSUME Does(n, effect, place)  PROVE \E call \in CallsFor(n) : Has(call, effect, c, place)
    <3>1. Leaves(n) /\ KeyOf(n.old) \in place
      BY <1>4, <2>2 DEF Does
    <3>2. Has(dc, effect, "identity", place) /\ Has(d, effect, "kind", place)
      BY <1>1, <1>4, <3>1 DEF Has, OpOf
    <3> QED  BY <1>2, <3>1, <3>2 DEF Caches
  <2> QED  BY <2>1, <2>2
<1> QED  BY <1>3, <1>4 DEF Effects

\* Calls of a notification that is as it should be are as they should be.
LEMMA CallsForOK ==
  ASSUME WorkloadAssumption, NEW k \in Kinds, NEW n \in Notifications, NotifiedOK(k, n), NEW call \in CallsFor(n)
  PROVE  call \in CallsOfCaches /\ CalledOK(k, call)
<1>1. n.workload \in Workloads /\ n.old \in SpecsOrNone /\ n.new \in SpecsOrNone
  BY DEF Notifications
<1>2. ASSUME NEW s \in SpecsOrNone, s # NoSpec, s.identity # NoIdentity, HadIdentity(n.workload, s),
             NEW op \in {"Add", "Delete", "AddClusterToIdentity", "DeleteClusterFromIdentity"}
      PROVE  Call(op, n.workload, s) \in CallsOfCaches /\ CalledOK(k, Call(op, n.workload, s))
  <2>1. s \in [identity : Identities \cup {NoIdentity}, env : Envs, meshed : BOOLEAN]
    BY <1>2 DEF WorkloadAssumption, SpecsOrNone
  <2>2. KeyOf(s) \in Keys /\ KeyOf(s)[1] = s.identity
    BY <1>2, <2>1 DEF KeyOf, Keys
  <2> QED  BY <1>1, <1>2, <2>2 DEF Call, CallsOfCaches, CalledOK, NotifiedOK, HadIdentity
<1>3. Enters(n) => n.new # NoSpec /\ n.new.identity # NoIdentity /\ HadIdentity(n.workload, n.new)
  BY DEF Enters, Admitted, NotifiedOK
<1>4. Leaves(n) => n.old # NoSpec /\ n.old.identity # NoIdentity /\ HadIdentity(n.workload, n.old)
  BY DEF Leaves, Admitted, NotifiedOK
<1>5. CASE call \in {Call("AddClusterToIdentity", n.workload, n.new), Call("Add", n.workload, n.new)} /\ Enters(n)
  BY <1>1, <1>2, <1>3, <1>5
<1>6. CASE call \in {Call("DeleteClusterFromIdentity", n.workload, n.old), Call("Delete", n.workload, n.old)} /\ Leaves(n)
  BY <1>1, <1>2, <1>4, <1>6
<1> QED  BY <1>5, <1>6 DEF CallsFor

-----------------------------------------------------------------------------
(* How steps move effects along.                                            *)

\* A controller takes its next notification and has its calls to make.
Takes(k, n) ==
    /\ queue[k] # <<>> /\ n = Head(queue[k]) /\ calls[k] = <<>>
    /\ queue' = [queue EXCEPT ![k] = Tail(@)]
    /\ \A l \in Kinds \ {k} : calls'[l] = calls[l]
    /\ {calls'[k][i] : i \in 1 .. Len(calls'[k])} = CallsFor(n)

\* Handling a notification loses none of its effects.
LEMMA TakesKeeps ==
  ASSUME TypeOK, NEW k \in Kinds, NEW n, Takes(k, n),
         NEW l \in Kinds, NEW effect \in Effects, NEW c \in Caches, NEW place
  PROVE  /\ Pending(l, effect, c, place) => Pending(l, effect, c, place)'
         /\ EndsWith(l, effect, c, place) => EndsWith(l, effect, c, place)'
<1>1. CASE l # k
  <2>1. queue'[l] = queue[l] /\ calls'[l] = calls[l]
    BY <1>1 DEF Takes, TypeOK
  <2> QED  BY <2>1 DEF Pending, PendingIn, EndsWith, CallsEndWith, QueueEndsWith
<1>2. CASE l = k
  <2> DEFINE q == queue[k] r == queue'[k]
  <2>1. /\ Len(q) \in Nat \ {0} /\ n = q[1] /\ Len(r) = Len(q) - 1
        /\ \A i \in 1 .. Len(r) : r[i] = q[i + 1]
    <3>1. q \in Seq(Notifications) /\ q # <<>> /\ r = Tail(q) /\ n = Head(q)
      BY DEF Takes, TypeOK
    <3> HIDE DEF q, r
    <3> QED  BY <3>1, TailFacts
  <2>2. Len(calls[k]) = 0
    BY DEF Takes
  <2>3. \A e \in Effects : (\E i \in 1 .. Len(calls'[k]) : Has(calls'[k][i], e, c, place)) <=> Does(n, e, place)
    BY CallsForEffects DEF Takes
  <2> HIDE DEF q, r
  <2>4. \A i \in 1 .. Len(q) : i = 1 \/ (i - 1 \in 1 .. Len(r) /\ r[i - 1] = q[i])
    BY <2>1
  <2>5. \A i \in 1 .. Len(r) : i + 1 \in 1 .. Len(q) /\ r[i] = q[i + 1]
    BY <2>1
  <2>6. PendingIn(k, effect, place) => Does(n, effect, place) \/ PendingIn(k, effect, place)'
    BY <2>1, <2>4 DEF PendingIn, q, r
  <2>7. Pending(k, effect, c, place) => Pending(k, effect, c, place)'
    BY <2>2, <2>3, <2>6 DEF Pending
  <2>8. ASSUME QueueEndsWith(k, effect, place), Does(n, Other(effect), place)
        PROVE  PendingIn(k, effect, place)'
    <3>1. PICK j \in 1 .. Len(q) : 1 < j /\ Does(q[j], effect, place)
      BY <2>1, <2>8 DEF QueueEndsWith, q
    <3> QED  BY <2>4, <3>1 DEF PendingIn, r
  <2>9. QueueEndsWith(k, effect, place) => CallsEndWith(k, effect, c, place)'
    BY <2>3, <2>8 DEF CallsEndWith, Other, Effects
  <2>10. ASSUME QueueEndsWith(k, effect, place)  PROVE QueueEndsWith(k, effect, place)'
    <3> SUFFICES ASSUME NEW i \in 1 .. Len(r), Does(r[i], Other(effect), place)
                 PROVE  \E j \in 1 .. Len(r) : i < j /\ Does(r[j], effect, place)
      BY DEF QueueEndsWith, r
    <3>1. PICK j \in 1 .. Len(q) : i + 1 < j /\ Does(q[j], effect, place)
      BY <2>5, <2>10 DEF QueueEndsWith, q
    <3>2. j - 1 \in 1 .. Len(r) /\ r[j - 1] = q[j] /\ i < j - 1
      BY <2>1, <2>4, <3>1
    <3> QED  BY <3>1, <3>2
  <2> QED  BY <1>2, <2>7, <2>9, <2>10 DEF EndsWith
<1> QED  BY <1>1, <1>2

\* A handler makes its next call.
Makes(k, call) ==
    /\ calls[k] # <<>> /\ call = Head(calls[k])
    /\ calls' = [calls EXCEPT ![k] = Tail(@)] /\ queue' = queue

\* Making a call loses the effect of that call only, and what must follow is there.
LEMMA MakesKeeps ==
  ASSUME TypeOK, NEW k \in Kinds, NEW call, Makes(k, call),
         NEW l \in Kinds, NEW effect \in Effects, NEW c \in Caches, NEW place
  PROVE  /\ Pending(l, effect, c, place) =>
               Pending(l, effect, c, place)' \/ (l = k /\ Has(call, effect, c, place))
         /\ EndsWith(l, effect, c, place) => EndsWith(l, effect, c, place)'
         /\ EndsWith(k, effect, c, place) /\ Has(call, Other(effect), c, place) =>
               Pending(k, effect, c, place)'
<1>1. l # k => queue'[l] = queue[l] /\ calls'[l] = calls[l]
  BY DEF Makes, TypeOK
<1>2. l # k => /\ Pending(l, effect, c, place) => Pending(l, effect, c, place)'
               /\ EndsWith(l, effect, c, place) => EndsWith(l, effect, c, place)'
  BY <1>1 DEF Pending, PendingIn, EndsWith, CallsEndWith, QueueEndsWith
<1> DEFINE q == calls[k] r == calls'[k]
<1>3. /\ Len(q) \in Nat \ {0} /\ call = q[1] /\ Len(r) = Len(q) - 1
      /\ \A i \in 1 .. Len(r) : r[i] = q[i + 1]
  <2>1. q \in Seq(CallsOfCaches) /\ q # <<>> /\ r = Tail(q) /\ call = Head(q)
    BY DEF Makes, TypeOK
  <2> HIDE DEF q, r
  <2> QED  BY <2>1, TailFacts
<1>4. PendingIn(k, effect, place)' <=> PendingIn(k, effect, place)
  BY DEF Makes, PendingIn
<1>5. QueueEndsWith(k, effect, place) => QueueEndsWith(k, effect, place)'
  BY DEF Makes, QueueEndsWith
<1> HIDE DEF q, r
<1>6. \A i \in 1 .. Len(q) : i = 1 \/ (i - 1 \in 1 .. Len(r) /\ r[i - 1] = q[i])
  BY <1>3
<1>7. \A i \in 1 .. Len(r) : i + 1 \in 1 .. Len(q) /\ r[i] = q[i + 1]
  BY <1>3
<1>8. Pending(k, effect, c, place) => Pending(k, effect, c, place)' \/ Has(call, effect, c, place)
  BY <1>3, <1>4, <1>6 DEF Pending, q, r
<1>9. ASSUME CallsEndWith(k, effect, c, place), NEW i \in 1 .. Len(q), Has(q[i], Other(effect), c, place)
      PROVE  \/ \E j \in 1 .. Len(r) : i < j + 1 /\ Has(r[j], effect, c, place)
             \/ PendingIn(k, effect, place)'
  <2>1. CASE PendingIn(k, effect, place)
    BY <1>4, <2>1
  <2>2. CASE \E j \in 1 .. Len(q) : i < j /\ Has(q[j], effect, c, place)
    <3>1. PICK j \in 1 .. Len(q) : i < j /\ Has(q[j], effect, c, place)
      BY <2>2
    <3>2. j - 1 \in 1 .. Len(r) /\ r[j - 1] = q[j] /\ i < (j - 1) + 1
      BY <1>3, <1>6, <3>1
    <3> QED  BY <3>1, <3>2
  <2> QED  BY <1>9, <2>1, <2>2 DEF CallsEndWith, q
<1>10. ASSUME CallsEndWith(k, effect, c, place)  PROVE CallsEndWith(k, effect, c, place)'
  <2> SUFFICES ASSUME NEW i \in 1 .. Len(r), Has(r[i], Other(effect), c, place)
               PROVE  \/ \E j \in 1 .. Len(r) : i < j /\ Has(r[j], effect, c, place)
                      \/ PendingIn(k, effect, place)'
    BY DEF CallsEndWith, r
  <2>1. \/ \E j \in 1 .. Len(r) : i + 1 < j + 1 /\ Has(r[j], effect, c, place)
        \/ PendingIn(k, effect, place)'
    BY <1>7, <1>9, <1>10
  <2> QED  BY <1>3, <2>1
<1>11. CallsEndWith(k, effect, c, place) /\ Has(call, Other(effect), c, place) => Pending(k, effect, c, place)'
  <2>1. 1 \in 1 .. Len(q)
    BY <1>3
  <2> QED  BY <1>3, <1>9, <2>1 DEF Pending, r
<1> QED  BY <1>2, <1>5, <1>8, <1>10, <1>11 DEF EndsWith

\* A notification is put behind the others of its kind.
Notifies(k, n) ==
    /\ n \in Notifications /\ calls' = calls
    /\ queue' = [queue EXCEPT ![k] = Append(@, n)]

\* The last notification decides, and one without the other effect changes nothing.
LEMMA NotifiesKeeps ==
  ASSUME TypeOK, NEW k \in Kinds, NEW n, Notifies(k, n),
         NEW l \in Kinds, NEW effect \in Effects, NEW c \in Caches, NEW place
  PROVE  /\ Pending(l, effect, c, place) => Pending(l, effect, c, place)'
         /\ l # k \/ ~Does(n, Other(effect), place) =>
               (EndsWith(l, effect, c, place) => EndsWith(l, effect, c, place)')
         /\ Does(n, effect, place) => Pending(k, effect, c, place)'
         /\ Does(n, effect, place) /\ ~Does(n, Other(effect), place) => EndsWith(k, effect, c, place)'
<1>1. l # k => queue'[l] = queue[l]
  BY DEF Notifies, TypeOK
<1>2. l # k => /\ Pending(l, effect, c, place) => Pending(l, effect, c, place)'
               /\ EndsWith(l, effect, c, place) => EndsWith(l, effect, c, place)'
  BY <1>1 DEF Notifies, Pending, PendingIn, EndsWith, CallsEndWith, QueueEndsWith
<1> DEFINE q == queue[k] r == queue'[k] m == Len(queue[k])
<1>3. /\ m \in Nat /\ Len(r) = m + 1 /\ r[m + 1] = n /\ Len(q) = m
      /\ \A i \in 1 .. m : r[i] = q[i]
  <2>1. q \in Seq(Notifications) /\ r = Append(q, n) /\ n \in Notifications /\ m = Len(q)
    BY DEF Notifies, TypeOK
  <2> HIDE DEF q, r, m
  <2> QED  BY <2>1, AppendFacts
<1> HIDE DEF q, r, m
<1>4. 1 .. m \subseteq 1 .. Len(r) /\ m + 1 \in 1 .. Len(r) /\ \A i \in 1 .. Len(r) : i \in 1 .. m \/ i = m + 1
  BY <1>3
<1>5. PendingIn(k, effect, place) => PendingIn(k, effect, place)'
  BY <1>3, <1>4 DEF PendingIn, q, r
<1>6. Does(n, effect, place) => PendingIn(k, effect, place)'
  BY <1>3, <1>4 DEF PendingIn, r
<1>7. ASSUME ~Does(n, Other(effect), place), QueueEndsWith(k, effect, place)
      PROVE  QueueEndsWith(k, effect, place)'
  <2> SUFFICES ASSUME NEW i \in 1 .. Len(r), Does(r[i], Other(effect), place)
               PROVE  \E j \in 1 .. Len(r) : i < j /\ Does(r[j], effect, place)
    BY DEF QueueEndsWith, r
  <2>1. i \in 1 .. m
    BY <1>3, <1>4, <1>7
  <2>2. PICK j \in 1 .. m : i < j /\ Does(q[j], effect, place)
    BY <1>3, <1>7, <2>1 DEF QueueEndsWith, q
  <2> QED  BY <1>3, <1>4, <2>2
<1>8. ASSUME ~Does(n, Other(effect), place), Does(n, effect, place)
      PROVE  QueueEndsWith(k, effect, place)'
  <2> SUFFICES ASSUME NEW i \in 1 .. Len(r), Does(r[i], Other(effect), place)
               PROVE  \E j \in 1 .. Len(r) : i < j /\ Does(r[j], effect, place)
    BY DEF QueueEndsWith, r
  <2>1. i \in 1 .. m
    BY <1>3, <1>4, <1>8
  <2>2. i < m + 1
    BY <1>3, <2>1
  <2> QED  BY <1>3, <1>4, <1>8, <2>2
<1>9. CallsEndWith(k, effect, c, place) => CallsEndWith(k, effect, c, place)'
  BY <1>5 DEF Notifies, CallsEndWith
<1>10. Does(n, effect, place) => CallsEndWith(k, effect, c, place)'
  BY <1>6 DEF CallsEndWith
<1>11. Pending(k, effect, c, place) => Pending(k, effect, c, place)'
  BY <1>5 DEF Notifies, Pending
<1> QED  BY <1>2, <1>6, <1>7, <1>8, <1>9, <1>10, <1>11 DEF EndsWith, Pending

-----------------------------------------------------------------------------
(* The steps.                                                               *)

\* Nothing is needed at the start, and nothing is known.
LEMMA InitIInv == ASSUME WorkloadAssumption  PROVE Init => IInv
<1> SUFFICES ASSUME Init  PROVE IInv
  OBVIOUS
<1>1. TypeOK
  BY DEF Init, TypeOK, SpecsOrNone
<1>2. \A k \in Kinds : Len(queue[k]) = 0 /\ Len(calls[k]) = 0
  BY DEF Init
<1>3. \A w \in Workloads : spec[w] = NoSpec
  BY DEF Init
<1>4. OriginInv
  BY <1>2, <1>3 DEF Init, OriginInv, HadIdentity
<1>5. \A k \in Kinds, c \in Caches, key \in Keys : EndsWith(k, "clear", c, PlaceOf(c, key))
  BY <1>2 DEF EndsWith, CallsEndWith, QueueEndsWith
<1>6. LingerInv
  BY <1>5 DEF Init, LingerInv
<1>7. KnownInv
  BY <1>3 DEF KnownInv, Own, Admitted
<1> QED  BY <1>1, <1>4, <1>6, <1>7 DEF IInv

\* A notification tells a controller of w: of its new spec, or of one that it keeps.
Tells(w, n) ==
    /\ Notifies(KindOf(w), n) /\ n.workload = w
    /\ spec' = [spec EXCEPT ![w] = n.new]
    /\ UNCHANGED <<cache, identityCluster>>
    /\ orphans \subseteq orphans'
    /\ everHad' \in [Workloads -> SUBSET (Identities \cup {NoIdentity})]
    /\ \A v \in Workloads : everHad[v] \subseteq everHad'[v]
    /\ n.new # NoSpec => n.new.identity \in everHad'[w] /\ n.type \in {"add", "update"}
    /\ n.old = spec[w]
    /\ n.type \in {"add", "update"} => n.new # NoSpec
    /\ n.type # "add" => n.old # NoSpec
    /\ Admitted(spec[w]) =>
          \/ Leaves(n)
          \/ Admitted(n.new) /\ KeyOf(n.new) = KeyOf(spec[w])
          \/ <<KindOf(w), KeyOf(spec[w])>> \in orphans'

\* The variables keep their types.
LEMMA TellsType ==
  ASSUME IInv, NEW w \in Workloads, NEW n, Tells(w, n)
  PROVE  TypeOK'
<1> USE DEF IInv
<1> DEFINE k == KindOf(w)
<1>1. n \in Notifications /\ n.new \in SpecsOrNone /\ k \in Kinds
  BY DEF Tells, Notifies, Notifications, KindOf, Kinds
<1>2. queue[k] \in Seq(Notifications)
  BY <1>1 DEF TypeOK
<1>3. Append(queue[k], n) \in Seq(Notifications)
  BY <1>1, <1>2, AppendFacts
<1>4. queue' \in [Kinds -> Seq(Notifications)]
  BY <1>1, <1>3 DEF TypeOK, Tells, Notifies
<1>5. spec' \in [Workloads -> SpecsOrNone]
  BY <1>1 DEF TypeOK, Tells
<1> QED  BY <1>4, <1>5 DEF TypeOK, Tells, Notifies

\* Controllers are still told of identities that workloads had.
LEMMA TellsOrigin ==
  ASSUME IInv, NEW w \in Workloads, NEW n, Tells(w, n)
  PROVE  OriginInv'
<1> USE DEF IInv
<1> DEFINE k == KindOf(w) q == queue[k] r == queue'[k]
<1>1. /\ n \in Notifications /\ n.new \in SpecsOrNone /\ n.old \in SpecsOrNone /\ k \in Kinds
      /\ n.workload = w
  BY DEF Tells, Notifies, Notifications, KindOf, Kinds
<1>2. /\ Len(q) \in Nat /\ Len(r) = Len(q) + 1 /\ r[Len(q) + 1] = n
      /\ \A i \in 1 .. Len(q) : r[i] = q[i] /\ q[i] \in Notifications
  <2>1. q \in Seq(Notifications) /\ r = Append(q, n)
    BY <1>1 DEF TypeOK, Tells, Notifies
  <2> HIDE DEF q, r
  <2> QED  BY <1>1, <2>1, AppendFacts
<1>3. \A v \in Workloads : everHad[v] \subseteq everHad'[v]
  BY DEF Tells
<1>4. \A v \in Workloads : HadIdentity(v, spec[v])'
  <2>1. \A v \in Workloads : v # w => spec'[v] = spec[v]
    BY DEF Tells, TypeOK
  <2>2. spec'[w] = n.new
    BY DEF Tells, TypeOK
  <2> QED  BY <1>3, <2>1, <2>2 DEF Tells, OriginInv, HadIdentity
<1>5. NotifiedOK(k, n)'
  BY <1>1, <1>3 DEF Tells, NotifiedOK, HadIdentity, OriginInv
<1>6. \A l \in Kinds, m \in Notifications : NotifiedOK(l, m) => NotifiedOK(l, m)'
  BY <1>3 DEF NotifiedOK, HadIdentity, Notifications
<1>7. \A l \in Kinds : (\A i \in 1 .. Len(queue[l]) : NotifiedOK(l, queue[l][i]))'
  <2> TAKE l \in Kinds
  <2>1. CASE l # k
    <3>1. queue'[l] = queue[l] /\ queue[l] \in Seq(Notifications)
      BY <1>1, <2>1 DEF Tells, Notifies, TypeOK
    <3>2. \A i \in 1 .. Len(queue[l]) : queue[l][i] \in Notifications
      BY <3>1
    <3>3. \A i \in 1 .. Len(queue[l]) : NotifiedOK(l, queue[l][i])
      BY DEF OriginInv
    <3> HIDE DEF k, q, r
    <3> SUFFICES ASSUME NEW i \in 1 .. Len(queue'[l])  PROVE NotifiedOK(l, queue[l][i])'
      OBVIOUS
    <3>4. PICK m \in Notifications : m = queue[l][i] /\ m = queue'[l][i] /\ NotifiedOK(l, m)
      BY <3>1, <3>2, <3>3
    <3>5. NotifiedOK(l, m)'
      BY <1>6, <3>4
    <3> QED  BY <3>4, <3>5 DEF NotifiedOK
  <2>2. CASE l = k
    <3>1. \A i \in 1 .. Len(q) : NotifiedOK(k, q[i])
      BY <1>1 DEF OriginInv
    <3> HIDE DEF k, q
    <3> SUFFICES ASSUME NEW i \in 1 .. Len(queue'[l])  PROVE NotifiedOK(l, queue[l][i])'
      OBVIOUS
    <3>2. PICK m \in Notifications : m = queue'[l][i] /\ NotifiedOK(k, m)'
      <4>1. i \in 1 .. Len(q) \/ i = Len(q) + 1
        BY <1>2, <2>2
      <4>2. CASE i \in 1 .. Len(q)
        <5>1. PICK m \in Notifications : m = q[i] /\ NotifiedOK(k, m) /\ m = queue'[l][i]
          BY <1>2, <2>2, <3>1, <4>2
        <5> QED  BY <1>1, <1>6, <5>1
      <4>3. CASE i = Len(q) + 1
        BY <1>1, <1>2, <1>5, <2>2, <4>3
      <4> QED  BY <4>1, <4>2, <4>3
    <3> QED  BY <2>2, <3>2 DEF NotifiedOK
  <2> QED  BY <2>1, <2>2
<1>8. \A l \in Kinds : (\A i \in 1 .. Len(calls[l]) : CalledOK(l, calls[l][i]))'
  <2>1. calls' = calls
    BY DEF Tells, Notifies
  <2> SUFFICES ASSUME NEW l \in Kinds, NEW i \in 1 .. Len(calls[l])
               PROVE  CalledOK(l, calls[l][i])'
    BY <2>1
  <2>2. calls[l][i] \in CallsOfCaches
    BY DEF TypeOK
  <2>3. calls[l][i].workload \in Workloads
    BY <2>2 DEF CallsOfCaches
  <2> QED  BY <1>3, <2>1, <2>3 DEF OriginInv, CalledOK
<1>9. \A l \in Kinds, key \in Keys : cache'[l][key] # NoWorkload =>
         KindOf(cache'[l][key]) = l /\ key[1] \in everHad'[cache'[l][key]]
  BY <1>3 DEF Tells, OriginInv, TypeOK
<1> QED  BY <1>4, <1>7, <1>8, <1>9 DEF OriginInv

\* Who leaves a place has it cleared, or is an orphan there.
LEMMA TellsNeeded ==
  ASSUME IInv, NEW w \in Workloads, NEW n, Tells(w, n),
         NEW k \in Kinds, NEW place, NEW i, \A key \in place : key[1] = i
  PROVE  /\ Needed(k, place) => Needed(k, place)' \/ (k = KindOf(w) /\ Does(n, "clear", place))
         /\ k = KindOf(w) /\ Does(n, "set", place) => Needed(k, place)'
<1> USE DEF IInv
<1>1. spec'[w] = n.new /\ \A v \in Workloads : v # w => spec'[v] = spec[v]
  BY DEF Tells, TypeOK
<1>2. ASSUME NEW v \in Workloads, KindOf(v) = k, Admitted(spec[v]), KeyOf(spec[v]) \in place,
             ~Needed(k, place)'
      PROVE  k = KindOf(w) /\ Does(n, "clear", place)
  <2>1. v = w
    BY <1>1, <1>2 DEF Needed
  <2>2. ~(Admitted(n.new) /\ KeyOf(n.new) \in place) /\ <<k, KeyOf(spec[w])>> \notin orphans'
    BY <1>1, <1>2, <2>1 DEF Needed
  <2>3. Leaves(n) /\ n.old = spec[w]
    BY <1>2, <2>1, <2>2 DEF Tells
  <2> QED  BY <1>2, <2>1, <2>3 DEF Does
<1>3. (\E key \in place : <<k, key>> \in orphans) => Needed(k, place)'
  BY DEF Needed, Tells
<1>4. k = KindOf(w) /\ Does(n, "set", place) => Needed(k, place)'
  BY <1>1 DEF Does, Enters, Needed
<1> QED  BY <1>2, <1>3, <1>4 DEF Needed

\* What nobody needs any more will be cleared.
LEMMA TellsLinger ==
  ASSUME IInv, NEW w \in Workloads, NEW n, Tells(w, n)
  PROVE  LingerInv'
<1> USE DEF IInv
<1>1. KindOf(w) \in Kinds /\ Notifies(KindOf(w), n) /\ UNCHANGED <<cache, identityCluster>>
  BY DEF KindOf, Kinds, Tells
<1>2. ASSUME NEW k \in Kinds, NEW c \in Caches, NEW place, NEW i, \A key \in place : key[1] = i
      PROVE  /\ EndsWith(k, "clear", c, place) \/ Needed(k, place) =>
                    EndsWith(k, "clear", c, place)' \/ Needed(k, place)'
             /\ Pending(k, "clear", c, place) \/ Needed(k, place) =>
                    Pending(k, "clear", c, place)' \/ Needed(k, place)'
  <2>1. Other("clear") = "set" /\ "clear" \in Effects
    BY DEF Other, Effects
  <2>2. k = KindOf(w) /\ Does(n, "clear", place) =>
            EndsWith(k, "clear", c, place)' /\ Pending(k, "clear", c, place)'
    <3>1. ~(Does(n, "clear", place) /\ Does(n, "set", place))
      BY <1>2, NotBoth
    <3> QED  BY <1>1, <2>1, <3>1, NotifiesKeeps
  <2>3. EndsWith(k, "clear", c, place) /\ ~(k = KindOf(w) /\ Does(n, "set", place)) =>
            EndsWith(k, "clear", c, place)'
    BY <1>1, <2>1, NotifiesKeeps
  <2>4. Pending(k, "clear", c, place) => Pending(k, "clear", c, place)'
    BY <1>1, <2>1, NotifiesKeeps
  <2>5. /\ Needed(k, place) => Needed(k, place)' \/ (k = KindOf(w) /\ Does(n, "clear", place))
        /\ k = KindOf(w) /\ Does(n, "set", place) => Needed(k, place)'
    BY <1>2, TellsNeeded
  <2> QED  BY <2>2, <2>3, <2>4, <2>5
<1>3. \A k \in Kinds, c \in Caches, key \in Keys :
         EndsWith(k, "clear", c, PlaceOf(c, key))' \/ Needed(k, PlaceOf(c, key))'
  BY <1>2, PlacesOfOne DEF LingerInv
<1>4. ASSUME NEW k \in Kinds, NEW key \in Keys, cache'[k][key] # NoWorkload
      PROVE  Pending(k, "clear", "kind", {key})' \/ Needed(k, {key})'
  <2>1. cache[k][key] # NoWorkload
    BY <1>1, <1>4
  <2>2. Pending(k, "clear", "kind", {key}) \/ Needed(k, {key})
    BY <2>1 DEF LingerInv
  <2>3. "kind" \in Caches /\ \A other \in {key} : other[1] = key[1]
    BY DEF Caches
  <2> QED  BY <1>2, <2>2, <2>3
<1>5. ASSUME NEW i \in identityCluster'
      PROVE  \E k \in Kinds : Pending(k, "clear", "identity", KeysOf(i))' \/ Needed(k, KeysOf(i))'
  <2>1. PICK k \in Kinds : Pending(k, "clear", "identity", KeysOf(i)) \/ Needed(k, KeysOf(i))
    BY <1>1, <1>5 DEF LingerInv
  <2>2. "identity" \in Caches /\ \A other \in KeysOf(i) : other[1] = i
    BY DEF Caches, KeysOf
  <2> QED  BY <1>2, <2>1, <2>2
<1> QED  BY <1>3, <1>4, <1>5 DEF LingerInv

\* The identity of the spec is that of its key.
LEMMA KeyFacts ==
  ASSUME WorkloadAssumption, NEW s \in SpecsOrNone, Admitted(s)
  PROVE  KeyOf(s) \in Keys /\ KeyOf(s)[1] = s.identity
  BY DEF WorkloadAssumption, SpecsOrNone, Admitted, KeyOf, Keys

\* Where a workload is with an identity of its own will be set.
LEMMA TellsKnown ==
  ASSUME WorkloadAssumption, IInv, NEW w \in Workloads, NEW n, Tells(w, n)
  PROVE  KnownInv'
<1> USE DEF IInv
<1>1. KindOf(w) \in Kinds /\ Notifies(KindOf(w), n) /\ UNCHANGED <<cache, identityCluster>>
  BY DEF KindOf, Kinds, Tells
<1>2. spec'[w] = n.new /\ \A v \in Workloads : v # w => spec'[v] = spec[v]
  BY DEF Tells, TypeOK
<1>3. n.new \in SpecsOrNone /\ n.old = spec[w]
  BY DEF Tells, Notifies, Notifications
<1>4. Other("set") = "clear" /\ "set" \in Effects /\ "kind" \in Caches /\ "identity" \in Caches
  BY DEF Other, Effects, Caches
<1>5. ASSUME Own(w)', NEW key \in Keys, KeyOf(n.new) = key
      PROVE  KnownAt(KindOf(w), key)'
  <2> DEFINE k == KindOf(w)
  <2>1. Admitted(n.new)
    BY <1>2, <1>5 DEF Own
  <2>2. n.type \in {"add", "update"}
    BY <2>1 DEF Tells, Admitted
  <2>3. key[1] = n.new.identity
    BY <1>3, <1>5, <2>1, KeyFacts
  <2>4. key \in KeysOf(key[1]) /\ \A c \in Caches : key \in PlaceOf(c, key)
    BY <2>3 DEF KeysOf, PlaceOf, Keys
  <2>5. PlaceOf("kind", key) = {key} /\ PlaceOf("identity", key) = KeysOf(key[1])
    BY DEF PlaceOf
  <2>6. \A c \in Caches : Does(n, "set", PlaceOf(c, key))
    BY <1>5, <2>1, <2>2, <2>4 DEF Does, Enters
  <2> HIDE DEF k
  <2>7. ASSUME NEW c \in Caches
        PROVE  EndsWith(k, "set", c, PlaceOf(c, key))' /\ Pending(k, "set", c, PlaceOf(c, key))'
    <3>1. \A other \in PlaceOf(c, key) : other[1] = key[1]
      BY PlacesOfOne
    <3>2. Does(n, "set", PlaceOf(c, key))
      BY <2>6
    <3>3. ~Does(n, "clear", PlaceOf(c, key))
      BY <3>1, <3>2, NotBoth
    <3> QED  BY <1>1, <1>4, <3>2, <3>3, NotifiesKeeps DEF k
  <2>8. Pending(k, "set", "kind", {key})' /\ Pending(k, "set", "identity", KeysOf(key[1]))'
    BY <1>4, <2>5, <2>7
  <2> QED  BY <2>7, <2>8 DEF KnownAt, k
<1>6. ASSUME NEW v \in Workloads, v # w, Own(v)', NEW key \in Keys, KeyOf(spec[v]) = key
      PROVE  KnownAt(KindOf(v), key)'
  <2>1. PICK k \in Kinds : k = KindOf(v)
    BY DEF KindOf, Kinds
  <2>2. Own(v) /\ key[1] = spec[v].identity
    BY <1>2, <1>6 DEF Own, Tells, KeyOf
  <2>3. KnownAt(k, key)
    BY <1>6, <2>1, <2>2 DEF KnownInv
  <2>4. spec[v].identity \notin everHad'[w]
    BY <1>2, <1>6 DEF Own
  <2>5. Leaves(n) => n.old.identity \in everHad'[w]
    <3>1. Leaves(n) => n.old # NoSpec
      BY DEF Leaves, Admitted, Tells
    <3> QED  BY <1>3, <3>1 DEF Tells, OriginInv, HadIdentity
  <2>6. ASSUME NEW c \in Caches  PROVE ~Does(n, "clear", PlaceOf(c, key))
    BY <2>2, <2>4, <2>5, PlacesOfOne DEF Does, KeyOf
  <2>7. \A c \in Caches : EndsWith(k, "set", c, PlaceOf(c, key))'
    <3> TAKE c \in Caches
    <3>1. EndsWith(k, "set", c, PlaceOf(c, key))
      BY <2>3 DEF KnownAt
    <3> QED  BY <1>1, <1>4, <2>6, <3>1, NotifiesKeeps
  <2>8. cache'[k][key] = NoWorkload => Pending(k, "set", "kind", {key})'
    BY <1>1, <1>4, <2>3, NotifiesKeeps DEF KnownAt
  <2>9. key[1] \notin identityCluster' => Pending(k, "set", "identity", KeysOf(key[1]))'
    BY <1>1, <1>4, <2>3, NotifiesKeeps DEF KnownAt
  <2> QED  BY <2>1, <2>7, <2>8, <2>9 DEF KnownAt
<1>7. ASSUME NEW v \in Workloads, Own(v)', NEW key \in Keys, KeyOf(spec'[v]) = key
      PROVE  KnownAt(KindOf(v), key)'
  <2>1. CASE v = w
    BY <1>2, <1>5, <1>7, <2>1
  <2>2. CASE v # w
    BY <1>2, <1>6, <1>7, <2>2
  <2> QED  BY <2>1, <2>2
<1> QED  BY <1>7 DEF KnownInv

\* Every change of a workload, and every resync, tells its controller.
LEMMA TellsStep ==
  ASSUME WorkloadAssumption, IInv, NEW w \in Workloads, NEW n, Tells(w, n)
  PROVE  IInv'
  BY TellsType, TellsOrigin, TellsLinger, TellsKnown DEF IInv

\* What Notify makes of a notification.
LEMMA NotifyTells ==
  ASSUME TypeOK, NEW w \in Workloads, NEW type \in {"add", "update", "delete", "tombstone"},
         NEW old \in SpecsOrNone, NEW new \in SpecsOrNone, Notify(type, w, old, new)
  PROVE  LET n == [type |-> type, workload |-> w, old |-> old, new |-> new]
         IN  Notifies(KindOf(w), n) /\ n.type = type /\ n.workload = w /\ n.old = old /\ n.new = new
  BY DEF Notify, Notifies, Notifications

\* Only what is known of the history grows.
LEMMA ChangeFacts ==
  ASSUME WorkloadAssumption, TypeOK, NEW w \in Workloads, NEW s \in SpecsOrNone, Change(w, s)
  PROVE  /\ spec' = [spec EXCEPT ![w] = s]
         /\ everHad' \in [Workloads -> SUBSET (Identities \cup {NoIdentity})]
         /\ \A v \in Workloads : everHad[v] \subseteq everHad'[v]
         /\ s # NoSpec => s.identity \in everHad'[w]
<1>1. s # NoSpec => s.identity \in Identities \cup {NoIdentity}
  BY DEF WorkloadAssumption, SpecsOrNone
<1> QED  BY <1>1 DEF Change, TypeOK

\* Changes of workloads.
LEMMA ClusterStep ==
  ASSUME WorkloadAssumption, IInv, NEW w \in Workloads,
         \/ \E s \in Specs : WorkloadAdded(w, s) \/ WorkloadUpdated(w, s)
         \/ WorkloadDeleted(w) \/ DeletionMissed(w) \/ Resync(w)
  PROVE  IInv'
<1>1. PICK old \in SpecsOrNone : old = spec[w]
  BY DEF IInv, TypeOK
<1>2. NoSpec \in SpecsOrNone /\ Specs \subseteq SpecsOrNone /\ NoSpec \notin Specs
  BY DEF SpecsOrNone, WorkloadAssumption
<1>3. TypeOK
  BY DEF IInv
<1>4. ASSUME NEW type \in {"add", "update", "delete", "tombstone"}, NEW new \in SpecsOrNone,
             Notify(type, w, old, new), Change(w, new), orphans \subseteq orphans',
             new # NoSpec <=> type \in {"add", "update"}, type # "add" => old # NoSpec,
             Admitted(old) =>
                 \/ type = "delete"
                 \/ type = "update" /\ Admitted(new) /\ new.identity # old.identity
                 \/ <<KindOf(w), KeyOf(old)>> \in orphans'
      PROVE  IInv'
  <2>1. PICK n : n = [type |-> type, workload |-> w, old |-> old, new |-> new]
    OBVIOUS
  <2>2. Notifies(KindOf(w), n) /\ n.type = type /\ n.workload = w /\ n.old = old /\ n.new = new
    BY <1>3, <1>4, <2>1, NotifyTells
  <2>3. Admitted(old) => Leaves(n) \/ <<KindOf(w), KeyOf(old)>> \in orphans'
    BY <1>4, <2>2 DEF Leaves, Admitted
  <2>4. UNCHANGED <<cache, identityCluster>>
    BY <1>4 DEF Notify
  <2>5. Tells(w, n)
    BY <1>1, <1>3, <1>4, <2>2, <2>3, <2>4, ChangeFacts DEF Tells
  <2> QED  BY <2>5, TellsStep
<1>5. ASSUME NEW s \in Specs, WorkloadAdded(w, s)  PROVE IInv'
  BY <1>1, <1>2, <1>4, <1>5 DEF WorkloadAdded, Admitted
<1>6. ASSUME NEW s \in Specs, WorkloadUpdated(w, s)  PROVE IInv'
  BY <1>1, <1>2, <1>4, <1>6 DEF WorkloadUpdated, Orphan
<1>7. CASE WorkloadDeleted(w)
  BY <1>1, <1>2, <1>4, <1>7 DEF WorkloadDeleted
<1>8. CASE DeletionMissed(w)
  BY <1>1, <1>2, <1>4, <1>8 DEF DeletionMissed, Orphan
<1>9. CASE Resync(w)
  <2>1. PICK n : n = [type |-> "update", workload |-> w, old |-> old, new |-> old]
    OBVIOUS
  <2>2. Notifies(KindOf(w), n) /\ n.type = "update" /\ n.workload = w /\ n.old = old /\ n.new = old
    BY <1>1, <1>3, <1>9, <2>1, NotifyTells DEF Resync
  <2>3. UNCHANGED <<cache, identityCluster, orphans, everHad>> /\ old # NoSpec
    BY <1>1, <1>9 DEF Resync, Notify, historyVars
  <2>4. spec' = [spec EXCEPT ![w] = old]
    BY <1>1, <1>3, <1>9 DEF Resync, TypeOK
  <2>5. old.identity \in everHad[w]
    BY <1>1, <2>3 DEF IInv, OriginInv, HadIdentity
  <2>6. Tells(w, n)
    BY <1>1, <1>3, <2>2, <2>3, <2>4, <2>5 DEF Tells, TypeOK
  <2> QED  BY <2>6, TellsStep
<1> QED  BY <1>5, <1>6, <1>7, <1>8, <1>9

\* A place that is needed is needed as long as workloads stay as they are.
LEMMA NeededFrame ==
  ASSUME UNCHANGED <<spec, orphans>>, NEW k, NEW place
  PROVE  Needed(k, place)' <=> Needed(k, place)
  BY DEF Needed

\* A controller takes a notification.
LEMMA TakesStep ==
  ASSUME WorkloadAssumption, IInv, NEW k \in Kinds, NEW n, Takes(k, n),
         calls' \in [Kinds -> Seq(CallsOfCaches)],
         UNCHANGED <<spec, cache, identityCluster, historyVars>>
  PROVE  IInv'
<1> USE DEF IInv
<1>1. UNCHANGED <<spec, cache, identityCluster, orphans, everHad>>
  BY DEF historyVars
<1> DEFINE q == queue[k] r == queue'[k]
<1>2. /\ Len(q) \in Nat \ {0} /\ n = q[1] /\ n \in Notifications /\ r \in Seq(Notifications)
      /\ Len(r) = Len(q) - 1 /\ \A i \in 1 .. Len(r) : r[i] = q[i + 1]
  <2>1. q \in Seq(Notifications) /\ q # <<>> /\ r = Tail(q) /\ n = Head(q)
    BY DEF Takes, TypeOK
  <2> HIDE DEF q, r
  <2> QED  BY <2>1, TailFacts
<1>3. \A l \in Kinds \ {k} : queue'[l] = queue[l] /\ calls'[l] = calls[l]
  BY DEF Takes, TypeOK
<1>4. TypeOK'
  <2>1. queue' \in [Kinds -> Seq(Notifications)]
    BY <1>2 DEF Takes, TypeOK
  <2> QED  BY <1>1, <2>1 DEF TypeOK
<1>5. OriginInv'
  <2>1. NotifiedOK(k, n)
    BY <1>2 DEF OriginInv
  <2>2. \A i \in 1 .. Len(calls'[k]) : calls'[k][i] \in CallsFor(n)
    BY DEF Takes
  <2>3. \A i \in 1 .. Len(calls'[k]) : CalledOK(k, calls'[k][i])
    BY <1>2, <2>1, <2>2, CallsForOK
  <2>4. \A i \in 1 .. Len(r) : NotifiedOK(k, r[i])
    <3>1. \A i \in 1 .. Len(r) : i + 1 \in 1 .. Len(q)
      BY <1>2
    <3>2. \A i \in 1 .. Len(q) : NotifiedOK(k, q[i])
      BY DEF OriginInv
    <3> HIDE DEF q, r
    <3> QED  BY <1>2, <3>1, <3>2
  <2>5. \A l \in Kinds : \A i \in 1 .. Len(calls'[l]) : CalledOK(l, calls'[l][i])
    BY <1>3, <2>3 DEF OriginInv
  <2>6. \A l \in Kinds : \A i \in 1 .. Len(queue'[l]) : NotifiedOK(l, queue'[l][i])
    BY <1>3, <2>4 DEF OriginInv
  <2> QED  BY <1>1, <2>5, <2>6 DEF OriginInv, CalledOK, NotifiedOK, HadIdentity
<1>6. ASSUME NEW l \in Kinds, NEW effect \in Effects, NEW c \in Caches, NEW place
      PROVE  /\ Pending(l, effect, c, place) => Pending(l, effect, c, place)'
             /\ EndsWith(l, effect, c, place) => EndsWith(l, effect, c, place)'
             /\ Needed(l, place)' <=> Needed(l, place)
  BY <1>1, NeededFrame, TakesKeeps
<1>7. "set" \in Effects /\ "clear" \in Effects /\ "kind" \in Caches /\ "identity" \in Caches
  BY DEF Effects, Caches
<1>8. LingerInv'
  <2>1. ASSUME NEW l \in Kinds, NEW c \in Caches, NEW key \in Keys
        PROVE  EndsWith(l, "clear", c, PlaceOf(c, key))' \/ Needed(l, PlaceOf(c, key))'
    <3>1. PICK place : place = PlaceOf(c, key)
      OBVIOUS
    <3>2. EndsWith(l, "clear", c, place) \/ Needed(l, place)
      BY <3>1 DEF LingerInv
    <3> QED  BY <1>6, <1>7, <3>1, <3>2
  <2>2. ASSUME NEW l \in Kinds, NEW key \in Keys, cache'[l][key] # NoWorkload
        PROVE  Pending(l, "clear", "kind", {key})' \/ Needed(l, {key})'
    <3>1. Pending(l, "clear", "kind", {key}) \/ Needed(l, {key})
      BY <1>1, <2>2 DEF LingerInv
    <3> QED  BY <1>6, <1>7, <3>1
  <2>3. ASSUME NEW i \in identityCluster'
        PROVE  \E l \in Kinds : Pending(l, "clear", "identity", KeysOf(i))' \/ Needed(l, KeysOf(i))'
    <3>1. PICK l \in Kinds : Pending(l, "clear", "identity", KeysOf(i)) \/ Needed(l, KeysOf(i))
      BY <1>1, <2>3 DEF LingerInv
    <3> QED  BY <1>6, <1>7, <3>1
  <2> QED  BY <2>1, <2>2, <2>3 DEF LingerInv
<1>9. KnownInv'
  <2>1. ASSUME NEW w \in Workloads, Own(w)', NEW key \in Keys, KeyOf(spec'[w]) = key
        PROVE  KnownAt(KindOf(w), key)'
    <3>1. PICK l \in Kinds : l = KindOf(w)
      BY DEF KindOf, Kinds
    <3>2. KnownAt(l, key)
      BY <1>1, <2>1, <3>1 DEF KnownInv, Own
    <3>3. \A c \in Caches : EndsWith(l, "set", c, PlaceOf(c, key))'
      <4> TAKE c \in Caches
      <4>1. EndsWith(l, "set", c, PlaceOf(c, key))
        BY <3>2 DEF KnownAt
      <4> QED  BY <1>6, <1>7, <4>1
    <3> QED  BY <1>1, <1>6, <1>7, <3>1, <3>2, <3>3 DEF KnownAt
  <2> QED  BY <2>1 DEF KnownInv
<1> QED  BY <1>4, <1>5, <1>8, <1>9

\* What calls do to the entries and to the identities.
Stores(k, call) ==
    /\ \A l \in Kinds, key \in Keys :
          cache'[l][key] = IF l = k /\ Has(call, "set", "kind", {key}) THEN call.workload
                           ELSE IF l = k /\ Has(call, "clear", "kind", {key}) THEN NoWorkload
                           ELSE cache[l][key]
    /\ \A i : i \in identityCluster' <=>
                 \/ call.op = "AddClusterToIdentity" /\ call.key[1] = i
                 \/ i \in identityCluster /\ ~(call.op = "DeleteClusterFromIdentity" /\ call.key[1] = i)

\* Calls are made.
LEMMA MakesStep ==
  ASSUME WorkloadAssumption, IInv, NEW k \in Kinds, NEW call, Makes(k, call), Stores(k, call),
         cache' \in [Kinds -> [Keys -> Workloads \cup {NoWorkload}]],
         identityCluster' \subseteq Identities,
         UNCHANGED <<spec, historyVars>>
  PROVE  IInv'
<1> USE DEF IInv
<1>1. UNCHANGED <<spec, queue, orphans, everHad>>
  BY DEF historyVars, Makes
<1> DEFINE q == calls[k] r == calls'[k]
<1>2. /\ Len(q) \in Nat \ {0} /\ call = q[1] /\ call \in CallsOfCaches /\ r \in Seq(CallsOfCaches)
      /\ Len(r) = Len(q) - 1 /\ \A i \in 1 .. Len(r) : r[i] = q[i + 1]
  <2>1. q \in Seq(CallsOfCaches) /\ q # <<>> /\ r = Tail(q) /\ call = Head(q)
    BY DEF Makes, TypeOK
  <2> HIDE DEF q, r
  <2> QED  BY <2>1, TailFacts
<1>3. \A l \in Kinds \ {k} : calls'[l] = calls[l]
  BY DEF Makes, TypeOK
<1>4. CalledOK(k, call) /\ call.workload \in Workloads /\ call.key \in Keys
  BY <1>2 DEF OriginInv, CallsOfCaches
<1>5. TypeOK'
  <2>1. calls' \in [Kinds -> Seq(CallsOfCaches)]
    BY <1>2 DEF Makes, TypeOK
  <2> QED  BY <1>1, <2>1 DEF TypeOK
<1>6. OriginInv'
  <2>1. \A i \in 1 .. Len(r) : CalledOK(k, r[i])
    <3>1. \A i \in 1 .. Len(r) : i + 1 \in 1 .. Len(q)
      BY <1>2
    <3>2. \A i \in 1 .. Len(q) : CalledOK(k, q[i])
      BY DEF OriginInv
    <3> HIDE DEF q, r
    <3> QED  BY <1>2, <3>1, <3>2
  <2>2. \A l \in Kinds : \A i \in 1 .. Len(calls'[l]) : CalledOK(l, calls'[l][i])
    BY <1>3, <2>1 DEF OriginInv
  <2>3. ASSUME NEW l \in Kinds, NEW key \in Keys, cache'[l][key] # NoWorkload
        PROVE  KindOf(cache'[l][key]) = l /\ key[1] \in everHad[cache'[l][key]]
    <3>1. CASE l = k /\ Has(call, "set", "kind", {key})
      BY <1>4, <3>1 DEF Stores, Has, CalledOK
    <3>2. CASE ~(l = k /\ Has(call, "set", "kind", {key}))
      <4>1. cache'[l][key] = cache[l][key]
        BY <2>3, <3>2 DEF Stores
      <4> QED  BY <2>3, <4>1 DEF OriginInv
    <3> QED  BY <3>1, <3>2
  <2> QED  BY <1>1, <2>2, <2>3 DEF OriginInv, CalledOK, NotifiedOK, HadIdentity
<1>7. "set" \in Effects /\ "clear" \in Effects /\ "kind" \in Caches /\ "identity" \in Caches
      /\ Other("set") = "clear" /\ Other("clear") = "set"
  BY DEF Effects, Caches, Other
<1>8. ASSUME NEW l \in Kinds, NEW effect \in Effects, NEW c \in Caches, NEW place
      PROVE  /\ Pending(l, effect, c, place) =>
                   Pending(l, effect, c, place)' \/ (l = k /\ Has(call, effect, c, place))
             /\ EndsWith(l, effect, c, place) => EndsWith(l, effect, c, place)'
             /\ EndsWith(k, effect, c, place) /\ Has(call, Other(effect), c, place) =>
                   Pending(k, effect, c, place)'
             /\ Needed(l, place)' <=> Needed(l, place)
  BY <1>1, MakesKeeps, NeededFrame
<1>9. \A i : Has(call, "set", "identity", KeysOf(i)) <=>
                call.op = "AddClusterToIdentity" /\ call.key[1] = i
  BY <1>4 DEF Has, OpOf, KeysOf, Keys
<1>10. \A i : Has(call, "clear", "identity", KeysOf(i)) <=>
                call.op = "DeleteClusterFromIdentity" /\ call.key[1] = i
  BY <1>4 DEF Has, OpOf, KeysOf, Keys
<1>11. \A key : PlaceOf("kind", key) = {key} /\ PlaceOf("identity", key) = KeysOf(key[1])
  BY DEF PlaceOf
<1>12. LingerInv'
  <2>1. ASSUME NEW l \in Kinds, NEW c \in Caches, NEW key \in Keys
        PROVE  EndsWith(l, "clear", c, PlaceOf(c, key))' \/ Needed(l, PlaceOf(c, key))'
    <3>1. PICK place : place = PlaceOf(c, key)
      OBVIOUS
    <3>2. EndsWith(l, "clear", c, place) \/ Needed(l, place)
      BY <3>1 DEF LingerInv
    <3> QED  BY <1>7, <1>8, <3>1, <3>2
  <2>2. ASSUME NEW l \in Kinds, NEW key \in Keys, cache'[l][key] # NoWorkload
        PROVE  Pending(l, "clear", "kind", {key})' \/ Needed(l, {key})'
    <3>1. CASE l = k /\ Has(call, "set", "kind", {key})
      <4>1. EndsWith(k, "clear", "kind", {key}) \/ Needed(k, {key})
        <5>1. EndsWith(k, "clear", "kind", PlaceOf("kind", key)) \/ Needed(k, PlaceOf("kind", key))
          BY <1>7 DEF LingerInv
        <5> QED  BY <1>11, <5>1
      <4> QED  BY <1>7, <1>8, <3>1, <4>1
    <3>2. CASE ~(l = k /\ Has(call, "set", "kind", {key}))
      <4>1. cache[l][key] # NoWorkload /\ ~(l = k /\ Has(call, "clear", "kind", {key}))
        BY <2>2, <3>2 DEF Stores
      <4>2. Pending(l, "clear", "kind", {key}) \/ Needed(l, {key})
        BY <4>1 DEF LingerInv
      <4> QED  BY <1>7, <1>8, <4>1, <4>2
    <3> QED  BY <3>1, <3>2
  <2>3. ASSUME NEW i \in identityCluster'
        PROVE  \E l \in Kinds : Pending(l, "clear", "identity", KeysOf(i))' \/ Needed(l, KeysOf(i))'
    <3>1. CASE Has(call, "set", "identity", KeysOf(i))
      <4>1. PlaceOf("identity", call.key) = KeysOf(i)
        BY <1>9, <1>11, <3>1
      <4>2. EndsWith(k, "clear", "identity", KeysOf(i)) \/ Needed(k, KeysOf(i))
        <5>1. EndsWith(k, "clear", "identity", PlaceOf("identity", call.key))
              \/ Needed(k, PlaceOf("identity", call.key))
          BY <1>4, <1>7 DEF LingerInv
        <5> QED  BY <4>1, <5>1
      <4> QED  BY <1>7, <1>8, <3>1, <4>2
    <3>2. CASE ~Has(call, "set", "identity", KeysOf(i))
      <4>1. i \in identityCluster /\ ~Has(call, "clear", "identity", KeysOf(i))
        BY <1>9, <1>10, <2>3, <3>2 DEF Stores
      <4>2. PICK l \in Kinds : Pending(l, "clear", "identity", KeysOf(i)) \/ Needed(l, KeysOf(i))
        BY <4>1 DEF LingerInv
      <4> QED  BY <1>7, <1>8, <4>1, <4>2
    <3> QED  BY <3>1, <3>2
  <2> QED  BY <2>1, <2>2, <2>3 DEF LingerInv
<1>13. ASSUME NEW w \in Workloads, Own(w)', NEW key \in Keys, KeyOf(spec'[w]) = key
       PROVE  KnownAt(KindOf(w), key)'
  <2>1. PICK l \in Kinds : l = KindOf(w)
    BY DEF KindOf, Kinds
  <2>2. Own(w) /\ KeyOf(spec[w]) = key
    BY <1>1, <1>13 DEF Own
  <2>3. KnownAt(l, key)
    BY <2>1, <2>2 DEF KnownInv
  <2>4. call.key[1] = key[1] => k = l
    <3>1. key[1] = spec[w].identity
      BY <2>2 DEF KeyOf
    <3> QED  BY <1>4, <2>1, <2>2, <3>1 DEF Own, CalledOK
  <2>5. \A c \in Caches : EndsWith(l, "set", c, PlaceOf(c, key))'
    <3> TAKE c \in Caches
    <3>1. EndsWith(l, "set", c, PlaceOf(c, key))
      BY <2>3 DEF KnownAt
    <3> QED  BY <1>7, <1>8, <3>1
  <2>6. cache'[l][key] = NoWorkload => Pending(l, "set", "kind", {key})'
    <3> SUFFICES ASSUME cache'[l][key] = NoWorkload  PROVE Pending(l, "set", "kind", {key})'
      OBVIOUS
    <3>1. ~(l = k /\ Has(call, "set", "kind", {key}))
      BY <1>4 DEF Stores, WorkloadAssumption
    <3>2. CASE l = k /\ Has(call, "clear", "kind", {key})
      <4>1. EndsWith(l, "set", "kind", {key})
        BY <1>7, <1>11, <2>3 DEF KnownAt
      <4> QED  BY <1>7, <1>8, <3>2, <4>1
    <3>3. CASE ~(l = k /\ Has(call, "clear", "kind", {key}))
      <4>1. cache[l][key] = NoWorkload
        BY <3>1, <3>3 DEF Stores
      <4>2. Pending(l, "set", "kind", {key})
        BY <2>3, <4>1 DEF KnownAt
      <4> QED  BY <1>7, <1>8, <3>1, <4>2
    <3> QED  BY <3>2, <3>3
  <2>7. key[1] \notin identityCluster' => Pending(l, "set", "identity", KeysOf(key[1]))'
    <3> SUFFICES ASSUME key[1] \notin identityCluster'
                 PROVE  Pending(l, "set", "identity", KeysOf(key[1]))'
      OBVIOUS
    <3>1. ~Has(call, "set", "identity", KeysOf(key[1]))
      BY <1>9 DEF Stores
    <3>2. CASE Has(call, "clear", "identity", KeysOf(key[1]))
      <4>1. l = k
        BY <1>10, <2>4, <3>2
      <4>2. EndsWith(l, "set", "identity", KeysOf(key[1]))
        BY <1>7, <1>11, <2>3 DEF KnownAt
      <4> QED  BY <1>7, <1>8, <3>2, <4>1, <4>2
    <3>3. CASE ~Has(call, "clear", "identity", KeysOf(key[1]))
      <4>1. key[1] \notin identityCluster
        BY <1>10, <3>3 DEF Stores
      <4>2. Pending(l, "set", "identity", KeysOf(key[1]))
        BY <2>3, <4>1 DEF KnownAt
      <4> QED  BY <1>7, <1>8, <3>1, <4>2
    <3> QED  BY <3>2, <3>3
  <2> QED  BY <2>1, <2>5, <2>6, <2>7 DEF KnownAt
<1> QED  BY <1>5, <1>6, <1>12, <1>13 DEF KnownInv

\* Two calls, and two more.
LEMMA PairFacts ==
  ASSUME NEW S, NEW a \in S, NEW b \in S, NEW c \in S, NEW d \in S
  PROVE  /\ <<a, b>> \in Seq(S) /\ Len(<<a, b>>) = 2
         /\ {<<a, b>>[i] : i \in 1 .. 2} = {a, b}
         /\ <<a, b>> \o <<c, d>> \in Seq(S) /\ Len(<<a, b>> \o <<c, d>>) = 4
         /\ {(<<a, b>> \o <<c, d>>)[i] : i \in 1 .. 4} = {a, b, c, d}
<1>1. Len(<<a, b>>) = 2 /\ <<a, b>> \in Seq(S) /\ <<a, b>>[1] = a /\ <<a, b>>[2] = b
  OBVIOUS
<1>2. Len(<<c, d>>) = 2 /\ <<c, d>> \in Seq(S) /\ <<c, d>>[1] = c /\ <<c, d>>[2] = d
  OBVIOUS
<1> DEFINE p == <<a, b>> r == <<c, d>> s == p \o r
<1> HIDE DEF p, r
<1>3. s \in Seq(S) /\ Len(s) = 4 /\ s[1] = a /\ s[2] = b /\ s[3] = c /\ s[4] = d
  BY <1>1, <1>2 DEF p, r
<1> HIDE DEF s
<1>4. {s[i] : i \in 1 .. 4} = {a, b, c, d}
  BY <1>3
<1> QED  BY <1>1, <1>3, <1>4 DEF s, p, r

\* A handler makes the calls for its notification.
LEMMA HandlesTakes ==
  ASSUME WorkloadAssumption, IInv, NEW k \in Kinds,
         Added(k) \/ Updated(k) \/ Deleted(k) \/ DeletedTombstone(k)
  PROVE  /\ calls' \in [Kinds -> Seq(CallsOfCaches)]
         /\ UNCHANGED <<spec, cache, identityCluster, historyVars>>
         /\ \E n \in Notifications : Takes(k, n)
<1> USE DEF IInv
<1>1. queue[k] # <<>> /\ calls[k] = <<>>
  BY DEF Added, Updated, Deleted, DeletedTombstone, Handle
<1>2. PICK n \in Notifications : n = Head(queue[k]) /\ NotifiedOK(k, n)
  <2>1. queue[k] \in Seq(Notifications)
    BY DEF TypeOK
  <2>2. Len(queue[k]) \in Nat \ {0} /\ Head(queue[k]) = queue[k][1] /\ queue[k][1] \in Notifications
    BY <1>1, <2>1, TailFacts
  <2> QED  BY <2>2 DEF OriginInv
<1> DEFINE ac == Call("AddClusterToIdentity", n.workload, n.new)
           a == Call("Add", n.workload, n.new)
           dc == Call("DeleteClusterFromIdentity", n.workload, n.old)
           d == Call("Delete", n.workload, n.old)
<1>3. \A call \in CallsFor(n) : call \in CallsOfCaches
  BY <1>2, CallsForOK
<1>4. /\ Enters(n) => ac \in CallsOfCaches /\ a \in CallsOfCaches
      /\ Leaves(n) => dc \in CallsOfCaches /\ d \in CallsOfCaches
  BY <1>3 DEF CallsFor
<1>5. CallsFor(n) = {call \in {ac, a} : Enters(n)} \cup {call \in {dc, d} : Leaves(n)}
  BY DEF CallsFor
<1>6. ASSUME NEW type, NEW made \in Seq(CallsOfCaches), Handle(k, type, made),
             {made[i] : i \in 1 .. Len(made)} = CallsFor(n)
      PROVE  /\ calls' \in [Kinds -> Seq(CallsOfCaches)] /\ Takes(k, n)
             /\ UNCHANGED <<spec, cache, identityCluster, historyVars>>
  <2>1. calls' = [calls EXCEPT ![k] = made] /\ queue' = [queue EXCEPT ![k] = Tail(@)]
        /\ UNCHANGED <<spec, cache, identityCluster, historyVars>>
    BY <1>6 DEF Handle
  <2>2. calls'[k] = made /\ \A l \in Kinds \ {k} : calls'[l] = calls[l]
    BY <2>1 DEF TypeOK
  <2>3. calls' \in [Kinds -> Seq(CallsOfCaches)]
    BY <2>1 DEF TypeOK
  <2> QED  BY <1>1, <1>2, <1>6, <2>1, <2>2, <2>3 DEF Takes
<1>7. <<>> \in Seq(CallsOfCaches) /\ {<<>>[i] : i \in 1 .. Len(<<>>)} = {}
  OBVIOUS
<1>8. /\ Enters(n) => <<ac, a>> \in Seq(CallsOfCaches)
                      /\ {<<ac, a>>[i] : i \in 1 .. Len(<<ac, a>>)} = {ac, a}
      /\ Leaves(n) => <<d, dc>> \in Seq(CallsOfCaches)
                      /\ {<<d, dc>>[i] : i \in 1 .. Len(<<d, dc>>)} = {d, dc}
      /\ Enters(n) /\ Leaves(n) =>
            /\ <<dc, d>> \o <<ac, a>> \in Seq(CallsOfCaches)
            /\ {(<<dc, d>> \o <<ac, a>>)[i] : i \in 1 .. Len(<<dc, d>> \o <<ac, a>>)} = {dc, d, ac, a}
      /\ Enters(n) => <<>> \o <<ac, a>> = <<ac, a>>
  <2> HIDE DEF ac, a, dc, d
  <2> QED  BY <1>4, PairFacts
<1>9. CASE Added(k)
  <2>1. n.type = "add" /\ Handle(k, "add", IF Admitted(n.new) THEN <<ac, a>> ELSE <<>>)
    BY <1>2, <1>9 DEF Added, Handle, AddCalls
  <2>2. ~Leaves(n) /\ (Enters(n) <=> Admitted(n.new))
    BY <2>1 DEF Leaves, Enters
  <2> HIDE DEF ac, a, dc, d
  <2>3. CallsFor(n) = IF Admitted(n.new) THEN {ac, a} ELSE {}
    BY <1>5, <2>2
  <2> QED  BY <1>6, <1>7, <1>8, <2>1, <2>2, <2>3
<1>10. CASE Updated(k)
  <2>1. n.type = "update"
        /\ Handle(k, "update", IF Admitted(n.new) THEN MovedCalls(n) \o <<ac, a>> ELSE <<>>)
    BY <1>2, <1>10 DEF Updated, Handle, AddCalls
  <2>2. (Leaves(n) <=> Admitted(n.new) /\ n.old.identity \notin {NoIdentity, n.new.identity})
        /\ (Enters(n) <=> Admitted(n.new))
    BY <2>1 DEF Leaves, Enters
  <2>3. MovedCalls(n) = IF n.old.identity \in {NoIdentity, n.new.identity} THEN <<>> ELSE <<dc, d>>
    BY DEF MovedCalls
  <2> HIDE DEF ac, a, dc, d
  <2>4. CASE ~Admitted(n.new)
    <3>1. CallsFor(n) = {}
      BY <1>5, <2>2, <2>4
    <3> QED  BY <1>6, <1>7, <2>1, <2>4, <3>1
  <2>5. CASE Admitted(n.new) /\ ~Leaves(n)
    <3>1. CallsFor(n) = {ac, a}
      BY <1>5, <2>2, <2>5
    <3>2. Handle(k, "update", <<ac, a>>)
      BY <1>8, <2>1, <2>2, <2>3, <2>5
    <3> QED  BY <1>6, <1>8, <2>2, <2>5, <3>1, <3>2
  <2>6. CASE Leaves(n)
    <3>1. CallsFor(n) = {dc, d, ac, a}
      BY <1>5, <2>2, <2>6
    <3>2. Handle(k, "update", <<dc, d>> \o <<ac, a>>)
      BY <2>1, <2>2, <2>3, <2>6
    <3> QED  BY <1>6, <1>8, <2>2, <2>6, <3>1, <3>2
  <2> QED  BY <2>4, <2>5, <2>6
<1>11. CASE Deleted(k)
  <2>1. n.type = "delete" /\ Handle(k, "delete", IF Admitted(n.old) THEN <<d, dc>> ELSE <<>>)
    BY <1>2, <1>11 DEF Deleted, Handle
  <2>2. ~Enters(n) /\ (Leaves(n) <=> Admitted(n.old))
    BY <2>1 DEF Leaves, Enters
  <2> HIDE DEF ac, a, dc, d
  <2>3. CallsFor(n) = IF Admitted(n.old) THEN {d, dc} ELSE {}
    BY <1>5, <2>2
  <2> QED  BY <1>6, <1>7, <1>8, <2>1, <2>2, <2>3
<1>12. CASE DeletedTombstone(k)
  <2>1. n.type = "tombstone" /\ Handle(k, "tombstone", <<>>)
    BY <1>2, <1>12 DEF DeletedTombstone, Handle
  <2>2. CallsFor(n) = {}
    BY <1>5, <2>1 DEF Leaves, Enters
  <2> QED  BY <1>6, <1>7, <2>1, <2>2
<1> QED  BY <1>9, <1>10, <1>11, <1>12

\* A handler's next call is the head of its calls.
LEMMA MakesFacts ==
  ASSUME WorkloadAssumption, IInv, NEW k \in Kinds,
         AddClusterToIdentity(k) \/ DeleteClusterFromIdentity(k) \/ Add(k) \/ Delete(k)
  PROVE  /\ cache' \in [Kinds -> [Keys -> Workloads \cup {NoWorkload}]]
         /\ identityCluster' \subseteq Identities
         /\ UNCHANGED <<spec, historyVars>>
         /\ \E call \in CallsOfCaches : Makes(k, call) /\ Stores(k, call)
<1> USE DEF IInv
<1>1. calls[k] # <<>> /\ UNCHANGED <<spec, queue, historyVars>>
      /\ calls' = [calls EXCEPT ![k] = Tail(@)]
  BY DEF AddClusterToIdentity, DeleteClusterFromIdentity, Add, Delete, Make
<1>2. PICK call \in CallsOfCaches : call = Head(calls[k])
  <2>1. calls[k] \in Seq(CallsOfCaches)
    BY DEF TypeOK
  <2> QED  BY <1>1, <2>1, TailFacts
<1>3. Makes(k, call)
  BY <1>1, <1>2 DEF Makes
<1>4. call.key \in Keys /\ call.workload \in Workloads /\ call.key[1] \in Identities
  BY <1>2 DEF CallsOfCaches, Keys
<1>5. CASE AddClusterToIdentity(k)
  <2>1. /\ call.op = "AddClusterToIdentity" /\ cache' = cache
        /\ identityCluster' = identityCluster \cup {call.key[1]}
    BY <1>2, <1>5 DEF AddClusterToIdentity, Make
  <2>2. Stores(k, call)
    BY <2>1 DEF Stores, Has, OpOf
  <2> QED  BY <1>1, <1>3, <1>4, <2>1, <2>2 DEF TypeOK
<1>6. CASE DeleteClusterFromIdentity(k)
  <2>1. /\ call.op = "DeleteClusterFromIdentity" /\ cache' = cache
        /\ identityCluster' = identityCluster \ {call.key[1]}
    BY <1>2, <1>6 DEF DeleteClusterFromIdentity, Make
  <2>2. Stores(k, call)
    BY <2>1 DEF Stores, Has, OpOf
  <2> QED  BY <1>1, <1>3, <1>4, <2>1, <2>2 DEF TypeOK
<1>7. CASE Add(k)
  <2>1. /\ call.op = "Add" /\ identityCluster' = identityCluster
        /\ cache' = [cache EXCEPT ![k][call.key] = call.workload]
    BY <1>2, <1>7 DEF Add, Make
  <2>2. \A l \in Kinds, key \in Keys :
           cache'[l][key] = IF l = k /\ key = call.key THEN call.workload ELSE cache[l][key]
    BY <1>4, <2>1 DEF TypeOK
  <2>3. Stores(k, call)
    BY <2>1, <2>2 DEF Stores, Has, OpOf
  <2>4. cache' \in [Kinds -> [Keys -> Workloads \cup {NoWorkload}]]
    BY <1>4, <2>1 DEF TypeOK
  <2> QED  BY <1>1, <1>3, <2>1, <2>3, <2>4 DEF TypeOK
<1>8. CASE Delete(k)
  <2>1. /\ call.op = "Delete" /\ identityCluster' = identityCluster
        /\ cache' = [cache EXCEPT ![k][call.key] = NoWorkload]
    BY <1>2, <1>8 DEF Delete, Make
  <2>2. \A l \in Kinds, key \in Keys :
           cache'[l][key] = IF l = k /\ key = call.key THEN NoWorkload ELSE cache[l][key]
    BY <1>4, <2>1 DEF TypeOK
  <2>3. Stores(k, call)
    BY <2>1, <2>2 DEF Stores, Has, OpOf
  <2>4. cache' \in [Kinds -> [Keys -> Workloads \cup {NoWorkload}]]
    BY <1>4, <2>1 DEF TypeOK
  <2> QED  BY <1>1, <1>3, <2>1, <2>3, <2>4 DEF TypeOK
<1> QED  BY <1>5, <1>6, <1>7, <1>8

\* Every step keeps the invariant.
LEMMA NextIInv == ASSUME WorkloadAssumption  PROVE IInv /\ [Next]_vars => IInv'
<1> SUFFICES ASSUME IInv, [Next]_vars  PROVE IInv'
  OBVIOUS
<1>1. ASSUME NEW w \in Workloads,
             \/ \E s \in Specs : WorkloadAdded(w, s) \/ WorkloadUpdated(w, s)
             \/ WorkloadDeleted(w) \/ DeletionMissed(w) \/ Resync(w)
      PROVE  IInv'
  BY <1>1, ClusterStep
<1>2. ASSUME NEW k \in Kinds, Handler(k)  PROVE IInv'
  <2>1. CASE Added(k) \/ Updated(k) \/ Deleted(k) \/ DeletedTombstone(k)
    BY <2>1, HandlesTakes, TakesStep
  <2>2. CASE AddClusterToIdentity(k) \/ DeleteClusterFromIdentity(k) \/ Add(k) \/ Delete(k)
    BY <2>2, MakesFacts, MakesStep
  <2> QED  BY <1>2, <2>1, <2>2 DEF Handler
<1>3. CASE UNCHANGED vars
  <2>1. UNCHANGED <<spec, queue, calls, cache, identityCluster, orphans, everHad>>
    BY <1>3 DEF vars
  <2>2. TypeOK' /\ OriginInv'
    BY <2>1 DEF IInv, TypeOK, OriginInv, HadIdentity, NotifiedOK, CalledOK
  <2>3. ASSUME NEW l, NEW effect, NEW c, NEW place
        PROVE  /\ Pending(l, effect, c, place)' <=> Pending(l, effect, c, place)
               /\ EndsWith(l, effect, c, place)' <=> EndsWith(l, effect, c, place)
               /\ Needed(l, place)' <=> Needed(l, place)
    BY <2>1 DEF Pending, PendingIn, EndsWith, CallsEndWith, QueueEndsWith, Needed
  <2>4. LingerInv'
    BY <2>1, <2>3 DEF IInv, LingerInv
  <2>5. KnownInv'
    BY <2>1, <2>3 DEF IInv, KnownInv, KnownAt, Own
  <2> QED  BY <2>2, <2>4, <2>5 DEF IInv
<1> QED  BY <1>1, <1>2, <1>3 DEF Next

\* The invariant holds throughout.
THEOREM Inductive == ASSUME WorkloadAssumption  PROVE Spec => []IInv
<1>1. Init => IInv
  BY InitIInv
<1>2. IInv /\ [Next]_vars => IInv'
  BY NextIInv
<1> QED  BY <1>1, <1>2, PTL DEF Spec

-----------------------------------------------------------------------------
(* The theorems.                                                            *)

\* However changes, resyncs and calls of both controllers interleave, once all is
\* handled nothing is left of a workload that is gone, but for orphans.
THEOREM OrphansLinger == ASSUME WorkloadAssumption  PROVE Spec => []OnlyOrphansLinger
<1>1. IInv => OnlyOrphansLinger
  <2> SUFFICES ASSUME IInv, Drained  PROVE OnlyOrphansLinger
    BY DEF OnlyOrphansLinger
  <2>1. \A k \in Kinds, effect \in Effects, c \in Caches : Len(queue[k]) = 0 /\ Len(calls[k]) = 0
    BY DEF Drained
  <2>2. ASSUME NEW k \in Kinds, NEW effect, NEW c, NEW place  PROVE ~Pending(k, effect, c, place)
    BY <2>1 DEF Pending, PendingIn, Effects, Caches
  <2>3. ASSUME NEW k \in Kinds, NEW key \in Keys, cache[k][key] # NoWorkload
        PROVE  Holders(k, key) # {} \/ <<k, key>> \in orphans
    <3>1. Needed(k, {key})
      BY <2>2, <2>3 DEF IInv, LingerInv
    <3> QED  BY <3>1 DEF Needed, Holders
  <2>4. ASSUME NEW i \in identityCluster
        PROVE  \/ \E w \in Workloads : Admitted(spec[w]) /\ spec[w].identity = i
               \/ \E o \in orphans : o[2][1] = i
    <3>1. PICK k \in Kinds : Needed(k, KeysOf(i))
      BY <2>2, <2>4 DEF IInv, LingerInv
    <3>2. \A key \in KeysOf(i) : key[1] = i /\ <<k, key>>[2] = key
      BY DEF KeysOf
    <3>3. \A s : KeyOf(s)[1] = s.identity
      BY DEF KeyOf
    <3> QED  BY <3>1, <3>2, <3>3 DEF Needed
  <2> QED  BY <2>3, <2>4 DEF OnlyOrphansLinger
<1> QED  BY <1>1, Inductive, PTL

\* A workload whose identity no other ever had is known once all is handled.
THEOREM OwnIsKnown == ASSUME WorkloadAssumption  PROVE Spec => []OwnIdentityIsKnown
<1>1. IInv => OwnIdentityIsKnown
  <2> SUFFICES ASSUME IInv, Drained, NEW w \in Workloads, Admitted(spec[w]),
                      \A v \in Workloads \ {w} : spec[w].identity \notin everHad[v]
               PROVE  Known(w)
    BY DEF OwnIdentityIsKnown
  <2> DEFINE k == KindOf(w) key == KeyOf(spec[w])
  <2>1. k \in Kinds /\ key \in Keys /\ key[1] = spec[w].identity
    BY KeyFacts DEF IInv, TypeOK, KindOf, Kinds
  <2>2. Len(queue[k]) = 0 /\ Len(calls[k]) = 0
    BY <2>1 DEF Drained
  <2>3. ~Pending(k, "set", "kind", {key}) /\ ~Pending(k, "set", "identity", KeysOf(key[1]))
    BY <2>2 DEF Pending, PendingIn
  <2>4. KnownAt(k, key)
    BY <2>1 DEF IInv, KnownInv, Own
  <2>5. cache[k][key] # NoWorkload /\ key[1] \in identityCluster
    BY <2>3, <2>4 DEF KnownAt
  <2>6. cache[k][key] \in Workloads /\ KindOf(cache[k][key]) = k /\ key[1] \in everHad[cache[k][key]]
    BY <2>1, <2>5 DEF IInv, TypeOK, OriginInv
  <2>7. cache[k][key] = w
    BY <2>1, <2>6
  <2>8. w \in Holders(k, key)
    BY DEF Holders
  <2> QED  BY <2>1, <2>5, <2>7, <2>8 DEF Known
<1> QED  BY <1>1, Inductive, PTL
=============================================================================
