-------------------------- MODULE ClusterCachesProofs --------------------------
(***************************************************************************)
(* What the caches have of a cluster when everything is handled.  First    *)
(* its services, for any number of services, changes and restarts of the   *)
(* controller, and queues of any length; then its workloads, of which      *)
(* WorkloadCachesProofs shows the same.                                    *)
(***************************************************************************)
EXTENDS ClusterCaches, FiniteSetTheorems, TLAPS

Events == [type : {"add", "update", "delete", "tombstone"}, name : Names, version : Nat]

TypeOK ==
    /\ service \in [Names -> Nat] /\ serviceChanges \in Nat
    /\ started \in 0 .. MaxStarts /\ watching \in BOOLEAN
    /\ watching => started # 0
    /\ serviceQueue \in [Controllers -> Seq(Events)]
    /\ \A g \in Controllers : g > started => serviceQueue[g] = <<>>

About(q, s) == {i \in 1 .. Len(q) : q[i].name = s}
IsLast(q, s, i) == i \in About(q, s) /\ \A j \in About(q, s) : j <= i

\* The last notification of a service that waits for the current controller tells
\* what became of it, unless the service went unseen.
LastTells ==
    \A s \in Names, g \in Controllers : \A i \in 1 .. Len(serviceQueue[g]) :
        LET e == serviceQueue[g][i]
        IN  g = started /\ IsLast(serviceQueue[g], s, i) =>
                IF service[s] = None THEN e.type # "delete" => s \in missed
                ELSE watching => e.type \in {"add", "update"} /\ e.version = service[s]

Awaited(s) == \E g \in Controllers : About(serviceQueue[g], s) # {}

\* Of a service no notification waits for, the cache knows what there is: unless
\* it went unseen, or a replaced controller handled it last.
CacheTells ==
    \A s \in Names :
        ~Awaited(s) /\ s \notin overtaken =>
            IF service[s] = None THEN Cached(s) = None \/ s \in missed
            ELSE watching => Cached(s) = service[s]

IInv == TypeOK /\ LastTells /\ CacheTells

-----------------------------------------------------------------------------
(* Notifications and queues.                                                *)

\* Notifications are what Event makes of a type, a name and a version.
LEMMA EventFields ==
    ASSUME NEW type \in {"add", "update", "delete", "tombstone"}, NEW s \in Names, NEW v \in Nat
    PROVE  /\ Event(type, s, v) \in Events /\ Event(type, s, v).type = type
           /\ Event(type, s, v).name = s /\ Event(type, s, v).version = v
  BY DEF Event, Events

\* A queue after a notification came.
LEMMA Appended ==
    ASSUME NEW q \in Seq(Events), NEW e \in Events
    PROVE  /\ Append(q, e) \in Seq(Events) /\ Len(q) \in Nat
           /\ Len(Append(q, e)) = Len(q) + 1 /\ Append(q, e)[Len(q) + 1] = e
           /\ \A i \in 1 .. Len(q) : Append(q, e)[i] = q[i]
  OBVIOUS

\* What a new notification is the last of, and what it leaves alone.
LEMMA AppendedLast ==
    ASSUME NEW q \in Seq(Events), NEW e \in Events, NEW s \in Names
    PROVE  LET r == Append(q, e)
           IN  /\ e.name # s => About(r, s) = About(q, s)
               /\ e.name # s => \A i \in 1 .. Len(r) : IsLast(r, s, i) =>
                                    i \in 1 .. Len(q) /\ IsLast(q, s, i) /\ r[i] = q[i]
               /\ e.name = s => /\ About(r, s) # {}
                                /\ \A i \in 1 .. Len(r) : IsLast(r, s, i) => r[i] = e
<1> DEFINE r == Append(q, e)
<1>1. /\ Len(q) \in Nat /\ Len(r) = Len(q) + 1 /\ r[Len(q) + 1] = e
      /\ \A i \in 1 .. Len(q) : r[i] = q[i]
  BY Appended
<1> HIDE DEF r
<1>2. ASSUME e.name # s  PROVE About(r, s) = About(q, s)
  BY <1>1, <1>2 DEF About
<1>3. ASSUME e.name # s, NEW i \in 1 .. Len(r), IsLast(r, s, i)
      PROVE  i \in 1 .. Len(q) /\ IsLast(q, s, i) /\ r[i] = q[i]
  BY <1>1, <1>2, <1>3 DEF IsLast, About
<1>4. ASSUME e.name = s
      PROVE  /\ About(r, s) # {}
             /\ \A i \in 1 .. Len(r) : IsLast(r, s, i) => r[i] = e
  <2>1. Len(q) + 1 \in About(r, s)
    BY <1>1, <1>4 DEF About
  <2>2. \A i \in 1 .. Len(r) : IsLast(r, s, i) => i = Len(q) + 1
    BY <1>1, <2>1 DEF IsLast
  <2> QED  BY <1>1, <2>1, <2>2
<1> QED  BY <1>2, <1>3, <1>4 DEF r

\* A queue after its first notification was handled.
LEMMA Handled ==
    ASSUME NEW q \in Seq(Events), q # <<>>
    PROVE  /\ Len(q) \in Nat \ {0} /\ Head(q) = q[1] /\ Head(q) \in Events
           /\ Tail(q) \in Seq(Events) /\ Len(Tail(q)) = Len(q) - 1
           /\ \A i \in 1 .. Len(q) - 1 : Tail(q)[i] = q[i + 1]
  OBVIOUS

\* The last of those left was the last before; if none is left the first was it.
LEMMA HandledLast ==
    ASSUME NEW q \in Seq(Events), q # <<>>, NEW s \in Names
    PROVE  /\ \A i \in 1 .. Len(Tail(q)) : IsLast(Tail(q), s, i) =>
                  i + 1 \in 1 .. Len(q) /\ IsLast(q, s, i + 1) /\ Tail(q)[i] = q[i + 1]
           /\ About(Tail(q), s) = {} /\ Head(q).name = s => IsLast(q, s, 1)
           /\ About(Tail(q), s) = {} /\ Head(q).name # s => About(q, s) = {}
<1> DEFINE t == Tail(q)
<1>1. /\ Len(q) \in Nat \ {0} /\ Head(q) = q[1] /\ Len(t) = Len(q) - 1
      /\ \A i \in 1 .. Len(q) - 1 : t[i] = q[i + 1]
  BY Handled
<1> HIDE DEF t
<1>2. \A i \in 1 .. Len(t) : i \in About(t, s) <=> i + 1 \in About(q, s)
  BY <1>1 DEF About
<1>3. \A j \in About(q, s) : j = 1 \/ (j - 1 \in 1 .. Len(t) /\ j - 1 \in About(t, s) /\ j \in Nat)
  BY <1>1 DEF About
<1>4. ASSUME NEW i \in 1 .. Len(t), IsLast(t, s, i)
      PROVE  i + 1 \in 1 .. Len(q) /\ IsLast(q, s, i + 1) /\ t[i] = q[i + 1]
  <2>1. i + 1 \in About(q, s) /\ \A j \in About(t, s) : j <= i
    BY <1>2, <1>4 DEF IsLast
  <2>2. \A j \in About(q, s) : j <= i + 1
    BY <1>1, <1>3, <2>1
  <2> QED  BY <1>1, <2>1, <2>2 DEF IsLast
<1>5. ASSUME About(t, s) = {}, Head(q).name = s  PROVE IsLast(q, s, 1)
  <2>1. 1 \in About(q, s)
    BY <1>1, <1>5 DEF About
  <2>2. \A j \in About(q, s) : j <= 1
    BY <1>3, <1>5
  <2> QED  BY <2>1, <2>2 DEF IsLast
<1>6. ASSUME About(t, s) = {}, Head(q).name # s  PROVE About(q, s) = {}
  <2>1. 1 \notin About(q, s)
    BY <1>1, <1>6 DEF About
  <2> QED  BY <1>3, <1>6, <2>1
<1> QED  BY <1>4, <1>5, <1>6 DEF t

-----------------------------------------------------------------------------
(* The cache.                                                               *)

\* Adding a service changes what is cached of it and of no other.
LEMMA AddCaches ==
    ASSUME NEW e \in Events, Add(e)
    PROVE  /\ Cached(e.name)' = e.version
           /\ \A s \in Names : s # e.name => Cached(s)' = Cached(s)
<1> DEFINE ns == e.name[1]
<1> DEFINE in == With(ServicesIn(ns), e.name[2], e.version)
<1>1. e.name \in Names /\ e.name = <<ns, e.name[2]>>
  BY ServiceAssumption DEF Events
<1>2. servicecache' = With(servicecache, ns, in)
  BY DEF Add
<1>3. ServicesIn(ns)' = in /\ \A n : n # ns => ServicesIn(n)' = ServicesIn(n)
  BY <1>2 DEF ServicesIn, With
<1>4. /\ e.name[2] \in DOMAIN in /\ in[e.name[2]] = e.version
      /\ \A n : n # e.name[2] =>
            /\ n \in DOMAIN in <=> n \in DOMAIN ServicesIn(ns)
            /\ n \in DOMAIN in => in[n] = ServicesIn(ns)[n]
  BY DEF With
<1> HIDE DEF ns, in
<1>5. ASSUME NEW s \in Names, s # e.name  PROVE Cached(s)' = Cached(s)
  <2>1. s = <<s[1], s[2]>>
    BY ServiceAssumption
  <2>2. CASE s[1] = ns
    <3>1. s[2] # e.name[2]
      BY <1>1, <1>5, <2>1, <2>2
    <3> QED  BY <1>3, <1>4, <2>2, <3>1 DEF Cached
  <2>3. CASE s[1] # ns
    BY <1>3, <2>3 DEF Cached
  <2> QED  BY <2>2, <2>3
<1>6. Cached(e.name)' = e.version
  BY <1>3, <1>4 DEF Cached, ns
<1> QED  BY <1>5, <1>6

\* Deleting a service leaves nothing of it and all of the others, whether or not
\* its namespace is dropped.
LEMMA DeleteCaches ==
    ASSUME NEW e \in Events, Delete(e)
    PROVE  /\ Cached(e.name)' = None
           /\ \A s \in Names : s # e.name => Cached(s)' = Cached(s)
<1> DEFINE ns == e.name[1]
<1> DEFINE left == Without(ServicesIn(ns), e.name[2])
<1>1. e.name \in Names /\ e.name = <<ns, e.name[2]>>
  BY ServiceAssumption DEF Events
<1>2. servicecache' = IF DOMAIN left = {} THEN Without(servicecache, ns)
                      ELSE With(servicecache, ns, left)
  BY DEF Delete
<1>3. /\ e.name[2] \notin DOMAIN left
      /\ \A n : n # e.name[2] =>
            /\ n \in DOMAIN left <=> n \in DOMAIN ServicesIn(ns)
            /\ n \in DOMAIN left => left[n] = ServicesIn(ns)[n]
  BY DEF Without
<1> HIDE DEF ns, left
<1>4. \A n : n # ns => ServicesIn(n)' = ServicesIn(n)
  BY <1>2 DEF ServicesIn, With, Without
<1>5. \/ DOMAIN left = {} /\ ServicesIn(ns)' = <<>>
      \/ ServicesIn(ns)' = left
  BY <1>2 DEF ServicesIn, With, Without
<1>6. \A n : /\ n \in DOMAIN ServicesIn(ns)' <=> n \in DOMAIN left
             /\ n \in DOMAIN left => ServicesIn(ns)'[n] = left[n]
  <2>1. DOMAIN <<>> = {}
    OBVIOUS
  <2> QED  BY <1>5, <2>1
<1>7. ASSUME NEW s \in Names, s # e.name  PROVE Cached(s)' = Cached(s)
  <2>1. s = <<s[1], s[2]>>
    BY ServiceAssumption
  <2>2. CASE s[1] = ns
    <3>1. s[2] # e.name[2]
      BY <1>1, <1>7, <2>1, <2>2
    <3> QED  BY <1>3, <1>6, <2>2, <3>1 DEF Cached
  <2>3. CASE s[1] # ns
    BY <1>4, <2>3 DEF Cached
  <2> QED  BY <2>2, <2>3
<1>8. Cached(e.name)' = None
  BY <1>3, <1>6 DEF Cached, ns
<1> QED  BY <1>7, <1>8

-----------------------------------------------------------------------------
(* Steps of the cluster and its informers.                                  *)

\* A list of a finite set has each of its elements.
LEMMA Listing ==
    ASSUME NEW S, IsFiniteSet(S), NEW listed \in SetToSeqs(S)
    PROVE  \E n \in Nat : /\ listed \in [1 .. n -> S]
                          /\ \A s \in S : \E i \in 1 .. n : listed[i] = s
<1> DEFINE n == Cardinality(S)
<1>1. n \in Nat
  BY FS_CardinalityType
<1>2. listed \in [1 .. n -> S] /\ \A i, j \in 1 .. n : i # j => listed[i] # listed[j]
  BY DEF SetToSeqs
<1>3. IsFiniteSet(1 .. n) /\ Cardinality(1 .. n) = n
  BY <1>1, FS_Interval
<1> HIDE DEF n
<1>4. listed \in Injection(1 .. n, S)
  BY <1>2 DEF Injection, IsInjective
<1>5. listed \in Surjection(1 .. n, S)
  BY <1>3, <1>4, FS_Injection DEF n
<1> QED  BY <1>1, <1>2, <1>5 DEF Surjection

\* A new controller starts with what there is.
LEMMA NewServiceControllerStep ==
    ASSUME IInv, NewServiceController
    PROVE  IInv'
<1> DEFINE S == {s \in Names : service[s] # None}
<1>1. PICK listed \in SetToSeqs(S) :
          serviceQueue' = [serviceQueue EXCEPT ![started + 1] =
                              [i \in DOMAIN listed |-> Event("add", listed[i], service[listed[i]])]]
  BY DEF NewServiceController
<1> DEFINE q == [i \in DOMAIN listed |-> Event("add", listed[i], service[listed[i]])]
<1>2. /\ started' = started + 1 /\ watching' = TRUE
      /\ UNCHANGED <<service, serviceChanges, servicecache, missed, overtaken>>
      /\ started < MaxStarts /\ MaxStarts \in Nat
  BY ServiceAssumption DEF NewServiceController, cluster
<1>3. /\ started \in Nat /\ started + 1 \in Controllers
      /\ serviceQueue \in [Controllers -> Seq(Events)]
      /\ \A g \in Controllers : g > started => serviceQueue[g] = <<>>
  BY <1>2 DEF IInv, TypeOK, Controllers
<1>4. IsFiniteSet(S)
  BY FS_Subset, ServiceAssumption
<1>5. S = {s \in Names : service[s] # None}
  OBVIOUS
<1> HIDE DEF S
<1>6. serviceQueue' = [serviceQueue EXCEPT ![started + 1] = q]
  BY <1>1
<1>7. /\ q \in Seq(Events)
      /\ \A i \in 1 .. Len(q) : /\ q[i].name \in S /\ q[i].type = "add"
                                /\ q[i].version = service[q[i].name]
      /\ \A s \in S : About(q, s) # {}
  <2>1. PICK n \in Nat : /\ listed \in [1 .. n -> S]
                         /\ \A s \in S : \E i \in 1 .. n : listed[i] = s
    <3>1. listed \in SetToSeqs(S)
      OBVIOUS
    <3> HIDE DEF q
    <3> QED  BY <1>4, <3>1, Listing
  <2>2. ASSUME NEW i \in 1 .. n
        PROVE  /\ q[i] \in Events /\ q[i].name = listed[i] /\ q[i].type = "add"
               /\ q[i].version = service[listed[i]] /\ listed[i] \in S
    <3>1. listed[i] \in S /\ listed[i] \in Names /\ service[listed[i]] \in Nat
      BY <1>5, <2>1 DEF IInv, TypeOK
    <3>2. q[i] = Event("add", listed[i], service[listed[i]])
      BY <2>1
    <3> HIDE DEF q
    <3> QED  BY <3>1, <3>2, EventFields
  <2>3. q \in [1 .. n -> Events]
    BY <2>1, <2>2
  <2> HIDE DEF q
  <2>4. q \in Seq(Events) /\ Len(q) = n
    BY <2>3
  <2>5. ASSUME NEW s \in S  PROVE About(q, s) # {}
    <3>1. PICK i \in 1 .. n : listed[i] = s
      BY <2>1
    <3>2. i \in About(q, s)
      BY <2>2, <2>4, <3>1 DEF About
    <3> QED  BY <3>2
  <2>6. ASSUME NEW i \in 1 .. Len(q)
        PROVE  q[i].name \in S /\ q[i].type = "add" /\ q[i].version = service[q[i].name]
    BY <2>2, <2>4
  <2> QED  BY <2>4, <2>5, <2>6
<1> HIDE DEF q
<1>8. TypeOK'
  <2>1. serviceQueue' \in [Controllers -> Seq(Events)]
    BY <1>3, <1>7, <1>6
  <2>2. \A g \in Controllers : g > started' => serviceQueue'[g] = <<>>
    BY <1>2, <1>3, <1>6 DEF Controllers
  <2> QED  BY <1>2, <1>3, <2>1, <2>2 DEF IInv, TypeOK, Controllers
<1>9. LastTells'
  <2> SUFFICES ASSUME NEW s \in Names, NEW i \in 1 .. Len(q), IsLast(q, s, i)
               PROVE  service[s] # None /\ q[i].type = "add" /\ q[i].version = service[s]
    BY <1>2, <1>3, <1>6 DEF LastTells
  <2>1. q[i].name = s
    BY DEF IsLast, About
  <2> QED  BY <1>7, <1>5, <2>1
<1>10. CacheTells'
  <2> SUFFICES ASSUME NEW s \in Names, ~Awaited(s)', s \notin overtaken
               PROVE  IF service[s] = None THEN Cached(s)' = None \/ s \in missed
                      ELSE Cached(s)' = service[s]
    BY <1>2 DEF CacheTells
  <2>1. About(q, s) = {}
    BY <1>3, <1>6 DEF Awaited
  <2>2. service[s] = None
    <3>1. s \notin S
      BY <1>7, <2>1
    <3> QED  BY <1>5, <3>1
  <2>3. ~Awaited(s)
    <3>1. About(<<>>, s) = {}
      BY DEF About
    <3>2. serviceQueue[started + 1] = <<>>
      BY <1>3
    <3>3. \A g \in Controllers : g # started + 1 => serviceQueue'[g] = serviceQueue[g]
      BY <1>3, <1>6
    <3> QED  BY <3>1, <3>2, <3>3 DEF Awaited
  <2>4. Cached(s)' = Cached(s)
    BY <1>2 DEF Cached, ServicesIn
  <2> QED  BY <2>2, <2>3, <2>4 DEF IInv, CacheTells
<1> QED  BY <1>8, <1>9, <1>10 DEF IInv

\* A controller that is stopped leaves queue and cache alone.
LEMMA StopServiceControllerStep ==
    ASSUME IInv, StopServiceController
    PROVE  IInv'
<1>1. /\ watching' = FALSE
      /\ UNCHANGED <<service, serviceChanges, started, serviceQueue, servicecache, missed, overtaken>>
  BY DEF StopServiceController, cluster
<1>2. TypeOK'
  BY <1>1 DEF IInv, TypeOK
<1>3. LastTells'
  BY <1>1 DEF IInv, LastTells
<1>4. CacheTells'
  BY <1>1 DEF IInv, CacheTells, Awaited, Cached, ServicesIn
<1> QED  BY <1>2, <1>3, <1>4 DEF IInv

\* A notification that comes keeps the types.
LEMMA NotifyTypes ==
    ASSUME TypeOK, NEW e \in Events, Notify(e), watching,
           UNCHANGED <<started, watching>>, service' \in [Names -> Nat], serviceChanges' \in Nat
    PROVE  /\ TypeOK' /\ started \in Controllers
           /\ serviceQueue'[started] = Append(serviceQueue[started], e)
           /\ \A g \in Controllers : g # started => serviceQueue'[g] = serviceQueue[g]
<1>1. /\ started \in Controllers /\ serviceQueue[started] \in Seq(Events)
      /\ serviceQueue \in [Controllers -> Seq(Events)]
  BY DEF TypeOK, Controllers
<1>2. serviceQueue' = [serviceQueue EXCEPT ![started] = Append(@, e)]
  BY DEF Notify
<1>3. Append(serviceQueue[started], e) \in Seq(Events)
  BY <1>1, Appended
<1>4. /\ serviceQueue' \in [Controllers -> Seq(Events)]
      /\ serviceQueue'[started] = Append(serviceQueue[started], e)
      /\ \A g \in Controllers : g # started => serviceQueue'[g] = serviceQueue[g]
  BY <1>1, <1>2, <1>3
<1>5. \A g \in Controllers : g > started' => serviceQueue'[g] = <<>>
  BY <1>1, <1>4 DEF TypeOK, Controllers
<1> QED  BY <1>1, <1>4, <1>5 DEF TypeOK

\* A notification that tells of a service what became of it.
LEMMA NotifyStep ==
    ASSUME IInv, NEW e \in Events, Notify(e), watching,
           UNCHANGED <<started, watching, servicecache, overtaken>>,
           service' \in [Names -> Nat], serviceChanges' \in Nat,
           \A s \in Names : s # e.name =>
               service'[s] = service[s] /\ (s \in missed' <=> s \in missed),
           IF service'[e.name] = None THEN e.type # "delete" => e.name \in missed'
           ELSE e.type \in {"add", "update"} /\ e.version = service'[e.name]
    PROVE  IInv'
<1>1. /\ TypeOK' /\ started \in Controllers
      /\ serviceQueue'[started] = Append(serviceQueue[started], e)
      /\ \A g \in Controllers : g # started => serviceQueue'[g] = serviceQueue[g]
  BY NotifyTypes DEF IInv
<1>2. serviceQueue[started] \in Seq(Events)
  BY <1>1 DEF IInv, TypeOK
<1> DEFINE q == serviceQueue[started]
<1> DEFINE r == serviceQueue'[started]
<1>3. \A s \in Names :
         /\ e.name # s => About(r, s) = About(q, s)
         /\ e.name # s => \A i \in 1 .. Len(r) : IsLast(r, s, i) =>
                              i \in 1 .. Len(q) /\ IsLast(q, s, i) /\ r[i] = q[i]
         /\ e.name = s => /\ About(r, s) # {}
                          /\ \A i \in 1 .. Len(r) : IsLast(r, s, i) => r[i] = e
  <2> SUFFICES ASSUME NEW s \in Names
               PROVE  /\ e.name # s => About(r, s) = About(q, s)
                      /\ e.name # s => \A i \in 1 .. Len(r) : IsLast(r, s, i) =>
                                           i \in 1 .. Len(q) /\ IsLast(q, s, i) /\ r[i] = q[i]
                      /\ e.name = s => /\ About(r, s) # {}
                                       /\ \A i \in 1 .. Len(r) : IsLast(r, s, i) => r[i] = e
    OBVIOUS
  <2>1. r = Append(q, e) /\ q \in Seq(Events)
    BY <1>1, <1>2
  <2> HIDE DEF q, r
  <2> QED  BY <2>1, AppendedLast
<1>4. LastTells'
  <2> SUFFICES ASSUME NEW s \in Names, NEW i \in 1 .. Len(r), IsLast(r, s, i)
               PROVE  IF service'[s] = None THEN r[i].type # "delete" => s \in missed'
                      ELSE r[i].type \in {"add", "update"} /\ r[i].version = service'[s]
    <3> SUFFICES ASSUME NEW s \in Names, NEW g \in Controllers,
                        NEW i \in 1 .. Len(serviceQueue'[g]),
                        g = started, IsLast(serviceQueue'[g], s, i)
                 PROVE  LET f == serviceQueue'[g][i]
                        IN  IF service'[s] = None THEN f.type # "delete" => s \in missed'
                            ELSE f.type \in {"add", "update"} /\ f.version = service'[s]
      BY DEF LastTells
    <3> QED  OBVIOUS
  <2>1. CASE s = e.name
    BY <1>3, <2>1
  <2>2. CASE s # e.name
    <3>1. i \in 1 .. Len(q) /\ IsLast(q, s, i) /\ r[i] = q[i]
      BY <1>3, <2>2
    <3>2. IF service[s] = None THEN q[i].type # "delete" => s \in missed
          ELSE q[i].type \in {"add", "update"} /\ q[i].version = service[s]
      BY <1>1, <3>1 DEF IInv, LastTells
    <3> QED  BY <2>2, <3>1, <3>2
  <2> QED  BY <2>1, <2>2
<1>5. CacheTells'
  <2> SUFFICES ASSUME NEW s \in Names, ~Awaited(s)', s \notin overtaken
               PROVE  IF service'[s] = None THEN Cached(s)' = None \/ s \in missed'
                      ELSE Cached(s)' = service'[s]
    BY DEF CacheTells
  <2>1. s # e.name
    BY <1>1, <1>3 DEF Awaited
  <2>2. ~Awaited(s)
    BY <1>1, <1>3, <2>1 DEF Awaited
  <2>3. Cached(s)' = Cached(s)
    BY DEF Cached, ServicesIn
  <2> QED  BY <2>1, <2>2, <2>3 DEF IInv, CacheTells
<1> QED  BY <1>1, <1>4, <1>5 DEF IInv

\* A change nobody watches.
LEMMA UnwatchedStep ==
    ASSUME IInv, NEW s \in Names, ~watching,
           UNCHANGED <<started, watching, serviceQueue, servicecache, overtaken>>,
           service' \in [Names -> Nat], serviceChanges' \in Nat,
           \A t \in Names : t # s => service'[t] = service[t] /\ (t \in missed' <=> t \in missed),
           service'[s] = None => s \in missed'
    PROVE  IInv'
<1>1. TypeOK'
  BY DEF IInv, TypeOK
<1>2. LastTells'
  <2> SUFFICES ASSUME NEW t \in Names, NEW g \in Controllers, NEW i \in 1 .. Len(serviceQueue[g]),
                      g = started, IsLast(serviceQueue[g], t, i), service'[t] = None,
                      serviceQueue[g][i].type # "delete"
               PROVE  t \in missed'
    BY DEF LastTells
  <2> QED  BY DEF IInv, LastTells
<1>3. CacheTells'
  <2> SUFFICES ASSUME NEW t \in Names, ~Awaited(t), t \notin overtaken, service'[t] = None
               PROVE  Cached(t) = None \/ t \in missed'
    BY DEF CacheTells, Awaited, Cached, ServicesIn
  <2> QED  BY DEF IInv, CacheTells
<1> QED  BY <1>1, <1>2, <1>3 DEF IInv

\* A service that appears or changes, watched or not.
LEMMA ServiceChangedStep ==
    ASSUME IInv, NEW s \in Names, ServiceChanged(s)
    PROVE  IInv'
<1> DEFINE v == serviceChanges + 1
<1>1. v \in Nat /\ v # None /\ service \in [Names -> Nat] /\ serviceChanges \in Nat
  BY DEF IInv, TypeOK, None
<1>2. /\ serviceChanges' = v /\ service' = [service EXCEPT ![s] = v]
      /\ UNCHANGED <<started, watching, servicecache, overtaken>> /\ missed' = missed \ {s}
  BY DEF ServiceChanged, Change, controllers
<1> HIDE DEF v
<1>3. /\ service' \in [Names -> Nat] /\ service'[s] = v
      /\ \A t \in Names : t # s => service'[t] = service[t] /\ (t \in missed' <=> t \in missed)
  BY <1>1, <1>2
<1>4. CASE watching
  <2>1. PICK type \in {"add", "update"} : Notify(Event(type, s, v))
    BY <1>4 DEF ServiceChanged, v
  <2> DEFINE e == Event(type, s, v)
  <2>2. e \in Events /\ e.type = type /\ e.name = s /\ e.version = v
    BY <1>1, EventFields
  <2> HIDE DEF e
  <2>3. Notify(e)
    BY <2>1 DEF e
  <2> QED  BY <1>1, <1>2, <1>3, <1>4, <2>2, <2>3, NotifyStep
<1>5. CASE ~watching
  <2>1. UNCHANGED serviceQueue
    BY <1>5 DEF ServiceChanged
  <2> QED  BY <1>1, <1>2, <1>3, <1>5, <2>1, UnwatchedStep
<1> QED  BY <1>4, <1>5 DEF IInv, TypeOK

\* A service that goes, seen or unseen.
LEMMA ServiceDeletedStep ==
    ASSUME IInv, NEW s \in Names, ServiceDeleted(s)
    PROVE  IInv'
<1>1. /\ service \in [Names -> Nat] /\ serviceChanges \in Nat /\ service[s] \in Nat /\ None \in Nat
  BY DEF IInv, TypeOK, None
<1>2. /\ serviceChanges' = serviceChanges + 1 /\ service' = [service EXCEPT ![s] = None]
      /\ UNCHANGED <<started, watching, servicecache, overtaken>>
  BY DEF ServiceDeleted, Change, controllers
<1>3. /\ service' \in [Names -> Nat] /\ service'[s] = None /\ serviceChanges' \in Nat
      /\ \A t \in Names : t # s => service'[t] = service[t]
  BY <1>1, <1>2
<1>4. CASE ~watching
  <2>1. UNCHANGED serviceQueue /\ missed' = missed \cup {s}
    BY <1>4 DEF ServiceDeleted
  <2> QED  BY <1>2, <1>3, <1>4, <2>1, UnwatchedStep
<1>5. CASE watching
  <2>1. PICK type \in {"delete", "tombstone"} :
            /\ Notify(Event(type, s, service[s]))
            /\ \/ type = "delete" /\ UNCHANGED missed
               \/ missed' = missed \cup {s}
    BY <1>5 DEF ServiceDeleted
  <2> DEFINE e == Event(type, s, service[s])
  <2>2. e \in Events /\ e.type = type /\ e.name = s
    BY <1>1, EventFields
  <2> HIDE DEF e
  <2>3. Notify(e)
    BY <2>1 DEF e
  <2>4. \A t \in Names : t # s => service'[t] = service[t] /\ (t \in missed' <=> t \in missed)
    BY <1>3, <2>1
  <2> QED  BY <1>2, <1>3, <1>5, <2>1, <2>2, <2>3, <2>4, NotifyStep
<1> QED  BY <1>4, <1>5 DEF IInv, TypeOK

\* A resync repeats what there is.
LEMMA ServiceResyncStep ==
    ASSUME IInv, NEW s \in Names, ServiceResync(s)
    PROVE  IInv'
<1>1. /\ watching /\ service[s] # None /\ Notify(Event("update", s, service[s]))
      /\ UNCHANGED <<service, serviceChanges, started, watching, servicecache, missed, overtaken>>
      /\ service \in [Names -> Nat] /\ serviceChanges \in Nat
  BY DEF ServiceResync, cluster, controllers, IInv, TypeOK
<1> DEFINE e == Event("update", s, service[s])
<1>2. e \in Events /\ e.type = "update" /\ e.name = s /\ e.version = service[s]
  BY <1>1, EventFields
<1>3. Notify(e)
  BY <1>1
<1> HIDE DEF e
<1> QED  BY <1>1, <1>2, <1>3, NotifyStep

-----------------------------------------------------------------------------
(* Steps of the handlers.                                                   *)

\* What a handled notification leaves of the queues.
LEMMA HandlesTypes ==
    ASSUME TypeOK, NEW g \in Controllers, serviceQueue[g] # <<>>,
           serviceQueue' = [serviceQueue EXCEPT ![g] = Tail(@)],
           UNCHANGED <<service, serviceChanges, started, watching>>
    PROVE  /\ TypeOK' /\ Head(serviceQueue[g]) \in Events /\ g <= started
           /\ serviceQueue[g] \in Seq(Events)
           /\ serviceQueue'[g] = Tail(serviceQueue[g])
           /\ \A h \in Controllers : h # g => serviceQueue'[h] = serviceQueue[h]
<1>1. /\ serviceQueue \in [Controllers -> Seq(Events)] /\ serviceQueue[g] \in Seq(Events)
      /\ started \in 0 .. MaxStarts /\ g \in Nat
      /\ \A h \in Controllers : h > started => serviceQueue[h] = <<>>
  BY DEF TypeOK, Controllers
<1>2. Tail(serviceQueue[g]) \in Seq(Events) /\ Head(serviceQueue[g]) \in Events
  BY <1>1, Handled
<1>3. g <= started
  BY <1>1
<1>4. /\ serviceQueue' \in [Controllers -> Seq(Events)]
      /\ serviceQueue'[g] = Tail(serviceQueue[g])
      /\ \A h \in Controllers : h # g => serviceQueue'[h] = serviceQueue[h]
  BY <1>1, <1>2
<1>5. \A h \in Controllers : h > started' => serviceQueue'[h] = <<>>
  BY <1>1, <1>3, <1>4
<1> QED  BY <1>1, <1>2, <1>3, <1>4, <1>5 DEF TypeOK

\* What each type of notification does to what is cached of its service.
LEMMA HandlerCaches ==
    ASSUME TypeOK, NEW g \in Controllers, Handler(g)
    PROVE  \E e \in Events :
              /\ serviceQueue[g] # <<>> /\ e = Head(serviceQueue[g]) /\ Handles(g, e.type)
              /\ e.type \in {"add", "update"} => Cached(e.name)' = e.version
              /\ e.type = "delete" => Cached(e.name)' = None
              /\ \A s \in Names : s # e.name => Cached(s)' = Cached(s)
<1>1. serviceQueue[g] \in Seq(Events) /\ serviceQueue[g] # <<>>
  BY DEF TypeOK, Handler, Added, Updated, Deleted, DeletedTombstone, Handles
<1>2. PICK e \in Events : e = Head(serviceQueue[g])
  BY <1>1, Handled
<1>3. Handles(g, e.type)
  BY <1>2 DEF Handler, Added, Updated, Deleted, DeletedTombstone, Handles
<1>4. CASE e.type \in {"add", "update"} /\ Add(e)
  <2>1. /\ Cached(e.name)' = e.version
        /\ \A s \in Names : s # e.name => Cached(s)' = Cached(s)
    BY <1>4, AddCaches
  <2> QED  BY <1>1, <1>2, <1>3, <1>4, <2>1
<1>5. CASE e.type = "delete" /\ Delete(e)
  <2>1. /\ Cached(e.name)' = None
        /\ \A s \in Names : s # e.name => Cached(s)' = Cached(s)
    BY <1>5, DeleteCaches
  <2> QED  BY <1>1, <1>2, <1>3, <1>5, <2>1
<1>6. CASE e.type = "tombstone" /\ UNCHANGED servicecache
  <2>1. \A s \in Names : Cached(s)' = Cached(s)
    BY <1>6 DEF Cached, ServicesIn
  <2> QED  BY <1>1, <1>2, <1>3, <1>6, <2>1
<1> QED  BY <1>2, <1>4, <1>5, <1>6 DEF Handler, Added, Updated, Deleted, DeletedTombstone, Handles

\* The current controller works off its queue: what its last notification of a
\* service told is then in the cache.  Another one's is marked as overtaken.
LEMMA HandlerStep ==
    ASSUME IInv, NEW g \in Controllers, Handler(g)
    PROVE  IInv'
<1> DEFINE q == serviceQueue[g]
<1>1. PICK e \in Events :
          /\ q # <<>> /\ e = Head(q) /\ Handles(g, e.type)
          /\ e.type \in {"add", "update"} => Cached(e.name)' = e.version
          /\ e.type = "delete" => Cached(e.name)' = None
          /\ \A s \in Names : s # e.name => Cached(s)' = Cached(s)
  BY HandlerCaches DEF IInv
<1>2. /\ serviceQueue' = [serviceQueue EXCEPT ![g] = Tail(@)]
      /\ UNCHANGED <<service, serviceChanges, started, watching, missed>>
      /\ overtaken' = IF g = started THEN overtaken \ {e.name} ELSE overtaken \cup {e.name}
  BY <1>1 DEF Handles, cluster, controllers
<1>3. /\ TypeOK' /\ q \in Seq(Events) /\ serviceQueue'[g] = Tail(q)
      /\ \A h \in Controllers : h # g => serviceQueue'[h] = serviceQueue[h]
  BY <1>1, <1>2, HandlesTypes DEF IInv
<1>4. ASSUME NEW s \in Names
      PROVE  /\ \A i \in 1 .. Len(Tail(q)) : IsLast(Tail(q), s, i) =>
                   i + 1 \in 1 .. Len(q) /\ IsLast(q, s, i + 1) /\ Tail(q)[i] = q[i + 1]
             /\ About(Tail(q), s) = {} /\ e.name = s => IsLast(q, s, 1)
             /\ About(Tail(q), s) = {} /\ e.name # s => About(q, s) = {}
  BY <1>1, <1>3, HandledLast
<1>5. e = q[1] /\ 1 \in 1 .. Len(q) /\ e.name \in Names
      /\ e.type \in {"add", "update", "delete", "tombstone"}
  <2>1. e = q[1] /\ 1 \in 1 .. Len(q)
    BY <1>1, <1>3, Handled
  <2> QED  BY <1>3, <2>1 DEF Events
<1>6. LastTells'
  <2> SUFFICES ASSUME NEW s \in Names, NEW h \in Controllers,
                      NEW i \in 1 .. Len(serviceQueue'[h]),
                      h = started, IsLast(serviceQueue'[h], s, i)
               PROVE  LET f == serviceQueue'[h][i]
                      IN  IF service[s] = None THEN f.type # "delete" => s \in missed
                          ELSE watching => f.type \in {"add", "update"} /\ f.version = service[s]
    BY <1>2 DEF LastTells
  <2>1. CASE h # g
    <3>1. serviceQueue'[h] = serviceQueue[h]
      BY <1>3, <2>1
    <3> QED  BY <3>1 DEF IInv, LastTells
  <2>2. CASE h = g
    <3>1. i + 1 \in 1 .. Len(q) /\ IsLast(q, s, i + 1) /\ serviceQueue'[h][i] = q[i + 1]
      BY <1>3, <1>4, <2>2
    <3>2. IF service[s] = None THEN q[i + 1].type # "delete" => s \in missed
          ELSE watching => q[i + 1].type \in {"add", "update"} /\ q[i + 1].version = service[s]
      BY <2>2, <3>1 DEF IInv, LastTells
    <3> QED  BY <3>1, <3>2
  <2> QED  BY <2>1, <2>2
<1>7. CacheTells'
  <2> SUFFICES ASSUME NEW s \in Names, ~Awaited(s)', s \notin overtaken'
               PROVE  IF service[s] = None THEN Cached(s)' = None \/ s \in missed
                      ELSE watching => Cached(s)' = service[s]
    BY <1>2 DEF CacheTells
  <2>1. About(Tail(q), s) = {}
    BY <1>3 DEF Awaited
  <2>2. CASE s = e.name
    <3>1. g = started /\ IsLast(q, s, 1)
      BY <1>2, <1>4, <2>1, <2>2
    <3>2. IF service[s] = None THEN e.type # "delete" => s \in missed
          ELSE watching => e.type \in {"add", "update"} /\ e.version = service[s]
      BY <1>5, <3>1 DEF IInv, LastTells
    <3> QED  BY <1>1, <2>2, <3>2
  <2>3. CASE s # e.name
    <3>1. About(q, s) = {}
      BY <1>4, <2>1, <2>3
    <3>2. ~Awaited(s)
      BY <1>3, <3>1 DEF Awaited
    <3>3. s \notin overtaken
      BY <1>2, <2>3
    <3> QED  BY <1>1, <2>3, <3>2, <3>3 DEF IInv, CacheTells
  <2> QED  BY <2>2, <2>3
<1> QED  BY <1>3, <1>6, <1>7 DEF IInv

-----------------------------------------------------------------------------

\* The invariant holds at the start.
LEMMA InitIInv == Init => IInv
<1> SUFFICES ASSUME Init  PROVE IInv
  OBVIOUS
<1>1. \A q : q = <<>> => Len(q) = 0
  OBVIOUS
<1>2. TypeOK
  <2>1. <<>> \in Seq(Events) /\ None \in Nat /\ MaxStarts \in Nat
    BY ServiceAssumption DEF None
  <2>2. service \in [Names -> Nat] /\ serviceQueue \in [Controllers -> Seq(Events)]
    BY <2>1 DEF Init
  <2>3. \A g \in Controllers : serviceQueue[g] = <<>>
    BY DEF Init
  <2>4. serviceChanges \in Nat /\ started \in 0 .. MaxStarts /\ watching = FALSE
    BY <2>1 DEF Init
  <2>5. watching \in BOOLEAN /\ ~watching
    BY <2>4
  <2> QED  BY <2>2, <2>3, <2>4, <2>5 DEF TypeOK
<1>3. LastTells
  BY <1>1 DEF Init, LastTells
<1>4. CacheTells
  BY DEF Init, CacheTells, Cached, ServicesIn, None
<1> QED  BY <1>2, <1>3, <1>4 DEF IInv

\* The invariant is kept by every step.
LEMMA NextIInv == IInv /\ [Next]_vars => IInv'
<1> SUFFICES ASSUME IInv, [Next]_vars  PROVE IInv'
  OBVIOUS
<1>1. CASE NewServiceController
  BY <1>1, NewServiceControllerStep
<1>2. CASE StopServiceController
  BY <1>2, StopServiceControllerStep
<1>3. ASSUME NEW s \in Names, ServiceChanged(s) \/ ServiceDeleted(s) \/ ServiceResync(s)
      PROVE  IInv'
  BY <1>3, ServiceChangedStep, ServiceDeletedStep, ServiceResyncStep
<1>4. ASSUME NEW g \in Controllers, Handler(g)
      PROVE  IInv'
  BY <1>4, HandlerStep
<1>5. CASE UNCHANGED vars
  <2>1. UNCHANGED <<service, serviceChanges, started, watching, serviceQueue, servicecache,
                    missed, overtaken>>
    BY <1>5 DEF vars, cluster, controllers
  <2>2. TypeOK'
    BY <2>1 DEF IInv, TypeOK
  <2>3. LastTells'
    BY <2>1 DEF IInv, LastTells
  <2>4. CacheTells'
    BY <2>1 DEF IInv, CacheTells, Awaited, Cached, ServicesIn
  <2> QED  BY <2>2, <2>3, <2>4 DEF IInv
<1> QED  BY <1>1, <1>2, <1>3, <1>4, <1>5 DEF Next

\* However often the controller is stopped and started, and whatever its
\* predecessors still handle: when everything is handled and the cluster is
\* watched, the cache has the services, but for those that went unseen or that a
\* predecessor was the last to handle.
THEOREM CachedServicesAreThoseOfTheCluster == Spec => []ServicesFollow
<1>1. Init => IInv
  BY InitIInv
<1>2. IInv /\ [Next]_vars => IInv'
  BY NextIInv
<1>3. IInv => ServicesFollow
  <2> SUFFICES ASSUME IInv, watching, \A g \in Controllers : serviceQueue[g] = <<>>,
                      NEW s \in Names \ overtaken
               PROVE  Cached(s) = service[s] \/ (service[s] = None /\ s \in missed)
    BY DEF ServicesFollow
  <2>1. ~Awaited(s)
    <3>1. About(<<>>, s) = {}
      BY DEF About
    <3> QED  BY <3>1 DEF Awaited
  <2> QED  BY <2>1 DEF IInv, CacheTells
<1> QED  BY <1>1, <1>2, <1>3, PTL DEF Spec

-----------------------------------------------------------------------------
(* The workloads.                                                           *)

KeptProofs == INSTANCE WorkloadCachesProofs

\* WorkloadCachesProofs is about the same workloads and the same caches.
LEMMA SameWorkloads ==
    /\ Kept!WorkloadAssumption <=> KeptProofs!WorkloadAssumption
    /\ Kept!Init <=> KeptProofs!Init
    /\ Kept!Next <=> KeptProofs!Next
    /\ Kept!OnlyOrphansLinger <=> KeptProofs!OnlyOrphansLinger
    /\ Kept!OwnIdentityIsKnown <=> KeptProofs!OwnIdentityIsKnown
<1>1. Kept!WorkloadAssumption <=> KeptProofs!WorkloadAssumption
  BY DEF Kept!WorkloadAssumption, KeptProofs!WorkloadAssumption, Kept!Workloads,
     KeptProofs!Workloads
<1>2. Kept!Init <=> KeptProofs!Init
  BY DEF Kept!Init, KeptProofs!Init, Kept!Workloads, KeptProofs!Workloads, Kept!Kinds,
     KeptProofs!Kinds, Kept!Keys, KeptProofs!Keys
<1>3. Kept!Next <=> KeptProofs!Next
  BY DEF Kept!Next, KeptProofs!Next, Kept!Handler, KeptProofs!Handler, Kept!Added,
     KeptProofs!Added, Kept!Updated, KeptProofs!Updated, Kept!Deleted,
     KeptProofs!Deleted, Kept!DeletedTombstone, KeptProofs!DeletedTombstone,
     Kept!AddClusterToIdentity, KeptProofs!AddClusterToIdentity,
     Kept!DeleteClusterFromIdentity, KeptProofs!DeleteClusterFromIdentity, Kept!Add,
     KeptProofs!Add, Kept!Delete, KeptProofs!Delete, Kept!Make, KeptProofs!Make,
     Kept!Handle, KeptProofs!Handle, Kept!AddCalls, KeptProofs!AddCalls,
     Kept!MovedCalls, KeptProofs!MovedCalls, Kept!Call, KeptProofs!Call,
     Kept!WorkloadAdded, KeptProofs!WorkloadAdded, Kept!WorkloadUpdated,
     KeptProofs!WorkloadUpdated, Kept!WorkloadDeleted, KeptProofs!WorkloadDeleted,
     Kept!DeletionMissed, KeptProofs!DeletionMissed, Kept!Resync, KeptProofs!Resync,
     Kept!Change, KeptProofs!Change, Kept!Notify, KeptProofs!Notify, Kept!Orphan,
     KeptProofs!Orphan, Kept!Admitted, KeptProofs!Admitted, Kept!KeyOf,
     KeptProofs!KeyOf, Kept!KindOf, KeptProofs!KindOf, Kept!Workloads,
     KeptProofs!Workloads, Kept!Kinds, KeptProofs!Kinds, Kept!historyVars,
     KeptProofs!historyVars
<1>4. Kept!OnlyOrphansLinger <=> KeptProofs!OnlyOrphansLinger
  BY DEF Kept!OnlyOrphansLinger, KeptProofs!OnlyOrphansLinger, Kept!Drained, KeptProofs!Drained,
     Kept!Kinds, KeptProofs!Kinds, Kept!Keys, KeptProofs!Keys, Kept!Holders,
     KeptProofs!Holders, Kept!Admitted, KeptProofs!Admitted, Kept!KeyOf,
     KeptProofs!KeyOf, Kept!KindOf, KeptProofs!KindOf, Kept!Workloads,
     KeptProofs!Workloads
<1>5. Kept!OwnIdentityIsKnown <=> KeptProofs!OwnIdentityIsKnown
  BY DEF Kept!OwnIdentityIsKnown, KeptProofs!OwnIdentityIsKnown, Kept!Known, KeptProofs!Known,
     Kept!Drained, KeptProofs!Drained, Kept!Kinds, KeptProofs!Kinds, Kept!Holders,
     KeptProofs!Holders, Kept!Admitted, KeptProofs!Admitted, Kept!KeyOf,
     KeptProofs!KeyOf, Kept!KindOf, KeptProofs!KindOf, Kept!Workloads,
     KeptProofs!Workloads
<1> QED  BY <1>1, <1>2, <1>3, <1>4, <1>5

\* The workloads of a cluster behave as WorkloadCaches says, as no step of its
\* services touches what is kept of them.
LEMMA WorkloadsAreKept == BothSpec => KeptProofs!Spec
<1>1. BothInit => KeptProofs!Init
  BY SameWorkloads DEF BothInit
<1>2. [BothNext]_<<vars, workloadVars>> => [KeptProofs!Next]_KeptProofs!vars
  <2> SUFFICES ASSUME [BothNext]_<<vars, workloadVars>>
               PROVE  KeptProofs!Next \/ UNCHANGED KeptProofs!vars
    OBVIOUS
  <2>1. KeptProofs!Next \/ UNCHANGED workloadVars
    BY SameWorkloads DEF BothNext
  <2>2. UNCHANGED workloadVars => UNCHANGED KeptProofs!vars
    BY DEF workloadVars, KeptProofs!vars
  <2> QED  BY <2>1, <2>2
<1> QED  BY <1>1, <1>2, PTL DEF BothSpec, KeptProofs!Spec

\* The services behave as Services says.
LEMMA ServicesAreKept == BothSpec => Spec
<1>1. BothInit => Init
  BY DEF BothInit
<1>2. [BothNext]_<<vars, workloadVars>> => [Next]_vars
  BY DEF BothNext
<1> QED  BY <1>1, <1>2, PTL DEF BothSpec, Spec

\* Whatever workloads do, the services in the cache are those of the cluster.
THEOREM ServicesOfTheCluster == BothSpec => []ServicesFollow
  BY ServicesAreKept, CachedServicesAreThoseOfTheCluster, PTL

\* When all notifications are handled the caches have nothing of a workload that is
\* gone, but for what the handlers do not look at.
THEOREM GoneWorkloadsAreOrphans == BothSpec => []OnlyOrphansLinger
<1>1. KeptProofs!Spec => []KeptProofs!OnlyOrphansLinger
  BY KeptAssumption, SameWorkloads, KeptProofs!OrphansLinger
<1>2. KeptProofs!OnlyOrphansLinger => OnlyOrphansLinger
  BY SameWorkloads DEF OnlyOrphansLinger
<1> QED  BY <1>1, <1>2, WorkloadsAreKept, PTL

\* When all notifications are handled a workload is known under the identity that it
\* alone ever had.
THEOREM OwnIdentitiesAreKnown == BothSpec => []OwnIdentityIsKnown
<1>1. KeptProofs!Spec => []KeptProofs!OwnIdentityIsKnown
  BY KeptAssumption, SameWorkloads, KeptProofs!OwnIsKnown
<1>2. KeptProofs!OwnIdentityIsKnown => OwnIdentityIsKnown
  BY SameWorkloads DEF OwnIdentityIsKnown
<1> QED  BY <1>1, <1>2, WorkloadsAreKept, PTL
=============================================================================
