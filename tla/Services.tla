------------------------------- MODULE Services -------------------------------
(***************************************************************************)
(* The services of one cluster, as its service controllers keep them in    *)
(* cache.Services.                                                         *)
(*                                                                         *)
(* A cluster whose secret goes stops being watched; when the secret comes  *)
(* back a new controller lists the services again, while the old one still *)
(* works off its queue: both have one worker and write to the same cache,  *)
(* which nobody empties meanwhile.  One cluster is enough, as the cache is *)
(* a map of clusters; no entry of it and an empty one read the same.       *)
(***************************************************************************)
EXTENDS Naturals, Sequences, SequencesExt

CONSTANTS
    Names,              \* <<namespace, name>> of services
    MaxChanges,         \* bound: changes of services
    MaxStarts,          \* bound: controllers started for the cluster
    ServiceQueueCap     \* bound: notifications that wait in a queue

ASSUME ServiceAssumption ==
    /\ IsFiniteSet(Names) /\ \A s \in Names : s = <<s[1], s[2]>>
    /\ MaxChanges \in Nat /\ MaxStarts \in Nat /\ ServiceQueueCap \in Nat \ {0}

None == 0           \* no version: there is no such service
Controllers == 1 .. MaxStarts

VARIABLES
    service,        \* the version of each service in the cluster
    serviceChanges, \* changes so far
    started,        \* controllers started so far; the last one is current
    watching,       \* the current controller was not stopped
    serviceQueue,   \* the notifications each controller has not handled
    servicecache,   \* cache.Services: namespace -> name -> version
    missed,         \* history: services that no controller saw go
    overtaken       \* history: services a replaced controller was the last to handle

cluster == <<service, serviceChanges>>
controllers == <<started, watching>>
vars == <<cluster, controllers, serviceQueue, servicecache, missed, overtaken>>

Init ==
    /\ service = [s \in Names |-> None] /\ serviceChanges = 0
    /\ started = 0 /\ watching = FALSE
    /\ serviceQueue = [g \in Controllers |-> <<>>]
    /\ servicecache = <<>>
    /\ missed = {} /\ overtaken = {}

-----------------------------------------------------------------------------
(* The controllers and their informers.                                     *)

Event(type, s, v) == [type |-> type, name |-> s, version |-> v]

\* The informer of a new controller lists what is there.
NewServiceController ==
    /\ ~watching /\ started < MaxStarts
    /\ started' = started + 1 /\ watching' = TRUE
    /\ \E listed \in SetToSeqs({s \in Names : service[s] # None}) :
          serviceQueue' = [serviceQueue EXCEPT ![started + 1] =
                              [i \in DOMAIN listed |-> Event("add", listed[i], service[listed[i]])]]
    /\ UNCHANGED <<cluster, servicecache, missed, overtaken>>

\* The informer stops; what is in the queue will be handled.
StopServiceController ==
    /\ watching /\ watching' = FALSE
    /\ UNCHANGED <<cluster, started, serviceQueue, servicecache, missed, overtaken>>

Notify(e) ==
    /\ Len(serviceQueue[started]) < ServiceQueueCap
    /\ serviceQueue' = [serviceQueue EXCEPT ![started] = Append(@, e)]

Change(s, v) ==
    /\ serviceChanges < MaxChanges /\ serviceChanges' = serviceChanges + 1
    /\ service' = [service EXCEPT ![s] = v]
    /\ UNCHANGED <<controllers, servicecache, overtaken>>

ServiceChanged(s) ==
    LET v == serviceChanges + 1
    IN  /\ Change(s, v)
        /\ missed' = missed \ {s}
        /\ IF watching THEN Notify(Event(IF service[s] = None THEN "add" ELSE "update", s, v))
           ELSE UNCHANGED serviceQueue

\* Once the watch has missed a deletion all there will be is a tombstone.
ServiceDeleted(s) ==
    /\ service[s] # None
    /\ Change(s, None)
    /\ \/ /\ watching /\ Notify(Event("delete", s, service[s]))
          /\ UNCHANGED missed
       \/ /\ IF watching THEN Notify(Event("tombstone", s, service[s])) ELSE UNCHANGED serviceQueue
          /\ missed' = missed \cup {s}

\* The informer repeats an update that changed nothing.
ServiceResync(s) ==
    /\ watching /\ service[s] # None
    /\ Notify(Event("update", s, service[s]))
    /\ UNCHANGED <<cluster, controllers, servicecache, missed, overtaken>>

-----------------------------------------------------------------------------
(* The handlers, each one call of the cache, under its lock.                *)

\* The function f with v for k.
With(f, k, v) == [x \in DOMAIN f \cup {k} |-> IF x = k THEN v ELSE f[x]]
Without(f, k) == [x \in DOMAIN f \ {k} |-> f[x]]

ServicesIn(namespace) == IF namespace \in DOMAIN servicecache THEN servicecache[namespace] ELSE <<>>

Add(e) ==
    servicecache' = With(servicecache, e.name[1], With(ServicesIn(e.name[1]), e.name[2], e.version))

\* Mutant of Delete: the namespace goes with the first of its services.
DeleteWithNamespace(e) == servicecache' = Without(servicecache, e.name[1])

\* A namespace without services is dropped.
Delete(e) ==
    LET left == Without(ServicesIn(e.name[1]), e.name[2])
    IN  servicecache' = IF DOMAIN left = {} THEN Without(servicecache, e.name[1])
                        ELSE With(servicecache, e.name[1], left)

Handles(g, type) ==
    /\ serviceQueue[g] # <<>> /\ Head(serviceQueue[g]).type = type
    /\ serviceQueue' = [serviceQueue EXCEPT ![g] = Tail(@)]
    /\ overtaken' = IF g = started THEN overtaken \ {Head(serviceQueue[g]).name}
                    ELSE overtaken \cup {Head(serviceQueue[g]).name}
    /\ UNCHANGED <<cluster, controllers, missed>>

Added(g) == Handles(g, "add") /\ Add(Head(serviceQueue[g]))

Updated(g) == Handles(g, "update") /\ Add(Head(serviceQueue[g]))

Deleted(g) == Handles(g, "delete") /\ Delete(Head(serviceQueue[g]))

\* A tombstone is no service: the cast fails.
DeletedTombstone(g) == Handles(g, "tombstone") /\ UNCHANGED servicecache

Handler(g) == Added(g) \/ Updated(g) \/ Deleted(g) \/ DeletedTombstone(g)

Next ==
    \/ NewServiceController \/ StopServiceController
    \/ \E s \in Names : ServiceChanged(s) \/ ServiceDeleted(s) \/ ServiceResync(s)
    \/ \E g \in Controllers : Handler(g)

Spec == Init /\ [][Next]_vars

-----------------------------------------------------------------------------

Cached(s) ==
    IF s[2] \in DOMAIN ServicesIn(s[1]) THEN ServicesIn(s[1])[s[2]] ELSE None

\* When everything is handled and the cluster is watched, the cache has each
\* service at its version and nothing else, whatever was stopped and started
\* before: except for a service that nobody saw go, and for one of which a
\* replaced controller handled a notification after its successor did, until
\* the successor handles another, from a resync at the latest.
ServicesFollow ==
    watching /\ (\A g \in Controllers : serviceQueue[g] = <<>>) =>
        \A s \in Names \ overtaken : Cached(s) = service[s] \/ (service[s] = None /\ s \in missed)
=============================================================================
