---------------------------- MODULE WorkloadCaches ----------------------------
(***************************************************************************)
(* The deployment and the rollouts controller of one cluster, and what     *)
(* their handlers keep of the cluster's workloads: the Deployments and the *)
(* Rollouts cache, from identity and environment to a workload, and        *)
(* IdentityCluster, which tells whether an identity lives in the cluster.  *)
(*                                                                         *)
(* Each controller has one worker, the default, and handles notifications  *)
(* in order; the two interleave at every call of a cache.  One cluster is  *)
(* enough, as every key of the caches includes the cluster.                *)
(***************************************************************************)
EXTENDS Naturals, Sequences

CONSTANTS
    Deployments, Rollouts,      \* names of workloads of each kind
    Identities, Envs,
    Specs,                      \* identity, env and meshed of a workload
    NoIdentity, NoSpec, NoWorkload,
    MaxChanges,                 \* bound: changes of workloads
    QueueCap                    \* bound: notifications that wait per kind

Workloads == Deployments \cup Rollouts
Keys == Identities \X Envs
Kinds == {"deployment", "rollout"}

\* Assumed of the constants, where this module is instantiated.
WorkloadAssumption ==
    /\ Deployments \cap Rollouts = {} /\ NoWorkload \notin Workloads
    /\ Specs \subseteq [identity : Identities \cup {NoIdentity}, env : Envs, meshed : BOOLEAN]
    /\ NoSpec \notin Specs /\ NoIdentity \notin Identities
    /\ MaxChanges \in Nat /\ QueueCap \in Nat \ {0}

VARIABLES
    spec,               \* the workloads of the cluster
    queue,              \* notifications each controller has not handled yet
    calls,              \* calls of caches that a running handler still has to make
    cache,              \* Deployments and Rollouts
    identityCluster,    \* IdentityCluster: identities that have the cluster
    changes,            \* changes so far
    orphans,            \* history: keys whose workload left without being removed
    everHad             \* history: the identities each workload ever had

vars == <<spec, queue, calls, cache, identityCluster, changes, orphans, everHad>>
historyVars == <<changes, orphans, everHad>>

KindOf(w) == IF w \in Deployments THEN "deployment" ELSE "rollout"
KeyOf(s) == <<s.identity, s.env>>

\* Handlers skip what is ignored, not mesh enabled or without identity.
Admitted(s) == s # NoSpec /\ s.meshed /\ s.identity # NoIdentity

Init ==
    /\ spec = [w \in Workloads |-> NoSpec]
    /\ queue = [k \in Kinds |-> <<>>]
    /\ calls = [k \in Kinds |-> <<>>]
    /\ cache = [k \in Kinds |-> [key \in Keys |-> NoWorkload]]
    /\ identityCluster = {}
    /\ changes = 0 /\ orphans = {}
    /\ everHad = [w \in Workloads |-> {}]

-----------------------------------------------------------------------------
(* The cluster and its informers.                                           *)

Notify(type, w, old, new) ==
    /\ Len(queue[KindOf(w)]) < QueueCap
    /\ queue' = [queue EXCEPT ![KindOf(w)] =
                    Append(@, [type |-> type, workload |-> w, old |-> old, new |-> new])]
    /\ UNCHANGED <<calls, cache, identityCluster>>

Change(w, s) ==
    /\ changes < MaxChanges
    /\ changes' = changes + 1
    /\ spec' = [spec EXCEPT ![w] = s]
    /\ everHad' = IF s = NoSpec THEN everHad
                  ELSE [everHad EXCEPT ![w] = @ \cup {s.identity}]

Orphan(w) == orphans' = orphans \cup {<<KindOf(w), KeyOf(spec[w])>>}

WorkloadAdded(w, s) ==
    /\ spec[w] = NoSpec
    /\ Change(w, s)
    /\ Notify("add", w, NoSpec, s)
    /\ UNCHANGED orphans

\* The handler does not look at a workload that is no longer meshed, nor
\* at a change of the environment.
WorkloadUpdated(w, s) ==
    /\ spec[w] \notin {NoSpec, s}
    /\ Change(w, s)
    /\ Notify("update", w, spec[w], s)
    /\ IF Admitted(spec[w]) /\ (~Admitted(s) \/ s.identity = spec[w].identity)
       THEN Orphan(w) ELSE UNCHANGED orphans

WorkloadDeleted(w) ==
    /\ spec[w] # NoSpec
    /\ Change(w, NoSpec)
    /\ Notify("delete", w, spec[w], NoSpec)
    /\ UNCHANGED orphans

\* The watch missed the deletion: the informer hands out a tombstone.
DeletionMissed(w) ==
    /\ spec[w] # NoSpec
    /\ Change(w, NoSpec)
    /\ Notify("tombstone", w, spec[w], NoSpec)
    /\ IF Admitted(spec[w]) THEN Orphan(w) ELSE UNCHANGED orphans

\* The informer repeats an update that changed nothing.
Resync(w) ==
    /\ spec[w] # NoSpec
    /\ Notify("update", w, spec[w], spec[w])
    /\ UNCHANGED <<spec, historyVars>>

-----------------------------------------------------------------------------
(* The handlers, as the calls of caches they make.                          *)

Call(op, w, s) == [op |-> op, workload |-> w, key |-> KeyOf(s)]

AddCalls(w, s) == <<Call("AddClusterToIdentity", w, s), Call("Add", w, s)>>

\* The worker of kind k handles its next notification, by making the given calls.
Handle(k, type, made) ==
    /\ calls[k] = <<>> /\ queue[k] # <<>>
    /\ Head(queue[k]).type = type
    /\ queue' = [queue EXCEPT ![k] = Tail(@)]
    /\ calls' = [calls EXCEPT ![k] = made]
    /\ UNCHANGED <<spec, cache, identityCluster, historyVars>>

Added(k) ==
    LET n == Head(queue[k])
        made == IF Admitted(n.new) THEN AddCalls(n.workload, n.new) ELSE <<>>
    IN  Handle(k, "add", made)

\* The cluster leaves the old identity, although other workloads may have it.
MovedCalls(n) ==
    IF n.old.identity \in {NoIdentity, n.new.identity} THEN <<>>
    ELSE <<Call("DeleteClusterFromIdentity", n.workload, n.old),
           Call("Delete", n.workload, n.old)>>

\* Mutant of Updated: the old identity is kept.
UpdatedKeepsOld(k) ==
    LET n == Head(queue[k])
        made == IF Admitted(n.new) THEN AddCalls(n.workload, n.new) ELSE <<>>
    IN  Handle(k, "update", made)

\* Mutant of Updated: only workloads that were meshed before are taken.
UpdatedTakesMeshedOnly(k) ==
    LET n == Head(queue[k])
        made == IF Admitted(n.new) /\ Admitted(n.old)
                    THEN MovedCalls(n) \o AddCalls(n.workload, n.new) ELSE <<>>
    IN  Handle(k, "update", made)

\* Mutant of Updated: nothing is done when the identity is the same.
UpdatedOnlyMoved(k) ==
    LET n == Head(queue[k])
        made == IF Admitted(n.new) /\ n.old.identity # n.new.identity
                    THEN MovedCalls(n) \o AddCalls(n.workload, n.new) ELSE <<>>
    IN  Handle(k, "update", made)

Updated(k) ==
    LET n == Head(queue[k])
        made == IF Admitted(n.new) THEN MovedCalls(n) \o AddCalls(n.workload, n.new)
                    ELSE <<>>
    IN  Handle(k, "update", made)

Deleted(k) ==
    LET n == Head(queue[k])
        made == IF Admitted(n.old)
                    THEN <<Call("Delete", n.workload, n.old),
                           Call("DeleteClusterFromIdentity", n.workload, n.old)>>
                    ELSE <<>>
    IN  Handle(k, "delete", made)

\* A tombstone is not a workload: the cast fails and the handler returns.
DeletedTombstone(k) ==
    Handle(k, "tombstone", <<>>)

-----------------------------------------------------------------------------
(* The caches, each call under its lock.                                    *)

Make(k, op) ==
    /\ calls[k] # <<>> /\ Head(calls[k]).op = op
    /\ calls' = [calls EXCEPT ![k] = Tail(@)]
    /\ UNCHANGED <<spec, queue, historyVars>>

AddClusterToIdentity(k) ==
    /\ Make(k, "AddClusterToIdentity")
    /\ identityCluster' = identityCluster \cup {Head(calls[k]).key[1]}
    /\ UNCHANGED cache

DeleteClusterFromIdentity(k) ==
    /\ Make(k, "DeleteClusterFromIdentity")
    /\ identityCluster' = identityCluster \ {Head(calls[k]).key[1]}
    /\ UNCHANGED cache

Add(k) ==
    /\ Make(k, "Add")
    /\ cache' = [cache EXCEPT ![k][Head(calls[k]).key] = Head(calls[k]).workload]
    /\ UNCHANGED identityCluster

\* Whichever workload the entry is about.
Delete(k) ==
    /\ Make(k, "Delete")
    /\ cache' = [cache EXCEPT ![k][Head(calls[k]).key] = NoWorkload]
    /\ UNCHANGED identityCluster

Handler(k) ==
    \/ Added(k) \/ Updated(k) \/ Deleted(k) \/ DeletedTombstone(k)
    \/ AddClusterToIdentity(k) \/ DeleteClusterFromIdentity(k) \/ Add(k) \/ Delete(k)

Next ==
    \/ \E w \in Workloads :
          \/ \E s \in Specs : WorkloadAdded(w, s) \/ WorkloadUpdated(w, s)
          \/ WorkloadDeleted(w) \/ DeletionMissed(w) \/ Resync(w)
    \/ \E k \in Kinds : Handler(k)

Spec == Init /\ [][Next]_vars

(***************************************************************************)
(* Handlers run, and the informers, started with CacheRefreshInterval,     *)
(* resync every workload again and again.                                  *)
(***************************************************************************)
Fairness ==
    /\ \A k \in Kinds : WF_vars(Handler(k))
    /\ \A w \in Workloads : SF_vars(Resync(w))

FairSpec == Spec /\ Fairness

-----------------------------------------------------------------------------

Drained == \A k \in Kinds : queue[k] = <<>> /\ calls[k] = <<>>

Holders(k, key) ==
    {w \in Workloads : KindOf(w) = k /\ Admitted(spec[w]) /\ KeyOf(spec[w]) = key}

\* The caches know the workload: its key has an entry of a workload that has the
\* key, and its identity has the cluster.
Known(w) ==
    LET key == KeyOf(spec[w])
    IN  /\ cache[KindOf(w)][key] \in Holders(KindOf(w), key)
        /\ spec[w].identity \in identityCluster

\* When all notifications are handled the caches have nothing of a workload
\* that is gone, except for what the handlers do not look at: a changed
\* environment, a workload that left the mesh, a deletion the watch missed.
OnlyOrphansLinger ==
    Drained =>
        /\ \A k \in Kinds, key \in Keys :
              cache[k][key] # NoWorkload => Holders(k, key) # {} \/ <<k, key>> \in orphans
        /\ \A i \in identityCluster :
              \/ \E w \in Workloads : Admitted(spec[w]) /\ spec[w].identity = i
              \/ \E o \in orphans : o[2][1] = i

\* When all notifications are handled a meshed workload is known, unless another
\* workload has ever had its identity: leaving or deleted, that one may have
\* taken the cluster and the entry with it.
OwnIdentityIsKnown ==
    Drained =>
        \A w \in Workloads :
            Admitted(spec[w]) /\ (\A v \in Workloads \ {w} : spec[w].identity \notin everHad[v])
                => Known(w)

\* Whatever a workload took with it that others still need, the resync brings
\* back: once workloads no longer change every meshed one is known for good.
ResyncRestores == <>[](\A w \in Workloads : Admitted(spec[w]) => Known(w))
=============================================================================
