---------------------------- MODULE RemoteClusters ----------------------------
(***************************************************************************)
(* Cluster secrets and the controllers started for their clusters: the     *)
(* secret handler and the resolver of internal/handler/remotecluster with  *)
(* the caches RemoteCluster and ControllerCache.                           *)
(*                                                                         *)
(* Starting a controller ends with "go controller.Run(ctx)", which enters  *)
(* the controller in ControllerCache later; stopping one is a goroutine of *)
(* its own.  The secret controller's workers wait for neither.             *)
(***************************************************************************)
EXTENDS Naturals, FiniteSets

CONSTANTS
    Workers,    \* workers of the secret controller
    Secrets,
    Clusters,   \* cluster IDs, the keys of the secrets' data
    Data,       \* the cluster IDs in each secret, at least one
    Kinds,      \* controllers per cluster: service, deployment, rollouts
    Matching,   \* <<c, d>>: the ID c occurs in the names of d's controllers
    NoSecret, NoCluster,
    MaxEvents,  \* bound: secrets added, deleted, or their sync switched
    MaxMissed,  \* bound: deletions of which only a tombstone reaches the handler
    MaxStarts,  \* bound: times the controllers of one cluster are started
    MaxFailures \* bound: starts at which clients of controllers cannot be built

ASSUME ClustersAssumption ==
    /\ Data \in [Secrets -> (SUBSET Clusters) \ {{}}]
    /\ Matching \subseteq Clusters \X Clusters
    /\ NoSecret \notin Secrets /\ NoCluster \notin Clusters
    /\ {MaxEvents, MaxMissed, MaxStarts, MaxFailures} \subseteq Nat

Names == Kinds \X Clusters
Instances == Kinds \X Clusters \X (1 .. MaxStarts)
Idle == [op |-> "idle", secret |-> NoSecret, todo |-> {}, resolving |-> NoCluster]

VARIABLES
    present,        \* secrets that exist with sync enabled
    disabled,       \* secrets that exist with sync disabled
    missed,         \* history: secrets whose last deletion was a tombstone, not synced since
    misses,         \* tombstones so far
    events,         \* secrets added, deleted or switched so far
    event,          \* the event each worker handles, and what is left of it
    remoteCluster,  \* RemoteCluster cache: the secret a cluster came from
    starts,         \* times each cluster's controllers were started
    instance,       \* the state of each started controller
    controllerCache,\* ControllerCache: the instance registered under a name
    stoppers,       \* goroutines of StopRemoteClusterControllers
    failures,       \* starts so far at which not every controller came
    missing,        \* history: the controllers that did not come when last started
    crashed,        \* a closed StopCh was closed again
    calm            \* history: every event so far came when nothing was in progress

startVars == <<starts, failures, missing>>
secretVars == <<present, disabled, missed, misses, events>>
handlerVars == <<secretVars, event, calm>>
vars == <<handlerVars, remoteCluster, startVars, instance, controllerCache, stoppers, crashed>>

Init ==
    /\ present = {} /\ disabled = {} /\ missed = {} /\ misses = 0 /\ events = 0
    /\ event = [w \in Workers |-> Idle]
    /\ remoteCluster = [c \in Clusters |-> NoSecret]
    /\ starts = [c \in Clusters |-> 0]
    /\ instance = [i \in Instances |-> "none"]
    /\ controllerCache = [n \in Names |-> 0]
    /\ stoppers = {} /\ failures = 0 /\ missing = {}
    /\ crashed = FALSE /\ calm = TRUE

Quiet ==
    /\ stoppers = {}
    /\ \A i \in Instances : instance[i] \notin {"starting", "stopping"}
    /\ \A w \in Workers : event[w] = Idle

-----------------------------------------------------------------------------
(* Events of the secret controller.                                         *)

Handle(w, op, s) ==
    /\ ~crashed /\ event[w] = Idle
    /\ calm' = (calm /\ Quiet)
    /\ event' = [event EXCEPT ![w] = [Idle EXCEPT !.op = op, !.secret = s, !.todo = Data[s]]]
    /\ UNCHANGED <<remoteCluster, startVars, instance, controllerCache, stoppers, crashed>>

SyncEnabled(s) == present' = present \cup {s} /\ disabled' = disabled \ {s}
SyncDisabled(s) == present' = present \ {s} /\ disabled' = disabled \cup {s}
Gone(s) == present' = present \ {s} /\ disabled' = disabled \ {s}
Count == events < MaxEvents /\ events' = events + 1

\* Added with a new secret, or Updated when its sync becomes enabled.
SecretAdded(w, s) ==
    /\ s \notin present /\ Count
    /\ SyncEnabled(s) /\ missed' = missed \ {s}
    /\ Handle(w, "add", s)
    /\ UNCHANGED misses

\* Mutant of SecretUpdated: Updated ignores secrets whose sync stays enabled.
SecretUpdatedIgnored(w, s) ==
    /\ s \in present /\ event[w] = Idle
    /\ UNCHANGED vars

\* Updated with sync enabled, as with every resync of the informer: Added.
SecretUpdated(w, s) ==
    /\ s \in present
    /\ Handle(w, "add", s)
    /\ UNCHANGED secretVars

\* Mutant of SecretDisabled: Updated takes every update for one of a synced secret.
SecretDisabledIgnored(w, s) ==
    /\ s \in present /\ event[w] = Idle /\ Count
    /\ SyncDisabled(s)
    /\ UNCHANGED <<missed, misses, event, calm, remoteCluster, startVars, instance,
                   controllerCache, stoppers, crashed>>

\* Updated when the sync of a secret becomes disabled.
SecretDisabled(w, s) ==
    /\ s \in present /\ Count
    /\ SyncDisabled(s)
    /\ Handle(w, "delete", s)
    /\ UNCHANGED <<missed, misses>>

\* Deleted, which does not ask whether sync was enabled.
SecretDeleted(w, s) ==
    /\ s \in present \cup disabled /\ Count
    /\ Gone(s) /\ missed' = missed \ {s}
    /\ Handle(w, "delete", s)
    /\ UNCHANGED misses

\* Deleted with a tombstone, DeletedFinalStateUnknown: the cast fails.
SecretDeletedTombstone(w, s) ==
    /\ ~crashed /\ event[w] = Idle
    /\ s \in present \cup disabled /\ misses < MaxMissed /\ Count
    /\ Gone(s) /\ missed' = missed \cup {s} /\ misses' = misses + 1
    /\ UNCHANGED <<event, calm, remoteCluster, startVars, instance, controllerCache, stoppers, crashed>>

\* Added with sync disabled: nothing is done.
SecretIgnored(w, s) ==
    /\ ~crashed /\ event[w] = Idle
    /\ s \notin present \cup disabled /\ Count
    /\ SyncDisabled(s)
    /\ UNCHANGED <<missed, misses, event, calm, remoteCluster, startVars, instance,
                   controllerCache, stoppers, crashed>>

SecretEvent(w, s) ==
    \/ SecretAdded(w, s) \/ SecretUpdated(w, s) \/ SecretDisabled(w, s)
    \/ SecretDeleted(w, s) \/ SecretDeletedTombstone(w, s) \/ SecretIgnored(w, s)

Completed(w, c) ==
    LET left == event[w].todo \ {c}
    IN  event' = [event EXCEPT ![w] =
                     IF left = {} THEN Idle
                     ELSE [@ EXCEPT !.todo = left, !.resolving = NoCluster]]

\* Added: the cluster is in the cache, from this secret or another one.
SkipCached(w, c) ==
    /\ ~crashed /\ event[w].op = "add" /\ c \in event[w].todo
    /\ event[w].resolving = NoCluster
    /\ remoteCluster[c] # NoSecret
    /\ Completed(w, c)
    /\ UNCHANGED <<secretVars, remoteCluster, startVars, instance, controllerCache,
                   stoppers, crashed, calm>>

\* Added: the cluster is not in the cache, ResolveConfig is called.
Resolve(w, c) ==
    /\ ~crashed /\ event[w].op = "add" /\ c \in event[w].todo
    /\ event[w].resolving = NoCluster
    /\ remoteCluster[c] = NoSecret
    /\ event' = [event EXCEPT ![w].resolving = c]
    /\ UNCHANGED <<secretVars, remoteCluster, startVars, instance, controllerCache,
                   stoppers, crashed, calm>>

ResolveFails(w, c) ==
    /\ ~crashed /\ event[w].resolving = c
    /\ Completed(w, c)
    /\ UNCHANGED <<secretVars, remoteCluster, startVars, instance, controllerCache,
                   stoppers, crashed, calm>>

\* Those of the kinds in failing do not come: their client cannot be built.  The
\* error is logged or dropped, and nothing tries again.
Start(c, failing) ==
    /\ starts[c] < MaxStarts
    /\ starts' = [starts EXCEPT ![c] = @ + 1]
    /\ IF failing = {} THEN UNCHANGED failures
       ELSE failures < MaxFailures /\ failures' = failures + 1
    /\ missing' = {n \in missing : n[2] # c} \cup (failing \X {c})
    /\ instance' = [i \in Instances |->
                       IF i[1] \notin failing /\ i[2] = c /\ i[3] = starts[c] + 1
                       THEN "starting" ELSE instance[i]]

\* Mutant of StartCluster: the cluster is not added to the cache.
StartClusterUncached(w, c) ==
    /\ ~crashed /\ event[w].resolving = c
    /\ \E failing \in SUBSET Kinds : Start(c, failing)
    /\ Completed(w, c)
    /\ UNCHANGED <<secretVars, remoteCluster, controllerCache, stoppers, crashed, calm>>

\* AddRemoteClusterToCache and StartRemoteClusterControllers.
StartCluster(w, c) ==
    /\ ~crashed /\ event[w].resolving = c
    /\ remoteCluster' = [remoteCluster EXCEPT ![c] = event[w].secret]
    /\ \E failing \in SUBSET Kinds : Start(c, failing)
    /\ Completed(w, c)
    /\ UNCHANGED <<secretVars, controllerCache, stoppers, crashed, calm>>

\* StopRemoteClusterControllers: a goroutine for every registered controller
\* whose name contains the ID, whatever secret the cluster came from.
Stop(c) ==
    stoppers' = stoppers \cup
        {[by |-> c, instance |-> <<n[1], n[2], controllerCache[n]>>,
          event |-> events, at |-> "deregister"] :
            n \in {m \in Names : <<c, m[2]>> \in Matching /\ controllerCache[m] # 0}}

\* Mutant of StopCluster: deleting the cluster is left to the goroutines.
StopClusterKeepsCached(w, c) ==
    /\ ~crashed /\ event[w].op = "delete" /\ c \in event[w].todo
    /\ Stop(c)
    /\ Completed(w, c)
    /\ UNCHANGED <<secretVars, remoteCluster, startVars, instance, controllerCache, crashed,
                   calm>>

\* StopRemoteClusterControllers and DeleteRemoteClusterFromCache.
StopCluster(w, c) ==
    /\ ~crashed /\ event[w].op = "delete" /\ c \in event[w].todo
    /\ Stop(c)
    /\ remoteCluster' = [remoteCluster EXCEPT ![c] = NoSecret]
    /\ Completed(w, c)
    /\ UNCHANGED <<secretVars, startVars, instance, controllerCache, crashed, calm>>

-----------------------------------------------------------------------------
(* The controllers.                                                         *)

NameOf(i) == <<i[1], i[2]>>

\* Run has started the workers and registers the controller.
Register(i) ==
    /\ ~crashed /\ instance[i] = "starting"
    /\ instance' = [instance EXCEPT ![i] = "running"]
    /\ controllerCache' = [controllerCache EXCEPT ![NameOf(i)] = i[3]]
    /\ UNCHANGED <<handlerVars, remoteCluster, startVars, stoppers, crashed>>

\* Every worker's context is done (see module Controller).
WorkersDone(i) ==
    /\ ~crashed /\ instance[i] = "stopping"
    /\ instance' = [instance EXCEPT ![i] = "stopped"]
    /\ UNCHANGED <<handlerVars, remoteCluster, startVars, controllerCache, stoppers, crashed>>

Advance(g, at) == stoppers' = (stoppers \ {g}) \cup {[g EXCEPT !.at = at]}

\* Mutant of DeRegister: the controller stays registered.
DeRegisterForgotten(g) ==
    /\ ~crashed /\ g.at = "deregister"
    /\ Advance(g, "close")
    /\ UNCHANGED <<handlerVars, remoteCluster, startVars, instance, controllerCache, crashed>>

\* ControllerCache.DeRegister(controllerName), by name only.
DeRegister(g) ==
    /\ ~crashed /\ g.at = "deregister"
    /\ controllerCache' = [controllerCache EXCEPT ![NameOf(g.instance)] = 0]
    /\ Advance(g, "close")
    /\ UNCHANGED <<handlerVars, remoteCluster, startVars, instance, crashed>>

\* close(controllerCtx.StopCh), which panics if it is closed already.
CloseStopCh(g) ==
    /\ ~crashed /\ g.at = "close"
    /\ IF instance[g.instance] = "running"
       THEN /\ instance' = [instance EXCEPT ![g.instance] = "stopping"]
            /\ UNCHANGED crashed
       ELSE crashed' = TRUE /\ UNCHANGED instance
    /\ Advance(g, "wait")
    /\ UNCHANGED <<handlerVars, remoteCluster, startVars, controllerCache>>

\* The workers have finished: RemoteCluster.DeleteCluster(clusterID).
DeleteCluster(g) ==
    /\ ~crashed /\ g.at = "wait" /\ instance[g.instance] = "stopped"
    /\ remoteCluster' = [remoteCluster EXCEPT ![g.by] = NoSecret]
    /\ stoppers' = stoppers \ {g}
    /\ UNCHANGED <<handlerVars, startVars, instance, controllerCache, crashed>>

Handler(w) ==
    \E c \in Clusters :
        SkipCached(w, c) \/ Resolve(w, c) \/ ResolveFails(w, c) \/ StopCluster(w, c)

Controller(i) == Register(i) \/ WorkersDone(i)
Stopper(g) == DeRegister(g) \/ CloseStopCh(g) \/ DeleteCluster(g)

Next ==
    \/ \E w \in Workers, s \in Secrets : SecretEvent(w, s)
    \/ \E w \in Workers : Handler(w) \/ \E c \in Clusters : StartCluster(w, c)
    \/ \E i \in Instances : Controller(i)
    \/ \E g \in stoppers : Stopper(g)

Spec == Init /\ [][Next]_vars

(***************************************************************************)
(* Goroutines run, the informer resyncs every present secret again and     *)
(* again, and a configuration that is resolved again and again resolves.   *)
(***************************************************************************)
Fairness ==
    /\ \A w \in Workers : WF_vars(Handler(w))
    /\ \A w \in Workers, c \in Clusters : SF_vars(StartCluster(w, c))
    /\ \A w \in Workers, s \in Secrets : SF_vars(SecretUpdated(w, s))
    /\ \A i \in Instances : WF_vars(Controller(i))
    /\ WF_vars(\E g \in stoppers : Stopper(g))

FairSpec == Spec /\ Fairness

-----------------------------------------------------------------------------

\* When secrets changed calmly so far and nothing is in progress, a controller runs
\* for each kind of a cached cluster whose client could be built, and no other does;
\* it is registered, so that it will be stopped with its cluster or at shutdown.
RunningIffCached ==
    calm /\ Quiet =>
        \A k \in Kinds, c \in Clusters :
            LET running == {n \in 1 .. MaxStarts : instance[<<k, c, n>>] = "running"}
                registered == {controllerCache[<<k, c>>]} \ {0}
            IN  /\ running = registered
                /\ running # {} <=> remoteCluster[c] # NoSecret /\ <<k, c>> \notin missing

\* No StopCh is closed twice: when secrets change calmly the process does not
\* panic, although deregistering, closing and clearing are separate steps.
StopChClosedOnce == calm => ~crashed

\* A secret that is deleted or no longer synced leaves no cluster behind: a cluster
\* in the cache came from a secret that is present with sync enabled, or whose
\* deletion is being handled, or, the one exception, whose deletion reached the
\* handler as a tombstone, which its cast drops.
OwnerIsPresent ==
    \A c \in Clusters :
        \/ remoteCluster[c] \in present \cup missed \cup {NoSecret}
        \/ \E w \in Workers : event[w].op = "delete" /\ c \in event[w].todo

\* Whatever late goroutines remove, the resync brings back: the clusters of a
\* secret that stays are in the cache for good, unless the process has crashed.
ResyncRestores ==
    \A s \in Secrets : \A c \in Data[s] :
        <>[](s \in present) => <>(crashed \/ [](remoteCluster[c] # NoSecret))

\* "Stop remote cluster controllers and delete remote cluster from cache if sync
\* is disabled" (clusters_secret_handler.go): once no secret has a cluster any
\* more all its controllers stop.
StoppedWithSecret ==
    \A c \in Clusters :
        <>[](~crashed /\ \A s \in present : c \notin Data[s]) =>
            []<>(\A i \in Instances : i[2] = c => instance[i] \in {"none", "stopped"})
=============================================================================
