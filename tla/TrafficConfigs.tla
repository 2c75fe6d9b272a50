---------------------------- MODULE TrafficConfigs ----------------------------
(***************************************************************************)
(* From a TrafficConfig to the virtual services of its clients.            *)
(*                                                                         *)
(* The traffic config, the dependency and the workload controllers each    *)
(* run on a worker of their own.  All of them apply traffic configs: the   *)
(* first the one of its event, the others one from the cache, triggered by *)
(* a new destination or a new workload.  To apply one they look up the     *)
(* clients and their clusters and write a virtual service in each cluster: *)
(* get, then update or create.                                             *)
(*                                                                         *)
(* An identity has one traffic config, in one environment.  Identities,    *)
(* clusters and traffic configs are those the options let through.  A      *)
(* worker handles its notifications in order and reads nothing else of the *)
(* API, so that a notification appears here when its handler starts.       *)
(***************************************************************************)
EXTENDS Naturals

CONSTANTS
    Identities, Clusters,
    Configured,         \* identities that may have a traffic config
    MixedCase,          \* identities that workloads and Dependencies write with capital letters
    NoIdentity, NoCluster,
    MaxRevision,        \* bound: revisions of each traffic config
    MaxWorkloads,       \* bound: workloads that appear
    MaxDependencies,    \* bound: notifications of Dependencies
    MaxFaults           \* bound: workloads, clusters and Dependencies that go, tombstones,
                        \* revisions without routes, calls of the clusters' APIs that fail

ASSUME TrafficConfigAssumption ==
    /\ Configured \cup MixedCase \subseteq Identities
    /\ NoIdentity \notin Identities /\ NoCluster \notin Clusters
    /\ Clusters \cap {"trafficconfig", "dependency"} = {}
    /\ {MaxRevision, MaxWorkloads, MaxDependencies, MaxFaults} \subseteq Nat

\* The worker of a cluster's workload controller is named after the cluster.
Workers == {"trafficconfig", "dependency"} \cup Clusters
None == 0       \* no revision

VARIABLES
    warm,           \* IsCacheWarmedUp
    current,        \* the revision the traffic config worker was last told of
    status,         \* of each identity's traffic config: absent, disabled, present (ignored or not)
    routeless,      \* the identities and revisions of traffic configs without routes
    cached,         \* TrafficConfigCache: the revision of each identity
    destinations,   \* of the Dependency of each identity
    dependents,     \* IdentityDependency: the clients of each identity
    home,           \* IdentityCluster: the clusters of each identity
    remote,         \* RemoteCluster: the clusters known
    job,            \* what each worker is doing
    vs,             \* the revision in the virtual service of each identity and cluster
    everHome,       \* history: the clusters each identity ever had
    count           \* notifications and faults so far

caches == <<warm, cached, dependents, home, remote>>
informed == <<current, status, routeless, destinations>>
vars == <<caches, informed, job, vs, everHome, count>>

Idle == [phase |-> "idle", next |-> "idle", pending |-> {}, of |-> NoIdentity, rest |-> {},
         tc |-> NoIdentity, rev |-> None, source |-> NoIdentity, deps |-> {}, targets |-> {},
         cluster |-> NoCluster, seen |-> "absent",
         versioned |-> FALSE, owed |-> {}, refused |-> {}]

Init ==
    /\ warm = FALSE
    /\ current = [i \in Identities |-> None]
    /\ status = [i \in Identities |-> "absent"] /\ routeless = {}
    /\ cached = [i \in Identities |-> None]
    /\ destinations = [i \in Identities |-> {}]
    /\ dependents = [i \in Identities |-> {}]
    /\ home = [i \in Identities |-> {}] /\ remote = Clusters
    /\ job = [w \in Workers |-> Idle]
    /\ vs = [i \in Identities |-> [c \in Clusters |-> None]]
    /\ everHome = [i \in Identities |-> {}]
    /\ count = [workloads |-> 0, dependencies |-> 0, faults |-> 0]

IsIdle(w) == job[w].phase = "idle"
Counted(what, max) == count[what] < max /\ count' = [count EXCEPT ![what] = @ + 1]

\* The time since the start exceeds the refresh interval of the caches.
WarmUp ==
    /\ ~warm /\ warm' = TRUE
    /\ UNCHANGED <<cached, dependents, home, remote, informed, job, vs, everHome, count>>

-----------------------------------------------------------------------------
(* Notifications of traffic configs.                                        *)

\* The job goes on by applying revision r of i's traffic config, or by removing
\* it if there is none: for all clients or, if given, for source only.
Applying(j, i, r, source, next) ==
    [j EXCEPT !.phase = "lookup", !.next = next, !.tc = i, !.rev = r, !.source = source,
              !.versioned = FALSE, !.owed = {}, !.refused = {}]

ApplyIfWarm(i, r) ==
    job' = IF warm THEN [job EXCEPT !["trafficconfig"] = Applying(@, i, r, NoIdentity, "idle")]
           ELSE job

AddTrafficConfigToCache(i, r) == cached' = [cached EXCEPT ![i] = r]

\* The entry of the environment goes, if it is of this traffic config.
DeleteTrafficConfigFromCache(i) == cached' = [cached EXCEPT ![i] = None]

NewRevision(i, s) ==
    /\ IsIdle("trafficconfig") /\ current[i] < MaxRevision
    /\ current' = [current EXCEPT ![i] = @ + 1]
    /\ status' = [status EXCEPT ![i] = s]
    /\ \/ UNCHANGED <<routeless, count>>
       \/ /\ Counted("faults", MaxFaults)
          /\ routeless' = routeless \cup {<<i, current'[i]>>}
    /\ UNCHANGED <<warm, dependents, home, remote, destinations, vs, everHome>>

TrafficConfigAdded(i) ==
    /\ status[i] = "absent"
    /\ NewRevision(i, "present")
    /\ AddTrafficConfigToCache(i, current'[i])
    /\ ApplyIfWarm(i, current'[i])

\* The cache keeps the revision it has.
TrafficConfigUpdated(i) ==
    /\ status[i] # "absent"
    /\ NewRevision(i, "present")
    /\ ApplyIfWarm(i, current'[i])
    /\ UNCHANGED cached

\* Added or updated, it is skipped: neither cache nor virtual services change.
TrafficConfigSkipped(i) ==
    /\ \E s \in {"disabled", "present"} : NewRevision(i, s)
    /\ UNCHANGED <<cached, job>>

\* Mutant of TrafficConfigDeleted: what is written is what the cache had.
TrafficConfigDeletedFromCache(i) ==
    /\ IsIdle("trafficconfig") /\ status[i] # "absent"
    /\ status' = [status EXCEPT ![i] = "absent"]
    /\ DeleteTrafficConfigFromCache(i)
    /\ ApplyIfWarm(i, IF status[i] = "disabled" THEN None ELSE cached[i])
    /\ UNCHANGED <<warm, dependents, home, remote, current, routeless, destinations, vs, everHome,
                   count>>

\* Only a disabled one is removed; any other is written once more.
TrafficConfigDeleted(i) ==
    /\ IsIdle("trafficconfig") /\ status[i] # "absent"
    /\ status' = [status EXCEPT ![i] = "absent"]
    /\ DeleteTrafficConfigFromCache(i)
    /\ ApplyIfWarm(i, IF status[i] = "disabled" THEN None ELSE current[i])
    /\ UNCHANGED <<warm, dependents, home, remote, current, routeless, destinations, vs, everHome,
                   count>>

\* The informer missed the deletion and hands over a tombstone, which the handler
\* does not know: cache and virtual services stay as they are.
TrafficConfigDeletedTombstone(i) ==
    /\ IsIdle("trafficconfig") /\ status[i] # "absent" /\ Counted("faults", MaxFaults)
    /\ status' = [status EXCEPT ![i] = "absent"]
    /\ UNCHANGED <<caches, current, routeless, destinations, job, vs, everHome>>

-----------------------------------------------------------------------------
(* Notifications of Dependencies and workloads.                             *)

\* Triggering the traffic configs of each identity in I, one after the other.
Triggering(j, I) == [j EXCEPT !.phase = IF I = {} THEN "idle" ELSE "trigger", !.pending = I]

\* To each of the identities in D, of whom nobody forgets i again.
AddDependentToIdentity(D, i) ==
    dependents' = [d \in Identities |-> IF d \in D THEN dependents[d] \cup {i} ELSE dependents[d]]

Depend(i, D) ==
    /\ IsIdle("dependency") /\ Counted("dependencies", MaxDependencies)
    /\ i \notin D
    /\ destinations' = [destinations EXCEPT ![i] = D]
    /\ AddDependentToIdentity(D, i)
    /\ UNCHANGED <<warm, cached, home, remote, current, status, routeless, vs, everHome>>

DependencyAdded(i, D) ==
    /\ destinations[i] = {}
    /\ Depend(i, D)
    /\ UNCHANGED job

\* Destinations that left are not taken out of the cache.
DependencyUpdated(i, D) ==
    /\ Depend(i, D)
    /\ job' = IF warm THEN [job EXCEPT !["dependency"] = Triggering(@, D \ destinations[i])]
              ELSE job

\* The caches keep what they have.
DependencyDeleted(i) ==
    /\ IsIdle("dependency") /\ destinations[i] # {} /\ Counted("faults", MaxFaults)
    /\ destinations' = [destinations EXCEPT ![i] = {}]
    /\ UNCHANGED <<caches, current, status, routeless, job, vs, everHome>>

WorkloadAdded(i, c) ==
    /\ IsIdle(c) /\ Counted("workloads", MaxWorkloads)
    /\ home' = [home EXCEPT ![i] = @ \cup {c}]
    /\ everHome' = [everHome EXCEPT ![i] = @ \cup {c}]
    /\ job' = IF warm THEN [job EXCEPT ![c] = Triggering(@, {i})] ELSE job
    /\ UNCHANGED <<warm, cached, dependents, remote, informed, vs>>

WorkloadDeleted(i, c) ==
    /\ IsIdle(c) /\ c \in home[i] /\ Counted("faults", MaxFaults)
    /\ home' = [home EXCEPT ![i] = @ \ {c}]
    /\ UNCHANGED <<warm, cached, dependents, remote, informed, job, vs, everHome>>

ClusterDeleted(c) ==
    /\ remote' = remote \ {c} /\ c \in remote /\ Counted("faults", MaxFaults)
    /\ UNCHANGED <<warm, cached, dependents, home, informed, job, vs, everHome>>

-----------------------------------------------------------------------------
(* Steps of the jobs.                                                       *)

Goes(w, j) == job' = [job EXCEPT ![w] = j]

\* What the caches answer, each under its lock.
GetTrafficConfig(i) == cached[i]
GetDependentsForIdentity(i) == dependents[i]
GetClustersForIdentity(i) == home[i]
GetCluster(c) == c \in remote
Quiet == UNCHANGED <<caches, informed, vs, everHome, count>>

\* TriggerTrafficConfigHandlerForIdentity, for one of the pending identities.
TriggerSelf(w) ==
    /\ job[w].phase = "trigger"
    /\ \E i \in job[w].pending :
          LET j == [job[w] EXCEPT !.pending = @ \ {i}, !.of = i, !.phase = "dependents"]
          IN  Goes(w, IF GetTrafficConfig(i) = None THEN j
                      ELSE Applying(j, i, GetTrafficConfig(i), NoIdentity, "dependents"))
    /\ Quiet

TriggerDependents(w) ==
    /\ job[w].phase = "dependents"
    /\ Goes(w, [job[w] EXCEPT !.phase = "rest", !.rest = GetDependentsForIdentity(job[w].of)])
    /\ Quiet

\* Mutant of TriggerDependent: where there is no traffic config, what it left goes.
TriggerDependentAlways(w) ==
    /\ job[w].phase = "rest"
    /\ \E d \in job[w].rest :
          Goes(w, Applying([job[w] EXCEPT !.rest = @ \ {d}], d, GetTrafficConfig(d), job[w].of, "rest"))
    /\ Quiet

TriggerDependent(w) ==
    /\ job[w].phase = "rest"
    /\ \E d \in job[w].rest :
          LET j == [job[w] EXCEPT !.rest = @ \ {d}]
          IN  Goes(w, IF GetTrafficConfig(d) = None THEN j
                      ELSE Applying(j, d, GetTrafficConfig(d), job[w].of, "rest"))
    /\ Quiet

Triggered(w) ==
    /\ job[w].phase = "rest" /\ job[w].rest = {}
    /\ Goes(w, Triggering([job[w] EXCEPT !.of = NoIdentity], job[w].pending))
    /\ Quiet

\* The traffic config at hand, the latest when it is to be removed, has routes.
HasRoutes(j) == <<j.tc, IF j.rev = None THEN current[j.tc] ELSE j.rev>> \notin routeless

\* With clients D still to look up.  Without routes no virtual service can be built:
\* the handler returns and leaves what there is.
LookingUp(j, D) ==
    IF D # {} THEN [j EXCEPT !.deps = D, !.phase = "clusters"]
    ELSE [j EXCEPT !.deps = {}, !.phase = "apply", !.targets = IF HasRoutes(j) THEN @ ELSE {}]

\* HandleVirtualServiceForTrafficConfig: the clients, or none but the source, which
\* is compared as it is written with clients in lower case.
LookUpClients(w) ==
    LET s == job[w].source
    IN  /\ job[w].phase = "lookup"
        /\ Goes(w, LookingUp(job[w],
                     {d \in GetDependentsForIdentity(job[w].tc) :
                         s = NoIdentity \/ (s = d /\ s \notin MixedCase)}))
        /\ Quiet

\* With one more client looked up, whose clusters are C.
ClustersFound(j, d, C) ==
    LookingUp([j EXCEPT !.targets = @ \cup C, !.owed = @ \cup C], j.deps \ {d})

\* Mutant of LookUpClusters: the clusters of the service.
LookUpOwnClusters(w) ==
    /\ job[w].phase = "clusters"
    /\ \E d \in job[w].deps :
          Goes(w, ClustersFound(job[w], d, GetClustersForIdentity(job[w].tc)))
    /\ Quiet

LookUpClusters(w) ==
    /\ job[w].phase = "clusters"
    /\ \E d \in job[w].deps : Goes(w, ClustersFound(job[w], d, GetClustersForIdentity(d)))
    /\ Quiet

\* A cluster that is gone is skipped.
SkipCluster(w) ==
    /\ job[w].phase = "apply"
    /\ \E c \in job[w].targets :
          /\ ~GetCluster(c)
          /\ Goes(w, [job[w] EXCEPT !.targets = @ \ {c}, !.owed = @ \ {c}])
    /\ Quiet

Choose(w, c) == job[w].phase = "apply" /\ c \in job[w].targets /\ GetCluster(c)

\* A call that fails is taken for a virtual service that is not there.
GetVirtualService(w) ==
    \E c \in Clusters :
        /\ Choose(w, c) /\ job[w].rev # None
        /\ \/ /\ Goes(w, [job[w] EXCEPT !.phase = "write", !.targets = @ \ {c}, !.cluster = c,
                            !.seen = IF vs[job[w].tc][c] = None THEN "absent" ELSE "present"])
              /\ UNCHANGED count
           \/ /\ Counted("faults", MaxFaults)
              /\ Goes(w, [job[w] EXCEPT !.phase = "write", !.targets = @ \ {c}, !.cluster = c,
                            !.seen = "absent", !.owed = @ \ {c}])
    /\ UNCHANGED <<caches, informed, vs, everHome>>

Over(j) == [j EXCEPT !.phase = "apply", !.cluster = NoCluster, !.seen = "absent"]

\* What w's write of service i in cluster c does to job j of another worker: the
\* resource version it read is the current one no more, nor what it wrote.
Disturbed(j, i, c) ==
    IF j.tc # i \/ c \in j.targets THEN j
    ELSE [j EXCEPT !.owed = @ \ {c},
                   !.seen = IF j.cluster = c /\ @ = "present" THEN "outdated" ELSE @]

\* The API server stores a virtual service.
Store(w, c, r, mine) ==
    LET i == job[w].tc
    IN  /\ vs' = [vs EXCEPT ![i][c] = r]
        /\ job' = [v \in Workers |-> IF v = w THEN mine ELSE Disturbed(job[v], i, c)]

\* Errors are logged and forgotten.
CallFails(w, j) == Counted("faults", MaxFaults) /\ Goes(w, j) /\ UNCHANGED vs

\* Mutant of UpdateVirtualService: the resource version is not set, and the API
\* server refuses the update.
UpdateVirtualServiceUnversioned(w) ==
    /\ job[w].phase = "write" /\ job[w].seen # "absent"
    /\ Goes(w, Over(job[w]))
    /\ UNCHANGED <<caches, informed, vs, everHome, count>>

\* The resource version that was read goes along, and stays in the object that
\* is written to the next clusters.
UpdateVirtualService(w) ==
    /\ job[w].phase = "write" /\ job[w].seen # "absent"
    /\ LET c == job[w].cluster
           j == [Over(job[w]) EXCEPT !.versioned = TRUE]
       IN  \/ /\ job[w].seen = "present"
              /\ Store(w, c, job[w].rev, j) /\ UNCHANGED count
           \/ /\ job[w].seen = "outdated"
              /\ Goes(w, j) /\ UNCHANGED <<vs, count>>
           \/ CallFails(w, [j EXCEPT !.owed = @ \ {c}])
    /\ UNCHANGED <<caches, informed, everHome>>

\* The API server refuses an object that exists or that has a resource version.
CreateVirtualService(w) ==
    /\ job[w].phase = "write" /\ job[w].seen = "absent"
    /\ LET c == job[w].cluster
           exists == vs[job[w].tc][c] # None
       IN  \/ /\ ~exists /\ ~job[w].versioned
              /\ Store(w, c, job[w].rev, Over(job[w])) /\ UNCHANGED count
           \/ /\ exists /\ Goes(w, Over(job[w])) /\ UNCHANGED <<vs, count>>
           \/ /\ ~exists /\ job[w].versioned
              /\ Goes(w, [Over(job[w]) EXCEPT !.refused = @ \cup {c}]) /\ UNCHANGED <<vs, count>>
           \/ CallFails(w, [Over(job[w]) EXCEPT !.owed = @ \ {c}])
    /\ UNCHANGED <<caches, informed, everHome>>

DeleteVirtualService(w) ==
    \E c \in Clusters :
        /\ Choose(w, c) /\ job[w].rev = None
        /\ LET j == [job[w] EXCEPT !.targets = @ \ {c}]
           IN  \/ Store(w, c, None, j) /\ UNCHANGED count
               \/ CallFails(w, [j EXCEPT !.owed = @ \ {c}])
        /\ UNCHANGED <<caches, informed, everHome>>

Applied(w) == job[w].phase = "apply" /\ job[w].targets = {}

HandlerReturns(w) ==
    /\ Applied(w)
    /\ Goes(w, IF job[w].next = "idle" THEN Idle
               ELSE [job[w] EXCEPT !.phase = job[w].next, !.next = "idle", !.tc = NoIdentity,
                        !.rev = None, !.source = NoIdentity, !.versioned = FALSE, !.owed = {},
                        !.refused = {}])
    /\ Quiet

Step(w) ==
    \/ TriggerSelf(w) \/ TriggerDependents(w) \/ TriggerDependent(w) \/ Triggered(w)
    \/ LookUpClients(w) \/ LookUpClusters(w) \/ SkipCluster(w)
    \/ GetVirtualService(w) \/ UpdateVirtualService(w) \/ CreateVirtualService(w)
    \/ DeleteVirtualService(w) \/ HandlerReturns(w)

Next ==
    \/ WarmUp
    \/ \E i \in Configured :
          \/ TrafficConfigAdded(i) \/ TrafficConfigUpdated(i)
          \/ TrafficConfigSkipped(i) \/ TrafficConfigDeleted(i)
          \/ TrafficConfigDeletedTombstone(i)
    \/ \E i \in Identities :
          \/ \E D \in SUBSET Identities : DependencyAdded(i, D) \/ DependencyUpdated(i, D)
          \/ DependencyDeleted(i)
          \/ \E c \in Clusters : WorkloadAdded(i, c) \/ WorkloadDeleted(i, c)
    \/ \E c \in Clusters : ClusterDeleted(c)
    \/ \E w \in Workers : Step(w)

Spec == Init /\ [][Next]_vars

-----------------------------------------------------------------------------

\* A handler that looked up the clusters of the clients leaves the revision it
\* handles in each of them, unless the revision has no routes, the cluster is
\* gone, a call failed, another handler wrote the same virtual service after this
\* one had read it, or the object had to be created after it had been used for an
\* update elsewhere.
HandledIsApplied ==
    \A w \in Workers :
        Applied(w) /\ HasRoutes(job[w]) =>
            \A c \in job[w].owed \ job[w].refused : vs[job[w].tc][c] = job[w].rev

\* The same without the last exception, as "to all the clients of the service
\* deployed across multiple clusters" says.
HandledReachesAll ==
    \A w \in Workers :
        Applied(w) /\ HasRoutes(job[w]) => \A c \in job[w].owed : vs[job[w].tc][c] = job[w].rev

\* A virtual service is only in clusters that a client of the service once had.
OnlyWhereClientsAre ==
    \A i \in Identities, c \in Clusters :
        vs[i][c] # None => \E d \in dependents[i] : c \in everHome[d]

\* The handler of a traffic config never replaces a revision by an older one,
\* whatever the handlers that take theirs from the cache write in between.
OwnHandlerMovesOn ==
    [][\A i \in Identities, c \in Clusters :
          job["trafficconfig"].phase = "write" /\ job'["trafficconfig"].phase # "write" =>
              vs'[i][c] >= vs[i][c]]_vars

\* "Updated cache, but in read only mode": handling a revision updates the cache
\* first, so a handler that takes what is in the cache writes nothing older than
\* what is there.
CacheIsNotBehind ==
    [][\A i \in Identities, c \in Clusters :
          vs'[i][c] # None /\ vs'[i][c] = cached[i] => vs'[i][c] >= vs[i][c]]_vars

-----------------------------------------------------------------------------
(* TrafficConfigs implements RevisionRollout.                               *)

Handling == {"lookup", "clusters", "apply", "write"}

Rollout == INSTANCE RevisionRollout
    WITH told <- current, known <- cached, Owner <- "trafficconfig",
         reach <- [i \in Identities |-> UNION {everHome[d] : d \in dependents[i]}],
         held <- [w \in Workers |-> IF job[w].phase \in Handling THEN <<job[w].tc, job[w].rev>>
                                    ELSE <<NoIdentity, None>>],
         store <- vs

\* However their steps interleave, handlers of traffic configs, of Dependencies and
\* of workloads write what RevisionRollout lets them write: the first what they were
\* told last, the others what the cache had when they began, and never a removal.
ImplementsRollout == Rollout!Spec
=============================================================================
