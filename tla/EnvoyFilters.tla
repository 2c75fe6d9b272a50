----------------------------- MODULE EnvoyFilters -----------------------------
(***************************************************************************)
(* The rate limiting filters of one traffic config in one cluster.         *)
(*                                                                         *)
(* HandleRateLimiter runs in the traffic config's own handler and in the   *)
(* handlers that trigger it with the revision in the cache.  For each of   *)
(* the revision's environments that has a workload, and for each proxy     *)
(* version, it requests a filter; it lists those that exist and creates,   *)
(* updates and deletes, one call of the cluster's API after the other.     *)
(*                                                                         *)
(* Clusters are handled one after the other and share nothing, so that one *)
(* is enough.  A filter is the revision it was made from.                  *)
(***************************************************************************)
EXTENDS Naturals

CONSTANTS
    Envs,           \* workload environments
    Versions,       \* EnvoyFilterVersions
    Triggers,       \* workers that trigger the handler: workloads, Dependencies
    MaxRevision,    \* bound: revisions of the traffic config
    MaxWorkloads,   \* bound: workloads that come or go
    MaxTriggers,    \* bound: times others trigger the handler
    MaxFailures,    \* bound: calls of the API that fail
    MaxRestarts     \* bound: restarts of the process

ASSUME EnvoyFilterAssumption ==
    /\ "trafficconfig" \notin Triggers
    /\ MaxRevision \in Nat /\ MaxWorkloads \in Nat
    /\ MaxTriggers \in Nat /\ MaxFailures \in Nat
    /\ MaxRestarts \in Nat

Workers == Triggers \cup {"trafficconfig"}
Keys == Envs \X Versions
None == 0       \* no revision

VARIABLES
    warm,           \* IsCacheWarmedUp
    exists,         \* the traffic config is there
    revision,       \* its latest revision
    workloadEnvs,   \* the environments of each revision
    cached,         \* TrafficConfigCache
    linked,         \* IdentityCluster: the identity has the cluster
    workloads,      \* environments with a workload in the caches
    job,            \* what each worker is doing
    filters,        \* the revision of each filter in the cluster
    count,          \* workloads, triggers, failed calls and restarts so far
    known,          \* history: environments with a workload that was in the caches and still runs
    steady,         \* history: environments of each worker's revision that had a workload in the
                    \*   caches from the start of its handler on
    excused         \* history: the last deletion may have left filters behind

caches == <<warm, cached, linked, workloads>>
trafficConfig == <<exists, revision, workloadEnvs>>
vars == <<caches, trafficConfig, job, filters, count, known, steady, excused>>

Idle == [phase |-> "idle", rev |-> None, env |-> {}, envs |-> {}, todo |-> {},
         seen |-> [k \in Keys |-> "none"], create |-> {}, update |-> {}, delete |-> {},
         alone |-> TRUE]

Init ==
    /\ warm = FALSE /\ exists = FALSE /\ revision = None
    /\ workloadEnvs = [r \in 1 .. MaxRevision |-> {}]
    /\ cached = None /\ linked = FALSE /\ workloads = {}
    /\ job = [w \in Workers |-> Idle]
    /\ filters = [k \in Keys |-> None]
    /\ count = [workloads |-> 0, triggers |-> 0, failures |-> 0, restarts |-> 0]
    /\ known = {} /\ steady = [w \in Workers |-> {}] /\ excused = FALSE

Counted(what, max) == count[what] < max /\ count' = [count EXCEPT ![what] = @ + 1]
IsIdle(w) == job[w].phase = "idle"

\* The warm-up is a span of time: it ends whether the caches are filled or not.
WarmUp ==
    /\ ~warm /\ warm' = TRUE
    /\ UNCHANGED <<cached, linked, workloads, trafficConfig, job, filters, count, known, steady,
                   excused>>

\* The process ends at any point and starts again: its caches are empty and its
\* handlers forgotten; the filters stay.  Workloads stop and the traffic config
\* is deleted meanwhile, and nobody is told.
Restart ==
    /\ Counted("restarts", MaxRestarts)
    /\ warm' = FALSE /\ cached' = None /\ linked' = FALSE /\ workloads' = {}
    /\ job' = [w \in Workers |-> Idle] /\ steady' = [w \in Workers |-> {}]
    /\ known' \in SUBSET known
    /\ exists' \in {exists, FALSE}
    /\ excused' = (excused \/ ~exists')
    /\ UNCHANGED <<revision, workloadEnvs, filters>>

-----------------------------------------------------------------------------
(* HandleRateLimiter, called by worker w with revision r, whose             *)
(* environments are E; with none of both when the traffic config was        *)
(* deleted.  Nothing is done in a cluster that the identity does not have.  *)

HandleRateLimiter(w, r, E) ==
    /\ job' = [job EXCEPT ![w] =
                  IF linked THEN [Idle EXCEPT !.phase = "build", !.rev = r, !.envs = E] ELSE Idle]
    /\ steady' = [steady EXCEPT ![w] = IF linked THEN E \cap workloads ELSE {}]

Skip(w) == job' = [job EXCEPT ![w] = Idle] /\ steady' = [steady EXCEPT ![w] = {}]

IfWarm(w, r, E) == IF warm THEN HandleRateLimiter(w, r, E) ELSE Skip(w)

NewRevision ==
    /\ IsIdle("trafficconfig") /\ revision < MaxRevision
    /\ exists' = TRUE /\ revision' = revision + 1
    /\ \E E \in SUBSET Envs :
          /\ workloadEnvs' = [workloadEnvs EXCEPT ![revision + 1] = E]
          /\ IfWarm("trafficconfig", revision + 1, E)
    /\ UNCHANGED <<warm, linked, workloads, filters, count, known>>

\* A new one, or one that changed before it was listed again.
TrafficConfigAdded ==
    /\ cached = None \/ ~exists
    /\ NewRevision
    /\ cached' = revision + 1
    /\ UNCHANGED excused

\* After a restart it is listed as it was.
TrafficConfigListed ==
    /\ cached = None /\ exists /\ IsIdle("trafficconfig")
    /\ cached' = revision
    /\ IfWarm("trafficconfig", revision, workloadEnvs[revision])
    /\ UNCHANGED <<warm, linked, workloads, trafficConfig, filters, count, known, excused>>

\* The cache keeps the revision it has.
TrafficConfigUpdated ==
    /\ cached # None /\ exists
    /\ NewRevision
    /\ UNCHANGED <<cached, excused>>

Deleted(r, E) ==
    /\ cached # None /\ exists /\ IsIdle("trafficconfig")
    /\ exists' = FALSE /\ cached' = None
    /\ IfWarm("trafficconfig", r, E)
    /\ excused' = (~warm \/ ~linked \/ \E w \in Triggers : job[w].phase \in {"build", "write"})
    /\ UNCHANGED <<warm, linked, workloads, revision, workloadEnvs, filters, count, known>>

\* Mutant of TrafficConfigDeleted: only a disabled one is removed, any other is
\* written again, as virtual services are.
TrafficConfigDeletedWritesAgain == Deleted(revision, workloadEnvs[revision])

TrafficConfigDeleted == Deleted(None, {})

\* The informer missed the deletion and hands over a tombstone, which the handler
\* does not know: what it deleted stays cached, and its filters stay.
TrafficConfigDeletedTombstone ==
    /\ cached # None /\ exists /\ IsIdle("trafficconfig")
    /\ exists' = FALSE /\ excused' = TRUE
    /\ UNCHANGED <<caches, revision, workloadEnvs, job, filters, count, known, steady>>

-----------------------------------------------------------------------------
(* The other workers.                                                       *)

\* TriggerTrafficConfigHandlerForIdentity: Updated with what is in the cache.
Trigger(w) ==
    IF cached = None THEN Skip(w) ELSE IfWarm(w, cached, workloadEnvs[cached])

\* A new destination, or a workload the traffic config is triggered for.
Triggered(w) ==
    /\ IsIdle(w) /\ Counted("triggers", MaxTriggers)
    /\ Trigger(w)
    /\ UNCHANGED <<caches, trafficConfig, filters, known, excused>>

\* Added and Updated: AddClusterToIdentity, the workload's cache, the trigger.
WorkloadSeen(w, e) ==
    /\ IsIdle(w)
    /\ \/ Counted("workloads", MaxWorkloads)
       \/ e \in known \ workloads /\ UNCHANGED count
    /\ linked' = TRUE
    /\ job' = [job EXCEPT ![w] = [Idle EXCEPT !.phase = "add", !.env = {e}]]
    /\ UNCHANGED <<warm, cached, workloads, trafficConfig, filters, known, steady, excused>>

\* An update of a workload, the resync's too, triggers nothing.
CacheWorkload(w) ==
    /\ job[w].phase = "add"
    /\ workloads' = workloads \cup job[w].env
    /\ known' = known \cup job[w].env
    /\ \/ job' = [job EXCEPT ![w].phase = "trigger"]
       \/ job' = [job EXCEPT ![w] = Idle]
    /\ UNCHANGED <<warm, cached, linked, trafficConfig, filters, count, steady, excused>>

TriggerForWorkload(w) ==
    /\ job[w].phase = "trigger"
    /\ Trigger(w)
    /\ UNCHANGED <<caches, trafficConfig, filters, count, known, excused>>

WorkloadDeleted(w, e) ==
    /\ IsIdle(w) /\ e \in workloads /\ Counted("workloads", MaxWorkloads)
    /\ workloads' = workloads \ {e} /\ known' = known \ {e}
    /\ steady' = [v \in Workers |-> steady[v] \ {e}]
    /\ job' = [job EXCEPT ![w] = [Idle EXCEPT !.phase = "unlink"]]
    /\ UNCHANGED <<warm, cached, linked, trafficConfig, filters, excused>>

\* DeleteClusterFromIdentity, although other workloads may be there.
Unlink(w) ==
    /\ job[w].phase = "unlink"
    /\ linked' = FALSE
    /\ job' = [job EXCEPT ![w] = Idle]
    /\ UNCHANGED <<warm, cached, workloads, trafficConfig, filters, count, known, steady, excused>>

-----------------------------------------------------------------------------
(* Steps of HandleRateLimiter.                                              *)

Goes(w, j) == job' = [job EXCEPT ![w] = j]

\* A call that fails is logged at most.
CallFails(w, j) ==
    /\ Counted("failures", MaxFailures)
    /\ Goes(w, [j EXCEPT !.alone = FALSE])
    /\ excused' = (excused \/ ~exists)
    /\ UNCHANGED filters

\* getWorkLoadLabels: an environment without a workload is skipped.
LookUpWorkload(w) ==
    /\ job[w].phase = "build" /\ job[w].todo = {}
    /\ \E e \in job[w].envs :
          Goes(w, [job[w] EXCEPT !.envs = @ \ {e},
                      !.todo = IF e \in workloads THEN {e} \X Versions ELSE {}])
    /\ UNCHANGED <<caches, trafficConfig, filters, count, known, steady, excused>>

GetOne(w, failed) ==
    /\ job[w].phase = "build"
    /\ \E k \in job[w].todo :
          LET j(what) == [job[w] EXCEPT !.todo = @ \ {k}, !.seen[k] = what]
          IN  \/ /\ Goes(w, j(IF filters[k] = None THEN "absent" ELSE "read"))
                 /\ UNCHANGED <<filters, count, excused>>
              \/ CallFails(w, j(failed))
    /\ UNCHANGED <<caches, trafficConfig, known, steady>>

\* Mutant of GetEnvoyFilter: one that cannot be read is not requested.
GetEnvoyFilterOrSkip(w) == GetOne(w, "none")

\* The filter is requested whether the call fails or not, with the resource
\* version that was read or without one.
GetEnvoyFilter(w) == GetOne(w, "absent")

Requested(j) == {k \in Keys : j.seen[k] # "none"}
Existing == {k \in Keys : filters[k] # None}

\* Those of the filters K that are among L, by name.
Present(K, L) == K \cap L

\* A list that fails is an empty one.
Compare(j, E) ==
    [j EXCEPT !.phase = "write", !.update = Present(Requested(j), E),
              !.create = Requested(j) \ Present(Requested(j), E),
              !.delete = E \ Present(E, Requested(j))]

ListEnvoyFilters(w, Comparing) ==
    /\ job[w].phase = "build" /\ job[w].envs = {} /\ job[w].todo = {}
    /\ \/ Goes(w, Comparing) /\ UNCHANGED <<filters, count, excused>>
       \/ CallFails(w, Compare(job[w], {}))
    /\ UNCHANGED <<caches, trafficConfig, known, steady>>

\* Mutant of ApplyEnvoyFilters: what exists is only deleted if nothing is requested.
ApplyEnvoyFiltersKeeps(w) ==
    LET j == Compare(job[w], Existing)
    IN  ListEnvoyFilters(w, IF Requested(j) = {} THEN j ELSE [j EXCEPT !.delete = {}])

ApplyEnvoyFilters(w) == ListEnvoyFilters(w, Compare(job[w], Existing))

\* The API server changes a filter: what others read of it is outdated.
Store(w, k, r, mine) ==
    /\ filters' = [filters EXCEPT ![k] = r]
    /\ job' = [v \in Workers |->
                  IF v = w THEN mine
                  ELSE [job[v] EXCEPT !.alone = FALSE,
                                      !.seen[k] = IF @ = "read" THEN "outdated" ELSE @]]
    /\ UNCHANGED <<count, excused>>

Refused(w, mine) == Goes(w, mine) /\ UNCHANGED <<filters, count, excused>>

\* Refused if there is one, or if the request has a resource version.
CreateEnvoyFilter(w) ==
    /\ job[w].phase = "write"
    /\ \E k \in job[w].create :
          LET j == [job[w] EXCEPT !.create = @ \ {k}]
              accepted == filters[k] = None /\ job[w].seen[k] = "absent"
          IN  \/ accepted /\ Store(w, k, job[w].rev, j)
              \/ ~accepted /\ Refused(w, j)
              \/ CallFails(w, j)
    /\ UNCHANGED <<caches, trafficConfig, known, steady>>

\* Refused unless the resource version that was read is still the current one.
UpdateEnvoyFilter(w) ==
    /\ job[w].phase = "write" /\ job[w].create = {}
    /\ \E k \in job[w].update :
          LET j == [job[w] EXCEPT !.update = @ \ {k}]
          IN  \/ job[w].seen[k] = "read" /\ Store(w, k, job[w].rev, j)
              \/ job[w].seen[k] # "read" /\ Refused(w, j)
              \/ CallFails(w, j)
    /\ UNCHANGED <<caches, trafficConfig, known, steady>>

\* By name, whatever became of it since it was listed.
DeleteEnvoyFilter(w) ==
    /\ job[w].phase = "write" /\ job[w].create = {} /\ job[w].update = {}
    /\ \E k \in job[w].delete :
          LET j == [job[w] EXCEPT !.delete = @ \ {k}]
          IN  Store(w, k, None, j) \/ CallFails(w, j)
    /\ UNCHANGED <<caches, trafficConfig, known, steady>>

Applied(w) ==
    /\ job[w].phase = "write"
    /\ job[w].create \cup job[w].update \cup job[w].delete = {}

HandlerReturns(w) ==
    /\ Applied(w)
    /\ Skip(w)
    /\ UNCHANGED <<caches, trafficConfig, filters, count, known, excused>>

Step(w) ==
    \/ LookUpWorkload(w) \/ GetEnvoyFilter(w) \/ ApplyEnvoyFilters(w)
    \/ CreateEnvoyFilter(w) \/ UpdateEnvoyFilter(w) \/ DeleteEnvoyFilter(w)
    \/ HandlerReturns(w)

Workload(w) ==
    \/ \E e \in Envs : WorkloadSeen(w, e) \/ WorkloadDeleted(w, e)
    \/ CacheWorkload(w) \/ TriggerForWorkload(w) \/ Unlink(w)

Next ==
    \/ WarmUp \/ Restart
    \/ TrafficConfigListed \/ TrafficConfigAdded \/ TrafficConfigUpdated
    \/ TrafficConfigDeleted \/ TrafficConfigDeletedTombstone
    \/ \E w \in Triggers : Triggered(w) \/ Workload(w)
    \/ \E w \in Workers : Step(w)

Spec == Init /\ [][Next]_vars

-----------------------------------------------------------------------------

\* A handler during which no call failed and no other handler changed a filter
\* leaves exactly what it requested, at its revision: a filter for each of its
\* environments that had a workload, nothing of environments it no longer lists,
\* and nothing at all when the traffic config was deleted.
HandledIsExact ==
    \A w \in Workers :
        Applied(w) /\ job[w].alone =>
            \A k \in Keys :
                filters[k] = IF k \in Requested(job[w]) THEN job[w].rev ELSE None

\* A service stays throttled: whatever handlers do at once and whichever calls
\* fail, no filter goes during warm-up, and afterwards only by the calls of a
\* handler for which its environment was not steady: the revision that handler
\* applies does not list it, as none does of a deleted traffic config, or since
\* that handler began the caches were without a workload of it.  They may be for
\* one that runs, when it is not listed yet as the time of the warm-up ends.
FiltersStay ==
    [][\A k \in Keys :
          filters[k] # None /\ filters'[k] = None =>
              warm /\ \E w \in Workers : k \in job[w].delete \ job'[w].delete
                                         /\ k[1] \notin steady[w]]_vars

\* A deleted traffic config has no filters left once its handler is done, unless
\* one of its calls failed, it came as a tombstone, during warm-up or when the
\* identity did not have the cluster, or another handler was still applying the
\* cached revision.
DeletedLeavesNothing ==
    ~exists /\ ~excused /\ IsIdle("trafficconfig") => \A k \in Keys : filters[k] = None
=============================================================================
