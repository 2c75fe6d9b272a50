----------------------------- MODULE ClusterCaches -----------------------------
(***************************************************************************)
(* What the controllers of one cluster keep of it: its workloads and its   *)
(* services.  Their controllers and caches share nothing, so that either   *)
(* the workloads or the services change and not both.                      *)
(***************************************************************************)
EXTENDS Services

CONSTANTS Deployments, Rollouts, Identities, Envs, Specs, NoIdentity, NoSpec, NoWorkload,
          QueueCap

VARIABLES spec, queue, calls, cache, identityCluster, changes, orphans, everHad

Kept == INSTANCE WorkloadCaches

ASSUME KeptAssumption == Kept!WorkloadAssumption

workloadVars == <<spec, queue, calls, cache, identityCluster, changes, orphans, everHad>>

BothInit == Init /\ Kept!Init

BothNext ==
    \/ started = 0 /\ serviceChanges = 0 /\ Kept!Next /\ UNCHANGED vars
    \/ changes = 0 /\ Next /\ UNCHANGED workloadVars

BothSpec == BothInit /\ [][BothNext]_<<vars, workloadVars>> /\ Kept!Fairness

\* The properties of the workloads, under the names they have in WorkloadCaches.
OnlyOrphansLinger == Kept!OnlyOrphansLinger
OwnIdentityIsKnown == Kept!OwnIdentityIsKnown
ResyncRestores == Kept!ResyncRestores
================================================================================
