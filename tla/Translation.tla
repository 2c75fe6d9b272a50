------------------------------ MODULE Translation ------------------------------
(***************************************************************************)
(* One handling of a traffic config after another: first the rate limiting *)
(* filter is built, then the rules of the virtual service.  Both are built *)
(* from the same revision; a crash in the first leaves the second undone.  *)
(***************************************************************************)
EXTENDS RateLimits

CONSTANTS TrafficConfigs, Paths, NoGroup, NoDNS, NoHost, NoRoute, AnyHost

\* Routes are known by their names.
ASSUME TrafficConfigAssumption ==
    /\ \A path \in Paths : path \in Seq(ToSet(path))
    /\ \A c \in TrafficConfigs :
          /\ c.envs \in Seq(ToSet(c.envs)) /\ c.routes \in Seq(ToSet(c.routes))
          /\ \A env \in ToSet(c.envs) : AnyHost # <<"host", env>>
          /\ \A i, j \in DOMAIN c.routes : c.routes[i].name = c.routes[j].name => i = j
          /\ \A r \in ToSet(c.routes) :
                /\ r.name # NoRoute /\ r.timeout \in Nat
                /\ r.envs \in Seq(ToSet(r.envs))
                /\ r.config \in Seq(ToSet(r.config))
          /\ c.groups \in Seq(ToSet(c.groups))
          /\ \A g \in ToSet(c.groups) :
                /\ IsFiniteSet(DOMAIN g.overrides)
                /\ \A dial \in {g.weights} \cup {g.overrides[a] : a \in DOMAIN g.overrides} :
                      dial \in [DOMAIN dial -> Int]

VARIABLES tc, next, rules, vs

Rules == INSTANCE VirtualServiceRules

ruleVars == <<tc, next, rules, vs>>

BothInit == Init /\ Rules!Init

HandleRateLimiter == Next /\ UNCHANGED ruleVars

HandleVirtualServiceForTrafficConfig ==
    /\ phase = "done"
    /\ Rules!Next
    /\ IF next' = 0
       THEN /\ phase' = "labels" /\ filter' = NoFilter /\ disturbed' = FALSE
            /\ UNCHANGED <<quotaGroup, workloads>>
       ELSE UNCHANGED vars

BothNext == HandleRateLimiter \/ HandleVirtualServiceForTrafficConfig

BothSpec == BothInit /\ [][BothNext]_<<vars, ruleVars>>

\* The properties of the rules, under the names they have in VirtualServiceRules.
FirstRouteServes == Rules!FirstRouteServes
SplitIsWhole == Rules!SplitIsWhole
RoutesOfEnvironment == Rules!RoutesOfEnvironment
OverrideWins == Rules!OverrideWins
TimeoutsKept == Rules!TimeoutsKept
RebuildIsSame == Rules!RebuildIsSame
=============================================================================
