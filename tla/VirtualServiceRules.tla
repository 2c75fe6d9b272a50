-------------------------- MODULE VirtualServiceRules --------------------------
(***************************************************************************)
(* The rules of the virtual service built from a traffic config.           *)
(*                                                                         *)
(* A route selects targets, each under a name of a target group; a group   *)
(* gives its names weights and may override them for single clients.  For  *)
(* each route in turn there are rules for the overriding clients, one with *)
(* the group's weights, or, without both, one for each environment of the  *)
(* route; at the end comes a rule for each environment of the traffic      *)
(* config.  Requests take the first rule that matches them.                *)
(*                                                                         *)
(* The overrides are in Go maps, whose order differs from run to run.      *)
(***************************************************************************)
EXTENDS Naturals, Sequences, SequencesExt, FiniteSetsExt

CONSTANTS
    TrafficConfigs, \* enabled, with an edge service
    Paths,          \* paths of requests, as sequences of segments
    NoGroup,        \* no target group selector
    NoDNS,          \* no mesh DNS
    NoHost,         \* the empty host
    NoRoute,        \* the route of the rules that are for all requests
    AnyHost         \* no match on the authority

VARIABLES
    tc,     \* the traffic config
    next,   \* the route to be added next, 0 if no handler runs
    rules,  \* the rules so far
    vs      \* the rules in the cluster, none before they are written

vars == <<tc, next, rules, vs>>

Host(env) == <<"host", env>>

HasTargetDetails == DOMAIN tc.targets # {} /\ tc.groups # <<>>

MeshDNS(r, c) ==
    CASE r.envs = <<>> -> NoHost
      [] r.envs # <<>> /\ c.target \notin DOMAIN tc.targets -> r.envs[1]
      [] OTHER -> IF tc.targets[c.target] = NoDNS THEN Host(r.envs[1]) ELSE tc.targets[c.target]

-----------------------------------------------------------------------------
(* Weights.                                                                 *)

Clients(g) == DOMAIN tc.groups[g].overrides

NamesOf(g) ==
    DOMAIN tc.groups[g].weights \cup UNION {DOMAIN tc.groups[g].overrides[a] : a \in Clients(g)}

\* getTargetGroupRouteNameMap: the route selects a name of the group.
Selects(r, g) == \E i \in DOMAIN r.config : r.config[i].group \in NamesOf(g)

\* Mutant of AppDialing: the last group counts, with overrides or without.
AppDialingOfLast(r) ==
    LET groups == {g \in DOMAIN tc.groups : Selects(r, g)}
    IN  IF groups = {} THEN <<>> ELSE tc.groups[Max(groups)].overrides

\* Of several groups with overrides the last replaces what the others gave.
AppDialing(r) ==
    LET groups == {g \in DOMAIN tc.groups : Clients(g) # {} /\ Selects(r, g)}
    IN  IF groups = {} THEN <<>> ELSE tc.groups[Max(groups)].overrides

ServiceDialDetails ==
    LET named(n) == {g \in DOMAIN tc.groups : n \in DOMAIN tc.groups[g].weights}
    IN  [n \in UNION {DOMAIN tc.groups[g].weights : g \in DOMAIN tc.groups} |->
            tc.groups[Max(named(n))].weights[n]]

\* Mutant of Split: a name is looked for until it is found.
SplitStopsEarly(r, dial) ==
    LET chosen == {i \in DOMAIN r.config : r.config[i].group \in DOMAIN dial}
    IN  [i \in {j \in chosen : j = Min(chosen)} |->
            [host |-> MeshDNS(r, r.config[i]), weight |-> dial[r.config[i].group]]]

\* Destinations are at the places of their selectors: their order means nothing.
Split(r, dial) ==
    [i \in {j \in DOMAIN r.config : r.config[j].group \in DOMAIN dial} |->
        [host |-> MeshDNS(r, r.config[i]), weight |-> dial[r.config[i].group]]]

ServiceDialRoute(r) ==
    IF Len(r.config) = 1 /\ r.config[1].group = NoGroup
    THEN <<[host |-> MeshDNS(r, r.config[1]), weight |-> 100]>>
    ELSE Split(r, ServiceDialDetails)

-----------------------------------------------------------------------------
(* Timeouts: seconds and nanoseconds, both 0 for none.                      *)

NoTimeout == [sec |-> 0, nanos |-> 0]

\* Mutant of RouteTimeout: what is less than a second is cut off.
RouteTimeoutInSeconds(r) == [sec |-> r.timeout \div 1000, nanos |-> 0]

\* In milliseconds; without target details the number is taken for nanoseconds.
RouteTimeout(r) ==
    IF HasTargetDetails THEN [sec |-> r.timeout \div 1000, nanos |-> (r.timeout % 1000) * 1000000]
    ELSE [sec |-> r.timeout \div 1000000000, nanos |-> r.timeout % 1000000000]

\* A millisecond or less is no timeout.
FinalRouteTimeout(d) == IF d.sec > 0 \/ d.nanos > 1000000 THEN d ELSE NoTimeout

\* The first with the most whole seconds, none if they all have less than one.
AllowAllTimeout(list) ==
    LET longest == {i \in DOMAIN list :
                       /\ list[i].timeout.sec > 0
                       /\ \A j \in DOMAIN list : list[j].timeout.sec <= list[i].timeout.sec}
    IN  IF longest = {} THEN NoTimeout ELSE list[Min(longest)].timeout

-----------------------------------------------------------------------------
(* Rules.                                                                   *)

RuleOf(r, dests) ==
    [route |-> r.name, host |-> AnyHost, prefix |-> r.inbound, dests |-> dests,
     timeout |-> FinalRouteTimeout(RouteTimeout(r))]

\* In the order of the maps.
AppDialRules(r) ==
    LET dial == AppDialing(r)
        apps == {a \in DOMAIN dial : Split(r, dial[a]) # <<>>}
    IN  {[i \in DOMAIN order |-> RuleOf(r, Split(r, dial[order[i]]))] : order \in SetToSeqs(apps)}

ServiceDialRule(r) ==
    IF ServiceDialRoute(r) = <<>> THEN <<>> ELSE <<RuleOf(r, ServiceDialRoute(r))>>

ToHost(env) == <<[host |-> Host(env), weight |-> 0]>>

RulesWhenConfigEmpty(r) == [i \in DOMAIN r.envs |-> RuleOf(r, ToHost(r.envs[i]))]

RulesWithoutTargetDetails(r) == IF r.config = <<>> THEN RulesWhenConfigEmpty(r) ELSE <<>>

\* Mutant of RulesWithTargetDetails: what a route's clients override is in the
\* same map as its weights.
RulesInAnyOrder(r) ==
    LET all == UNION {ToSet(a \o ServiceDialRule(r)) : a \in AppDialRules(r)}
    IN  IF all = {} THEN {RulesWhenConfigEmpty(r)} ELSE SetToSeqs(all)

RulesWithTargetDetails(r) ==
    {IF a \o ServiceDialRule(r) = <<>> THEN RulesWhenConfigEmpty(r) ELSE a \o ServiceDialRule(r) :
        a \in AppDialRules(r)}

AllowAllRules(list) ==
    [i \in DOMAIN tc.envs |->
        [route |-> NoRoute, host |-> Host(tc.envs[i]), prefix |-> <<>>,
         dests |-> ToHost(tc.envs[i]), timeout |-> FinalRouteTimeout(AllowAllTimeout(list))]]

-----------------------------------------------------------------------------

Init ==
    /\ tc \in TrafficConfigs
    /\ next = 0 /\ rules = <<>> /\ vs = <<>>

\* A notification of the traffic config, or a trigger.  Without routes that is an
\* error, and nothing is built.
Build ==
    /\ next = 0
    /\ next' = (IF tc.routes = <<>> THEN 0 ELSE 1) /\ rules' = <<>>
    /\ UNCHANGED <<tc, vs>>

AddRoute ==
    /\ next \in DOMAIN tc.routes
    /\ \/ HasTargetDetails /\ \E added \in RulesWithTargetDetails(tc.routes[next]) :
                                 rules' = rules \o added
       \/ ~HasTargetDetails /\ rules' = rules \o RulesWithoutTargetDetails(tc.routes[next])
    /\ next' = next + 1
    /\ UNCHANGED <<tc, vs>>

\* Mutant of AddAllowAllRule: the rules for all requests come first.
AddAllowAllRuleFirst ==
    /\ next = Len(tc.routes) + 1
    /\ vs' = AllowAllRules(rules) \o rules
    /\ next' = 0 /\ rules' = <<>>
    /\ UNCHANGED tc

\* The last rules; the virtual service is written.
AddAllowAllRule ==
    /\ next = Len(tc.routes) + 1
    /\ vs' = rules \o AllowAllRules(rules)
    /\ next' = 0 /\ rules' = <<>>
    /\ UNCHANGED tc

Next == Build \/ AddRoute \/ AddAllowAllRule

Spec == Init /\ [][Next]_vars

-----------------------------------------------------------------------------

Requests == [host : {Host(e) : e \in ToSet(tc.envs)}, path : Paths]

Matches(rule, q) == rule.host \in {AnyHost, q.host} /\ IsPrefix(rule.prefix, q.path)

Matching(q) == {i \in DOMAIN vs : Matches(vs[i], q)}

DestsOf(list, q) == list[Min({i \in DOMAIN list : Matches(list[i], q)})].dests

Written == vs # <<>>

\* Routes whose path the request has.  Without target details those with a
\* configuration are left out.
RoutesFor(q) ==
    {i \in DOMAIN tc.routes :
        /\ IsPrefix(tc.routes[i].inbound, q.path)
        /\ HasTargetDetails \/ tc.routes[i].config = <<>>}

\* Every request is served.  If no route has its path, the environment it asked for
\* serves it, and if the first one that has it, in the order of the traffic config,
\* is a route of that environment, then this route.
FirstRouteServes ==
    Written =>
        \A q \in Requests :
            LET rule == vs[Min(Matching(q))]
                first == Min(RoutesFor(q))
            IN  /\ Matching(q) # {}
                /\ RoutesFor(q) = {} => rule.dests = ToHost(q.host[2])
                /\ RoutesFor(q) # {} /\ q.host[2] \in ToSet(tc.routes[first].envs) =>
                      rule.route = tc.routes[first].name

\* A request takes no route that its environment does not have: the comment at
\* virtual_service.go:108-110 speaks of a virtual service for each environment, with
\* the routes that are "present in that env".  The code has one for all of them.
RoutesOfEnvironment ==
    Written =>
        \A q \in Requests : \A r \in ToSet(tc.routes) :
            vs[Min(Matching(q))].route = r.name => q.host[2] \in ToSet(r.envs)

\* The route selects each name of one group once, and nothing else.
SelectsWhole(r, g) ==
    LET named == [i \in DOMAIN r.config |-> r.config[i].group]
    IN  ToSet(named) = NamesOf(g) /\ Len(named) = Cardinality(NamesOf(g))

\* The names of a group are its own, and it and its overrides give all traffic away.
IsWhole(g) ==
    /\ \A h \in DOMAIN tc.groups \ {g} : NamesOf(g) \cap NamesOf(h) = {}
    /\ \A dial \in {tc.groups[g].weights} \cup {tc.groups[g].overrides[a] : a \in Clients(g)} :
          FoldFunction(+, 0, dial) = 100

\* A route that selects one whole group splits all of its traffic: each of its rules
\* has weights that add up to 100, whatever names overrides leave out.
SplitIsWhole ==
    Written /\ HasTargetDetails =>
        \A r \in ToSet(tc.routes) : \A i \in DOMAIN vs :
            vs[i].route = r.name /\ (\E g \in DOMAIN tc.groups : IsWhole(g) /\ SelectsWhole(r, g)) =>
                FoldFunction(LAMBDA d, sum : d.weight + sum, 0, vs[i].dests) = 100

\* Clients that override what a route selects never get the weights of the service,
\* in the environments of the route, whichever other groups it selects.  Rules do not tell clients apart: the
\* override may be another client's, and serves those that have none, too.
OverrideWins ==
    Written /\ HasTargetDetails =>
        \A q \in Requests : \A g \in DOMAIN tc.groups :
            LET r == tc.routes[Min(RoutesFor(q))]
                overriding == {h \in DOMAIN tc.groups : Clients(h) # {} /\ Selects(r, h)}
                dials(a) == {i \in DOMAIN r.config :
                                r.config[i].group \in DOMAIN tc.groups[g].overrides[a]}
                dialling == {a \in Clients(g) : dials(a) # {}}
                decides == /\ RoutesFor(q) # {} /\ q.host[2] \in ToSet(r.envs)
                           /\ overriding = {g} /\ dialling # {}
            IN  decides =>
                    \E a \in dialling :
                        ToSet(DestsOf(vs, q)) =
                            {[host |-> MeshDNS(r, r.config[i]),
                              weight |-> tc.groups[g].overrides[a][r.config[i].group]] : i \in dials(a)}

\* A route's rules wait as long as the route says, to the millisecond, and those
\* for all requests give up no earlier, in whole seconds, than any of them: with
\* target details, and more than a millisecond.
TimeoutsKept ==
    Written /\ HasTargetDetails =>
        \A i \in DOMAIN vs :
            /\ \A r \in ToSet(tc.routes) : vs[i].route = r.name /\ r.timeout > 1 =>
                  r.timeout = vs[i].timeout.sec * 1000 + vs[i].timeout.nanos \div 1000000
            /\ vs[i].route = NoRoute =>
                  \A j \in DOMAIN vs : vs[i].timeout.sec >= vs[j].timeout.sec

\* Handling a traffic config again changes nothing for any request, although maps
\* come in another order, unless several clients override one group.
RebuildIsSame ==
    [][Written /\ vs' # vs /\ (\A g \in DOMAIN tc.groups : Cardinality(Clients(g)) <= 1) =>
          \A q \in Requests : DestsOf(vs', q) = DestsOf(vs, q)]_vars
=============================================================================
