------------------------------ MODULE RateLimits ------------------------------
(***************************************************************************)
(* The rate limiting filter of one environment of a traffic config, in one *)
(* cluster and for one proxy version.                                      *)
(*                                                                         *)
(* createRateLimitingFilters takes the labels the filter selects from the  *)
(* workload in the caches, turns each quota into a bucket (a descriptor)   *)
(* and a rule for the calls that draw on it (a rate limit), and patches    *)
(* both into the routes of the workload's inbound ports, for which it asks *)
(* the caches once more.  The handlers of workloads run meanwhile.         *)
(*                                                                         *)
(* Names, paths and the values of headers are sequences of words.          *)
(***************************************************************************)
EXTENDS Integers, Sequences, SequencesExt

CONSTANTS
    QuotaGroups,    \* what a traffic config may have in its field quotaGroup
    NoQuotaGroup,   \* the field is left out
    Calls,          \* requests: path, method, client and other headers
    Workloads,      \* app label and inbound ports of deployments and rollouts
    NoWorkload,     \* none in the cache
    NoLabel,        \* the workload has no app label
    Env,            \* the environment
    Unparsable,     \* a time period that is no duration
    ArgoRolloutsEnabled,
    Words,          \* what names are made of
    Operators,      \* words that mean something else in a regular expression
    Unescaped,      \* <<pattern, words>>: what patterns with operators match
    Colon,          \* the separator in keys, a word of its own
    AllPorts,       \* the empty port, for every route
    Wrap,           \* bound: 2^32, scaled down to the amounts in use
    MaxChanges      \* bound: workloads that come, change or go

ASSUME RateLimitAssumption ==
    /\ Colon \in Words /\ NoWorkload \notin Workloads
    /\ ArgoRolloutsEnabled \in BOOLEAN /\ ".*" \notin Operators
    /\ \A w \in Workloads : w.ports \in Seq(ToSet(w.ports))
    /\ \A config \in QuotaGroups :
          /\ \A group \in ToSet(config.total) \cup ToSet(config.app) :
                /\ group.name \in Seq(Words)
                /\ \A quota \in ToSet(group.quotas) : quota.name \in Seq(Words)
          /\ \A group \in ToSet(config.app) : ToSet(group.apps) \subseteq Seq(Words)
    /\ \A q \in Calls : q.method = <<q.method[1], "upper">>
    /\ Wrap \in Nat \ {0} /\ MaxChanges \in Nat

VARIABLES
    quotaGroup,     \* that of the traffic config
    deployment,     \* cache.Deployments
    rollout,        \* cache.Rollouts
    left,           \* changes of workloads still to come
    phase,          \* what the handler does next
    filter,         \* the filter so far
    disturbed       \* history: a workload changed while the handler ran

workloads == <<deployment, rollout, left>>
vars == <<quotaGroup, workloads, phase, filter, disturbed>>

NoFilter == [app |-> NoLabel, patches |-> <<>>, descriptors |-> <<>>,
             rateLimits |-> <<>>]

Init ==
    /\ quotaGroup \in QuotaGroups \cup {NoQuotaGroup}
    /\ deployment \in Workloads \cup {NoWorkload}
    /\ rollout \in Workloads \cup {NoWorkload}
    /\ left \in 0 .. MaxChanges
    /\ phase = "labels" /\ filter = NoFilter /\ disturbed = FALSE

WorkloadChanges ==
    /\ left > 0 /\ left' = left - 1
    /\ \/ deployment' \in Workloads \cup {NoWorkload} /\ UNCHANGED rollout
       \/ rollout' \in Workloads \cup {NoWorkload} /\ UNCHANGED deployment
    /\ disturbed' = (disturbed \/ phase # "labels")
    /\ UNCHANGED <<quotaGroup, phase, filter>>

-----------------------------------------------------------------------------
(* Quotas: one descriptor and one rate limit each, in an app group for each *)
(* of its associated apps.  A quota is known by its place, so that equal    *)
(* ones are told apart; their order means nothing to the proxy.             *)

TotalQuotas ==
    UNION {{<<"total", i, 0, j>> : j \in DOMAIN quotaGroup.total[i].quotas} :
             i \in DOMAIN quotaGroup.total}

AppQuotas ==
    UNION {{<<"app", i, a, j>> : a \in DOMAIN quotaGroup.app[i].apps,
                                 j \in DOMAIN quotaGroup.app[i].quotas} :
             i \in DOMAIN quotaGroup.app}

GroupOf(p) == IF p[1] = "total" THEN quotaGroup.total[p[2]] ELSE quotaGroup.app[p[2]]
QuotaOf(p) == GroupOf(p).quotas[p[4]]
AppOf(p) == IF p[1] = "total" THEN <<>> ELSE GroupOf(p).apps[p[3]]

\* A quota whose time period does not parse is skipped.
Wanted ==
    {p \in TotalQuotas \cup AppQuotas :
        Env \in GroupOf(p).envs /\ QuotaOf(p).period # Unparsable}

\* Mutant of DescriptorKey: names are only put after each other.
DescriptorKeyWithoutColon(s, t) == s \o t

DescriptorKey(s, t) == s \o <<Colon>> \o t

QuotaKey(p) == DescriptorKey(GroupOf(p).name, QuotaOf(p).name)

\* The entries of a descriptor and the keys of the actions.  An associated app
\* with an empty name has none of its own.
Entries(p) ==
    IF AppOf(p) = <<>> THEN <<QuotaKey(p)>>
    ELSE <<QuotaKey(p), DescriptorKey(QuotaKey(p), AppOf(p))>>

Descriptor(p) ==
    [entries |-> Entries(p), tokens |-> QuotaOf(p).max % Wrap, per |-> QuotaOf(p).period]

\* Mutant of PathRegex: only what was no regular expression yet is replaced.
PathRegexKeepsStar(path) == [i \in DOMAIN path |-> IF path[i] = ".*" THEN "*" ELSE path[i]]

\* The rest of the path is taken as it is: its operators are not escaped.
PathRegex(path) == [i \in DOMAIN path |-> IF path[i] \in {"*", ".*"} THEN ".*" ELSE path[i]]

\* A method is its letters and their case; no methods are any.
MethodRegex(methods) == {<<m[1], case>> : m \in methods, case \in {"lower", "upper"}}

Conditions == {"exact", "prefix", "suffix", "contains", "regex"}

\* A condition that is none of these makes a matcher without a pattern.
HeaderMatcher(name, value, condition) ==
    [name |-> name, value |-> value,
     match |-> IF condition \in Conditions THEN condition ELSE "none"]

\* The app must be in the identity header, if there is one.
RateLimit(p) ==
    LET quota == QuotaOf(p)
    IN  [entries |-> Entries(p), methods |-> MethodRegex(quota.methods),
         matchers |->
            {HeaderMatcher("path", PathRegex(quota.path), "regex")}
            \cup {HeaderMatcher(h.name, h.value, h.condition) : h \in quota.headers}
            \cup {HeaderMatcher("client", app, "exact") : app \in {AppOf(p)} \ {<<>>}}]

-----------------------------------------------------------------------------
(* Patches.  The first puts the rate limiting filter in front of the router *)
(* of the workload's proxies, where it does nothing until it is configured; *)
(* one for each port merges all rate limits and descriptors into its routes.*)

FilterPatch == [applyTo |-> "filter", port |-> AllPorts]
RoutePatch(port) == [applyTo |-> "route", port |-> port]

ConfigPatches(ports) == <<FilterPatch>> \o [i \in DOMAIN ports |-> RoutePatch(ports[i])]

-----------------------------------------------------------------------------
(* The handler, with a step for each look at a cache.                       *)

Goes(p, f) == phase' = p /\ filter' = f /\ UNCHANGED <<quotaGroup, workloads, disturbed>>

GetDeploymentLabels ==
    /\ phase = "labels"
    /\ IF deployment # NoWorkload /\ deployment.app # NoLabel
       THEN Goes("limits", [NoFilter EXCEPT !.app = deployment.app])
       ELSE Goes("rollout labels", NoFilter)

\* Without a labelled workload the environment is skipped.
GetRolloutLabels ==
    /\ phase = "rollout labels"
    /\ IF ArgoRolloutsEnabled /\ rollout # NoWorkload /\ rollout.app # NoLabel
       THEN Goes("limits", [NoFilter EXCEPT !.app = rollout.app])
       ELSE Goes("done", NoFilter)

\* A nil pointer is dereferenced, and nothing recovers, if there is no quota group.
CreateRoutePatches ==
    /\ phase = "limits"
    /\ IF quotaGroup = NoQuotaGroup THEN Goes("crashed", filter)
       ELSE Goes("ports", [filter EXCEPT
                !.descriptors = [p \in Wanted |-> Descriptor(p)],
                !.rateLimits = [p \in Wanted |-> RateLimit(p)],
                !.patches = ConfigPatches(<<>>)])

\* The annotation is split at commas; without it the one port is empty.
InboundPorts(w) == IF w.ports = <<>> THEN <<AllPorts>> ELSE w.ports

\* Mutant of GetDeploymentPorts: a rollout goes first.
GetDeploymentPortsIfAlone ==
    /\ phase = "ports"
    /\ IF deployment # NoWorkload /\ rollout = NoWorkload
       THEN Goes("done", [filter EXCEPT !.patches = ConfigPatches(InboundPorts(deployment))])
       ELSE Goes("rollout ports", filter)

GetDeploymentPorts ==
    /\ phase = "ports"
    /\ IF deployment # NoWorkload
       THEN Goes("done", [filter EXCEPT !.patches = ConfigPatches(InboundPorts(deployment))])
       ELSE Goes("rollout ports", filter)

\* The workload may have gone by now: then no route is patched.  Whether rollouts
\* are enabled is not asked here.
GetRolloutPorts ==
    /\ phase = "rollout ports"
    /\ IF rollout # NoWorkload
       THEN Goes("done", [filter EXCEPT !.patches = ConfigPatches(InboundPorts(rollout))])
       ELSE Goes("done", filter)

Next ==
    \/ WorkloadChanges
    \/ GetDeploymentLabels \/ GetRolloutLabels \/ CreateRoutePatches
    \/ GetDeploymentPorts \/ GetRolloutPorts

Spec == Init /\ [][Next]_vars

-----------------------------------------------------------------------------
(* What the proxy makes of the filter for a call q.                         *)

\* The pattern can be cut into the words of the path, ".*" standing for any.
CutsInto(pattern, path) ==
    \E cut \in [0 .. Len(pattern) -> 0 .. Len(path)] :
        /\ cut[0] = 0 /\ cut[Len(pattern)] = Len(path)
        /\ \A i \in DOMAIN pattern :
              \/ pattern[i] = ".*" /\ cut[i - 1] <= cut[i]
              \/ pattern[i] # ".*" /\ cut[i] = cut[i - 1] + 1 /\ path[cut[i]] = pattern[i]

\* As a regular expression.
Matches(pattern, path) ==
    IF ToSet(pattern) \cap Operators = {} THEN CutsInto(pattern, path)
    ELSE <<pattern, path>> \in Unescaped

\* What a condition says of the value of a header.
Meets(value, condition, pattern) ==
    \/ condition = "exact" /\ value = pattern
    \/ condition = "prefix" /\ IsPrefix(pattern, value)
    \/ condition = "suffix" /\ IsSuffix(pattern, value)
    \/ condition = "contains" /\ \E s \in Suffixes(value) : IsPrefix(pattern, s)
    \/ condition = "regex" /\ Matches(pattern, value)

Produces(l, q) ==
    /\ l.methods = {} \/ q.method \in l.methods
    /\ \A m \in l.matchers : Meets(q.headers[m.name], m.match, m.value)

\* The quotas whose buckets a call draws on: a rate limit has its entries.
Drawn(q) ==
    {p \in DOMAIN filter.descriptors :
        \E r \in DOMAIN filter.rateLimits :
            /\ Produces(filter.rateLimits[r], q)
            /\ filter.rateLimits[r].entries = filter.descriptors[p].entries}

-----------------------------------------------------------------------------

Built == phase = "done" /\ filter # NoFilter

\* Of one kind, no two groups have a name in common, no two quotas of a group and
\* no two of its apps, and the names of groups have no separator in them.
Named ==
    /\ \A p, r \in Wanted :
          /\ Colon \notin ToSet(GroupOf(p).name)
          /\ p[1] = r[1] /\ GroupOf(p).name = GroupOf(r).name
             /\ AppOf(p) = AppOf(r) /\ QuotaOf(p).name = QuotaOf(r).name => p = r
          /\ p[1] = "app" => AppOf(p) # <<>>

\* Whatever the separator does in names of quotas and apps, each bucket is of one
\* quota, and for each associated app another: no two descriptors are the same,
\* which the proxy would refuse together with the whole filter.
OwnBuckets ==
    Built /\ Named =>
        \A p, r \in DOMAIN filter.descriptors :
            p # r => filter.descriptors[p].entries # filter.descriptors[r].entries

\* The quota is for the request: total quotas for all clients, app quotas for the
\* associated apps, a star in a path for anything and all else in it for itself, a
\* method in any spelling.
IsFor(p, q) ==
    LET quota == QuotaOf(p)
        star == [i \in DOMAIN quota.path |-> IF quota.path[i] = "*" THEN ".*" ELSE quota.path[i]]
    IN  /\ p[1] = "total" \/ AppOf(p) = q.headers["client"]
        /\ CutsInto(star, q.headers["path"])
        /\ quota.methods = {} \/ \E m \in quota.methods : m[1] = q.method[1]
        /\ \A h \in quota.headers : Meets(q.headers[h.name], h.condition, h.value)

Conditioned(p) == {h.condition : h \in QuotaOf(p).headers}

\* Its path has no operator in it, such as a dot, which matches any character.
Literal(p) == ToSet(QuotaOf(p).path) \cap Operators = {}

\* Of the buckets whose quota has a path without operators, a call draws on those
\* that are for it, and on no other, and they all hold what the traffic config
\* says, unless that is no unsigned number or a condition on a header is none the
\* code knows.
QuotasApply ==
    Built /\ Named /\ (\A p \in Wanted : Conditioned(p) \subseteq Conditions) =>
        /\ \A q \in Calls :
              {p \in Drawn(q) : Literal(p)} = {p \in Wanted : Literal(p) /\ IsFor(p, q)}
        /\ \A p \in Wanted :
              QuotaOf(p).max \in 0 .. Wrap - 1 => filter.descriptors[p].tokens = QuotaOf(p).max

\* Those whose routes are patched, behind the filter.
LimitedPorts ==
    {port \in {patch.port : patch \in ToSet(filter.patches)} :
        IsPrefix(<<FilterPatch>>, filter.patches) /\ RoutePatch(port) \in ToSet(filter.patches)}

\* The ports that are limited are those of a workload the filter selects: if none
\* changes meanwhile, and the deployment, which goes first, has an app label.
LimitedIsSelected ==
    Built /\ ~disturbed /\ (deployment # NoWorkload => deployment.app # NoLabel) =>
        \E w \in {deployment, rollout} \ {NoWorkload} :
            filter.app = w.app /\ LimitedPorts = ToSet(InboundPorts(w))
=============================================================================
