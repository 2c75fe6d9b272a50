--------------------------- MODULE TranslationProofs ---------------------------
(***************************************************************************)
(* What a rate limiting filter selects and what its buckets are, for any   *)
(* quota groups and workloads, and names of any words; and which rule of   *)
(* the virtual service a request takes, for any traffic config.            *)
(***************************************************************************)
EXTENDS Translation, FiniteSetTheorems, WellFoundedInduction, TLAPS

Phases == {"labels", "rollout labels", "limits", "ports", "rollout ports", "done", "crashed"}

TypeOK ==
    /\ quotaGroup \in QuotaGroups \cup {NoQuotaGroup}
    /\ deployment \in Workloads \cup {NoWorkload} /\ rollout \in Workloads \cup {NoWorkload}
    /\ phase \in Phases /\ disturbed \in BOOLEAN
    /\ filter = [app |-> filter.app, patches |-> filter.patches,
                 descriptors |-> filter.descriptors, rateLimits |-> filter.rateLimits]

\* The workload a filter is for: a deployment goes first.
Chosen == IF deployment # NoWorkload THEN deployment ELSE rollout

\* As long as no workload changes, both looks at the caches find the same one.
ChosenInv ==
    ~disturbed /\ (deployment # NoWorkload => deployment.app # NoLabel) =>
        /\ phase \in {"rollout labels", "rollout ports"} => deployment = NoWorkload
        /\ phase \in {"limits", "ports", "rollout ports"} =>
               Chosen # NoWorkload /\ filter.app = Chosen.app
        /\ Built => /\ Chosen # NoWorkload /\ filter.app = Chosen.app
                    /\ filter.patches = ConfigPatches(InboundPorts(Chosen))

\* The descriptors are those of the quotas that are wanted.
DescriptorsInv ==
    phase \in {"ports", "rollout ports"} \/ Built =>
        /\ quotaGroup \in QuotaGroups
        /\ filter.descriptors = [p \in Wanted |-> Descriptor(p)]
        /\ filter.rateLimits = [p \in Wanted |-> RateLimit(p)]

IInv == TypeOK /\ ChosenInv /\ DescriptorsInv

-----------------------------------------------------------------------------
(* Keys.                                                                    *)

\* What is in a key, word by word.
LEMMA KeyWords ==
    ASSUME NEW a \in Seq(Words), NEW c \in Seq(Words), Colon \in Words
    PROVE  /\ DescriptorKey(a, c) \in Seq(Words)
           /\ Len(a) \in Nat /\ Len(c) \in Nat
           /\ Len(DescriptorKey(a, c)) = Len(a) + 1 + Len(c)
           /\ \A i \in 1 .. Len(a) : DescriptorKey(a, c)[i] = a[i]
           /\ DescriptorKey(a, c)[Len(a) + 1] = Colon
           /\ \A i \in 1 .. Len(c) : DescriptorKey(a, c)[Len(a) + 1 + i] = c[i]
<1> DEFINE b == a \o <<Colon>>
<1>1. <<Colon>> \in Seq(Words) /\ Len(<<Colon>>) = 1
  OBVIOUS
<1>2. /\ b \in Seq(Words) /\ Len(b) = Len(a) + 1 /\ Len(a) \in Nat /\ b[Len(a) + 1] = Colon
      /\ \A i \in 1 .. Len(a) : b[i] = a[i]
  BY <1>1
<1>3. DescriptorKey(a, c) = b \o c
  BY DEF DescriptorKey
<1> HIDE DEF b
<1>4. /\ b \o c \in Seq(Words) /\ Len(b \o c) = Len(b) + Len(c) /\ Len(c) \in Nat
      /\ \A i \in 1 .. Len(b) : (b \o c)[i] = b[i]
      /\ \A i \in 1 .. Len(c) : (b \o c)[Len(b) + i] = c[i]
  BY <1>2
<1>5. \A i \in 1 .. Len(a) + 1 : (b \o c)[i] = b[i]
  BY <1>2, <1>4
<1> QED  BY <1>2, <1>3, <1>4, <1>5

\* Equal sequences of words have equal words.
LEMMA SameWords ==
    ASSUME NEW a \in Seq(Words), NEW b \in Seq(Words), Len(a) = Len(b),
           \A i \in 1 .. Len(a) : a[i] = b[i]
    PROVE  a = b
  OBVIOUS

\* A key tells its parts apart if one of them is known.
LEMMA KeyTail ==
    ASSUME NEW a \in Seq(Words), NEW c \in Seq(Words), NEW d \in Seq(Words), Colon \in Words,
           DescriptorKey(a, c) = DescriptorKey(a, d)
    PROVE  c = d
<1> DEFINE x == DescriptorKey(a, c)
<1>1. /\ Len(a) \in Nat /\ Len(c) \in Nat /\ Len(x) = Len(a) + 1 + Len(c)
      /\ \A i \in 1 .. Len(c) : x[Len(a) + 1 + i] = c[i]
  BY KeyWords
<1> DEFINE y == DescriptorKey(a, d)
<1>2. /\ Len(d) \in Nat /\ Len(y) = Len(a) + 1 + Len(d)
      /\ \A i \in 1 .. Len(d) : y[Len(a) + 1 + i] = d[i]
  BY KeyWords
<1>y. x = y
  OBVIOUS
<1> HIDE DEF x, y
<1>3. Len(c) = Len(d)
  BY <1>1, <1>2, <1>y
<1>4. \A i \in 1 .. Len(c) : c[i] = d[i]
  BY <1>1, <1>2, <1>3, <1>y
<1> QED  BY <1>3, <1>4, SameWords

\* A key tells its parts apart if the first has no separator in it.
LEMMA KeyParts ==
    ASSUME NEW a \in Seq(Words), NEW b \in Seq(Words), NEW c \in Seq(Words), NEW d \in Seq(Words),
           Colon \in Words, Colon \notin ToSet(a), Colon \notin ToSet(b),
           DescriptorKey(a, c) = DescriptorKey(b, d)
    PROVE  a = b /\ c = d
<1> DEFINE x == DescriptorKey(a, c)
<1>1. /\ Len(a) \in Nat /\ \A i \in 1 .. Len(a) : x[i] = a[i]
      /\ x[Len(a) + 1] = Colon
  BY KeyWords
<1> DEFINE y == DescriptorKey(b, d)
<1>y. /\ Len(b) \in Nat /\ \A i \in 1 .. Len(b) : y[i] = b[i]
      /\ y[Len(b) + 1] = Colon
  BY KeyWords
<1>z. x = y
  OBVIOUS
<1> HIDE DEF x, y
<1>2. /\ Len(b) \in Nat /\ \A i \in 1 .. Len(b) : x[i] = b[i]
      /\ x[Len(b) + 1] = Colon
  BY <1>y, <1>z
<1>3. \A i \in 1 .. Len(a) : a[i] # Colon
  BY DEF ToSet
<1>4. \A i \in 1 .. Len(b) : b[i] # Colon
  BY DEF ToSet
<1>5. Len(a) = Len(b)
  <2>1. CASE Len(a) < Len(b)
    <3>1. Len(a) + 1 \in 1 .. Len(b)
      BY <1>1, <1>2, <2>1
    <3> QED  BY <1>1, <1>2, <1>4, <3>1
  <2>2. CASE Len(b) < Len(a)
    <3>1. Len(b) + 1 \in 1 .. Len(a)
      BY <1>1, <1>2, <2>2
    <3> QED  BY <1>1, <1>2, <1>3, <3>1
  <2> QED  BY <1>1, <1>2, <2>1, <2>2
<1>6. a = b
  <2>1. \A i \in 1 .. Len(a) : a[i] = b[i]
    BY <1>1, <1>2, <1>5
  <2> QED  BY <1>5, <2>1, SameWords
<1> QED  BY <1>6, KeyTail

\* What a wanted quota is made of.
LEMMA WantedParts ==
    ASSUME quotaGroup \in QuotaGroups, NEW p \in Wanted
    PROVE  /\ GroupOf(p).name \in Seq(Words) /\ QuotaOf(p).name \in Seq(Words)
           /\ \/ p[1] = "total" /\ AppOf(p) = <<>>
              \/ p[1] = "app" /\ AppOf(p) \in Seq(Words)
<1>1. CASE p \in TotalQuotas
  <2>1. PICK i \in DOMAIN quotaGroup.total : \E j \in DOMAIN quotaGroup.total[i].quotas :
            p = <<"total", i, 0, j>>
    BY <1>1 DEF TotalQuotas
  <2>2. PICK j \in DOMAIN quotaGroup.total[i].quotas : p = <<"total", i, 0, j>>
    BY <2>1
  <2>3. p[1] = "total" /\ p[2] = i /\ p[4] = j
    BY <2>2
  <2>4. /\ GroupOf(p) = quotaGroup.total[i] /\ AppOf(p) = <<>>
        /\ QuotaOf(p) = quotaGroup.total[i].quotas[j]
    BY <2>3 DEF GroupOf, AppOf, QuotaOf
  <2>5. quotaGroup.total[i] \in ToSet(quotaGroup.total)
        /\ quotaGroup.total[i].quotas[j] \in ToSet(quotaGroup.total[i].quotas)
    BY DEF ToSet
  <2>6. quotaGroup.total[i].name \in Seq(Words) /\ quotaGroup.total[i].quotas[j].name \in Seq(Words)
    BY <2>5, RateLimitAssumption
  <2> QED  BY <2>3, <2>4, <2>6
<1>2. CASE p \in AppQuotas
  <2>1. PICK i \in DOMAIN quotaGroup.app :
            \E a \in DOMAIN quotaGroup.app[i].apps, j \in DOMAIN quotaGroup.app[i].quotas :
                p = <<"app", i, a, j>>
    BY <1>2 DEF AppQuotas
  <2>2. PICK a \in DOMAIN quotaGroup.app[i].apps, j \in DOMAIN quotaGroup.app[i].quotas :
            p = <<"app", i, a, j>>
    BY <2>1
  <2>3. p[1] = "app" /\ p[2] = i /\ p[3] = a /\ p[4] = j
    BY <2>2
  <2>4. /\ GroupOf(p) = quotaGroup.app[i] /\ AppOf(p) = quotaGroup.app[i].apps[a]
        /\ QuotaOf(p) = quotaGroup.app[i].quotas[j]
    BY <2>3 DEF GroupOf, AppOf, QuotaOf
  <2>5. /\ quotaGroup.app[i] \in ToSet(quotaGroup.app)
        /\ quotaGroup.app[i].quotas[j] \in ToSet(quotaGroup.app[i].quotas)
        /\ quotaGroup.app[i].apps[a] \in ToSet(quotaGroup.app[i].apps)
    BY DEF ToSet
  <2>6. /\ quotaGroup.app[i].name \in Seq(Words) /\ quotaGroup.app[i].quotas[j].name \in Seq(Words)
        /\ quotaGroup.app[i].apps[a] \in Seq(Words)
    BY <2>5, RateLimitAssumption
  <2> QED  BY <2>3, <2>4, <2>6
<1> QED  BY <1>1, <1>2 DEF Wanted

\* Two quotas have different entries.
LEMMA EntriesDiffer ==
    ASSUME quotaGroup \in QuotaGroups, Named,
           NEW p \in Wanted, NEW r \in Wanted, Entries(p) = Entries(r)
    PROVE  p = r
<1>1. /\ GroupOf(p).name \in Seq(Words) /\ QuotaOf(p).name \in Seq(Words)
      /\ \/ p[1] = "total" /\ AppOf(p) = <<>>
         \/ p[1] = "app" /\ AppOf(p) \in Seq(Words)
  BY WantedParts
<1>2. /\ GroupOf(r).name \in Seq(Words) /\ QuotaOf(r).name \in Seq(Words)
      /\ \/ r[1] = "total" /\ AppOf(r) = <<>>
         \/ r[1] = "app" /\ AppOf(r) \in Seq(Words)
  BY WantedParts
<1>3. /\ Colon \notin ToSet(GroupOf(p).name) /\ Colon \notin ToSet(GroupOf(r).name)
      /\ p[1] = "app" => AppOf(p) # <<>>
      /\ r[1] = "app" => AppOf(r) # <<>>
      /\ p[1] = r[1] /\ GroupOf(p).name = GroupOf(r).name
             /\ AppOf(p) = AppOf(r) /\ QuotaOf(p).name = QuotaOf(r).name => p = r
  BY DEF Named
<1>4. Colon \in Words
  BY RateLimitAssumption
<1>5. QuotaKey(p) = QuotaKey(r)
  BY DEF Entries
<1>6. GroupOf(p).name = GroupOf(r).name /\ QuotaOf(p).name = QuotaOf(r).name
  BY <1>1, <1>2, <1>3, <1>4, <1>5, KeyParts DEF QuotaKey
<1>7. p[1] = r[1] /\ AppOf(p) = AppOf(r)
  <2>1. CASE p[1] = "total" /\ r[1] = "total"
    BY <1>1, <1>2, <2>1
  <2>2. CASE p[1] = "app" /\ r[1] = "app"
    <3>1. AppOf(p) \in Seq(Words) /\ AppOf(r) \in Seq(Words) /\ AppOf(p) # <<>> /\ AppOf(r) # <<>>
      BY <1>1, <1>2, <1>3, <2>2
    <3>2. DescriptorKey(QuotaKey(p), AppOf(p)) = DescriptorKey(QuotaKey(p), AppOf(r))
      BY <1>5, <3>1 DEF Entries
    <3>3. QuotaKey(p) \in Seq(Words)
      BY <1>1, <1>4, KeyWords DEF QuotaKey
    <3> QED  BY <1>4, <2>2, <3>1, <3>2, <3>3, KeyTail
  <2>3. CASE p[1] # r[1]
    <3>1. \/ AppOf(p) = <<>> /\ AppOf(r) # <<>>
          \/ AppOf(p) # <<>> /\ AppOf(r) = <<>>
      BY <1>1, <1>2, <1>3, <2>3
    <3>2. \A a, b, c : <<a>> # <<b, c>>
      OBVIOUS
    <3> QED  BY <3>1, <3>2 DEF Entries
  <2> QED  BY <1>1, <1>2, <2>1, <2>2, <2>3
<1> QED  BY <1>3, <1>6, <1>7

-----------------------------------------------------------------------------
(* The invariant.                                                           *)

\* A filter with other rate limits, descriptors and patches.
LEMMA NewParts ==
    ASSUME NEW f, NEW g, NEW d, NEW r, NEW p,
           f = [g EXCEPT !.descriptors = d, !.rateLimits = r, !.patches = p],
           g = [app |-> g.app, patches |-> g.patches,
                descriptors |-> g.descriptors, rateLimits |-> g.rateLimits]
    PROVE  f = [app |-> g.app, patches |-> p, descriptors |-> d, rateLimits |-> r]
<1> DEFINE h == [app |-> g.app, patches |-> p, descriptors |-> d, rateLimits |-> r]
           Names == {"app", "patches", "descriptors", "rateLimits"}
<1>1. DOMAIN g = Names
  OBVIOUS
<1>2. f = [n \in Names |-> f[n]]
  BY <1>1
<1>3. f.app = g.app /\ f.descriptors = d /\ f.rateLimits = r /\ f.patches = p
  BY <1>1
<1>4. h = [n \in Names |-> h[n]]
  OBVIOUS
<1> HIDE DEF h
<1>5. h.app = g.app /\ h.descriptors = d /\ h.rateLimits = r /\ h.patches = p
  BY DEF h
<1> QED  BY <1>2, <1>3, <1>4, <1>5

\* A step of the handler that goes on with a filter whose app is f.app.
LEMMA GoesStep ==
    ASSUME TypeOK, NEW to \in Phases, NEW f, Goes(to, f),
           f = [app |-> f.app, patches |-> f.patches,
                descriptors |-> f.descriptors, rateLimits |-> f.rateLimits]
    PROVE  /\ TypeOK' /\ phase' = to /\ filter' = f
           /\ UNCHANGED <<quotaGroup, deployment, rollout, disturbed>>
  BY DEF TypeOK, Goes, workloads

\* What is wanted depends on the traffic config only.
LEMMA SameQuotas ==
    ASSUME UNCHANGED quotaGroup
    PROVE  /\ [p \in Wanted |-> Descriptor(p)]' = [p \in Wanted |-> Descriptor(p)]
           /\ [p \in Wanted |-> RateLimit(p)]' = [p \in Wanted |-> RateLimit(p)]
<1> USE DEF Wanted, TotalQuotas, AppQuotas, Entries, QuotaKey, AppOf, QuotaOf, GroupOf
<1>1. [p \in Wanted |-> Descriptor(p)]' = [p \in Wanted |-> Descriptor(p)]
  BY DEF Descriptor
<1>2. [p \in Wanted |-> RateLimit(p)]' = [p \in Wanted |-> RateLimit(p)]
  BY DEF RateLimit, HeaderMatcher, MethodRegex, PathRegex
<1> QED  BY <1>1, <1>2

\* Every step leads from the invariant to the invariant.
LEMMA NextIInv == IInv /\ [Next]_vars => IInv'
<1> SUFFICES ASSUME IInv, [Next]_vars  PROVE IInv'
  OBVIOUS
<1> USE DEF IInv
<1> DEFINE D == [p \in Wanted |-> Descriptor(p)]
           R == [p \in Wanted |-> RateLimit(p)]
<1>1. CASE WorkloadChanges
  <2>1. /\ UNCHANGED <<quotaGroup, phase, filter>> /\ disturbed' = (disturbed \/ phase # "labels")
        /\ deployment' \in Workloads \cup {NoWorkload} /\ rollout' \in Workloads \cup {NoWorkload}
    BY <1>1 DEF WorkloadChanges, TypeOK
  <2>2. TypeOK'
    BY <2>1 DEF TypeOK
  <2>3. ChosenInv'
    BY <2>1 DEF ChosenInv, Built, TypeOK
  <2>4. D' = D /\ R' = R
    BY <2>1, SameQuotas
  <2>5. DescriptorsInv'
    BY <2>1, <2>4 DEF DescriptorsInv, Built
  <2> QED  BY <2>2, <2>3, <2>5
<1>2. ASSUME NEW to \in {"limits", "rollout labels", "done"}, NEW f, Goes(to, f),
             to = "done" => f = NoFilter,
             f = [NoFilter EXCEPT !.app = f.app],
             to = "rollout labels" => (deployment # NoWorkload => deployment.app = NoLabel),
             to = "limits" => \/ deployment # NoWorkload /\ f.app = deployment.app
                              \/ deployment = NoWorkload /\ rollout # NoWorkload /\ f.app = rollout.app
                              \/ disturbed
                              \/ deployment # NoWorkload /\ deployment.app = NoLabel
      PROVE  IInv'
  <2>1. f = [app |-> f.app, patches |-> f.patches,
             descriptors |-> f.descriptors, rateLimits |-> f.rateLimits]
    BY <1>2 DEF NoFilter
  <2>2. /\ TypeOK' /\ phase' = to /\ filter' = f
        /\ UNCHANGED <<quotaGroup, deployment, rollout, disturbed>>
    BY <1>2, <2>1, GoesStep DEF Phases
  <2>3. ChosenInv'
    BY <1>2, <2>2 DEF ChosenInv, Built, Chosen
  <2>4. DescriptorsInv'
    BY <1>2, <2>2 DEF DescriptorsInv, Built
  <2> QED  BY <2>2, <2>3, <2>4
<1>3. CASE GetDeploymentLabels
  <2>1. CASE deployment # NoWorkload /\ deployment.app # NoLabel
    <3> DEFINE f == [NoFilter EXCEPT !.app = deployment.app]
    <3>1. f = [NoFilter EXCEPT !.app = f.app] /\ f.app = deployment.app
      BY DEF NoFilter
    <3>2. Goes("limits", f)
      BY <1>3, <2>1 DEF GetDeploymentLabels
    <3> HIDE DEF f
    <3> QED  BY <1>2, <2>1, <3>1, <3>2
  <2>2. CASE ~(deployment # NoWorkload /\ deployment.app # NoLabel)
    <3>1. Goes("rollout labels", NoFilter)
      BY <1>3, <2>2 DEF GetDeploymentLabels
    <3>2. NoFilter = [NoFilter EXCEPT !.app = NoFilter.app]
      BY DEF NoFilter
    <3> QED  BY <1>2, <2>2, <3>1, <3>2
  <2> QED  BY <2>1, <2>2
<1>4. CASE GetRolloutLabels
  <2>1. phase = "rollout labels"
    BY <1>4 DEF GetRolloutLabels
  <2>2. CASE ArgoRolloutsEnabled /\ rollout # NoWorkload /\ rollout.app # NoLabel
    <3> DEFINE f == [NoFilter EXCEPT !.app = rollout.app]
    <3>1. f = [NoFilter EXCEPT !.app = f.app] /\ f.app = rollout.app
      BY DEF NoFilter
    <3>2. Goes("limits", f)
      BY <1>4, <2>2 DEF GetRolloutLabels
    <3>3. disturbed \/ deployment = NoWorkload \/ deployment.app = NoLabel
      BY <2>1 DEF ChosenInv
    <3> HIDE DEF f
    <3> QED  BY <1>2, <2>2, <3>1, <3>2, <3>3
  <2>3. CASE ~(ArgoRolloutsEnabled /\ rollout # NoWorkload /\ rollout.app # NoLabel)
    <3>1. Goes("done", NoFilter)
      BY <1>4, <2>3 DEF GetRolloutLabels
    <3>2. NoFilter = [NoFilter EXCEPT !.app = NoFilter.app]
      BY DEF NoFilter
    <3> QED  BY <1>2, <3>1, <3>2
  <2> QED  BY <2>2, <2>3
<1>5. CASE CreateRoutePatches
  <2>1. CASE quotaGroup = NoQuotaGroup
    <3>1. Goes("crashed", filter)
      BY <1>5, <2>1 DEF CreateRoutePatches
    <3>2. /\ TypeOK' /\ phase' = "crashed" /\ filter' = filter
          /\ UNCHANGED <<quotaGroup, deployment, rollout, disturbed>>
      BY <3>1, GoesStep DEF TypeOK, Phases
    <3>3. ChosenInv' /\ DescriptorsInv'
      BY <2>1, <3>2 DEF ChosenInv, DescriptorsInv, Built
    <3> QED  BY <3>2, <3>3
  <2>2. CASE quotaGroup # NoQuotaGroup
    <3> DEFINE P == ConfigPatches(<<>>)
               f == [filter EXCEPT !.descriptors = D, !.rateLimits = R, !.patches = P]
    <3>2. Goes("ports", f) /\ phase = "limits"
      BY <1>5, <2>2 DEF CreateRoutePatches
    <3> HIDE DEF D, R, P
    <3>1. f = [app |-> f.app, patches |-> f.patches,
               descriptors |-> f.descriptors, rateLimits |-> f.rateLimits]
          /\ f.app = filter.app /\ f.descriptors = D /\ f.rateLimits = R
      <4>1. filter = [app |-> filter.app, patches |-> filter.patches,
                      descriptors |-> filter.descriptors, rateLimits |-> filter.rateLimits]
        BY DEF TypeOK
      <4>2. f = [filter EXCEPT !.descriptors = D, !.rateLimits = R, !.patches = P]
        OBVIOUS
      <4> HIDE DEF f
      <4>3. f = [app |-> filter.app, patches |-> P, descriptors |-> D, rateLimits |-> R]
        BY <4>1, <4>2, NewParts
      <4> QED  BY <4>3
    <3> HIDE DEF f
    <3>3. /\ TypeOK' /\ phase' = "ports" /\ filter' = f
          /\ UNCHANGED <<quotaGroup, deployment, rollout, disturbed>>
      BY <3>1, <3>2, GoesStep DEF Phases
    <3>4. ChosenInv'
      BY <3>1, <3>2, <3>3 DEF ChosenInv, Built, Chosen
    <3>5. D' = D /\ R' = R
      BY <3>3, SameQuotas DEF D, R
    <3>6. quotaGroup' \in QuotaGroups /\ filter'.descriptors = D' /\ filter'.rateLimits = R'
      BY <2>2, <3>1, <3>3, <3>5 DEF TypeOK
    <3>7. DescriptorsInv'
      BY <3>6 DEF DescriptorsInv, D, R
    <3> QED  BY <3>3, <3>4, <3>7
  <2> QED  BY <2>1, <2>2
<1>6. ASSUME NEW w \in Workloads, NEW f, f = [filter EXCEPT !.patches = ConfigPatches(InboundPorts(w))],
             Goes("done", f), phase \in {"ports", "rollout ports"},
             w # NoWorkload,
             \/ w = deployment
             \/ phase = "rollout ports" /\ w = rollout,
             deployment # NoWorkload => phase = "ports" \/ disturbed \/ deployment.app = NoLabel
      PROVE  IInv'
  <2>1. /\ f = [app |-> f.app, patches |-> f.patches,
                descriptors |-> f.descriptors, rateLimits |-> f.rateLimits]
        /\ f.app = filter.app /\ f.descriptors = filter.descriptors /\ f.rateLimits = filter.rateLimits
        /\ f.patches = ConfigPatches(InboundPorts(w))
    BY <1>6 DEF TypeOK
  <2>2. /\ TypeOK' /\ phase' = "done" /\ filter' = f
        /\ UNCHANGED <<quotaGroup, deployment, rollout, disturbed>>
    BY <1>6, <2>1, GoesStep DEF Phases
  <2>3. D' = D /\ R' = R
    BY <2>2, SameQuotas
  <2>4. DescriptorsInv'
    BY <1>6, <2>1, <2>2, <2>3 DEF DescriptorsInv
  <2>5. ASSUME ~disturbed, deployment # NoWorkload => deployment.app # NoLabel
        PROVE  Chosen = w /\ Chosen # NoWorkload /\ filter.app = w.app
    BY <1>6, <2>5 DEF ChosenInv, Chosen
  <2>6. ChosenInv'
    BY <2>1, <2>2, <2>5 DEF ChosenInv, Chosen, ConfigPatches, InboundPorts, RoutePatch, FilterPatch
  <2> QED  BY <2>2, <2>4, <2>6
<1>7. ASSUME NEW to \in {"rollout ports", "done"}, Goes(to, filter),
             phase \in {"ports", "rollout ports"},
             IF to = "rollout ports" THEN deployment = NoWorkload
             ELSE phase = "rollout ports" /\ rollout = NoWorkload
      PROVE  IInv'
  <2>1. /\ TypeOK' /\ phase' = to /\ filter' = filter
        /\ UNCHANGED <<quotaGroup, deployment, rollout, disturbed>>
    BY <1>7, GoesStep DEF TypeOK, Phases
  <2>2. D' = D /\ R' = R
    BY <2>1, SameQuotas
  <2>3. DescriptorsInv'
    BY <1>7, <2>1, <2>2 DEF DescriptorsInv
  <2>4. ChosenInv'
    BY <1>7, <2>1 DEF ChosenInv, Chosen, Built
  <2> QED  BY <2>1, <2>3, <2>4
<1>8. CASE GetDeploymentPorts
  <2>1. CASE deployment # NoWorkload
    <3>1. Goes("done", [filter EXCEPT !.patches = ConfigPatches(InboundPorts(deployment))])
          /\ phase = "ports" /\ deployment \in Workloads
      BY <1>8, <2>1 DEF GetDeploymentPorts, TypeOK
    <3> QED  BY <1>6, <2>1, <3>1
  <2>2. CASE deployment = NoWorkload
    BY <1>7, <1>8, <2>2 DEF GetDeploymentPorts
  <2> QED  BY <2>1, <2>2
<1>9. CASE GetRolloutPorts
  <2>1. phase = "rollout ports" /\ (deployment # NoWorkload => disturbed \/ deployment.app = NoLabel)
    BY <1>9 DEF GetRolloutPorts, ChosenInv
  <2>2. CASE rollout # NoWorkload
    <3>1. Goes("done", [filter EXCEPT !.patches = ConfigPatches(InboundPorts(rollout))])
          /\ rollout \in Workloads
      BY <1>9, <2>2 DEF GetRolloutPorts, TypeOK
    <3> QED  BY <1>6, <2>1, <2>2, <3>1
  <2>3. CASE rollout = NoWorkload
    BY <1>7, <1>9, <2>1, <2>3 DEF GetRolloutPorts
  <2> QED  BY <2>2, <2>3
<1>10. CASE UNCHANGED vars
  <2>1. UNCHANGED <<quotaGroup, deployment, rollout, phase, filter, disturbed>>
    BY <1>10 DEF vars, workloads
  <2>2. D' = D /\ R' = R
    BY <2>1, SameQuotas
  <2>3. TypeOK' /\ DescriptorsInv'
    BY <2>1, <2>2 DEF TypeOK, DescriptorsInv, Built
  <2>4. ChosenInv'
    BY <2>1 DEF ChosenInv, Chosen, Built, ConfigPatches, InboundPorts, RoutePatch, FilterPatch
  <2> QED  BY <2>3, <2>4
<1> QED  BY <1>1, <1>3, <1>4, <1>5, <1>8, <1>9, <1>10 DEF Next

\* The invariant holds at the start.
LEMMA InitIInv == Init => IInv
  BY DEF Init, IInv, TypeOK, Phases, NoFilter, ChosenInv, DescriptorsInv, Built

\* The rules leave the filter alone until the next handling, which starts afresh.
LEMMA BothIInv == IInv /\ [BothNext]_<<vars, ruleVars>> => IInv'
<1> SUFFICES ASSUME IInv, [BothNext]_<<vars, ruleVars>>  PROVE IInv'
  OBVIOUS
<1>1. CASE [Next]_vars
  BY <1>1, NextIInv
<1>2. CASE /\ UNCHANGED <<quotaGroup, workloads>>
           /\ phase' = "labels" /\ filter' = NoFilter /\ disturbed' = FALSE
  BY <1>2 DEF IInv, TypeOK, Phases, NoFilter, workloads, ChosenInv, DescriptorsInv, Built
<1>3. [Next]_vars \/ (/\ UNCHANGED <<quotaGroup, workloads>>
                      /\ phase' = "labels" /\ filter' = NoFilter /\ disturbed' = FALSE)
  BY DEF BothNext, HandleRateLimiter, HandleVirtualServiceForTrafficConfig, vars
<1> QED  BY <1>1, <1>2, <1>3

\* The invariant holds throughout, however often the traffic config is handled.
THEOREM Invariance == BothSpec => []IInv
<1>1. BothInit => IInv
  BY InitIInv DEF BothInit
<1>2. IInv /\ [BothNext]_<<vars, ruleVars>> => IInv'
  BY BothIInv
<1> QED  BY <1>1, <1>2, PTL DEF BothSpec

-----------------------------------------------------------------------------

\* However names of quotas and apps use the separator, no two quotas share a
\* bucket and no descriptor comes twice.
THEOREM BucketsAreTheirQuotas == BothSpec => []OwnBuckets
<1>1. IInv => OwnBuckets
  <2> SUFFICES ASSUME IInv, Built, Named,
                      NEW p \in DOMAIN filter.descriptors, NEW r \in DOMAIN filter.descriptors,
                      filter.descriptors[p].entries = filter.descriptors[r].entries
               PROVE  p = r
    BY DEF OwnBuckets
  <2>1. quotaGroup \in QuotaGroups /\ filter.descriptors = [s \in Wanted |-> Descriptor(s)]
    BY DEF IInv, DescriptorsInv
  <2>2. /\ p \in Wanted /\ filter.descriptors[p] = Descriptor(p)
        /\ r \in Wanted /\ filter.descriptors[r] = Descriptor(r)
    BY <2>1
  <2>3. Entries(p) = Entries(r)
    BY <2>2 DEF Descriptor
  <2> QED  BY <2>1, <2>2, <2>3, EntriesDiffer
<1> QED  BY <1>1, Invariance, PTL

\* The ports whose routes ConfigPatches patches.
LEMMA PatchedPorts ==
    ASSUME NEW ports, ports \in Seq(ToSet(ports)), filter.patches = ConfigPatches(ports)
    PROVE  LimitedPorts = ToSet(ports)
<1> DEFINE routes == [i \in DOMAIN ports |-> RoutePatch(ports[i])]
<1> DEFINE S == {FilterPatch} \cup {RoutePatch(port) : port \in ToSet(ports)}
<1>1. DOMAIN ports = 1 .. Len(ports) /\ Len(ports) \in Nat
  OBVIOUS
<1>2. routes \in Seq(S) /\ Len(routes) = Len(ports) /\ \A i \in 1 .. Len(ports) : routes[i] = RoutePatch(ports[i])
  BY <1>1 DEF ToSet
<1>3. <<FilterPatch>> \in Seq(S) /\ Len(<<FilterPatch>>) = 1
  OBVIOUS
<1>4. filter.patches = <<FilterPatch>> \o routes
  BY DEF ConfigPatches
<1>5. FilterPatch.applyTo = "filter" /\ \A port : /\ RoutePatch(port).applyTo = "route"
                                                  /\ RoutePatch(port).port = port
  BY DEF FilterPatch, RoutePatch
<1>6. FilterPatch \in S
  OBVIOUS
<1> HIDE DEF routes, S
<1> DEFINE patches == <<FilterPatch>> \o routes
<1>7. /\ patches \in Seq(S) /\ Len(patches) = 1 + Len(ports) /\ patches[1] = FilterPatch
      /\ \A i \in 1 .. Len(ports) : patches[1 + i] = RoutePatch(ports[i])
  BY <1>1, <1>2, <1>3, <1>6
<1> HIDE DEF patches
<1>8. IsPrefix(<<FilterPatch>>, patches)
  BY <1>1, <1>3, <1>7 DEF IsPrefix
<1>9. ASSUME NEW port  PROVE RoutePatch(port) \in ToSet(patches) <=> port \in ToSet(ports)
  <2>1. ASSUME RoutePatch(port) \in ToSet(patches)  PROVE port \in ToSet(ports)
    <3>1. PICK i \in 1 .. 1 + Len(ports) : patches[i] = RoutePatch(port)
      BY <1>7, <2>1 DEF ToSet
    <3>2. i # 1
      BY <1>5, <1>7, <3>1
    <3>3. i - 1 \in 1 .. Len(ports) /\ i = 1 + (i - 1)
      BY <1>1, <3>2
    <3>4. RoutePatch(port) = RoutePatch(ports[i - 1])
      BY <1>7, <3>1, <3>3
    <3>5. port = ports[i - 1]
      BY <1>5, <3>4
    <3> QED  BY <1>1, <3>3, <3>5 DEF ToSet
  <2>2. ASSUME port \in ToSet(ports)  PROVE RoutePatch(port) \in ToSet(patches)
    <3>1. PICK i \in 1 .. Len(ports) : port = ports[i]
      BY <1>1, <2>2 DEF ToSet
    <3>2. 1 + i \in DOMAIN patches /\ patches[1 + i] = RoutePatch(port)
      BY <1>1, <1>7, <3>1
    <3> QED  BY <3>2 DEF ToSet
  <2> QED  BY <2>1, <2>2
<1>10. \A port : RoutePatch(port) \in ToSet(patches) => port \in {patch.port : patch \in ToSet(patches)}
  BY <1>5
<1>11. filter.patches = patches
  BY <1>4 DEF patches
<1> QED  BY <1>8, <1>9, <1>10, <1>11 DEF LimitedPorts

\* A filter that is built while no workload changes selects a workload and limits
\* its inbound ports, and no others.
THEOREM SelectedWorkloadIsLimited == BothSpec => []LimitedIsSelected
<1>1. IInv => LimitedIsSelected
  <2> SUFFICES ASSUME IInv, Built, ~disturbed, deployment # NoWorkload => deployment.app # NoLabel
               PROVE  \E w \in {deployment, rollout} \ {NoWorkload} :
                          filter.app = w.app /\ LimitedPorts = ToSet(InboundPorts(w))
    BY DEF LimitedIsSelected
  <2>1. /\ Chosen # NoWorkload /\ filter.app = Chosen.app
        /\ filter.patches = ConfigPatches(InboundPorts(Chosen))
    BY DEF IInv, ChosenInv
  <2>2. Chosen \in {deployment, rollout} \ {NoWorkload} /\ Chosen \in Workloads
    BY <2>1 DEF IInv, TypeOK, Chosen
  <2> DEFINE ports == InboundPorts(Chosen)
  <2>3. ports \in Seq(ToSet(ports))
    <3>1. Chosen.ports \in Seq(ToSet(Chosen.ports))
      BY <2>2, RateLimitAssumption
    <3>2. <<AllPorts>> \in Seq(ToSet(<<AllPorts>>))
      BY DEF ToSet
    <3> QED  BY <3>1, <3>2 DEF InboundPorts
  <2> HIDE DEF ports
  <2>4. LimitedPorts = ToSet(ports)
    BY <2>1, <2>3, PatchedPorts DEF ports
  <2> QED  BY <2>1, <2>2, <2>4 DEF ports
<1> QED  BY <1>1, Invariance, PTL

-----------------------------------------------------------------------------
(* What calls draw on.                                                      *)

\* A condition decides alone what a matcher wants of a value.
LEMMA MeetsOne ==
    ASSUME NEW value, NEW pattern
    PROVE  /\ Meets(value, "regex", pattern) <=> Matches(pattern, value)
           /\ Meets(value, "exact", pattern) <=> value = pattern
  BY DEF Meets

\* The regular expression for a path stands for what a star in it says.
LEMMA PathRegexIsStar ==
    ASSUME NEW path
    PROVE  PathRegex(path) = [i \in DOMAIN path |-> IF path[i] = "*" THEN ".*" ELSE path[i]]
  BY DEF PathRegex

\* A method is in the expression for methods in any spelling of one of them.
LEMMA MethodRegexIsAny ==
    ASSUME NEW q \in Calls, NEW methods
    PROVE  /\ MethodRegex(methods) = {} <=> methods = {}
           /\ q.method \in MethodRegex(methods) <=> \E m \in methods : m[1] = q.method[1]
<1> DEFINE letters == q.method[1]
<1>1. q.method = <<letters, "upper">>
  BY RateLimitAssumption
<1>2. q.method[1] = letters
  OBVIOUS
<1> HIDE DEF letters
<1>3. \A m : <<m[1], "upper">> = q.method <=> m[1] = q.method[1]
  BY <1>1, <1>2
<1>4. ASSUME NEW m \in methods, NEW case \in {"lower", "upper"}, <<m[1], case>> = q.method
      PROVE  m[1] = q.method[1]
  BY <1>1, <1>4
<1>5. \A m \in methods : <<m[1], "upper">> \in MethodRegex(methods)
  BY DEF MethodRegex
<1>6. methods = {} => MethodRegex(methods) = {}
  BY DEF MethodRegex
<1>7. ASSUME q.method \in MethodRegex(methods)  PROVE \E m \in methods : m[1] = q.method[1]
  <2>1. PICK m \in methods, case \in {"lower", "upper"} : q.method = <<m[1], case>>
    BY <1>7 DEF MethodRegex
  <2> QED  BY <1>4, <2>1
<1> QED  BY <1>3, <1>5, <1>6, <1>7

\* A path without operators has none after a star in it is for anything.
LEMMA StarIsLiteral ==
    ASSUME NEW path, ToSet(path) \cap Operators = {}
    PROVE  ToSet([i \in DOMAIN path |-> IF path[i] = "*" THEN ".*" ELSE path[i]]) \cap Operators = {}
<1> DEFINE star == [i \in DOMAIN path |-> IF path[i] = "*" THEN ".*" ELSE path[i]]
<1>1. DOMAIN star = DOMAIN path
      /\ \A i \in DOMAIN path : star[i] = ".*" \/ star[i] = path[i]
  OBVIOUS
<1> HIDE DEF star
<1>2. \A i \in DOMAIN path : path[i] \notin Operators
  BY DEF ToSet
<1>3. ".*" \notin Operators
  BY RateLimitAssumption
<1>4. \A i \in DOMAIN star : star[i] \notin Operators
  BY <1>1, <1>2, <1>3
<1>5. ToSet(star) \cap Operators = {}
  BY <1>4 DEF ToSet
<1> QED  BY <1>5 DEF star

\* A rate limit produces its entries for the calls its quota is for, if the path of
\* the quota has no operators in it.
LEMMA ProducesIsFor ==
    ASSUME quotaGroup \in QuotaGroups, Named, NEW p \in Wanted, NEW q \in Calls,
           Conditioned(p) \subseteq Conditions, Literal(p)
    PROVE  Produces(RateLimit(p), q) <=> IsFor(p, q)
<1> DEFINE quota == QuotaOf(p)
           path == HeaderMatcher("path", PathRegex(quota.path), "regex")
           headers == {HeaderMatcher(h.name, h.value, h.condition) : h \in quota.headers}
           clients == {HeaderMatcher("client", app, "exact") : app \in {AppOf(p)} \ {<<>>}}
           Met(m) == Meets(q.headers[m.name], m.match, m.value)
           star == [i \in DOMAIN quota.path |-> IF quota.path[i] = "*" THEN ".*" ELSE quota.path[i]]
<1>1. Produces(RateLimit(p), q) <=>
          /\ quota.methods = {} \/ \E m \in quota.methods : m[1] = q.method[1]
          /\ \A m \in {path} \cup headers \cup clients : Met(m)
  <2>1. /\ RateLimit(p).methods = MethodRegex(quota.methods)
        /\ RateLimit(p).matchers = {path} \cup headers \cup clients
    BY DEF RateLimit
  <2> HIDE DEF path, headers, clients
  <2> QED  BY <2>1, MethodRegexIsAny DEF Produces
<1>2. Met(path) <=> CutsInto(star, q.headers["path"])
  <2>1. path.name = "path" /\ path.match = "regex" /\ path.value = PathRegex(quota.path)
    BY DEF HeaderMatcher, Conditions
  <2>2. PathRegex(quota.path) = star
    BY PathRegexIsStar
  <2>3. ToSet(star) \cap Operators = {}
    BY StarIsLiteral DEF Literal
  <2> HIDE DEF path, star
  <2>4. Met(path) <=> Matches(star, q.headers["path"])
    BY <2>1, <2>2, MeetsOne
  <2>5. Matches(star, q.headers["path"]) <=> CutsInto(star, q.headers["path"])
    BY <2>3 DEF Matches
  <2> QED  BY <2>4, <2>5
<1>3. (\A m \in headers : Met(m)) <=> \A h \in quota.headers : Meets(q.headers[h.name], h.condition, h.value)
  <2>1. ASSUME NEW h \in quota.headers
        PROVE  Met(HeaderMatcher(h.name, h.value, h.condition)) <=>
                   Meets(q.headers[h.name], h.condition, h.value)
    <3>1. h.condition \in Conditions
      BY DEF Conditioned
    <3> DEFINE m == HeaderMatcher(h.name, h.value, h.condition)
    <3>2. m.name = h.name /\ m.value = h.value /\ m.match = h.condition
      BY <3>1 DEF HeaderMatcher
    <3> HIDE DEF m
    <3>3. Met(m) <=> Meets(q.headers[h.name], h.condition, h.value)
      BY <3>2
    <3> QED  BY <3>3 DEF m
  <2> HIDE DEF Met
  <2> QED  BY <2>1
<1>4. (\A m \in clients : Met(m)) <=> p[1] = "total" \/ AppOf(p) = q.headers["client"]
  <2>1. \/ p[1] = "total" /\ AppOf(p) = <<>>
        \/ p[1] = "app" /\ AppOf(p) # <<>>
    BY WantedParts DEF Named
  <2>2. CASE p[1] = "total"
    <3>1. clients = {}
      BY <2>1, <2>2
    <3> QED  BY <2>2, <3>1
  <2>3. CASE p[1] = "app" /\ AppOf(p) # <<>>
    <3> DEFINE m == HeaderMatcher("client", AppOf(p), "exact")
    <3>1. clients = {m}
      BY <2>3
    <3>2. m.name = "client" /\ m.match = "exact" /\ m.value = AppOf(p)
      BY DEF HeaderMatcher, Conditions
    <3> HIDE DEF m, clients
    <3>3. Met(m) <=> q.headers["client"] = AppOf(p)
      BY <3>2, MeetsOne
    <3> HIDE DEF Met
    <3>4. p[1] # "total"
      BY <2>3
    <3> QED  BY <3>1, <3>3, <3>4
  <2> QED  BY <2>1, <2>2, <2>3
<1> HIDE DEF path, headers, clients, Met, star
<1>5. (\A m \in {path} \cup headers \cup clients : Met(m)) <=>
          Met(path) /\ (\A m \in headers : Met(m)) /\ (\A m \in clients : Met(m))
  OBVIOUS
<1>6. IsFor(p, q) <=>
          /\ p[1] = "total" \/ AppOf(p) = q.headers["client"]
          /\ CutsInto(star, q.headers["path"])
          /\ quota.methods = {} \/ \E m \in quota.methods : m[1] = q.method[1]
          /\ \A h \in quota.headers : Meets(q.headers[h.name], h.condition, h.value)
  BY DEF IsFor, star
<1> HIDE DEF quota
<1> QED  BY <1>1, <1>2, <1>3, <1>4, <1>5, <1>6

\* Of the quotas whose paths have no operators of regular expressions in them, a call
\* draws on the buckets of those that are for it and on no others, for any names,
\* methods and conditions; and buckets hold the amounts that were asked for.
THEOREM CallsDrawOnTheirQuotas == BothSpec => []QuotasApply
<1>1. IInv => QuotasApply
  <2> SUFFICES ASSUME IInv, Built, Named, \A p \in Wanted : Conditioned(p) \subseteq Conditions
               PROVE  /\ \A q \in Calls : {p \in Drawn(q) : Literal(p)} =
                                            {p \in Wanted : Literal(p) /\ IsFor(p, q)}
                      /\ \A p \in Wanted : QuotaOf(p).max \in 0 .. Wrap - 1 =>
                             filter.descriptors[p].tokens = QuotaOf(p).max
    BY DEF QuotasApply
  <2>1. /\ quotaGroup \in QuotaGroups
        /\ filter.descriptors = [p \in Wanted |-> Descriptor(p)]
        /\ filter.rateLimits = [p \in Wanted |-> RateLimit(p)]
    BY DEF IInv, DescriptorsInv
  <2>2. \A p \in Wanted : /\ filter.descriptors[p] = Descriptor(p)
                          /\ filter.rateLimits[p] = RateLimit(p)
    BY <2>1
  <2>3. \A p \in Wanted : /\ Descriptor(p).entries = Entries(p)
                          /\ RateLimit(p).entries = Entries(p)
                          /\ Descriptor(p).tokens = QuotaOf(p).max % Wrap
    BY DEF Descriptor, RateLimit
  <2>4. ASSUME NEW q \in Calls  PROVE {p \in Drawn(q) : Literal(p)} =
                                        {p \in Wanted : Literal(p) /\ IsFor(p, q)}
    <3>1. \A p, r \in Wanted : Entries(p) = Entries(r) => p = r
      BY <2>1, EntriesDiffer
    <3>2. \A p \in Wanted : Literal(p) => (Produces(RateLimit(p), q) <=> IsFor(p, q))
      BY <2>1, ProducesIsFor
    <3>3. DOMAIN filter.descriptors = Wanted /\ DOMAIN filter.rateLimits = Wanted
      BY <2>1
    <3>4. \A p \in Wanted : Literal(p) =>
             ((\E r \in Wanted : /\ Produces(filter.rateLimits[r], q)
                                 /\ filter.rateLimits[r].entries = filter.descriptors[p].entries)
              <=> IsFor(p, q))
      BY <2>2, <2>3, <3>1, <3>2
    <3> QED  BY <3>3, <3>4 DEF Drawn
  <2>5. ASSUME NEW p \in Wanted, QuotaOf(p).max \in 0 .. Wrap - 1
        PROVE  filter.descriptors[p].tokens = QuotaOf(p).max
    <3> DEFINE max == QuotaOf(p).max
    <3>1. filter.descriptors[p].tokens = max % Wrap
      BY <2>2, <2>3
    <3>2. max \in 0 .. Wrap - 1 /\ Wrap \in Nat \ {0}
      BY <2>5, RateLimitAssumption
    <3> HIDE DEF max
    <3>3. max % Wrap = max
      BY <3>2
    <3> QED  BY <3>1, <3>3 DEF max
  <2> QED  BY <2>4, <2>5
<1> QED  BY <1>1, Invariance, PTL

-----------------------------------------------------------------------------
(* Numbers.                                                                 *)

\* The naturals in order.
Below == {ss \in Nat \X Nat : ss[1] < ss[2]}

\* Every set of natural numbers has a least element.
LEMMA BelowWF == IsWellFoundedOn(Below, Nat)
  BY NatLessThanWellFounded DEF OpToRel, Below

LEMMA LeastNumber ==
    ASSUME NEW S \in SUBSET Nat, S # {}
    PROVE  /\ Rules!Min(S) \in S
           /\ \A m \in S : Rules!Min(S) <= m
<1>1. PICK n \in S : \A m \in S : ~ (<<m, n>> \in Below)
  BY WFMin, BelowWF
<1>2. ASSUME NEW m \in S  PROVE n <= m
  <2>1. m \in Nat /\ n \in Nat
    OBVIOUS
  <2>2. ~(m < n)
    <3>1. <<m, n>> \in Below <=> m < n
      BY <2>1 DEF Below
    <3> QED  BY <1>1, <3>1
  <2> QED  BY <2>1, <2>2
<1>3. \E x \in S : \A y \in S : x <= y
  BY <1>2
<1>4. Rules!Min(S) \in S /\ \A m \in S : Rules!Min(S) <= m
  BY <1>3, Zenon DEF Rules!Min
<1> QED  BY <1>4

\* Every set of natural numbers up to some number has a greatest element.
LEMMA GreatestNumber ==
    ASSUME NEW n \in Nat, NEW S \in SUBSET 1 .. n, S # {}
    PROVE  /\ Rules!Max(S) \in S
           /\ \A m \in S : m <= Rules!Max(S)
<1> DEFINE T == {n - m : m \in S}
<1>1. T \in SUBSET Nat /\ T # {}
  <2>1. PICK m \in S : TRUE
    OBVIOUS
  <2>2. n - m \in T
    BY <2>1
  <2>3. \A i \in S : n - i \in Nat
    OBVIOUS
  <2> QED  BY <2>2, <2>3
<1>2. PICK t \in T : \A u \in T : t <= u
  BY <1>1, LeastNumber
<1>3. PICK x \in S : t = n - x
  OBVIOUS
<1>4. ASSUME NEW m \in S  PROVE x >= m
  BY <1>2, <1>3
<1>5. \E y \in S : \A m \in S : y >= m
  BY <1>4
<1>6. Rules!Max(S) \in S /\ \A m \in S : Rules!Max(S) >= m
  BY <1>5, Zenon DEF Rules!Max
<1>7. Rules!Max(S) \in 1 .. n /\ \A m \in S : m \in 1 .. n
  BY <1>6
<1> QED  BY <1>6, <1>7

\* The orders of a finite set have all of its elements.
LEMMA Orders ==
    ASSUME NEW S, IsFiniteSet(S), NEW order \in Rules!SetToSeqs(S)
    PROVE  order \in Seq(S) /\ Len(order) = Cardinality(S)
<1>1. Rules!Cardinality(S) = Cardinality(S)
  BY DEF Rules!Cardinality, Cardinality
<1>2. Cardinality(S) \in Nat
  BY FS_CardinalityType
<1>3. order \in [1..Cardinality(S) -> S]
  BY <1>1 DEF Rules!SetToSeqs
<1> QED  BY <1>2, <1>3

-----------------------------------------------------------------------------
(* The rules of one route.                                                  *)

\* Some client overrides what the route selects.
Overridden(r) ==
    \E c \in DOMAIN Rules!AppDialing(r) : Rules!Split(r, Rules!AppDialing(r)[c]) # <<>>

\* Route k adds rules: for clients, for the weights, or, if there are none, for its
\* environments, if it has any.
HasRules(k) ==
    /\ Rules!HasTargetDetails \/ tc.routes[k].config = <<>>
    /\ \/ tc.routes[k].envs # <<>>
       \/ /\ Rules!HasTargetDetails
          /\ Rules!ServiceDialRule(tc.routes[k]) # <<>> \/ Overridden(tc.routes[k])

\* What route k may add.
Added(k) ==
    IF Rules!HasTargetDetails THEN Rules!RulesWithTargetDetails(tc.routes[k])
    ELSE {Rules!RulesWithoutTargetDetails(tc.routes[k])}

\* A sequence of rules, all of one route.
RulesOf(r, b) ==
    /\ b \in Seq(ToSet(b))
    /\ \A i \in 1 .. Len(b) : \E dests : b[i] = Rules!RuleOf(r, dests)

\* Two sequences after each other.
LEMMA Joined ==
    ASSUME NEW a, NEW b, a \in Seq(ToSet(a)), b \in Seq(ToSet(b))
    PROVE  /\ a \o b \in Seq(ToSet(a \o b))
           /\ Len(a) \in Nat /\ Len(b) \in Nat /\ Len(a \o b) = Len(a) + Len(b)
           /\ \A i \in 1 .. Len(a) : (a \o b)[i] = a[i]
           /\ \A i \in 1 .. Len(b) : (a \o b)[Len(a) + i] = b[i]
<1> DEFINE S == ToSet(a) \cup ToSet(b)
<1>1. a \in Seq(S) /\ b \in Seq(S)
  OBVIOUS
<1> HIDE DEF S
<1>2. /\ a \o b \in Seq(S)
      /\ Len(a) \in Nat /\ Len(b) \in Nat /\ Len(a \o b) = Len(a) + Len(b)
      /\ \A i \in 1 .. Len(a) : (a \o b)[i] = a[i]
      /\ \A i \in 1 .. Len(b) : (a \o b)[Len(a) + i] = b[i]
  BY <1>1
<1> DEFINE c == a \o b
<1>3. c \in Seq(S)
  BY <1>2
<1> HIDE DEF c
<1>4. c \in Seq(ToSet(c))
  BY <1>3 DEF ToSet
<1> QED  BY <1>2, <1>4 DEF c

\* A function on 1 .. n is a sequence.
LEMMA IsSequence ==
    ASSUME NEW n \in Nat, NEW b, DOMAIN b = 1 .. n, b = [i \in 1 .. n |-> b[i]]
    PROVE  b \in Seq(ToSet(b)) /\ Len(b) = n
<1>1. b \in [1 .. n -> ToSet(b)]
  BY DEF ToSet
<1> QED  BY <1>1

\* Rules of one route after each other are rules of the route.
LEMMA JoinedRules ==
    ASSUME NEW r, NEW a, NEW b, RulesOf(r, a), RulesOf(r, b)
    PROVE  RulesOf(r, a \o b) /\ Len(a) \in Nat /\ Len(b) \in Nat /\ Len(a \o b) = Len(a) + Len(b)
<1>1. /\ a \o b \in Seq(ToSet(a \o b))
      /\ Len(a) \in Nat /\ Len(b) \in Nat /\ Len(a \o b) = Len(a) + Len(b)
      /\ \A i \in 1 .. Len(a) : (a \o b)[i] = a[i]
      /\ \A i \in 1 .. Len(b) : (a \o b)[Len(a) + i] = b[i]
  BY Joined DEF RulesOf
<1>2. ASSUME NEW i \in 1 .. Len(a \o b)  PROVE \E dests : (a \o b)[i] = Rules!RuleOf(r, dests)
  <2>1. CASE i <= Len(a)
    <3>1. i \in 1 .. Len(a)
      BY <1>1, <2>1
    <3> QED  BY <1>1, <3>1 DEF RulesOf
  <2>2. CASE ~(i <= Len(a))
    <3>1. i - Len(a) \in 1 .. Len(b) /\ Len(a) + (i - Len(a)) = i
      BY <1>1, <2>2
    <3>2. (a \o b)[i] = b[i - Len(a)]
      BY <1>1, <3>1
    <3> QED  BY <3>1, <3>2 DEF RulesOf
  <2> QED  BY <2>1, <2>2
<1> QED  BY <1>1, <1>2 DEF RulesOf

\* A route of a traffic config.
LEMMA RouteParts ==
    ASSUME tc \in TrafficConfigs, NEW k \in 1 .. Len(tc.routes)
    PROVE  LET r == tc.routes[k]
           IN  /\ Len(tc.routes) \in Nat /\ DOMAIN tc.routes = 1 .. Len(tc.routes)
               /\ r \in ToSet(tc.routes) /\ r.name # NoRoute /\ r.timeout \in Nat
               /\ DOMAIN r.envs = 1 .. Len(r.envs) /\ Len(r.envs) \in Nat
               /\ r.envs = <<>> <=> Len(r.envs) = 0
<1> DEFINE r == tc.routes[k]
<1>1. tc.routes \in Seq(ToSet(tc.routes))
  BY TrafficConfigAssumption
<1>2. Len(tc.routes) \in Nat /\ DOMAIN tc.routes = 1 .. Len(tc.routes)
  BY <1>1
<1>3. r \in ToSet(tc.routes)
  BY <1>2 DEF ToSet
<1>4. /\ r.name # NoRoute /\ r.timeout \in Nat
      /\ r.envs \in Seq(ToSet(r.envs))
  BY <1>3, TrafficConfigAssumption
<1> DEFINE envs == r.envs
<1>5. DOMAIN envs = 1 .. Len(envs) /\ Len(envs) \in Nat /\ (envs = <<>> <=> Len(envs) = 0)
  <2>1. envs \in Seq(ToSet(envs))
    BY <1>4
  <2> HIDE DEF envs
  <2> QED  BY <2>1
<1> QED  BY <1>2, <1>3, <1>4, <1>5

\* The rules of a route without any configuration, one for each environment.
LEMMA ConfigEmpty ==
    ASSUME tc \in TrafficConfigs, NEW k \in 1 .. Len(tc.routes)
    PROVE  LET b == Rules!RulesWhenConfigEmpty(tc.routes[k])
           IN  RulesOf(tc.routes[k], b) /\ Len(b) \in Nat /\ (b = <<>> <=> tc.routes[k].envs = <<>>)
<1> DEFINE r == tc.routes[k]
           b == Rules!RulesWhenConfigEmpty(r)
           n == Len(r.envs)
<1>1. DOMAIN r.envs = 1 .. n /\ n \in Nat /\ (r.envs = <<>> <=> n = 0)
  BY RouteParts
<1>2. b = [i \in 1 .. n |-> Rules!RuleOf(r, Rules!ToHost(r.envs[i]))]
  BY <1>1 DEF Rules!RulesWhenConfigEmpty
<1> HIDE DEF b, n
<1>3. /\ DOMAIN b = 1 .. n /\ b = [i \in 1 .. n |-> b[i]]
      /\ \A i \in 1 .. n : b[i] = Rules!RuleOf(r, Rules!ToHost(r.envs[i]))
  BY <1>2
<1>4. b \in Seq(ToSet(b)) /\ Len(b) = n
  BY <1>1, <1>3, IsSequence
<1>5. b = <<>> <=> n = 0
  BY <1>1, <1>4
<1> QED  BY <1>1, <1>3, <1>4, <1>5 DEF RulesOf, b

\* Who overrides the weights of a route are finitely many.
LEMMA AppDialingIsFinite ==
    ASSUME tc \in TrafficConfigs, NEW r
    PROVE  IsFiniteSet(DOMAIN Rules!AppDialing(r))
<1> DEFINE groups == {g \in DOMAIN tc.groups : Rules!Clients(g) # {} /\ Rules!Selects(r, g)}
<1>1. tc.groups \in Seq(ToSet(tc.groups))
  BY TrafficConfigAssumption
<1>2. DOMAIN tc.groups = 1 .. Len(tc.groups) /\ Len(tc.groups) \in Nat
  BY <1>1
<1>3. CASE groups = {}
  <2>1. Rules!AppDialing(r) = <<>>
    BY <1>3 DEF Rules!AppDialing
  <2>2. DOMAIN Rules!AppDialing(r) = {}
    BY <2>1
  <2> QED  BY <2>2, FS_EmptySet
<1>4. CASE groups # {}
  <2>1. groups \in SUBSET 1 .. Len(tc.groups)
    BY <1>2
  <2>2. Rules!AppDialing(r) = tc.groups[Rules!Max(groups)].overrides
    BY <1>4 DEF Rules!AppDialing
  <2> HIDE DEF groups
  <2>3. Rules!Max(groups) \in groups
    BY <1>2, <1>4, <2>1, GreatestNumber
  <2>4. tc.groups[Rules!Max(groups)] \in ToSet(tc.groups)
    BY <1>2, <2>1, <2>3 DEF ToSet
  <2> QED  BY <2>2, <2>4, TrafficConfigAssumption
<1> QED  BY <1>3, <1>4

\* The rules of the clients that override a route, in any order of them.
LEMMA AppDialing ==
    ASSUME tc \in TrafficConfigs, NEW r, NEW a \in Rules!AppDialRules(r)
    PROVE  LET dial == Rules!AppDialing(r)
               apps == {c \in DOMAIN dial : Rules!Split(r, dial[c]) # <<>>}
           IN  /\ RulesOf(r, a)
               /\ \A i \in 1 .. Len(a) : \E c \in apps : a[i] = Rules!RuleOf(r, Rules!Split(r, dial[c]))
               /\ apps = {} <=> a = <<>>
<1> DEFINE dial == Rules!AppDialing(r)
           apps == {c \in DOMAIN dial : Rules!Split(r, dial[c]) # <<>>}
<1>1. PICK order \in Rules!SetToSeqs(apps) :
          a = [i \in DOMAIN order |-> Rules!RuleOf(r, Rules!Split(r, dial[order[i]]))]
  BY DEF Rules!AppDialRules
<1>2. IsFiniteSet(apps)
  BY AppDialingIsFinite, FS_Subset
<1> HIDE DEF apps, dial
<1> DEFINE n == Len(order)
<1>3. order \in Seq(apps) /\ Len(order) = Cardinality(apps) /\ n = Cardinality(apps)
  BY <1>2, Orders
<1>4. DOMAIN order = 1 .. n /\ n \in Nat /\ \A i \in 1 .. n : order[i] \in apps
  BY <1>3
<1> HIDE DEF n
<1>5. /\ DOMAIN a = 1 .. n /\ a = [i \in 1 .. n |-> a[i]]
      /\ \A i \in 1 .. n : a[i] = Rules!RuleOf(r, Rules!Split(r, dial[order[i]]))
  BY <1>1, <1>4
<1>6. a \in Seq(ToSet(a)) /\ Len(a) = n
  BY <1>4, <1>5, IsSequence
<1>7. RulesOf(r, a)
  BY <1>5, <1>6 DEF RulesOf
<1>8. \A i \in 1 .. Len(a) : \E c \in apps : a[i] = Rules!RuleOf(r, Rules!Split(r, dial[c]))
  BY <1>4, <1>5, <1>6
<1>9. apps = {} <=> a = <<>>
  <2>1. apps = {} <=> n = 0
    BY <1>2, <1>3, <1>4, FS_EmptySet
  <2>2. a = <<>> <=> Len(a) = 0
    BY <1>6
  <2> QED  BY <1>6, <2>1, <2>2
<1> QED  BY <1>6, <1>7, <1>8, <1>9 DEF apps, dial

\* At most one rule with the weights of the service.
LEMMA ServiceDial ==
    ASSUME NEW r
    PROVE  RulesOf(r, Rules!ServiceDialRule(r))
<1>1. ASSUME NEW rule  PROVE <<rule>> \in Seq(ToSet(<<rule>>)) /\ Len(<<rule>>) = 1
  BY DEF ToSet
<1>2. <<>> \in Seq(ToSet(<<>>)) /\ Len(<<>>) = 0
  BY DEF ToSet
<1>3. CASE Rules!ServiceDialRoute(r) = <<>>
  BY <1>2, <1>3 DEF RulesOf, Rules!ServiceDialRule
<1>4. CASE Rules!ServiceDialRoute(r) # <<>>
  <2> DEFINE rule == Rules!RuleOf(r, Rules!ServiceDialRoute(r))
  <2>1. Rules!ServiceDialRule(r) = <<rule>>
    BY <1>4 DEF Rules!ServiceDialRule
  <2>2. \E dests : rule = Rules!RuleOf(r, dests)
    OBVIOUS
  <2> HIDE DEF rule
  <2>3. \A i \in 1 .. 1 : <<rule>>[i] = rule
    OBVIOUS
  <2> QED  BY <1>1, <2>1, <2>2, <2>3 DEF RulesOf
<1> QED  BY <1>3, <1>4

\* What a route adds: rules of its own, and some unless it has none.
LEMMA AddedRules ==
    ASSUME tc \in TrafficConfigs, NEW k \in 1 .. Len(tc.routes), NEW b \in Added(k)
    PROVE  /\ RulesOf(tc.routes[k], b) /\ Len(b) \in Nat
           /\ Len(b) > 0 <=> HasRules(k)
<1> DEFINE r == tc.routes[k]
           empty == Rules!RulesWhenConfigEmpty(r)
<1>1. RulesOf(r, empty) /\ Len(empty) \in Nat /\ (empty = <<>> <=> r.envs = <<>>)
  BY ConfigEmpty
<1> HIDE DEF empty
<1>2. CASE Rules!HasTargetDetails
  <2> DEFINE more == Rules!ServiceDialRule(r)
  <2>1. PICK a \in Rules!AppDialRules(r) : b = IF a \o more = <<>> THEN empty ELSE a \o more
    BY <1>2 DEF Added, Rules!RulesWithTargetDetails, empty
  <2>2. RulesOf(r, a) /\ (a = <<>> <=> ~Overridden(r))
    BY AppDialing DEF Overridden
  <2>3. RulesOf(r, more)
    BY ServiceDial
  <2>4. HasRules(k) <=> r.envs # <<>> \/ more # <<>> \/ Overridden(r)
    BY <1>2 DEF HasRules
  <2> HIDE DEF r, more
  <2> DEFINE c == a \o more
  <2>5. RulesOf(r, c) /\ Len(a) \in Nat /\ Len(more) \in Nat /\ Len(c) = Len(a) + Len(more)
    BY <2>2, <2>3, JoinedRules
  <2>6. b = IF c = <<>> THEN empty ELSE c
    BY <2>1
  <2> HIDE DEF c
  <2>7. /\ c = <<>> <=> Len(c) = 0
        /\ a = <<>> <=> Len(a) = 0
        /\ more = <<>> <=> Len(more) = 0
    BY <2>2, <2>3, <2>5 DEF RulesOf
  <2>8. c = <<>> <=> a = <<>> /\ more = <<>>
    BY <2>5, <2>7
  <2>9. RulesOf(r, b) /\ Len(b) \in Nat
    BY <1>1, <2>5, <2>6
  <2>10. b = <<>> <=> ~HasRules(k)
    BY <1>1, <2>2, <2>4, <2>6, <2>8
  <2>11. b = <<>> <=> Len(b) = 0
    BY <2>9 DEF RulesOf
  <2> QED  BY <2>9, <2>10, <2>11 DEF r
<1>3. CASE ~Rules!HasTargetDetails /\ r.config = <<>>
  <2>1. b = empty
    BY <1>3 DEF Added, Rules!RulesWithoutTargetDetails, empty
  <2>2. HasRules(k) <=> r.envs # <<>>
    BY <1>3 DEF HasRules
  <2>3. b = <<>> <=> Len(b) = 0
    BY <1>1, <2>1 DEF RulesOf
  <2> QED  BY <1>1, <2>1, <2>2, <2>3
<1>4. CASE ~Rules!HasTargetDetails /\ r.config # <<>>
  <2>1. b = <<>>
    BY <1>4 DEF Added, Rules!RulesWithoutTargetDetails
  <2>2. <<>> \in Seq(ToSet(<<>>)) /\ Len(<<>>) = 0
    BY DEF ToSet
  <2> QED  BY <1>4, <2>1, <2>2 DEF HasRules, RulesOf
<1> QED  BY <1>2, <1>3, <1>4

-----------------------------------------------------------------------------
(* The rules of several routes.                                             *)

\* The list is made of the rules of the first n routes: those of route k are
\* behind cut[k - 1] and end at cut[k].
Cut(list, n, cut) ==
    /\ cut \in [0 .. n -> Nat] /\ cut[0] = 0 /\ cut[n] = Len(list)
    /\ \A j, k \in 0 .. n : j <= k => cut[j] <= cut[k]
    /\ \A k \in 1 .. n : \E b \in Added(k) :
          /\ Len(b) = cut[k] - cut[k - 1]
          /\ \A i \in 1 .. Len(b) : list[cut[k - 1] + i] = b[i]

BuiltFrom(list, n) == list \in Seq(ToSet(list)) /\ \E cut : Cut(list, n, cut)

\* At first there are no rules.
LEMMA NothingBuilt == BuiltFrom(<<>>, 0)
<1> DEFINE cut == [k \in 0 .. 0 |-> 0]
<1>1. <<>> \in Seq(ToSet(<<>>)) /\ Len(<<>>) = 0
  BY DEF ToSet
<1>2. /\ cut \in [0 .. 0 -> Nat] /\ cut[0] = 0
      /\ \A j, k \in 0 .. 0 : j <= k => cut[j] <= cut[k]
  OBVIOUS
<1>3. \A k \in 1 .. 0 : FALSE
  OBVIOUS
<1> HIDE DEF cut
<1>4. Cut(<<>>, 0, cut)
  BY <1>1, <1>2, <1>3 DEF Cut
<1> QED  BY <1>1, <1>4 DEF BuiltFrom

\* The rules of one more route.
LEMMA BuildOn ==
    ASSUME NEW n \in Nat, NEW list, BuiltFrom(list, n), NEW b \in Added(n + 1), b \in Seq(ToSet(b))
    PROVE  BuiltFrom(list \o b, n + 1)
<1> DEFINE new == list \o b
<1>1. /\ new \in Seq(ToSet(new))
      /\ Len(list) \in Nat /\ Len(b) \in Nat /\ Len(new) = Len(list) + Len(b)
      /\ \A i \in 1 .. Len(list) : new[i] = list[i]
      /\ \A i \in 1 .. Len(b) : new[Len(list) + i] = b[i]
  BY Joined DEF BuiltFrom
<1>2. PICK cut : Cut(list, n, cut)
  BY DEF BuiltFrom
<1> HIDE DEF new
<1> DEFINE more == [k \in 0 .. n + 1 |-> IF k <= n THEN cut[k] ELSE Len(new)]
<1>3. /\ cut \in [0 .. n -> Nat] /\ cut[0] = 0 /\ cut[n] = Len(list)
      /\ \A j, k \in 0 .. n : j <= k => cut[j] <= cut[k]
  BY <1>2 DEF Cut
<1>4. /\ \A k \in 0 .. n : more[k] = cut[k] /\ cut[k] \in Nat /\ cut[k] <= Len(list)
      /\ more[n + 1] = Len(new) /\ more \in [0 .. n + 1 -> Nat]
  BY <1>1, <1>3
<1> HIDE DEF more
<1>5. more[0] = 0 /\ more[n] = Len(list)
  BY <1>3, <1>4
<1>6. ASSUME NEW j \in 0 .. n + 1, NEW k \in 0 .. n + 1, j <= k  PROVE more[j] <= more[k]
  <2>1. CASE k \in 0 .. n
    BY <1>3, <1>4, <1>6, <2>1
  <2>2. CASE k = n + 1 /\ j \in 0 .. n
    <3>1. more[j] \in Nat /\ more[j] <= Len(list) /\ more[k] = Len(new)
      BY <1>4, <2>2
    <3> QED  BY <1>1, <3>1
  <2>3. CASE k = n + 1 /\ j = n + 1
    BY <1>1, <1>4, <2>3
  <2> QED  BY <1>6, <2>1, <2>2, <2>3
<1>7. ASSUME NEW k \in 1 .. n
      PROVE  \E c \in Added(k) :
                /\ Len(c) = more[k] - more[k - 1]
                /\ \A i \in 1 .. Len(c) : new[more[k - 1] + i] = c[i]
  <2>1. PICK c \in Added(k) : /\ Len(c) = cut[k] - cut[k - 1]
                              /\ \A i \in 1 .. Len(c) : list[cut[k - 1] + i] = c[i]
    BY <1>2 DEF Cut
  <2>2. k - 1 \in 0 .. n /\ k \in 0 .. n
    OBVIOUS
  <2>3. more[k] = cut[k] /\ more[k - 1] = cut[k - 1] /\ cut[k] <= Len(list) /\ cut[k - 1] \in Nat /\ cut[k] \in Nat
    BY <1>4, <2>2
  <2>4. ASSUME NEW i \in 1 .. Len(c)  PROVE new[more[k - 1] + i] = c[i]
    <3>1. cut[k - 1] + i \in 1 .. Len(list)
      BY <1>1, <2>1, <2>3
    <3> QED  BY <1>1, <2>1, <2>3, <3>1
  <2> QED  BY <2>1, <2>3, <2>4
<1>8. /\ Len(b) = more[n + 1] - more[n]
      /\ \A i \in 1 .. Len(b) : new[more[n] + i] = b[i]
  <2>1. more[n] = Len(list) /\ more[n + 1] = Len(list) + Len(b)
    BY <1>1, <1>4, <1>5, Zenon
  <2>2. Len(list) \in Nat /\ Len(b) \in Nat
    BY <1>1
  <2>3. Len(b) = more[n + 1] - more[n]
    BY <2>1, <2>2, SMT
  <2> QED  BY <1>1, <2>1, <2>3, Zenon
<1>9. ASSUME NEW k \in 1 .. n + 1
      PROVE  \E c \in Added(k) :
                /\ Len(c) = more[k] - more[k - 1]
                /\ \A i \in 1 .. Len(c) : new[more[k - 1] + i] = c[i]
  <2>1. CASE k \in 1 .. n
    BY <1>7, <2>1
  <2>2. CASE k = n + 1
    <3>1. k - 1 = n
      BY <2>2
    <3> QED  BY <1>8, <2>2, <3>1
  <2> QED  BY <2>1, <2>2
<1>10. Cut(new, n + 1, more)
  BY <1>4, <1>5, <1>6, <1>9 DEF Cut
<1> QED  BY <1>1, <1>10 DEF BuiltFrom, new

\* Rule i is one of those that route k adds.
Place(list, cut, i, k, b) ==
    /\ cut[k - 1] < i /\ i <= cut[k] /\ HasRules(k)
    /\ i - cut[k - 1] \in 1 .. Len(b) /\ list[i] = b[i - cut[k - 1]]
    /\ \E dests : list[i] = Rules!RuleOf(tc.routes[k], dests)

\* Which route a rule is of.
LEMMA RuleAt ==
    ASSUME tc \in TrafficConfigs, NEW n \in 0 .. Len(tc.routes), NEW list, NEW cut, Cut(list, n, cut),
           NEW i \in 1 .. Len(list), Len(list) \in Nat
    PROVE  \E k \in 1 .. n : \E b \in Added(k) : Place(list, cut, i, k, b)
<1> DEFINE later == {k \in 0 .. n : i <= cut[k]}
<1>0. tc.routes \in Seq(ToSet(tc.routes))
  BY TrafficConfigAssumption
<1>1. Len(tc.routes) \in Nat /\ n \in Nat /\ n <= Len(tc.routes)
  BY <1>0
<1>2. /\ cut \in [0 .. n -> Nat] /\ cut[0] = 0 /\ cut[n] = Len(list)
      /\ \A k \in 1 .. n : \E b \in Added(k) :
            /\ Len(b) = cut[k] - cut[k - 1]
            /\ \A j \in 1 .. Len(b) : list[cut[k - 1] + j] = b[j]
  BY DEF Cut
<1>3. n \in later /\ later \in SUBSET Nat
  BY <1>1, <1>2
<1>4. PICK k \in later : \A j \in later : k <= j
  BY <1>3, LeastNumber
<1>5. k \in 0 .. n /\ i <= cut[k]
  OBVIOUS
<1>6. k # 0
  BY <1>2, <1>5
<1>7. k \in 1 .. n /\ k - 1 \in 0 .. n
  BY <1>1, <1>5, <1>6
<1>8. ~(i <= cut[k - 1])
  <2>1. k - 1 \notin later
    BY <1>4, <1>7
  <2> QED  BY <1>7, <2>1
<1> HIDE DEF later
<1>9. cut[k] \in Nat /\ cut[k - 1] \in Nat
  BY <1>2, <1>7
<1>10. PICK b \in Added(k) : /\ Len(b) = cut[k] - cut[k - 1]
                             /\ \A j \in 1 .. Len(b) : list[cut[k - 1] + j] = b[j]
  BY <1>2, <1>7
<1>11. /\ i - cut[k - 1] \in 1 .. Len(b) /\ cut[k - 1] + (i - cut[k - 1]) = i
       /\ cut[k - 1] < i /\ Len(b) > 0
  BY <1>5, <1>8, <1>9, <1>10
<1>12. list[i] = b[i - cut[k - 1]]
  BY <1>10, <1>11
<1>13. k \in 1 .. Len(tc.routes)
  BY <1>1, <1>7
<1>14. HasRules(k) /\ RulesOf(tc.routes[k], b)
  BY <1>11, <1>13, AddedRules
<1>15. \E dests : b[i - cut[k - 1]] = Rules!RuleOf(tc.routes[k], dests)
  BY <1>11, <1>14 DEF RulesOf
<1>16. Place(list, cut, i, k, b)
  BY <1>5, <1>11, <1>12, <1>14, <1>15 DEF Place
<1> QED  BY <1>7, <1>16

\* What traffic configs mean for rules does not change.
LEMMA SameTrafficConfig ==
    ASSUME UNCHANGED tc, NEW k, NEW list
    PROVE  Added(k)' = Added(k) /\ Rules!AllowAllRules(list)' = Rules!AllowAllRules(list)
<1> USE DEF Rules!HasTargetDetails, Rules!RuleOf, Rules!FinalRouteTimeout, Rules!RouteTimeout, Rules!NoTimeout,
            Rules!ToHost, Rules!Host
<1>1. Added(k)' = Added(k)
  BY DEF Added, Rules!RulesWithTargetDetails, Rules!RulesWithoutTargetDetails,
         Rules!RulesWhenConfigEmpty, Rules!AppDialRules, Rules!ServiceDialRule,
         Rules!ServiceDialRoute, Rules!ServiceDialDetails, Rules!Split, Rules!MeshDNS,
         Rules!AppDialing, Rules!Clients, Rules!Selects, Rules!NamesOf
<1>2. Rules!AllowAllRules(list)' = Rules!AllowAllRules(list)
  BY DEF Rules!AllowAllRules, Rules!AllowAllTimeout
<1> QED  BY <1>1, <1>2

\* What is built stays what it is.
LEMMA StaysBuilt ==
    ASSUME UNCHANGED tc, NEW list, NEW n, BuiltFrom(list, n)
    PROVE  BuiltFrom(list, n)'
<1>1. PICK cut : Cut(list, n, cut)
  BY DEF BuiltFrom
<1>2. \A k \in 1 .. n : Added(k)' = Added(k)
  BY SameTrafficConfig
<1>3. Cut(list, n, cut)'
  BY <1>1, <1>2 DEF Cut
<1> QED  BY <1>3 DEF BuiltFrom

\* The rules in the cluster: those of all routes and then those for all requests.
Whole(full) ==
    \E list : BuiltFrom(list, Len(tc.routes)) /\ full = list \o Rules!AllowAllRules(list)

\* What is whole stays so.
LEMMA StaysWhole ==
    ASSUME UNCHANGED tc, NEW full, Whole(full)
    PROVE  Whole(full)'
<1>1. PICK list : BuiltFrom(list, Len(tc.routes)) /\ full = list \o Rules!AllowAllRules(list)
  BY DEF Whole
<1>2. BuiltFrom(list, Len(tc.routes))' /\ Rules!AllowAllRules(list)' = Rules!AllowAllRules(list)
  BY <1>1, StaysBuilt, SameTrafficConfig
<1> QED  BY <1>1, <1>2 DEF Whole

\* The rules so far are those of the routes so far.
RulesInv ==
    /\ tc \in TrafficConfigs
    /\ next \in 0 .. Len(tc.routes) + 1
    /\ next # 0 => BuiltFrom(rules, next - 1)
    /\ vs = <<>> \/ Whole(vs)

\* The invariant of the rules holds at the start.
LEMMA InitRules == Rules!Init => RulesInv
<1> SUFFICES ASSUME Rules!Init  PROVE RulesInv
  OBVIOUS
<1>1. tc \in TrafficConfigs /\ next = 0 /\ vs = <<>>
  BY DEF Rules!Init
<1>2. Len(tc.routes) \in Nat
  <2>1. tc.routes \in Seq(ToSet(tc.routes))
    BY <1>1, TrafficConfigAssumption
  <2> QED  BY <2>1
<1> QED  BY <1>1, <1>2 DEF RulesInv

\* A handling keeps the invariant of the rules.
LEMMA NextRules ==
    ASSUME RulesInv, Rules!Next \/ UNCHANGED ruleVars
    PROVE  RulesInv'
<1> DEFINE N == Len(tc.routes)
<1>0. tc \in TrafficConfigs /\ next \in 0 .. N + 1 /\ N \in Nat /\ DOMAIN tc.routes = 1 .. N
  <2>1. tc.routes \in Seq(ToSet(tc.routes))
    BY TrafficConfigAssumption DEF RulesInv
  <2> QED  BY <2>1 DEF RulesInv
<1>1. CASE Rules!Build
  <2>1. next' \in {0, 1} /\ rules' = <<>> /\ UNCHANGED <<tc, vs>>
    BY <1>1 DEF Rules!Build
  <2>2. BuiltFrom(<<>>, 0)'
    BY <2>1, NothingBuilt, StaysBuilt
  <2>3. (vs = <<>> \/ Whole(vs))'
    BY <2>1, StaysWhole DEF RulesInv
  <2>4. (next # 0 => BuiltFrom(rules, next - 1))'
    BY <2>1, <2>2
  <2> QED  BY <1>0, <2>1, <2>3, <2>4 DEF RulesInv
<1>2. CASE Rules!AddRoute
  <2>1. next \in 1 .. N /\ next' = next + 1 /\ UNCHANGED <<tc, vs>>
    BY <1>0, <1>2 DEF Rules!AddRoute
  <2>2. PICK b \in Added(next) : rules' = rules \o b
    BY <1>2 DEF Rules!AddRoute, Added
  <2>3. b \in Seq(ToSet(b))
    BY <1>0, <2>1, AddedRules DEF RulesOf
  <2> DEFINE n == next - 1
  <2>4. n \in Nat /\ next = n + 1 /\ BuiltFrom(rules, n)
    BY <2>1 DEF RulesInv
  <2> HIDE DEF n
  <2>5. BuiltFrom(rules \o b, n + 1)
    BY <2>2, <2>3, <2>4, BuildOn
  <2>6. next' - 1 = n + 1
    BY <2>1, <2>4
  <2>7. BuiltFrom(rules', next' - 1)
    BY <2>2, <2>5, <2>6
  <2>8. BuiltFrom(rules, next - 1)'
    BY <2>1, <2>7, StaysBuilt
  <2>9. (vs = <<>> \/ Whole(vs))'
    BY <2>1, StaysWhole DEF RulesInv
  <2> QED  BY <1>0, <2>1, <2>8, <2>9 DEF RulesInv
<1>3. CASE Rules!AddAllowAllRule
  <2>1. /\ next = N + 1 /\ next' = 0 /\ UNCHANGED tc
        /\ vs' = rules \o Rules!AllowAllRules(rules)
    BY <1>3 DEF Rules!AddAllowAllRule
  <2>2. BuiltFrom(rules, N)
    <3>1. next # 0 /\ next - 1 = N
      BY <1>0, <2>1
    <3> QED  BY <3>1 DEF RulesInv
  <2>3. Whole(vs')
    BY <2>1, <2>2 DEF Whole
  <2>4. Whole(vs)'
    BY <2>1, <2>3, StaysWhole
  <2> QED  BY <1>0, <2>1, <2>4 DEF RulesInv
<1>4. CASE UNCHANGED ruleVars
  <2>1. UNCHANGED <<tc, next, rules, vs>>
    BY <1>4 DEF ruleVars
  <2>2. next # 0 => BuiltFrom(rules, next - 1)'
    BY <2>1, StaysBuilt DEF RulesInv
  <2>3. (vs = <<>> \/ Whole(vs))'
    BY <2>1, StaysWhole DEF RulesInv
  <2> QED  BY <1>0, <2>1, <2>2, <2>3 DEF RulesInv
<1> QED  BY <1>1, <1>2, <1>3, <1>4 DEF Rules!Next

\* The rules so far and those in the cluster are always those of their routes.
LEMMA RulesInvariance == BothSpec => []RulesInv
<1>1. BothInit => RulesInv
  BY InitRules DEF BothInit
<1>2. RulesInv /\ [BothNext]_<<vars, ruleVars>> => RulesInv'
  <2> SUFFICES ASSUME RulesInv, [BothNext]_<<vars, ruleVars>>  PROVE RulesInv'
    OBVIOUS
  <2>1. Rules!Next \/ UNCHANGED ruleVars
    BY DEF BothNext, HandleRateLimiter, HandleVirtualServiceForTrafficConfig
  <2> QED  BY <2>1, NextRules
<1> QED  BY <1>1, <1>2, PTL DEF BothSpec

-----------------------------------------------------------------------------
(* Which rule a request takes.                                              *)

\* A request and its parts.
LEMMA RequestParts ==
    ASSUME tc \in TrafficConfigs, NEW q \in Rules!Requests
    PROVE  /\ DOMAIN tc.envs = 1 .. Len(tc.envs) /\ Len(tc.envs) \in Nat
           /\ \E j \in 1 .. Len(tc.envs) : q.host = Rules!Host(tc.envs[j])
           /\ \A j \in 1 .. Len(tc.envs) : AnyHost # Rules!Host(tc.envs[j])
           /\ Rules!IsPrefix(<<>>, q.path)
<1>1. tc.envs \in Seq(ToSet(tc.envs))
  BY TrafficConfigAssumption
<1>2. DOMAIN tc.envs = 1 .. Len(tc.envs) /\ Len(tc.envs) \in Nat
  BY <1>1
<1>3. q.host \in {Rules!Host(e) : e \in ToSet(tc.envs)} /\ q.path \in Paths
  BY DEF Rules!Requests, Rules!ToSet, ToSet
<1>4. \E j \in 1 .. Len(tc.envs) : q.host = Rules!Host(tc.envs[j])
  BY <1>2, <1>3 DEF ToSet
<1>5. \A j \in 1 .. Len(tc.envs) : AnyHost # Rules!Host(tc.envs[j])
  BY <1>2, TrafficConfigAssumption DEF ToSet, Rules!Host
<1>6. Rules!IsPrefix(<<>>, q.path)
  <2> DEFINE path == q.path
  <2>1. path \in Seq(ToSet(path))
    BY <1>3, TrafficConfigAssumption
  <2> HIDE DEF path
  <2>2. Len(<<>>) = 0 /\ Len(path) \in Nat /\ SubSeq(<<>>, 1, 0) = <<>> /\ SubSeq(path, 1, 0) = <<>>
    BY <2>1
  <2>3. Rules!IsPrefix(<<>>, path)
    BY <2>2 DEF Rules!IsPrefix
  <2> QED  BY <2>3 DEF path
<1> QED  BY <1>2, <1>4, <1>5, <1>6

\* The rules for all requests.
LEMMA AllowAll ==
    ASSUME tc \in TrafficConfigs, NEW q \in Rules!Requests, NEW list
    PROVE  LET all == Rules!AllowAllRules(list)
           IN  /\ all \in Seq(ToSet(all)) /\ Len(all) = Len(tc.envs)
               /\ \A j \in 1 .. Len(tc.envs) :
                     /\ all[j].dests = Rules!ToHost(tc.envs[j])
                     /\ all[j].route = NoRoute
                     /\ all[j].timeout = Rules!FinalRouteTimeout(Rules!AllowAllTimeout(list))
                     /\ Rules!Matches(all[j], q) <=> q.host = Rules!Host(tc.envs[j])
<1> DEFINE all == Rules!AllowAllRules(list)
           n == Len(tc.envs)
           rule(j) == [route |-> NoRoute, host |-> Rules!Host(tc.envs[j]), prefix |-> <<>>,
                       dests |-> Rules!ToHost(tc.envs[j]),
                       timeout |-> Rules!FinalRouteTimeout(Rules!AllowAllTimeout(list))]
<1>1. /\ DOMAIN tc.envs = 1 .. n /\ n \in Nat
      /\ \A j \in 1 .. n : AnyHost # Rules!Host(tc.envs[j])
      /\ Rules!IsPrefix(<<>>, q.path)
  BY RequestParts
<1>2. all = [j \in 1 .. n |-> rule(j)]
  BY <1>1 DEF Rules!AllowAllRules
<1>3. ASSUME NEW j \in 1 .. n
      PROVE  /\ rule(j).dests = Rules!ToHost(tc.envs[j])
             /\ rule(j).route = NoRoute
             /\ rule(j).timeout = Rules!FinalRouteTimeout(Rules!AllowAllTimeout(list))
             /\ Rules!Matches(rule(j), q) <=> q.host = Rules!Host(tc.envs[j])
  <2>1. rule(j).host = Rules!Host(tc.envs[j]) /\ rule(j).prefix = <<>>
    OBVIOUS
  <2>2. rule(j).host # AnyHost
    BY <1>1, <2>1
  <2>3. Rules!Matches(rule(j), q) <=> q.host = Rules!Host(tc.envs[j])
    BY <1>1, <2>1, <2>2 DEF Rules!Matches
  <2> QED  BY <2>3
<1> HIDE DEF all, n, rule
<1>4. /\ DOMAIN all = 1 .. n /\ all = [j \in 1 .. n |-> all[j]]
      /\ \A j \in 1 .. n : all[j] = rule(j)
  BY <1>2
<1>5. all \in Seq(ToSet(all)) /\ Len(all) = n
  BY <1>1, <1>4, IsSequence
<1> QED  BY <1>3, <1>4, <1>5 DEF all, n

\* The places of the rules that a request matches.
MatchedBy(full, q) == {i \in DOMAIN full : Rules!Matches(full[i], q)}

\* The routes that have the path of a request and add rules.
Serving(q) ==
    {k \in DOMAIN tc.routes : Rules!IsPrefix(tc.routes[k].inbound, q.path) /\ HasRules(k)}

\* If the first route that has the path of a request has environments, it is the first
\* one that adds rules, and if none has it, none adds rules.
LEMMA FirstServes ==
    ASSUME tc \in TrafficConfigs, NEW q
    PROVE  LET first == Rules!Min(Rules!RoutesFor(q))
           IN  /\ Rules!RoutesFor(q) = {} => Serving(q) = {}
               /\ Rules!RoutesFor(q) # {} /\ tc.routes[first].envs # <<>> =>
                      Serving(q) # {} /\ Rules!Min(Serving(q)) = first
<1> DEFINE for == Rules!RoutesFor(q)
           first == Rules!Min(for)
           N == Len(tc.routes)
<1>1. N \in Nat /\ DOMAIN tc.routes = 1 .. N
  <2>1. tc.routes \in Seq(ToSet(tc.routes))
    BY TrafficConfigAssumption
  <2> QED  BY <2>1
<1> HIDE DEF N
<1>2. Serving(q) \subseteq for /\ for \in SUBSET Nat
  BY <1>1 DEF Serving, HasRules, Rules!RoutesFor
<1>3. ASSUME for # {}, tc.routes[first].envs # <<>>
      PROVE  Serving(q) # {} /\ Rules!Min(Serving(q)) = first
  <2>1. first \in for /\ \A k \in for : first <= k
    BY <1>2, <1>3, LeastNumber
  <2>2. first \in Serving(q)
    BY <1>3, <2>1 DEF Serving, HasRules, Rules!RoutesFor
  <2> HIDE DEF first, for
  <2>3. Serving(q) \in SUBSET Nat /\ Serving(q) # {}
    BY <1>2, <2>2
  <2> DEFINE least == Rules!Min(Serving(q))
  <2>4. least \in Serving(q) /\ \A k \in Serving(q) : least <= k
    BY <2>3, LeastNumber
  <2> HIDE DEF least
  <2>5. least \in Nat /\ first \in Nat /\ least <= first /\ first <= least
    BY <1>2, <2>1, <2>2, <2>3, <2>4
  <2>6. least = first
    BY <2>5
  <2> QED  BY <2>2, <2>6 DEF least
<1> QED  BY <1>2, <1>3

\* A request takes the first rule of the first route that has its path and adds rules,
\* and if there is none the rule for its host.
LEMMA FirstMatch ==
    ASSUME tc \in TrafficConfigs, NEW full, Whole(full), NEW q \in Rules!Requests
    PROVE  LET m == Rules!Min(MatchedBy(full, q))
               first == Rules!Min(Serving(q))
           IN  /\ MatchedBy(full, q) # {}
               /\ Serving(q) = {} => full[m].dests = Rules!ToHost(q.host[2])
               /\ Serving(q) # {} =>
                     /\ first \in 1 .. Len(tc.routes)
                     /\ \E b \in Added(first) : Len(b) > 0 /\ full[m] = b[1]
<1> DEFINE N == Len(tc.routes)
           E == Len(tc.envs)
           matched == MatchedBy(full, q)
           m == Rules!Min(matched)
           for == Serving(q)
           first == Rules!Min(for)
<1>1. PICK list : BuiltFrom(list, N) /\ full = list \o Rules!AllowAllRules(list)
  BY DEF Whole
<1>2. PICK cut : Cut(list, N, cut)
  BY <1>1 DEF BuiltFrom
<1> DEFINE all == Rules!AllowAllRules(list)
           L == Len(list)
<1>3. /\ all \in Seq(ToSet(all)) /\ Len(all) = E
      /\ \A j \in 1 .. E : /\ all[j].dests = Rules!ToHost(tc.envs[j])
                           /\ Rules!Matches(all[j], q) <=> q.host = Rules!Host(tc.envs[j])
  BY AllowAll
<1>4. /\ list \in Seq(ToSet(list)) /\ L \in Nat
      /\ N \in Nat /\ DOMAIN tc.routes = 1 .. N
  <2>1. tc.routes \in Seq(ToSet(tc.routes))
    BY TrafficConfigAssumption
  <2> QED  BY <1>1, <2>1 DEF BuiltFrom
<1>5. /\ E \in Nat
      /\ \E j \in 1 .. E : q.host = Rules!Host(tc.envs[j])
  BY RequestParts
<1>0. full = list \o all
  BY <1>1
<1> HIDE DEF all
<1>6. /\ DOMAIN full = 1 .. L + E
      /\ \A i \in 1 .. L : full[i] = list[i]
      /\ \A j \in 1 .. E : full[L + j] = all[j]
  <2>0. list \in Seq(ToSet(list)) /\ all \in Seq(ToSet(all))
    BY <1>3, <1>4
  <2> HIDE DEF L
  <2>1. /\ full \in Seq(ToSet(full)) /\ Len(full) = Len(list) + Len(all)
        /\ \A i \in 1 .. Len(list) : full[i] = list[i]
        /\ \A j \in 1 .. Len(all) : full[Len(list) + j] = all[j]
    BY <1>0, <2>0, Joined
  <2>2. DOMAIN full = 1 .. Len(full)
    BY <2>1
  <2> QED  BY <1>3, <2>1, <2>2 DEF L
<1> HIDE DEF N, E, L, matched, for
<1>7. \A k \in 1 .. N : k \in for <=> Rules!IsPrefix(tc.routes[k].inbound, q.path) /\ HasRules(k)
  BY <1>4 DEF for, Serving
<1>8. for \in SUBSET (1 .. N)
  BY <1>4 DEF for, Serving
<1>9. \A r, dests : Rules!Matches(Rules!RuleOf(r, dests), q) <=> Rules!IsPrefix(r.inbound, q.path)
  BY DEF Rules!Matches, Rules!RuleOf
<1>10. ASSUME NEW i \in 1 .. L
       PROVE  \E k \in 1 .. N : \E b \in Added(k) :
                 /\ cut[k - 1] < i /\ i <= cut[k]
                 /\ i - cut[k - 1] \in 1 .. Len(b) /\ full[i] = b[i - cut[k - 1]]
                 /\ i \in matched <=> k \in for
  <2>0. /\ Len(tc.routes) \in 0 .. Len(tc.routes) /\ i \in 1 .. Len(list) /\ Len(list) \in Nat
        /\ Cut(list, Len(tc.routes), cut)
    BY <1>2, <1>4 DEF N, L
  <2>1. PICK k \in 1 .. Len(tc.routes) : \E b \in Added(k) : Place(list, cut, i, k, b)
    BY <2>0, RuleAt
  <2>2. i \in DOMAIN full /\ full[i] = list[i]
    BY <1>4, <1>5, <1>6
  <2>3. i \in matched <=> k \in for
    <3>1. k \in 1 .. N
      BY DEF N
    <3>2. HasRules(k) /\ \E dests : list[i] = Rules!RuleOf(tc.routes[k], dests)
      BY <2>1 DEF Place
    <3> QED  BY <1>7, <1>9, <2>2, <3>1, <3>2 DEF matched, MatchedBy
  <2> QED  BY <2>1, <2>2, <2>3 DEF N, Place
<1>11. \A j \in 1 .. E : L + j \in matched <=> q.host = Rules!Host(tc.envs[j])
  <2>1. \A j \in 1 .. E : L + j \in DOMAIN full
    BY <1>4, <1>5, <1>6
  <2> QED  BY <1>3, <1>6, <2>1 DEF matched, MatchedBy
<1>12. matched # {} /\ matched \in SUBSET (1 .. L + E)
  BY <1>5, <1>6, <1>11 DEF matched, MatchedBy
<1>13. m \in matched /\ m \in 1 .. L + E /\ \A i \in matched : m <= i
  <2>1. matched \in SUBSET Nat
    BY <1>4, <1>5, <1>12
  <2> QED  BY <1>12, <2>1, LeastNumber
<1> HIDE DEF m
<1>14. ASSUME for = {}  PROVE full[m].dests = Rules!ToHost(q.host[2])
  <2>1. m \notin 1 .. L
    BY <1>10, <1>13, <1>14
  <2>2. m - L \in 1 .. E /\ m = L + (m - L)
    BY <1>4, <1>5, <1>13, <2>1
  <2>3. q.host = Rules!Host(tc.envs[m - L]) /\ full[m].dests = Rules!ToHost(tc.envs[m - L])
    BY <1>3, <1>6, <1>11, <1>13, <2>2
  <2>4. q.host[2] = tc.envs[m - L]
    BY <2>3 DEF Rules!Host
  <2> QED  BY <2>3, <2>4
<1>15. ASSUME for # {}
       PROVE  first \in 1 .. N /\ \E b \in Added(first) : Len(b) > 0 /\ full[m] = b[1]
  <2>1. first \in for /\ first \in 1 .. N /\ \A k \in for : first <= k
    <3>1. for \in SUBSET Nat
      BY <1>4, <1>8
    <3> QED  BY <1>8, <1>15, <3>1, LeastNumber
  <2> HIDE DEF first
  <2>2. /\ cut \in [0 .. N -> Nat] /\ cut[N] = L
        /\ \A j, k \in 0 .. N : j <= k => cut[j] <= cut[k]
        /\ \E b \in Added(first) :
              /\ Len(b) = cut[first] - cut[first - 1]
              /\ \A i \in 1 .. Len(b) : list[cut[first - 1] + i] = b[i]
    BY <1>2, <2>1 DEF Cut, L
  <2>3. PICK b \in Added(first) :
              /\ Len(b) = cut[first] - cut[first - 1]
              /\ \A i \in 1 .. Len(b) : list[cut[first - 1] + i] = b[i]
    BY <2>2
  <2>4. first - 1 \in 0 .. N /\ first \in 0 .. N /\ N \in 0 .. N /\ first <= N
    BY <1>4, <2>1
  <2>5. cut[first - 1] \in Nat /\ cut[first] \in Nat /\ cut[first] <= L
    BY <2>2, <2>4
  <2>6. Len(b) > 0
    <3>1. HasRules(first)
      BY <1>7, <2>1
    <3>2. first \in 1 .. Len(tc.routes)
      BY <2>1 DEF N
    <3> QED  BY <3>1, <3>2, AddedRules
  <2> DEFINE i1 == cut[first - 1] + 1
  <2>7. i1 \in 1 .. L /\ i1 <= cut[first]
    BY <1>4, <2>3, <2>5, <2>6
  <2>8. list[i1] = b[1] /\ full[i1] = b[1]
    BY <1>6, <2>3, <2>6, <2>7
  <2>9. i1 \in matched
    <3>1. \E dests : b[1] = Rules!RuleOf(tc.routes[first], dests)
      <4>1. first \in 1 .. Len(tc.routes)
        BY <2>1 DEF N
      <4>2. RulesOf(tc.routes[first], b) /\ Len(b) \in Nat
        BY <4>1, AddedRules
      <4> QED  BY <2>6, <4>2 DEF RulesOf
    <3>2. i1 \in DOMAIN full
      BY <1>4, <1>5, <1>6, <2>7
    <3> QED  BY <1>7, <1>9, <2>1, <2>8, <3>1, <3>2 DEF matched, MatchedBy
  <2>10. m <= i1
    BY <1>13, <2>9
  <2> HIDE DEF i1
  <2>11. m \in 1 .. L
    BY <1>4, <1>5, <1>13, <2>7, <2>10
  <2>12. PICK k \in 1 .. N : cut[k - 1] < m /\ (m \in matched <=> k \in for)
    BY <1>10, <2>11
  <2>13. first <= k
    BY <1>13, <2>1, <2>12
  <2>14. k - 1 \in 0 .. N /\ first - 1 <= k - 1
    BY <1>4, <2>1, <2>12, <2>13
  <2>15. cut[first - 1] <= cut[k - 1] /\ cut[k - 1] \in Nat
    BY <2>2, <2>4, <2>14
  <2>16. m = i1
    BY <1>13, <2>5, <2>10, <2>11, <2>12, <2>15 DEF i1
  <2> QED  BY <2>1, <2>6, <2>8, <2>16
<1> QED  BY <1>12, <1>14, <1>15 DEF matched, for, m, first, N

\* What a virtual service in the cluster does with a request.
LEMMA ServedByRules ==
    ASSUME RulesInv, Rules!Written, NEW q \in Rules!Requests
    PROVE  LET m == Rules!Min(Rules!Matching(q))
               first == Rules!Min(Serving(q))
           IN  /\ Rules!Matching(q) # {}
               /\ Rules!DestsOf(vs, q) = vs[m].dests
               /\ Serving(q) = {} => vs[m].dests = Rules!ToHost(q.host[2])
               /\ Serving(q) # {} =>
                     /\ first \in 1 .. Len(tc.routes)
                     /\ \E b \in Added(first) : Len(b) > 0 /\ vs[m] = b[1]
<1>1. tc \in TrafficConfigs /\ Whole(vs)
  BY DEF RulesInv, Rules!Written
<1>2. Rules!Matching(q) = MatchedBy(vs, q)
  BY DEF Rules!Matching, MatchedBy
<1>3. Rules!DestsOf(vs, q) = vs[Rules!Min(MatchedBy(vs, q))].dests
  BY DEF Rules!DestsOf, MatchedBy
<1> QED  BY <1>1, <1>2, <1>3, FirstMatch

\* Every request is served: by the first route in the order of the traffic config
\* that has its path, if that is one of its environment, and if there is none by the
\* environment it asked for.
THEOREM RequestsTakeTheirRoute == BothSpec => []FirstRouteServes
<1>1. RulesInv => FirstRouteServes
  <2> SUFFICES ASSUME RulesInv, Rules!Written, NEW q \in Rules!Requests
               PROVE  LET rule == vs[Rules!Min(Rules!Matching(q))]
                          first == Rules!Min(Rules!RoutesFor(q))
                      IN  /\ Rules!Matching(q) # {}
                          /\ Rules!RoutesFor(q) = {} => rule.dests = Rules!ToHost(q.host[2])
                          /\ Rules!RoutesFor(q) # {}
                             /\ q.host[2] \in Rules!ToSet(tc.routes[first].envs) =>
                                 rule.route = tc.routes[first].name
    BY DEF FirstRouteServes, Rules!FirstRouteServes
  <2> DEFINE m == Rules!Min(Rules!Matching(q))
             first == Rules!Min(Rules!RoutesFor(q))
             serving == Rules!Min(Serving(q))
  <2>1. /\ Rules!Matching(q) # {}
        /\ Serving(q) = {} => vs[m].dests = Rules!ToHost(q.host[2])
        /\ Serving(q) # {} =>
              serving \in 1 .. Len(tc.routes) /\ \E b \in Added(serving) : Len(b) > 0 /\ vs[m] = b[1]
    BY ServedByRules
  <2>2. /\ Rules!RoutesFor(q) = {} => Serving(q) = {}
        /\ Rules!RoutesFor(q) # {} /\ tc.routes[first].envs # <<>> =>
              Serving(q) # {} /\ serving = first
    BY FirstServes DEF RulesInv
  <2> HIDE DEF m, first, serving
  <2>3. ASSUME Rules!RoutesFor(q) # {}, q.host[2] \in Rules!ToSet(tc.routes[first].envs)
        PROVE  vs[m].route = tc.routes[first].name
    <3>1. tc.routes[first].envs # <<>>
      BY <2>3 DEF Rules!ToSet
    <3>2. first \in 1 .. Len(tc.routes) /\ \E b \in Added(first) : Len(b) > 0 /\ vs[m] = b[1]
      BY <2>1, <2>2, <2>3, <3>1
    <3>3. PICK b \in Added(first) : Len(b) > 0 /\ vs[m] = b[1]
      BY <3>2
    <3>4. RulesOf(tc.routes[first], b) /\ Len(b) \in Nat
      BY <3>2, AddedRules DEF RulesInv
    <3>5. \E dests : b[1] = Rules!RuleOf(tc.routes[first], dests)
      BY <3>3, <3>4 DEF RulesOf
    <3> QED  BY <3>3, <3>5 DEF Rules!RuleOf
  <2> QED  BY <2>1, <2>2, <2>3 DEF m, first
<1> QED  BY <1>1, RulesInvariance, PTL

\* The places at which a route selects a name that is dialled.
Dialled(r, dial) == {i \in DOMAIN r.config : r.config[i].group \in DOMAIN dial}

\* What is split between: a destination for each place that is dialled.
LEMMA SplitParts ==
    ASSUME NEW r, NEW dial
    PROVE  /\ Rules!Split(r, dial) # <<>> <=> Dialled(r, dial) # {}
           /\ Rules!ToSet(Rules!Split(r, dial)) =
                 {[host |-> Rules!MeshDNS(r, r.config[i]), weight |-> dial[r.config[i].group]] :
                     i \in Dialled(r, dial)}
<1> DEFINE dest(i) == [host |-> Rules!MeshDNS(r, r.config[i]), weight |-> dial[r.config[i].group]]
           split == Rules!Split(r, dial)
           D == Dialled(r, dial)
<1>1. split = [i \in D |-> dest(i)]
  BY DEF Rules!Split, Dialled
<1> HIDE DEF split, dest, D
<1>2. DOMAIN split = D /\ split = [i \in D |-> split[i]] /\ \A i \in D : split[i] = dest(i)
  BY <1>1
<1>3. Rules!ToSet(split) = {dest(i) : i \in D}
  BY <1>2 DEF Rules!ToSet
<1>4. DOMAIN <<>> = {} /\ <<>> = [i \in {} |-> <<>>[i]]
  OBVIOUS
<1>5. D # {} => split # <<>>
  BY <1>2, <1>4
<1>6. D = {} => split = <<>>
  <2> SUFFICES ASSUME D = {}  PROVE split = <<>>
    OBVIOUS
  <2>1. DOMAIN split = {} /\ split = [i \in {} |-> split[i]]
    BY <1>2
  <2>2. split \in Seq({}) /\ Len(split) = 0
    <3>1. {} = 1 .. 0
      OBVIOUS
    <3>2. split \in [1 .. 0 -> {}]
      BY <2>1, <3>1
    <3> QED  BY <3>2
  <2> QED  BY <2>2
<1> QED  BY <1>3, <1>5, <1>6 DEF split, dest, D

\* Clients that override what a route selects come first, with what one of them dials.
LEMMA OverridesComeFirst ==
    ASSUME tc \in TrafficConfigs, Rules!HasTargetDetails, NEW k \in 1 .. Len(tc.routes),
           NEW b \in Added(k),
           \E c \in DOMAIN Rules!AppDialing(tc.routes[k]) :
               Dialled(tc.routes[k], Rules!AppDialing(tc.routes[k])[c]) # {}
    PROVE  LET r == tc.routes[k]
               dial == Rules!AppDialing(r)
           IN  \E c \in DOMAIN dial : /\ Dialled(r, dial[c]) # {}
                                      /\ b[1] = Rules!RuleOf(r, Rules!Split(r, dial[c]))
<1> DEFINE r == tc.routes[k]
           dial == Rules!AppDialing(r)
           apps == {c \in DOMAIN dial : Rules!Split(r, dial[c]) # <<>>}
<1>1. apps # {}
  BY SplitParts
<1>2. PICK a \in Rules!AppDialRules(r) :
          b = IF a \o Rules!ServiceDialRule(r) = <<>> THEN Rules!RulesWhenConfigEmpty(r)
              ELSE a \o Rules!ServiceDialRule(r)
  BY DEF Added, Rules!RulesWithTargetDetails
<1>3. /\ RulesOf(r, a)
      /\ \A i \in 1 .. Len(a) : \E c \in apps : a[i] = Rules!RuleOf(r, Rules!Split(r, dial[c]))
      /\ a # <<>>
  BY <1>1, AppDialing
<1> HIDE DEF r, dial
<1> DEFINE more == Rules!ServiceDialRule(r)
<1>4. RulesOf(r, more)
  BY ServiceDial
<1> HIDE DEF more
<1>5. /\ a \in Seq(ToSet(a)) /\ more \in Seq(ToSet(more))
  BY <1>3, <1>4 DEF RulesOf
<1>6. /\ Len(a) \in Nat /\ Len(more) \in Nat /\ Len(a \o more) = Len(a) + Len(more)
      /\ \A i \in 1 .. Len(a) : (a \o more)[i] = a[i]
  BY <1>5, Joined
<1>7. 1 \in 1 .. Len(a)
  BY <1>3, <1>5, <1>6
<1>8. a \o more # <<>>
  BY <1>6, <1>7
<1>9. b[1] = a[1]
  BY <1>2, <1>6, <1>7, <1>8 DEF more
<1>10. PICK c \in apps : a[1] = Rules!RuleOf(r, Rules!Split(r, dial[c]))
  BY <1>3, <1>7
<1> QED  BY <1>9, <1>10, SplitParts DEF r, dial

\* One target group alone overrides what a route selects.
LEMMA OneOverrides ==
    ASSUME tc \in TrafficConfigs, NEW r, NEW g,
           {h \in DOMAIN tc.groups : Rules!Clients(h) # {} /\ Rules!Selects(r, h)} = {g}
    PROVE  Rules!AppDialing(r) = tc.groups[g].overrides
<1> DEFINE groups == {h \in DOMAIN tc.groups : Rules!Clients(h) # {} /\ Rules!Selects(r, h)}
<1>1. tc.groups \in Seq(ToSet(tc.groups))
  BY TrafficConfigAssumption
<1>2. DOMAIN tc.groups = 1 .. Len(tc.groups) /\ Len(tc.groups) \in Nat
  BY <1>1
<1>3. groups # {} /\ groups \in SUBSET (1 .. Len(tc.groups))
  BY <1>2
<1>4. Rules!AppDialing(r) = tc.groups[Rules!Max(groups)].overrides
  BY <1>3 DEF Rules!AppDialing
<1>5. Rules!Max(groups) \in groups
  BY <1>2, <1>3, GreatestNumber
<1> QED  BY <1>4, <1>5

\* Clients that override what a route selects never get the weights of the service,
\* if they ask for an environment that the route has.
THEOREM OverridesWin == BothSpec => []OverrideWins
<1>1. RulesInv => OverrideWins
  <2> SUFFICES ASSUME RulesInv, Rules!Written, Rules!HasTargetDetails,
                      NEW q \in Rules!Requests, NEW g \in DOMAIN tc.groups
               PROVE  LET r == tc.routes[Rules!Min(Rules!RoutesFor(q))]
                          overriding == {h \in DOMAIN tc.groups : Rules!Clients(h) # {} /\ Rules!Selects(r, h)}
                          dials(a) == {i \in DOMAIN r.config :
                                          r.config[i].group \in DOMAIN tc.groups[g].overrides[a]}
                          dialling == {a \in Rules!Clients(g) : dials(a) # {}}
                          decides == /\ Rules!RoutesFor(q) # {}
                                     /\ q.host[2] \in Rules!ToSet(r.envs)
                                     /\ overriding = {g} /\ dialling # {}
                      IN  decides =>
                              \E a \in dialling :
                                  Rules!ToSet(Rules!DestsOf(vs, q)) =
                                      {[host |-> Rules!MeshDNS(r, r.config[i]),
                                        weight |-> tc.groups[g].overrides[a][r.config[i].group]] :
                                          i \in dials(a)}
    BY DEF OverrideWins, Rules!OverrideWins
  <2> DEFINE k == Rules!Min(Rules!RoutesFor(q))
             r == tc.routes[k]
             dial == tc.groups[g].overrides
             overriding == {h \in DOMAIN tc.groups : Rules!Clients(h) # {} /\ Rules!Selects(r, h)}
             dialling == {a \in Rules!Clients(g) : Dialled(r, dial[a]) # {}}
  <2>1. SUFFICES ASSUME Rules!RoutesFor(q) # {}, q.host[2] \in Rules!ToSet(r.envs),
                        overriding = {g}, dialling # {}
                 PROVE  \E a \in dialling :
                            Rules!ToSet(Rules!DestsOf(vs, q)) =
                                {[host |-> Rules!MeshDNS(r, r.config[i]),
                                  weight |-> dial[a][r.config[i].group]] : i \in Dialled(r, dial[a])}
    BY DEF Dialled
  <2>2. tc \in TrafficConfigs
    BY DEF RulesInv
  <2>3. /\ Rules!DestsOf(vs, q) = vs[Rules!Min(Rules!Matching(q))].dests
        /\ k \in 1 .. Len(tc.routes)
        /\ \E b \in Added(k) : Len(b) > 0 /\ vs[Rules!Min(Rules!Matching(q))] = b[1]
    <3>1. r.envs # <<>>
      BY <2>1 DEF Rules!ToSet
    <3>2. Serving(q) # {} /\ Rules!Min(Serving(q)) = k
      BY <2>1, <2>2, <3>1, FirstServes
    <3> QED  BY <3>2, ServedByRules
  <2>4. PICK b \in Added(k) : Rules!DestsOf(vs, q) = b[1].dests
    BY <2>3
  <2> HIDE DEF k
  <2>5. Rules!AppDialing(tc.routes[k]) = dial
    BY <2>1, <2>2, OneOverrides
  <2>6. Rules!Clients(g) = DOMAIN dial
    BY DEF Rules!Clients
  <2>7. \E c \in DOMAIN dial : Dialled(r, dial[c]) # {}
    BY <2>1, <2>6
  <2>8. PICK c \in DOMAIN dial : /\ Dialled(r, dial[c]) # {}
                                 /\ b[1] = Rules!RuleOf(r, Rules!Split(r, dial[c]))
    BY <2>2, <2>3, <2>5, <2>7, OverridesComeFirst
  <2>9. Rules!DestsOf(vs, q) = Rules!Split(r, dial[c])
    BY <2>4, <2>8 DEF Rules!RuleOf
  <2>10. c \in dialling
    BY <2>6, <2>8
  <2> HIDE DEF r, dial, dialling
  <2>11. Rules!ToSet(Rules!Split(r, dial[c])) =
            {[host |-> Rules!MeshDNS(r, r.config[i]), weight |-> dial[c][r.config[i].group]] :
                i \in Dialled(r, dial[c])}
    BY SplitParts
  <2> QED  BY <2>9, <2>10, <2>11
<1> QED  BY <1>1, RulesInvariance, PTL

\* Of numbers in a sequence one is the greatest.
LEMMA GreatestOfAll ==
    ASSUME NEW n \in Nat, NEW f \in [1 .. n -> Nat], n > 0
    PROVE  \E i \in 1 .. n : \A j \in 1 .. n : f[j] <= f[i]
<1> DEFINE Has(m) == \E i \in 1 .. m : \A j \in 1 .. m : f[j] <= f[i]
           without == {m \in 1 .. n : ~Has(m)}
<1>1. SUFFICES ASSUME without # {}  PROVE FALSE
  <2>1. n \in 1 .. n
    OBVIOUS
  <2> QED  BY <2>1
<1>2. PICK m \in without : \A k \in without : m <= k
  <2>1. without \in SUBSET Nat
    OBVIOUS
  <2> QED  BY <1>1, <2>1, LeastNumber
<1>3. m \in 1 .. n /\ ~Has(m)
  OBVIOUS
<1>4. m # 1
  <2>1. \A j \in 1 .. 1 : f[j] <= f[1]
    OBVIOUS
  <2> QED  BY <1>3, <2>1
<1>5. m - 1 \in 1 .. n /\ m - 1 \notin without
  <2>1. m - 1 \in 1 .. n /\ ~(m <= m - 1)
    BY <1>3, <1>4
  <2> HIDE DEF without
  <2> QED  BY <1>2, <2>1
<1>6. PICK i \in 1 .. m - 1 : \A j \in 1 .. m - 1 : f[j] <= f[i]
  BY <1>5
<1>7. f[m] \in Nat /\ f[i] \in Nat /\ \A j \in 1 .. m : f[j] \in Nat /\ (j = m \/ j \in 1 .. m - 1)
  BY <1>3, <1>5
<1>8. CASE f[m] <= f[i]
  <2>1. \A j \in 1 .. m : f[j] <= f[i]
    BY <1>6, <1>7, <1>8
  <2> QED  BY <1>3, <1>5, <2>1
<1>9. CASE ~(f[m] <= f[i])
  <2>1. \A j \in 1 .. m : f[j] <= f[m]
    BY <1>6, <1>7, <1>9
  <2> QED  BY <1>3, <2>1
<1> QED  BY <1>8, <1>9

\* The timeout of a route's rules.
LEMMA RuleTimeout ==
    ASSUME NEW r, r.timeout \in Nat, NEW dests
    PROVE  LET d == Rules!RuleOf(r, dests).timeout
           IN  /\ d.sec \in Nat
               /\ Rules!HasTargetDetails /\ r.timeout > 1 =>
                     r.timeout = d.sec * 1000 + d.nanos \div 1000000
<1> DEFINE t == r.timeout
           d == Rules!RouteTimeout(r)
           final == Rules!FinalRouteTimeout(d)
<1>0. Rules!RuleOf(r, dests).timeout = final
  BY DEF Rules!RuleOf
<1>1. d.sec \in Nat
  BY DEF Rules!RouteTimeout
<1>2. Rules!HasTargetDetails => d.sec = t \div 1000 /\ d.nanos = (t % 1000) * 1000000
  BY DEF Rules!RouteTimeout
<1> HIDE DEF d, t
<1>3. final.sec \in Nat
  BY <1>1 DEF Rules!FinalRouteTimeout, Rules!NoTimeout
<1>4. ASSUME Rules!HasTargetDetails, t > 1
      PROVE  t = final.sec * 1000 + final.nanos \div 1000000
  <2>1. t \in Nat
    BY DEF t
  <2>2. /\ t \div 1000 \in Nat /\ t % 1000 \in 0 .. 999
        /\ t = (t \div 1000) * 1000 + (t % 1000)
    BY <2>1
  <2>3. d.sec > 0 \/ d.nanos > 1000000
    BY <1>2, <1>4, <2>2
  <2>4. final = d
    BY <2>3 DEF Rules!FinalRouteTimeout
  <2>5. d.nanos \div 1000000 = t % 1000
    BY <1>2, <1>4, <2>2
  <2> QED  BY <1>2, <1>4, <2>2, <2>4, <2>5
<1> HIDE DEF final
<1> QED  BY <1>0, <1>3, <1>4 DEF t

\* No rule so far waits longer, in whole seconds, than the rules for all requests.
LEMMA LongestTimeout ==
    ASSUME NEW list, NEW n \in Nat, DOMAIN list = 1 .. n,
           \A i \in 1 .. n : list[i].timeout.sec \in Nat
    PROVE  LET d == Rules!FinalRouteTimeout(Rules!AllowAllTimeout(list))
           IN  d.sec \in Nat /\ \A i \in 1 .. n : list[i].timeout.sec <= d.sec
<1> DEFINE sec == [i \in 1 .. n |-> list[i].timeout.sec]
           longest == {i \in DOMAIN list :
                          /\ list[i].timeout.sec > 0
                          /\ \A j \in DOMAIN list : list[j].timeout.sec <= list[i].timeout.sec}
           most == Rules!AllowAllTimeout(list)
           d == Rules!FinalRouteTimeout(most)
<1>1. most = IF longest = {} THEN Rules!NoTimeout ELSE list[Rules!Min(longest)].timeout
  BY DEF Rules!AllowAllTimeout
<1>2. sec \in [1 .. n -> Nat] /\ \A i \in 1 .. n : sec[i] = list[i].timeout.sec
  OBVIOUS
<1> HIDE DEF most
<1>3. CASE longest = {}
  <2>1. most.sec = 0 /\ most.nanos = 0
    BY <1>1, <1>3 DEF Rules!NoTimeout
  <2>2. d.sec = 0
    BY <2>1 DEF Rules!FinalRouteTimeout, Rules!NoTimeout
  <2>3. ASSUME NEW i \in 1 .. n  PROVE list[i].timeout.sec = 0
    <3>1. n > 0
      OBVIOUS
    <3> HIDE DEF sec
    <3>2. PICK k \in 1 .. n : \A j \in 1 .. n : sec[j] <= sec[k]
      BY <1>2, <3>1, GreatestOfAll
    <3>3. \A j \in 1 .. n : list[j].timeout.sec <= list[k].timeout.sec
      BY <1>2, <3>2
    <3>4. k \notin longest
      BY <1>3
    <3>5. list[k].timeout.sec = 0
      BY <3>3, <3>4
    <3> QED  BY <3>3, <3>5
  <2> QED  BY <2>2, <2>3 DEF most
<1>4. CASE longest # {}
  <2> DEFINE k == Rules!Min(longest)
  <2>1. k \in longest
    <3>1. longest \in SUBSET Nat
      OBVIOUS
    <3> QED  BY <1>4, <3>1, LeastNumber
  <2>2. most = list[k].timeout
    BY <1>1, <1>4
  <2> HIDE DEF k
  <2>3. most.sec > 0 /\ most.sec \in Nat /\ \A i \in 1 .. n : list[i].timeout.sec <= most.sec
    BY <2>1, <2>2
  <2>4. d = most
    BY <2>3 DEF Rules!FinalRouteTimeout
  <2> QED  BY <2>3, <2>4 DEF most
<1> QED  BY <1>3, <1>4

\* The rules for all requests, whatever the requests.
LEMMA ForAllRequests ==
    ASSUME tc \in TrafficConfigs, NEW list
    PROVE  LET all == Rules!AllowAllRules(list)
           IN  /\ all \in Seq(ToSet(all))
               /\ \A j \in 1 .. Len(all) :
                     /\ all[j].route = NoRoute
                     /\ all[j].timeout = Rules!FinalRouteTimeout(Rules!AllowAllTimeout(list))
<1> DEFINE all == Rules!AllowAllRules(list)
           n == Len(tc.envs)
<1>1. tc.envs \in Seq(ToSet(tc.envs))
  BY TrafficConfigAssumption
<1>2. DOMAIN tc.envs = 1 .. n /\ n \in Nat
  BY <1>1
<1>3. /\ DOMAIN all = 1 .. n /\ all = [j \in 1 .. n |-> all[j]]
      /\ \A j \in 1 .. n :
            /\ all[j].route = NoRoute
            /\ all[j].timeout = Rules!FinalRouteTimeout(Rules!AllowAllTimeout(list))
  BY <1>2 DEF Rules!AllowAllRules
<1> HIDE DEF all, n
<1>4. all \in Seq(ToSet(all)) /\ Len(all) = n
  BY <1>2, <1>3, IsSequence
<1> QED  BY <1>3, <1>4 DEF all

\* A route's rules wait as long as the route says, and those for all requests give
\* up no earlier than any of them.
THEOREM RoutesKeepTheirTimeouts == BothSpec => []TimeoutsKept
<1>1. RulesInv => TimeoutsKept
  <2> SUFFICES ASSUME RulesInv, Rules!Written, Rules!HasTargetDetails, NEW i \in DOMAIN vs
               PROVE  /\ \A r \in ToSet(tc.routes) : vs[i].route = r.name /\ r.timeout > 1 =>
                            r.timeout = vs[i].timeout.sec * 1000 + vs[i].timeout.nanos \div 1000000
                      /\ vs[i].route = NoRoute =>
                            \A j \in DOMAIN vs : vs[i].timeout.sec >= vs[j].timeout.sec
    BY DEF TimeoutsKept, Rules!TimeoutsKept, ToSet, Rules!ToSet
  <2> DEFINE N == Len(tc.routes)
  <2>1. tc \in TrafficConfigs /\ Whole(vs)
    BY DEF RulesInv, Rules!Written
  <2>2. PICK list : BuiltFrom(list, N) /\ vs = list \o Rules!AllowAllRules(list)
    BY <2>1 DEF Whole
  <2>3. PICK cut : Cut(list, N, cut)
    BY <2>2 DEF BuiltFrom
  <2> DEFINE all == Rules!AllowAllRules(list)
             d == Rules!FinalRouteTimeout(Rules!AllowAllTimeout(list))
             L == Len(list)
  <2>4. /\ all \in Seq(ToSet(all))
        /\ \A j \in 1 .. Len(all) : all[j].route = NoRoute /\ all[j].timeout = d
    BY <2>1, ForAllRequests
  <2>5. /\ list \in Seq(ToSet(list)) /\ L \in Nat /\ DOMAIN list = 1 .. L
        /\ N \in Nat /\ DOMAIN tc.routes = 1 .. N
    <3>1. tc.routes \in Seq(ToSet(tc.routes))
      BY <2>1, TrafficConfigAssumption
    <3> QED  BY <2>2, <3>1 DEF BuiltFrom
  <2> HIDE DEF all, d
  <2>6. /\ \A j \in 1 .. L : vs[j] = list[j]
        /\ \A j \in DOMAIN vs : j \in 1 .. L \/ (vs[j].route = NoRoute /\ vs[j].timeout = d)
    <3>1. /\ vs \in Seq(ToSet(vs)) /\ Len(all) \in Nat /\ Len(vs) = L + Len(all)
          /\ \A j \in 1 .. L : vs[j] = list[j]
          /\ \A j \in 1 .. Len(all) : vs[L + j] = all[j]
      BY <2>2, <2>4, <2>5, Joined DEF all
    <3>2. DOMAIN vs = 1 .. L + Len(all)
      BY <3>1
    <3>3. ASSUME NEW j \in DOMAIN vs, j \notin 1 .. L
          PROVE  vs[j].route = NoRoute /\ vs[j].timeout = d
      <4>1. j - L \in 1 .. Len(all) /\ L + (j - L) = j
        BY <2>5, <3>1, <3>2, <3>3
      <4> QED  BY <2>4, <3>1, <4>1
    <3> QED  BY <3>1, <3>3
  <2>7. ASSUME NEW j \in 1 .. L
        PROVE  \E k \in 1 .. N : \E dests : vs[j] = Rules!RuleOf(tc.routes[k], dests)
    <3>1. N \in 0 .. N
      BY <2>5
    <3>2. PICK k \in 1 .. N : \E b \in Added(k) : Place(list, cut, j, k, b)
      BY <2>1, <2>3, <2>5, <3>1, RuleAt
    <3> QED  BY <2>6, <3>2 DEF Place
  <2>8. ASSUME NEW k \in 1 .. N
        PROVE  tc.routes[k].timeout \in Nat /\ tc.routes[k].name # NoRoute
    BY <2>1, RouteParts
  <2> HIDE DEF L
  <2>9. ASSUME NEW j \in 1 .. L  PROVE vs[j].timeout.sec \in Nat /\ vs[j].route # NoRoute
    <3>1. PICK k \in 1 .. N : \E dests : vs[j] = Rules!RuleOf(tc.routes[k], dests)
      BY <2>7
    <3>2. vs[j].route = tc.routes[k].name
      BY <3>1 DEF Rules!RuleOf
    <3> QED  BY <2>8, <3>1, <3>2, RuleTimeout
  <2>10. d.sec \in Nat /\ \A j \in 1 .. L : vs[j].timeout.sec <= d.sec
    <3>1. \A j \in 1 .. L : list[j].timeout.sec \in Nat
      BY <2>6, <2>9
    <3> QED  BY <2>5, <2>6, <3>1, LongestTimeout DEF d
  <2>11. ASSUME NEW r \in ToSet(tc.routes), vs[i].route = r.name, r.timeout > 1
         PROVE  r.timeout = vs[i].timeout.sec * 1000 + vs[i].timeout.nanos \div 1000000
    <3>1. PICK h \in 1 .. N : r = tc.routes[h]
      BY <2>5 DEF ToSet
    <3>2. i \in 1 .. L
      BY <2>6, <2>8, <2>11, <3>1
    <3>3. PICK k \in 1 .. N : \E dests : vs[i] = Rules!RuleOf(tc.routes[k], dests)
      BY <2>7, <3>2
    <3>4. tc.routes[k].name = tc.routes[h].name
      BY <2>11, <3>1, <3>3 DEF Rules!RuleOf
    <3>5. k = h
      BY <2>1, <2>5, <3>4, TrafficConfigAssumption
    <3> QED  BY <2>8, <2>11, <3>1, <3>3, <3>5, RuleTimeout
  <2>12. ASSUME vs[i].route = NoRoute, NEW j \in DOMAIN vs
         PROVE  vs[i].timeout.sec >= vs[j].timeout.sec
    <3>1. vs[i].timeout = d
      BY <2>6, <2>9, <2>12
    <3>2. CASE j \in 1 .. L
      BY <2>9, <2>10, <3>1, <3>2
    <3>3. CASE j \notin 1 .. L
      BY <2>6, <2>10, <3>1, <3>3
    <3> QED  BY <3>2, <3>3
  <2> QED  BY <2>11, <2>12
<1> QED  BY <1>1, RulesInvariance, PTL

\* A set of at most one element has one order.
LEMMA OneOrder ==
    ASSUME NEW S, IsFiniteSet(S), Cardinality(S) <= 1,
           NEW one \in Rules!SetToSeqs(S), NEW other \in Rules!SetToSeqs(S)
    PROVE  one = other
<1> DEFINE n == Cardinality(S)
<1>1. Rules!Cardinality(S) = n
  BY DEF Rules!Cardinality, Cardinality
<1>2. one \in [1 .. n -> S] /\ other \in [1 .. n -> S]
  BY <1>1 DEF Rules!SetToSeqs
<1>3. \A x, y \in S : x = y
  <2>1. n \in Nat /\ n <= 1
    BY FS_CardinalityType
  <2>2. n = 0 => S = {}
    BY FS_EmptySet
  <2>3. n = 1 => \E x : S = {x}
    BY FS_Singleton
  <2> HIDE DEF n
  <2>4. n = 0 \/ n = 1
    BY <2>1
  <2> QED  BY <2>2, <2>3, <2>4
<1> HIDE DEF n
<1>4. \A i \in 1 .. n : one[i] \in S /\ other[i] \in S
  BY <1>2
<1>5. \A i \in 1 .. n : one[i] = other[i]
  BY <1>3, <1>4
<1>6. one = [i \in 1 .. n |-> one[i]] /\ other = [i \in 1 .. n |-> other[i]]
  BY <1>2
<1> HIDE DEF n
<1>7. [i \in 1 .. n |-> one[i]] = [i \in 1 .. n |-> other[i]]
  BY <1>5
<1> QED  BY <1>6, <1>7

FewClients == \A g \in DOMAIN tc.groups : Rules!Cardinality(Rules!Clients(g)) <= 1

\* With at most one client in each group, at most one overrides the weights of a route.
LEMMA OneDials ==
    ASSUME tc \in TrafficConfigs, FewClients, NEW r
    PROVE  Cardinality(DOMAIN Rules!AppDialing(r)) <= 1
<1> DEFINE groups == {g \in DOMAIN tc.groups : Rules!Clients(g) # {} /\ Rules!Selects(r, g)}
<1>1. tc.groups \in Seq(ToSet(tc.groups))
  BY TrafficConfigAssumption
<1>2. DOMAIN tc.groups = 1 .. Len(tc.groups) /\ Len(tc.groups) \in Nat
  BY <1>1
<1>3. CASE groups = {}
  <2>1. Rules!AppDialing(r) = <<>>
    BY <1>3 DEF Rules!AppDialing
  <2>2. DOMAIN Rules!AppDialing(r) = {}
    BY <2>1
  <2>3. Cardinality({}) = 0
    BY FS_EmptySet
  <2> QED  BY <2>2, <2>3
<1>4. CASE groups # {}
  <2>1. groups \in SUBSET (1 .. Len(tc.groups))
    BY <1>2
  <2>2. Rules!AppDialing(r) = tc.groups[Rules!Max(groups)].overrides
    BY <1>4 DEF Rules!AppDialing
  <2>3. \A g \in groups : g \in DOMAIN tc.groups
    OBVIOUS
  <2> HIDE DEF groups
  <2>4. Rules!Max(groups) \in groups
    BY <1>2, <1>4, <2>1, GreatestNumber
  <2>5. Rules!Max(groups) \in DOMAIN tc.groups
    BY <2>3, <2>4
  <2>6. DOMAIN Rules!AppDialing(r) = Rules!Clients(Rules!Max(groups))
    BY <2>2 DEF Rules!Clients
  <2>7. Rules!Cardinality(Rules!Clients(Rules!Max(groups))) <= 1
    BY <2>5 DEF FewClients
  <2>8. \A S : Rules!Cardinality(S) = Cardinality(S)
    BY DEF Rules!Cardinality, Cardinality
  <2> QED  BY <2>6, <2>7, <2>8
<1> QED  BY <1>3, <1>4

\* Then a route adds the same rules each time.
LEMMA AddedIsSame ==
    ASSUME tc \in TrafficConfigs, FewClients, NEW k, NEW one \in Added(k), NEW other \in Added(k)
    PROVE  one = other
<1> DEFINE r == tc.routes[k]
           dial == Rules!AppDialing(r)
           apps == {c \in DOMAIN dial : Rules!Split(r, dial[c]) # <<>>}
<1>1. CASE ~Rules!HasTargetDetails
  BY <1>1 DEF Added
<1>2. CASE Rules!HasTargetDetails
  <2>1. IsFiniteSet(DOMAIN dial) /\ Cardinality(DOMAIN dial) <= 1
    BY AppDialingIsFinite, OneDials
  <2>2. IsFiniteSet(apps) /\ Cardinality(apps) <= 1
    <3>1. apps \in SUBSET DOMAIN dial
      OBVIOUS
    <3> HIDE DEF apps, dial
    <3>2. IsFiniteSet(apps) /\ Cardinality(apps) <= Cardinality(DOMAIN dial)
      BY <2>1, <3>1, FS_Subset
    <3>3. Cardinality(apps) \in Nat /\ Cardinality(DOMAIN dial) \in Nat
      BY <2>1, <3>2, FS_CardinalityType
    <3> QED  BY <2>1, <3>2, <3>3
  <2>3. \A a \in Rules!AppDialRules(r) : \E order \in Rules!SetToSeqs(apps) :
            a = [i \in DOMAIN order |-> Rules!RuleOf(r, Rules!Split(r, dial[order[i]]))]
    BY DEF Rules!AppDialRules
  <2> HIDE DEF apps, dial
  <2>4. \A a, b \in Rules!AppDialRules(r) : a = b
    <3> SUFFICES ASSUME NEW a \in Rules!AppDialRules(r), NEW b \in Rules!AppDialRules(r)
                 PROVE  a = b
      OBVIOUS
    <3>1. PICK oa \in Rules!SetToSeqs(apps) :
              a = [i \in DOMAIN oa |-> Rules!RuleOf(r, Rules!Split(r, dial[oa[i]]))]
      BY <2>3
    <3>2. PICK ob \in Rules!SetToSeqs(apps) :
              b = [i \in DOMAIN ob |-> Rules!RuleOf(r, Rules!Split(r, dial[ob[i]]))]
      BY <2>3
    <3>3. oa = ob
      BY <2>2, OneOrder
    <3> QED  BY <3>1, <3>2, <3>3
  <2>5. Added(k) = Rules!RulesWithTargetDetails(r)
    BY <1>2 DEF Added
  <2> QED  BY <2>4, <2>5 DEF Rules!RulesWithTargetDetails
<1> QED  BY <1>1, <1>2

\* Two virtual services of one traffic config send a request to the same place.
LEMMA SameDestinations ==
    ASSUME tc \in TrafficConfigs, FewClients, NEW one, NEW other, Whole(one), Whole(other),
           NEW q \in Rules!Requests
    PROVE  Rules!DestsOf(one, q) = Rules!DestsOf(other, q)
<1>1. \A full : Rules!DestsOf(full, q) = full[Rules!Min(MatchedBy(full, q))].dests
  BY DEF Rules!DestsOf, MatchedBy
<1> DEFINE first == Rules!Min(Serving(q))
<1>2. CASE Serving(q) = {}
  <2>1. one[Rules!Min(MatchedBy(one, q))].dests = Rules!ToHost(q.host[2])
    BY <1>2, FirstMatch
  <2>2. other[Rules!Min(MatchedBy(other, q))].dests = Rules!ToHost(q.host[2])
    BY <1>2, FirstMatch
  <2> QED  BY <1>1, <2>1, <2>2
<1>3. CASE Serving(q) # {}
  <2>1. PICK a \in Added(first) : one[Rules!Min(MatchedBy(one, q))] = a[1]
    BY <1>3, FirstMatch
  <2>2. PICK b \in Added(first) : other[Rules!Min(MatchedBy(other, q))] = b[1]
    BY <1>3, FirstMatch
  <2>3. a = b
    BY AddedIsSame
  <2> QED  BY <1>1, <2>1, <2>2, <2>3
<1> QED  BY <1>2, <1>3

\* What is written is whole.
LEMMA Writes ==
    ASSUME RulesInv, Rules!Next \/ UNCHANGED ruleVars, vs' # vs
    PROVE  Whole(vs')
<1>1. Rules!AddAllowAllRule
  BY DEF Rules!Next, Rules!Build, Rules!AddRoute, ruleVars
<1> DEFINE N == Len(tc.routes)
<1>2. next = N + 1 /\ vs' = rules \o Rules!AllowAllRules(rules)
  BY <1>1 DEF Rules!AddAllowAllRule
<1>3. N \in Nat
  <2>1. tc.routes \in Seq(ToSet(tc.routes))
    BY TrafficConfigAssumption DEF RulesInv
  <2> QED  BY <2>1
<1>4. next # 0 /\ next - 1 = N
  BY <1>2, <1>3
<1>5. BuiltFrom(rules, N)
  BY <1>4 DEF RulesInv
<1> QED  BY <1>2, <1>5 DEF Whole

\* Handling a traffic config again changes nothing for any request, although maps
\* come in another order, unless several clients override one group.
THEOREM RebuildsAreTheSame == BothSpec => RebuildIsSame
<1>1. RulesInv /\ [BothNext]_<<vars, ruleVars>> =>
          [Rules!Written /\ vs' # vs /\ (\A g \in DOMAIN tc.groups : Rules!Cardinality(Rules!Clients(g)) <= 1) =>
              \A q \in Rules!Requests : Rules!DestsOf(vs', q) = Rules!DestsOf(vs, q)]_Rules!vars
  <2> SUFFICES ASSUME RulesInv, [BothNext]_<<vars, ruleVars>>, Rules!Written, vs' # vs, FewClients,
                      NEW q \in Rules!Requests
               PROVE  Rules!DestsOf(vs', q) = Rules!DestsOf(vs, q)
    BY DEF FewClients
  <2>1. Rules!Next \/ UNCHANGED ruleVars
    BY DEF BothNext, HandleRateLimiter, HandleVirtualServiceForTrafficConfig
  <2>2. Whole(vs')
    BY <2>1, Writes
  <2>3. tc \in TrafficConfigs /\ Whole(vs)
    BY DEF RulesInv, Rules!Written
  <2> QED  BY <2>2, <2>3, SameDestinations
<1> QED  BY <1>1, RulesInvariance, PTL DEF BothSpec, RebuildIsSame, Rules!RebuildIsSame

-----------------------------------------------------------------------------
(* Sums.                                                                    *)

\* What the folds of the library add up: numbers w over all subsets of S.
IsSum(g, w, S) ==
    g = [s \in SUBSET S |->
            IF s = {} THEN 0 ELSE w[CHOOSE x \in s : TRUE] + g[s \ {CHOOSE x \in s : TRUE}]]

Total(w, S) == (CHOOSE g : IsSum(g, w, S))[S]

\* A set of finite sets has one that no element can be taken from.
LEMMA LeastSet ==
    ASSUME NEW S, IsFiniteSet(S), NEW Bad \in SUBSET SUBSET S, Bad # {}
    PROVE  \E A \in Bad : \A x \in A : A \ {x} \notin Bad
<1> DEFINE sizes == {Cardinality(A) : A \in Bad}
<1>1. \A A \in Bad : IsFiniteSet(A) /\ Cardinality(A) \in Nat
  BY FS_Subset, FS_CardinalityType
<1>2. sizes \in SUBSET Nat /\ sizes # {}
  BY <1>1
<1>3. PICK n \in sizes : \A m \in sizes : n <= m
  BY <1>2, LeastNumber
<1>4. PICK A \in Bad : n = Cardinality(A)
  OBVIOUS
<1>5. ASSUME NEW x \in A, A \ {x} \in Bad  PROVE FALSE
  <2>1. Cardinality(A \ {x}) = Cardinality(A) - 1
    BY <1>1, FS_RemoveElement
  <2>2. n <= Cardinality(A \ {x})
    BY <1>3, <1>5
  <2> QED  BY <1>1, <1>4, <2>1, <2>2
<1> QED  BY <1>5

\* What is summed over the sets of up to n elements.
IsSumTo(g, w, S, n) ==
    g = [s \in {t \in SUBSET S : Cardinality(t) <= n} |->
            IF s = {} THEN 0 ELSE w[CHOOSE x \in s : TRUE] + g[s \ {CHOOSE x \in s : TRUE}]]

\* Finite sets have sums.
LEMMA SumExists ==
    ASSUME NEW w, NEW S, IsFiniteSet(S)
    PROVE  IsSum(CHOOSE g : IsSum(g, w, S), w, S)
<1> DEFINE without == {n \in Nat : ~ \E g : IsSumTo(g, w, S, n)}
           c(s) == CHOOSE x \in s : TRUE
           Upto(n) == {t \in SUBSET S : Cardinality(t) <= n}
<1>1. \A s \in SUBSET S : IsFiniteSet(s) /\ Cardinality(s) \in Nat /\ Cardinality(s) <= Cardinality(S)
  BY FS_Subset, FS_CardinalityType
<1>2. \A s \in SUBSET S : s # {} => c(s) \in s /\ s \ {c(s)} \in SUBSET S
                                    /\ Cardinality(s \ {c(s)}) = Cardinality(s) - 1
  BY <1>1, FS_RemoveElement
<1> HIDE DEF c
<1>3. without = {}
  <2> SUFFICES ASSUME without # {}  PROVE FALSE
    OBVIOUS
  <2>1. PICK n \in without : \A m \in without : n <= m
    <3>1. without \in SUBSET Nat
      OBVIOUS
    <3> QED  BY <3>1, LeastNumber
  <2>2. n \in Nat /\ ~ \E g : IsSumTo(g, w, S, n)
    OBVIOUS
  <2>3. CASE n = 0
    <3> DEFINE g == [s \in Upto(0) |-> 0]
    <3>1. Upto(0) = {{}}
      BY <1>1, FS_EmptySet
    <3>2. g = [s \in Upto(0) |-> IF s = {} THEN 0 ELSE w[c(s)] + g[s \ {c(s)}]]
      BY <3>1
    <3>3. IsSumTo(g, w, S, 0)
      BY <3>2 DEF IsSumTo, c
    <3> QED  BY <2>2, <2>3, <3>3
  <2>4. CASE n # 0
    <3>1. n - 1 \in Nat /\ n - 1 \notin without
      BY <2>1, <2>2, <2>4
    <3> HIDE DEF without
    <3>2. PICK h : IsSumTo(h, w, S, n - 1)
      BY <3>1 DEF without
    <3>3. h = [s \in Upto(n - 1) |-> IF s = {} THEN 0 ELSE w[c(s)] + h[s \ {c(s)}]]
      BY <3>2 DEF IsSumTo, c
    <3> DEFINE g == [s \in Upto(n) |-> IF s = {} THEN 0 ELSE w[c(s)] + h[s \ {c(s)}]]
    <3>4. \A s \in Upto(n - 1) : s \in Upto(n)
      BY <1>1, <2>2
    <3>5. \A s \in Upto(n - 1) : g[s] = h[s]
      BY <3>3, <3>4
    <3>6. \A s \in Upto(n) : s # {} => s \ {c(s)} \in Upto(n - 1)
      BY <1>1, <1>2, <2>2
    <3>7. \A s \in Upto(n) : g[s] = IF s = {} THEN 0 ELSE w[c(s)] + g[s \ {c(s)}]
      BY <3>5, <3>6
    <3>8. g = [s \in Upto(n) |-> IF s = {} THEN 0 ELSE w[c(s)] + g[s \ {c(s)}]]
      <4> DEFINE f == [s \in Upto(n) |-> IF s = {} THEN 0 ELSE w[c(s)] + g[s \ {c(s)}]]
      <4>1. \A s \in Upto(n) : g[s] = f[s]
        BY <3>7
      <4> QED  BY <4>1
    <3>9. IsSumTo(g, w, S, n)
      BY <3>8 DEF IsSumTo, c
    <3> QED  BY <2>2, <3>9
  <2> QED  BY <2>3, <2>4
<1>4. Cardinality(S) \in Nat
  BY <1>1
<1>5. PICK g : IsSumTo(g, w, S, Cardinality(S))
  BY <1>3, <1>4
<1>6. Upto(Cardinality(S)) = SUBSET S
  BY <1>1
<1>7. IsSum(g, w, S)
  BY <1>5, <1>6 DEF IsSum, IsSumTo
<1> QED  BY <1>7

\* The sums of numbers, whatever element is added last.
Adds(g, w, S) ==
    /\ g[{}] = 0
    /\ \A s \in SUBSET S : g[s] \in Int /\ \A y \in s : g[s] = w[y] + g[s \ {y}]

\* Whatever element is added last, the sum is the same.
LEMMA SumInAnyOrder ==
    ASSUME NEW w, NEW S, IsFiniteSet(S), \A x \in S : w[x] \in Int, NEW g, IsSum(g, w, S)
    PROVE  Adds(g, w, S)
<1> DEFINE c(s) == CHOOSE x \in s : TRUE
<1>1. g = [s \in SUBSET S |-> IF s = {} THEN 0 ELSE w[c(s)] + g[s \ {c(s)}]]
  BY DEF IsSum
<1>2. \A s \in SUBSET S : s # {} => c(s) \in s
  OBVIOUS
<1> HIDE DEF c
<1>3. g[{}] = 0
  BY <1>1
<1>4. \A s \in SUBSET S : s # {} => g[s] = w[c(s)] + g[s \ {c(s)}]
  BY <1>1
<1>5. \A s \in SUBSET S : g[s] \in Int
  <2> DEFINE Bad == {s \in SUBSET S : g[s] \notin Int}
  <2> SUFFICES ASSUME Bad # {}  PROVE FALSE
    OBVIOUS
  <2>1. PICK A \in Bad : \A x \in A : A \ {x} \notin Bad
    BY LeastSet
  <2>2. A # {}
    BY <1>3
  <2>3. c(A) \in A /\ A \ {c(A)} \in SUBSET S
    BY <1>2, <2>2
  <2>4. g[A \ {c(A)}] \in Int /\ w[c(A)] \in Int
    BY <2>1, <2>3
  <2>5. g[A] = w[c(A)] + g[A \ {c(A)}]
    BY <1>4, <2>2
  <2> QED  BY <2>4, <2>5
<1>6. \A s \in SUBSET S : \A y \in s : g[s] = w[y] + g[s \ {y}]
  <2> DEFINE Same(s) == \A y \in s : g[s] = w[y] + g[s \ {y}]
             Bad == {s \in SUBSET S : ~Same(s)}
  <2> SUFFICES ASSUME Bad # {}  PROVE FALSE
    OBVIOUS
  <2>1. PICK A \in Bad : \A x \in A : A \ {x} \notin Bad
    BY LeastSet
  <2>2. PICK y \in A : g[A] # w[y] + g[A \ {y}]
    OBVIOUS
  <2>3. A \in SUBSET S
    OBVIOUS
  <2> DEFINE x == c(A)
  <2>4. x \in A /\ g[A] = w[x] + g[A \ {x}]
    BY <1>2, <1>4, <2>2, <2>3
  <2> HIDE DEF x
  <2>5. x # y
    BY <2>2, <2>4
  <2>6. /\ A \ {x} \in SUBSET S /\ A \ {y} \in SUBSET S
        /\ Same(A \ {x}) /\ Same(A \ {y})
    BY <2>1, <2>3, <2>4
  <2> HIDE DEF Bad
  <2>7. y \in A \ {x} /\ x \in A \ {y}
    BY <2>4, <2>5
  <2>8. /\ g[A \ {x}] = w[y] + g[(A \ {x}) \ {y}]
        /\ g[A \ {y}] = w[x] + g[(A \ {y}) \ {x}]
    BY <2>6, <2>7
  <2>9. (A \ {x}) \ {y} = (A \ {y}) \ {x} /\ (A \ {x}) \ {y} \in SUBSET S
    BY <2>3
  <2>10. g[(A \ {x}) \ {y}] \in Int /\ w[x] \in Int /\ w[y] \in Int
    BY <1>5, <2>3, <2>4, <2>9
  <2> DEFINE rest == g[(A \ {x}) \ {y}]
  <2>11. g[A \ {x}] = w[y] + rest /\ g[A \ {y}] = w[x] + rest /\ rest \in Int
    BY <2>8, <2>9, <2>10
  <2> HIDE DEF rest
  <2> QED  BY <2>2, <2>4, <2>10, <2>11
<1> QED  BY <1>3, <1>5, <1>6 DEF Adds

\* Numbers under other names have the same sum.
LEMMA SameTotal ==
    ASSUME NEW S, IsFiniteSet(S), NEW T, IsFiniteSet(T), NEW w, NEW v, \A y \in T : v[y] \in Int,
           NEW F, \A x \in S : F[x] \in T /\ w[x] = v[F[x]], \A y \in T : \E x \in S : F[x] = y,
           \A x, y \in S : F[x] = F[y] => x = y
    PROVE  Total(w, S) = Total(v, T)
<1> DEFINE g == CHOOSE g : IsSum(g, w, S)
           h == CHOOSE h : IsSum(h, v, T)
           Image(s) == {F[x] : x \in s}
<1>1. IsSum(g, w, S) /\ IsSum(h, v, T)
  BY SumExists
<1> HIDE DEF g, h
<1>2. \A x \in S : w[x] \in Int
  OBVIOUS
<1>3. Adds(g, w, S)
  BY <1>1, <1>2, SumInAnyOrder
<1>4. Adds(h, v, T)
  BY <1>1, SumInAnyOrder
<1>5. \A s \in SUBSET S : g[s] = h[Image(s)]
  <2> DEFINE Bad == {s \in SUBSET S : g[s] # h[Image(s)]}
  <2> SUFFICES ASSUME Bad # {}  PROVE FALSE
    OBVIOUS
  <2>1. PICK A \in Bad : \A x \in A : A \ {x} \notin Bad
    BY LeastSet
  <2>2. A \in SUBSET S /\ g[A] # h[Image(A)]
    OBVIOUS
  <2>3. A # {}
    <3>1. Image({}) = {}
      OBVIOUS
    <3> QED  BY <1>3, <1>4, <2>2, <3>1 DEF Adds
  <2>4. PICK x \in A : TRUE
    BY <2>3
  <2>5. g[A \ {x}] = h[Image(A \ {x})]
    BY <2>1, <2>2
  <2>6. Image(A) \in SUBSET T /\ F[x] \in Image(A)
    BY <2>2
  <2>7. Image(A) \ {F[x]} = Image(A \ {x})
    BY <2>2
  <2> HIDE DEF Image, Bad
  <2>8. h[Image(A)] = v[F[x]] + h[Image(A \ {x})]
    <3> DEFINE I == Image(A)
               y == F[x]
    <3>1. I \in SUBSET T /\ y \in I /\ I \ {y} = Image(A \ {x})
      BY <2>6, <2>7
    <3> HIDE DEF I, y
    <3>2. h[I] = v[y] + h[I \ {y}]
      BY <1>4, <3>1 DEF Adds
    <3> QED  BY <3>1, <3>2 DEF I, y
  <2>9. g[A] = w[x] + g[A \ {x}]
    BY <1>3, <2>2 DEF Adds
  <2> QED  BY <2>2, <2>5, <2>8, <2>9
<1>6. Image(S) = T
  OBVIOUS
<1>7. g[S] = h[T]
  BY <1>5, <1>6
<1> QED  BY <1>7 DEF Total, g, h

GivesAll(dests) == Rules!FoldFunction(LAMBDA d, sum : d.weight + sum, 0, dests) = 100

AddsUp(dial) == Rules!FoldFunction(+, 0, dial) = 100

\* The folds over a function are sums of its values, or of their weights.
LEMMA FoldsAreTotals ==
    /\ \A dial : AddsUp(dial) <=> Total(dial, DOMAIN dial) = 100
    /\ \A dests, w : w = [i \in DOMAIN dests |-> dests[i].weight] =>
                         (GivesAll(dests) <=> Total(w, DOMAIN dests) = 100)
<1>1. ASSUME NEW dial  PROVE Rules!FoldFunction(+, 0, dial) = Total(dial, DOMAIN dial)
  BY DEF Rules!FoldFunction, Rules!FoldFunctionOnSet, Rules!MapThenFoldSet, Total, IsSum
<1>2. ASSUME NEW dial  PROVE AddsUp(dial) <=> Total(dial, DOMAIN dial) = 100
  BY <1>1 DEF AddsUp
<1>3. ASSUME NEW dests, NEW w, w = [i \in DOMAIN dests |-> dests[i].weight]
      PROVE  Rules!FoldFunction(LAMBDA d, sum : d.weight + sum, 0, dests) = Total(w, DOMAIN dests)
  BY <1>3 DEF Rules!FoldFunction, Rules!FoldFunctionOnSet, Rules!MapThenFoldSet, Total, IsSum
<1>4. ASSUME NEW dests, NEW w, w = [i \in DOMAIN dests |-> dests[i].weight]
      PROVE  GivesAll(dests) <=> Total(w, DOMAIN dests) = 100
  BY <1>3, <1>4 DEF GivesAll
<1> QED  BY <1>2, <1>4

-----------------------------------------------------------------------------
(* Routes that select one whole group.                                      *)

\* The places of a route each select another name, and these are the names of the group.
SelectsNames(r, g) ==
    /\ DOMAIN r.config = 1 .. Len(r.config) /\ Len(r.config) \in Nat
    /\ \A i \in DOMAIN r.config : r.config[i].group \in Rules!NamesOf(g)
    /\ \A n \in Rules!NamesOf(g) : \E i \in DOMAIN r.config : r.config[i].group = n
    /\ \A i, j \in DOMAIN r.config : r.config[i].group = r.config[j].group => i = j

\* As many places as names, and every name at one of them.
LEMMA WholeNames ==
    ASSUME tc \in TrafficConfigs, NEW r \in ToSet(tc.routes), NEW g, Rules!SelectsWhole(r, g)
    PROVE  SelectsNames(r, g)
<1> DEFINE n == Len(r.config)
           names == Rules!NamesOf(g)
           named == [i \in DOMAIN r.config |-> r.config[i].group]
<1>1. r.config \in Seq(ToSet(r.config))
  BY TrafficConfigAssumption
<1>2. DOMAIN r.config = 1 .. n /\ n \in Nat
  <2> DEFINE config == r.config
  <2>1. config \in Seq(ToSet(config))
    BY <1>1
  <2> HIDE DEF config
  <2>2. DOMAIN config = 1 .. Len(config) /\ Len(config) \in Nat
    BY <2>1
  <2> QED  BY <2>2 DEF config
<1>3. Rules!ToSet(named) = names /\ Len(named) = Cardinality(names)
  BY DEF Rules!SelectsWhole, Rules!Cardinality, Cardinality
<1>4. DOMAIN named = 1 .. n /\ named = [i \in 1 .. n |-> named[i]]
  BY <1>2
<1>5. \A i \in 1 .. n : named[i] = r.config[i].group
  BY <1>2
<1> HIDE DEF named, names, n
<1>6. Len(named) = n
  BY <1>2, <1>4, IsSequence
<1>7. names = {named[i] : i \in 1 .. n}
  BY <1>3, <1>4 DEF Rules!ToSet
<1>8. named \in Surjection(1 .. n, names)
  BY <1>4, <1>7 DEF Surjection
<1>9. IsFiniteSet(1 .. n) /\ Cardinality(1 .. n) = n
  BY <1>2, FS_Interval
<1>10. named \in Injection(1 .. n, names)
  BY <1>3, <1>6, <1>8, <1>9, FS_Surjection
<1>11. \A i, j \in 1 .. n : named[i] = named[j] => i = j
  BY <1>10 DEF Injection, IsInjective
<1> QED  BY <1>2, <1>5, <1>7, <1>11 DEF SelectsNames, names, n

\* What is dialled for names of the group goes to destinations in full.
LEMMA SplitGivesAll ==
    ASSUME NEW r, NEW g, SelectsNames(r, g), NEW dial, dial \in [DOMAIN dial -> Int],
           DOMAIN dial \subseteq Rules!NamesOf(g), AddsUp(dial)
    PROVE  GivesAll(Rules!Split(r, dial))
<1> DEFINE S == Dialled(r, dial)
           T == DOMAIN dial
           n == Len(r.config)
           dests == Rules!Split(r, dial)
           w == [i \in DOMAIN dests |-> dests[i].weight]
           F == [i \in S |-> r.config[i].group]
<1>1. DOMAIN r.config = 1 .. n /\ n \in Nat
  BY DEF SelectsNames
<1>2. IsFiniteSet(S)
  <2>1. S \in SUBSET (1 .. n)
    BY <1>1 DEF Dialled
  <2>2. IsFiniteSet(1 .. n)
    <3> HIDE DEF n
    <3> QED  BY <1>1, FS_Interval
  <2> QED  BY <2>1, <2>2, FS_Subset
<1>3. /\ DOMAIN dests = S
      /\ \A i \in S : w[i] = dial[F[i]]
  BY DEF Rules!Split, Dialled
<1>4. \A i \in S : F[i] \in T
  BY DEF Dialled
<1>5. ASSUME NEW y \in T  PROVE \E i \in S : F[i] = y
  <2>1. PICK i \in DOMAIN r.config : r.config[i].group = y
    BY DEF SelectsNames
  <2>2. i \in S /\ F[i] = y
    BY <2>1 DEF Dialled
  <2> QED  BY <2>2
<1>6. \A i, j \in S : F[i] = F[j] => i = j
  BY DEF SelectsNames, Dialled
<1>7. IsFiniteSet(T)
  <2>1. F \in Surjection(S, T)
    BY <1>4, <1>5 DEF Surjection
  <2> QED  BY <1>2, <2>1, FS_Surjection
<1>8. \A y \in T : dial[y] \in Int
  OBVIOUS
<1>9. Total(dial, T) = 100
  BY FoldsAreTotals
<1>10. GivesAll(dests) <=> Total(w, S) = 100
  <2>1. w = [i \in DOMAIN dests |-> dests[i].weight]
    OBVIOUS
  <2> HIDE DEF dests, w, S
  <2> QED  BY <1>3, <2>1, FoldsAreTotals
<1> HIDE DEF S, T, F, w, dests
<1>11. \A i \in S : F[i] \in T /\ w[i] = dial[F[i]]
  BY <1>3, <1>4
<1>12. Total(w, S) = Total(dial, T)
  <2>1. \A y \in T : \E i \in S : F[i] = y
    BY <1>5
  <2>2. \A y \in T : dial[y] \in Int
    BY <1>8
  <2>3. \A i, j \in S : F[i] = F[j] => i = j
    BY <1>6
  <2> QED  BY <1>2, <1>7, <1>11, <2>1, <2>2, <2>3, SameTotal
<1> QED  BY <1>9, <1>10, <1>12 DEF dests

\* One destination may have everything, and none has nothing.
LEMMA OneOrNone ==
    /\ \A host : GivesAll(<<[host |-> host, weight |-> 100]>>)
    /\ ~GivesAll(<<>>)
<1>1. ASSUME NEW host  PROVE GivesAll(<<[host |-> host, weight |-> 100]>>)
  <2> DEFINE dests == <<[host |-> host, weight |-> 100]>>
             w == [i \in DOMAIN dests |-> dests[i].weight]
             g == CHOOSE g : IsSum(g, w, {1})
  <2>1. DOMAIN dests = {1} /\ w[1] = 100 /\ \A i \in {1} : w[i] \in Int
    OBVIOUS
  <2>2. GivesAll(dests) <=> Total(w, {1}) = 100
    BY <2>1, FoldsAreTotals
  <2> HIDE DEF w
  <2>3. IsFiniteSet({1})
    BY FS_Singleton
  <2>4. IsSum(g, w, {1})
    BY <2>3, SumExists
  <2> HIDE DEF g
  <2>5. Adds(g, w, {1})
    BY <2>1, <2>3, <2>4, SumInAnyOrder
  <2>6. g[{1}] = w[1] + g[{1} \ {1}] /\ {1} \ {1} = {} /\ g[{}] = 0
    BY <2>5 DEF Adds
  <2>7. g[{1}] = 100
    BY <2>1, <2>6
  <2> QED  BY <2>2, <2>7 DEF Total, g
<1>2. ~GivesAll(<<>>)
  <2> DEFINE dests == <<>>
             w == [i \in DOMAIN dests |-> dests[i].weight]
             g == CHOOSE g : IsSum(g, w, {})
  <2>1. DOMAIN dests = {}
    OBVIOUS
  <2>2. GivesAll(dests) <=> Total(w, {}) = 100
    BY <2>1, FoldsAreTotals
  <2> HIDE DEF w
  <2>3. IsFiniteSet({})
    BY FS_EmptySet
  <2>4. IsSum(g, w, {})
    BY <2>3, SumExists
  <2> HIDE DEF g
  <2>5. Adds(g, w, {})
    BY <2>3, <2>4, SumInAnyOrder
  <2>6. g[{}] = 0
    BY <2>5 DEF Adds
  <2>7. Total(w, {}) = 0
    BY <2>6 DEF Total, g
  <2> QED  BY <2>2, <2>7
<1> QED  BY <1>1, <1>2

\* A target group that is whole, and only it has its names.
WholeGroup(g) ==
    /\ g \in DOMAIN tc.groups
    /\ \A h \in DOMAIN tc.groups \ {g} : Rules!NamesOf(g) \cap Rules!NamesOf(h) = {}
    /\ \A dial \in {tc.groups[g].weights} \cup {tc.groups[g].overrides[a] : a \in Rules!Clients(g)} :
          AddsUp(dial)

\* A route's rules with the weights of the service.
LEMMA ServiceGivesAll ==
    ASSUME tc \in TrafficConfigs, NEW r, NEW g, WholeGroup(g), SelectsNames(r, g)
    PROVE  GivesAll(Rules!ServiceDialRoute(r))
<1> DEFINE weights == tc.groups[g].weights
           details == Rules!ServiceDialDetails
           named(n) == {h \in DOMAIN tc.groups : n \in DOMAIN tc.groups[h].weights}
           all == UNION {DOMAIN tc.groups[h].weights : h \in DOMAIN tc.groups}
<1>1. CASE Len(r.config) = 1 /\ r.config[1].group = NoGroup
  BY <1>1, OneOrNone DEF Rules!ServiceDialRoute
<1>2. CASE ~(Len(r.config) = 1 /\ r.config[1].group = NoGroup)
  <2>1. tc.groups \in Seq(ToSet(tc.groups)) /\ g \in DOMAIN tc.groups
    BY TrafficConfigAssumption DEF WholeGroup
  <2>2. DOMAIN tc.groups = 1 .. Len(tc.groups) /\ Len(tc.groups) \in Nat
    BY <2>1
  <2>3. tc.groups[g] \in ToSet(tc.groups)
    BY <2>1, <2>2 DEF ToSet
  <2>4. weights \in [DOMAIN weights -> Int]
    BY <2>3, TrafficConfigAssumption
  <2>5. DOMAIN weights \subseteq Rules!NamesOf(g)
    BY DEF Rules!NamesOf
  <2>6. GivesAll(Rules!Split(r, weights))
    <3>1. AddsUp(weights)
      BY DEF WholeGroup
    <3> HIDE DEF weights
    <3> QED  BY <2>4, <2>5, <3>1, SplitGivesAll
  <2>7. ASSUME NEW n \in Rules!NamesOf(g)
        PROVE  /\ n \in DOMAIN details <=> n \in DOMAIN weights
               /\ n \in DOMAIN weights => details[n] = weights[n]
    <3>1. \A h \in DOMAIN tc.groups : n \in DOMAIN tc.groups[h].weights => h = g
      BY DEF WholeGroup, Rules!NamesOf
    <3>2. details = [m \in all |-> tc.groups[Rules!Max(named(m))].weights[m]]
      BY DEF Rules!ServiceDialDetails
    <3>3. n \in all <=> n \in DOMAIN weights
      BY <2>1, <3>1
    <3>4. ASSUME n \in DOMAIN weights  PROVE details[n] = weights[n]
      <4>1. named(n) = {g}
        BY <2>1, <3>1, <3>4
      <4>2. {g} \in SUBSET (1 .. Len(tc.groups))
        BY <2>1, <2>2
      <4>3. Rules!Max({g}) = g
        BY <2>2, <4>2, GreatestNumber
      <4>4. n \in all
        BY <3>3, <3>4
      <4> HIDE DEF named, all, details
      <4>5. details[n] = tc.groups[Rules!Max(named(n))].weights[n]
        BY <3>2, <4>4
      <4> QED  BY <4>1, <4>3, <4>5
    <3> HIDE DEF all, details
    <3>5. DOMAIN details = all
      BY <3>2
    <3> QED  BY <3>3, <3>4, <3>5
  <2>8. \A i \in DOMAIN r.config : r.config[i].group \in Rules!NamesOf(g)
    BY DEF SelectsNames
  <2> HIDE DEF details, weights
  <2>9. Dialled(r, details) = Dialled(r, weights)
    BY <2>7, <2>8 DEF Dialled
  <2>10. \A i \in Dialled(r, weights) : details[r.config[i].group] = weights[r.config[i].group]
    BY <2>7, <2>8 DEF Dialled
  <2>11. Rules!Split(r, details) = Rules!Split(r, weights)
    <3>1. \A dial : Rules!Split(r, dial) = [i \in Dialled(r, dial) |->
              [host |-> Rules!MeshDNS(r, r.config[i]), weight |-> dial[r.config[i].group]]]
      BY DEF Rules!Split, Dialled
    <3> QED  BY <2>9, <2>10, <3>1
  <2>12. Rules!ServiceDialRoute(r) = Rules!Split(r, details)
    BY <1>2 DEF Rules!ServiceDialRoute, details
  <2> QED  BY <2>6, <2>11, <2>12
<1> QED  BY <1>1, <1>2

\* A route's rules with the weights of one client.
LEMMA OverrideGivesAll ==
    ASSUME tc \in TrafficConfigs, NEW r, NEW g, WholeGroup(g), SelectsNames(r, g),
           NEW c \in DOMAIN Rules!AppDialing(r)
    PROVE  GivesAll(Rules!Split(r, Rules!AppDialing(r)[c]))
<1> DEFINE groups == {h \in DOMAIN tc.groups : Rules!Clients(h) # {} /\ Rules!Selects(r, h)}
           overrides == tc.groups[g].overrides
           dial == overrides[c]
<1>1. groups \subseteq {g}
  BY DEF WholeGroup, SelectsNames, Rules!Selects
<1>2. groups # {}
  <2> SUFFICES ASSUME groups = {}  PROVE FALSE
    OBVIOUS
  <2>1. Rules!AppDialing(r) = <<>>
    BY DEF Rules!AppDialing
  <2> QED  BY <2>1
<1>3. Rules!AppDialing(r) = overrides
  <2>1. groups = {g}
    BY <1>1, <1>2
  <2> QED  BY <2>1, OneOverrides
<1>4. c \in DOMAIN overrides /\ c \in Rules!Clients(g)
  BY <1>3 DEF Rules!Clients
<1>5. tc.groups \in Seq(ToSet(tc.groups)) /\ g \in DOMAIN tc.groups
  BY TrafficConfigAssumption DEF WholeGroup
<1>6. tc.groups[g] \in ToSet(tc.groups)
  <2> DEFINE list == tc.groups
  <2>1. list \in Seq(ToSet(list)) /\ g \in DOMAIN list
    BY <1>5
  <2> HIDE DEF list
  <2>2. list[g] \in ToSet(list)
    BY <2>1 DEF ToSet
  <2> QED  BY <2>2 DEF list
<1>7. dial \in [DOMAIN dial -> Int]
  BY <1>4, <1>6, TrafficConfigAssumption
<1>8. DOMAIN dial \subseteq Rules!NamesOf(g)
  BY <1>4 DEF Rules!NamesOf
<1>9. AddsUp(dial)
  BY <1>4 DEF WholeGroup
<1> HIDE DEF dial
<1>10. GivesAll(Rules!Split(r, dial))
  BY <1>7, <1>8, <1>9, SplitGivesAll
<1> QED  BY <1>3, <1>10 DEF dial

\* Each rule of a route that selects one whole group gives all of its traffic away.
LEMMA AddedGiveAll ==
    ASSUME tc \in TrafficConfigs, Rules!HasTargetDetails, NEW k \in 1 .. Len(tc.routes),
           NEW b \in Added(k), NEW g, WholeGroup(g), SelectsNames(tc.routes[k], g),
           NEW i \in 1 .. Len(b)
    PROVE  GivesAll(b[i].dests)
<1> DEFINE r == tc.routes[k]
           more == Rules!ServiceDialRule(r)
           rule == Rules!RuleOf(r, Rules!ServiceDialRoute(r))
<1>1. PICK a \in Rules!AppDialRules(r) :
          b = IF a \o more = <<>> THEN Rules!RulesWhenConfigEmpty(r) ELSE a \o more
  BY DEF Added, Rules!RulesWithTargetDetails
<1>2. GivesAll(Rules!ServiceDialRoute(r))
  BY ServiceGivesAll
<1>3. more = <<rule>>
  BY <1>2, OneOrNone DEF Rules!ServiceDialRule
<1>4. /\ RulesOf(r, a)
      /\ \A j \in 1 .. Len(a) : \E c \in DOMAIN Rules!AppDialing(r) :
            a[j] = Rules!RuleOf(r, Rules!Split(r, Rules!AppDialing(r)[c]))
  BY AppDialing
<1>5. RulesOf(r, more)
  BY ServiceDial
<1>6. SelectsNames(r, g)
  OBVIOUS
<1>7. rule.dests = Rules!ServiceDialRoute(r)
  BY DEF Rules!RuleOf
<1> HIDE DEF r, rule
<1>8. /\ a \in Seq(ToSet(a)) /\ <<rule>> \in Seq(ToSet(<<rule>>)) /\ Len(<<rule>>) = 1
  BY <1>3, <1>4, <1>5 DEF RulesOf
<1> HIDE DEF more
<1>9. /\ Len(a) \in Nat /\ Len(more) = 1 /\ Len(a \o more) = Len(a) + 1
      /\ \A j \in 1 .. Len(a) : (a \o more)[j] = a[j]
      /\ (a \o more)[Len(a) + 1] = rule
  <2>1. /\ Len(a) \in Nat /\ Len(a \o <<rule>>) = Len(a) + Len(<<rule>>)
        /\ \A j \in 1 .. Len(a) : (a \o <<rule>>)[j] = a[j]
        /\ \A j \in 1 .. Len(<<rule>>) : (a \o <<rule>>)[Len(a) + j] = <<rule>>[j]
    BY <1>8, Joined
  <2>2. <<rule>>[1] = rule /\ 1 \in 1 .. Len(<<rule>>)
    BY <1>8
  <2> QED  BY <1>3, <1>8, <2>1, <2>2
<1>10. a \o more # <<>>
  BY <1>9
<1>11. b = a \o more
  BY <1>1, <1>10
<1>12. CASE i <= Len(a)
  <2>1. i \in 1 .. Len(a) /\ b[i] = a[i]
    BY <1>9, <1>11, <1>12
  <2>2. PICK c \in DOMAIN Rules!AppDialing(r) :
            a[i] = Rules!RuleOf(r, Rules!Split(r, Rules!AppDialing(r)[c]))
    BY <1>4, <2>1
  <2>3. b[i].dests = Rules!Split(r, Rules!AppDialing(r)[c])
    BY <2>1, <2>2 DEF Rules!RuleOf
  <2> QED  BY <1>6, <2>3, OverrideGivesAll
<1>13. CASE ~(i <= Len(a))
  <2>1. i = Len(a) + 1
    BY <1>9, <1>11, <1>13
  <2> QED  BY <1>2, <1>7, <1>9, <1>11, <2>1
<1> QED  BY <1>12, <1>13

\* A route that selects one whole group splits all of its traffic, in each of its rules.
THEOREM SplitsAreWhole == BothSpec => []SplitIsWhole
<1>1. RulesInv => SplitIsWhole
  <2> SUFFICES ASSUME RulesInv, Rules!Written, Rules!HasTargetDetails,
                      NEW r \in ToSet(tc.routes), NEW i \in DOMAIN vs, vs[i].route = r.name,
                      NEW g \in DOMAIN tc.groups, Rules!IsWhole(g), Rules!SelectsWhole(r, g)
               PROVE  GivesAll(vs[i].dests)
    <3>1. Rules!ToSet(tc.routes) = ToSet(tc.routes)
      BY DEF ToSet, Rules!ToSet
    <3>2. SplitIsWhole <=>
              (Rules!Written /\ Rules!HasTargetDetails =>
                  \A r \in Rules!ToSet(tc.routes) : \A i \in DOMAIN vs :
                      /\ vs[i].route = r.name
                      /\ \E g \in DOMAIN tc.groups : Rules!IsWhole(g) /\ Rules!SelectsWhole(r, g)
                      => GivesAll(vs[i].dests))
      BY Zenon DEF SplitIsWhole, Rules!SplitIsWhole, GivesAll
    <3> QED  BY <3>1, <3>2
  <2> DEFINE N == Len(tc.routes)
  <2>1. tc \in TrafficConfigs /\ Whole(vs)
    BY DEF RulesInv, Rules!Written
  <2>2. PICK list : BuiltFrom(list, N) /\ vs = list \o Rules!AllowAllRules(list)
    BY <2>1 DEF Whole
  <2>3. PICK cut : Cut(list, N, cut)
    BY <2>2 DEF BuiltFrom
  <2>4. WholeGroup(g) /\ SelectsNames(r, g)
    <3>1. WholeGroup(g)
      BY DEF WholeGroup, Rules!IsWhole, AddsUp
    <3> QED  BY <2>1, <3>1, WholeNames
  <2> DEFINE all == Rules!AllowAllRules(list)
             L == Len(list)
  <2>5. all \in Seq(ToSet(all)) /\ \A j \in 1 .. Len(all) : all[j].route = NoRoute
    BY <2>1, ForAllRequests
  <2>6. /\ list \in Seq(ToSet(list)) /\ L \in Nat
        /\ N \in Nat /\ DOMAIN tc.routes = 1 .. N
    <3>1. tc.routes \in Seq(ToSet(tc.routes))
      BY <2>1, TrafficConfigAssumption
    <3> QED  BY <2>2, <3>1 DEF BuiltFrom
  <2> HIDE DEF all
  <2>7. /\ vs \in Seq(ToSet(vs)) /\ Len(all) \in Nat /\ Len(vs) = L + Len(all)
        /\ \A j \in 1 .. L : vs[j] = list[j]
        /\ \A j \in 1 .. Len(all) : vs[L + j] = all[j]
    BY <2>2, <2>5, <2>6, Joined DEF all
  <2>8. PICK h \in 1 .. N : r = tc.routes[h]
    BY <2>6 DEF ToSet
  <2>9. r.name # NoRoute
    BY <2>1, <2>8, RouteParts
  <2>10. i \in 1 .. L
    <3> SUFFICES ASSUME i \notin 1 .. L  PROVE FALSE
      OBVIOUS
    <3>1. DOMAIN vs = 1 .. L + Len(all)
      BY <2>7
    <3>2. i - L \in 1 .. Len(all) /\ L + (i - L) = i
      BY <2>6, <2>7, <3>1
    <3> QED  BY <2>5, <2>7, <2>9, <3>2
  <2>11. PICK k \in 1 .. N : \E b \in Added(k) : Place(list, cut, i, k, b)
    <3>1. N \in 0 .. N
      BY <2>6
    <3> QED  BY <2>1, <2>3, <2>6, <2>10, <3>1, RuleAt
  <2>12. PICK b \in Added(k) : Place(list, cut, i, k, b)
    BY <2>11
  <2>13. k = h
    <3>1. vs[i].route = tc.routes[k].name
      BY <2>7, <2>10, <2>12 DEF Place, Rules!RuleOf
    <3> QED  BY <2>1, <2>6, <2>8, <3>1, TrafficConfigAssumption
  <2> DEFINE j == i - cut[k - 1]
  <2>14. j \in 1 .. Len(b) /\ vs[i] = b[j]
    BY <2>7, <2>10, <2>12 DEF Place
  <2> HIDE DEF j
  <2>15. SelectsNames(tc.routes[k], g) /\ k \in 1 .. Len(tc.routes)
    BY <2>4, <2>8, <2>13
  <2>16. GivesAll(b[j].dests)
    BY <2>1, <2>4, <2>14, <2>15, AddedGiveAll
  <2> QED  BY <2>14, <2>16
<1> QED  BY <1>1, RulesInvariance, PTL
=============================================================================
