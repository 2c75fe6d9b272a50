------------------------- MODULE TrafficConfigsProofs -------------------------
(***************************************************************************)
(* For any number of identities, clusters and handlers at work: virtual    *)
(* services are only written where clients of the service are, a handler   *)
(* leaves its revision in every cluster it looked up, and that of the      *)
(* traffic config's own worker replaces no later one.  A handler looks up  *)
(* clients and clusters step by step while the caches change: for the      *)
(* first it is enough that clients are never taken out of the cache and    *)
(* that what a handler holds was true once.                                *)
(***************************************************************************)
EXTENDS TrafficConfigs, TLAPS

MaybeIdentity == Identities \cup {NoIdentity}
Triggers == {"trigger", "dependents", "rest"}

Jobs ==
    [phase : {"idle"} \cup Handling \cup Triggers, next : {"idle", "dependents", "rest"},
     pending : SUBSET Identities, of : MaybeIdentity, rest : SUBSET Identities,
     tc : MaybeIdentity, rev : Nat, source : MaybeIdentity, deps : SUBSET Identities,
     targets : SUBSET Clusters, cluster : Clusters \cup {NoCluster},
     seen : {"absent", "present", "outdated"}, versioned : BOOLEAN,
     owed : SUBSET Clusters, refused : SUBSET Clusters]

TypeOK ==
    /\ current \in [Identities -> Nat]
    /\ cached \in [Identities -> Nat]
    /\ destinations \in [Identities -> SUBSET Identities]
    /\ dependents \in [Identities -> SUBSET Identities]
    /\ home \in [Identities -> SUBSET Clusters]
    /\ everHome \in [Identities -> SUBSET Clusters]
    /\ job \in [Workers -> Jobs]
    /\ vs \in [Identities -> [Clusters -> Nat]]

\* With clients D and clusters H a client of i has been in c.
Served(i, c, D, H) == \E d \in D[i] : c \in H[d]

\* A handler that looks up clusters has found true clients, one that writes true
\* clusters, and any other has none of both.
JobOK(j, D, H) ==
    /\ j.phase \in {"dependents", "rest"} \/ j.next \in {"dependents", "rest"} =>
           j.of \in Identities
    /\ j.phase \in Handling => j.tc \in Identities
    /\ j.phase \notin Handling => j.next = "idle"
    /\ j.phase = "clusters" => j.deps \subseteq D[j.tc]
    /\ j.phase # "clusters" => j.deps = {}
    /\ j.phase \in {"clusters", "apply", "write"} => \A c \in j.targets : Served(j.tc, c, D, H)
    /\ j.phase \notin {"clusters", "apply", "write"} => j.targets = {}
    /\ j.phase = "write" => j.cluster \in Clusters /\ Served(j.tc, j.cluster, D, H)

IInv ==
    /\ TypeOK
    /\ \A i \in Identities : home[i] \subseteq everHome[i]
    /\ \A w \in Workers : JobOK(job[w], dependents, everHome)
    /\ OnlyWhereClientsAre

\* With virtual services v, each cluster a handler owes its revision to is still
\* to come, is at hand as the handler read it, or has the revision.
JobApplies(j, v) ==
    /\ j.phase \in {"apply", "write"} =>
           \A c \in j.owed \ j.refused :
              c \in j.targets \/ (j.phase = "write" /\ c = j.cluster) \/ v[j.tc][c] = j.rev
    /\ j.phase = "write" =>
           (j.cluster \in j.owed \ j.refused =>
               j.seen = "present" \/ (j.seen = "absent" /\ v[j.tc][j.cluster] = None))

\* With current revisions C and those in R without routes, HasRoutes.
Routes(j, C, R) == <<j.tc, IF j.rev = None THEN C[j.tc] ELSE j.rev>> \notin R

\* With current revisions C, worker w applies no later one, and removes none unless
\* it is the traffic config's own, which applies the current one otherwise.  What a
\* job owes is still to come until it has looked up all clusters.
JobRev(w, j, C) ==
    /\ j.phase \in Handling => /\ j.rev <= C[j.tc]
                               /\ IF w = "trafficconfig" THEN j.rev \in {None, C[j.tc]}
                                  ELSE j.rev # None
    /\ j.phase \notin {"clusters", "apply", "write"} => j.owed = {}
    /\ j.phase = "clusters" => j.owed \subseteq j.targets
    /\ j.phase = "write" => j.rev # None /\ j.cluster \notin j.targets

AppliedInv ==
    /\ \A i \in Identities : cached[i] <= current[i] /\ \A c \in Clusters : vs[i][c] <= current[i]
    /\ \A w \in Workers : /\ Routes(job[w], current, routeless) => JobApplies(job[w], vs)
                          /\ JobRev(w, job[w], current)

-----------------------------------------------------------------------------

\* What was true once of clients and clusters stays true as they only grow.
LEMMA JobOKGrows ==
  ASSUME NEW D \in [Identities -> SUBSET Identities], NEW E \in [Identities -> SUBSET Identities],
         NEW G \in [Identities -> SUBSET Clusters], NEW H \in [Identities -> SUBSET Clusters],
         \A i \in Identities : D[i] \subseteq E[i] /\ G[i] \subseteq H[i],
         NEW j \in Jobs, JobOK(j, D, G)
  PROVE  JobOK(j, E, H)
<1>1. ASSUME NEW i \in Identities, NEW c, Served(i, c, D, G)
      PROVE  Served(i, c, E, H)
  BY <1>1 DEF Served
<1>2. /\ j.phase \in Handling => j.tc \in Identities
      /\ j.phase \in {"clusters", "apply", "write"} => j.phase \in Handling
  BY DEF JobOK, Handling
<1>3. j.phase \in {"clusters", "apply", "write"} => \A c \in j.targets : Served(j.tc, c, E, H)
  BY <1>1, <1>2 DEF JobOK
<1>4. j.phase = "write" => j.cluster \in Clusters /\ Served(j.tc, j.cluster, E, H)
  BY <1>1, <1>2 DEF JobOK
<1>5. j.phase = "clusters" => j.deps \subseteq E[j.tc]
  BY <1>2 DEF JobOK
<1>6. QED
  BY <1>3, <1>4, <1>5 DEF JobOK

\* To preserve the invariant a step may add clients and clusters, do as it likes
\* with jobs that are fine, and write where clients have been.
LEMMA Preserves ==
  ASSUME IInv, TypeOK',
         \A i \in Identities : /\ dependents[i] \subseteq dependents'[i]
                               /\ everHome[i] \subseteq everHome'[i]
                               /\ home'[i] \subseteq everHome'[i],
         \A w \in Workers : job'[w] = job[w] \/ JobOK(job'[w], dependents', everHome'),
         \A i \in Identities, c \in Clusters :
            \/ vs'[i][c] \in {vs[i][c], None}
            \/ Served(i, c, dependents', everHome')
  PROVE  IInv'
<1>1. /\ dependents \in [Identities -> SUBSET Identities]
      /\ dependents' \in [Identities -> SUBSET Identities]
      /\ everHome \in [Identities -> SUBSET Clusters]
      /\ everHome' \in [Identities -> SUBSET Clusters]
      /\ job \in [Workers -> Jobs]
  BY DEF IInv, TypeOK
<1>2. ASSUME NEW w \in Workers PROVE JobOK(job'[w], dependents', everHome')
  <2>1. JobOK(job[w], dependents', everHome')
    BY <1>1, JobOKGrows DEF IInv
  <2>2. QED
    BY <2>1
<1>3. OnlyWhereClientsAre'
  <2>1. SUFFICES ASSUME NEW i \in Identities, NEW c \in Clusters, vs'[i][c] # None
                 PROVE  Served(i, c, dependents', everHome')
    BY DEF OnlyWhereClientsAre, Served
  <2>2. CASE vs'[i][c] = vs[i][c]
    <3>1. \E d \in dependents[i] : c \in everHome[d]
      BY <2>1, <2>2 DEF IInv, OnlyWhereClientsAre
    <3>2. QED
      BY <1>1, <3>1 DEF Served
  <2>3. QED
    BY <2>1, <2>2
<1>4. QED
  BY <1>2, <1>3 DEF IInv

\* A step that only moves a job on preserves the invariant if the job is fine.
LEMMA JobStep ==
  ASSUME IInv, NEW w \in Workers, NEW j \in Jobs, JobOK(j, dependents, everHome),
         Goes(w, j), UNCHANGED <<caches, informed, vs, everHome>>
  PROVE  IInv'
<1>1. TypeOK'
  BY DEF IInv, TypeOK, Goes, caches, informed
<1>2. /\ UNCHANGED <<dependents, home, everHome, vs>>
      /\ \A v \in Workers : job'[v] = IF v = w THEN j ELSE job[v]
  BY DEF IInv, TypeOK, Goes, caches
<1>3. QED
  BY <1>1, <1>2, Preserves DEF IInv

\* Types and invariant of a job at hand.
LEMMA JobFacts ==
  ASSUME IInv, NEW w \in Workers
  PROVE  job[w] \in Jobs /\ JobOK(job[w], dependents, everHome)
  BY DEF IInv, TypeOK

\* The invariant holds initially.
LEMMA InitIInv == Init => IInv
<1>1. SUFFICES ASSUME Init PROVE IInv
  OBVIOUS
<1>2. Idle \in Jobs /\ JobOK(Idle, dependents, everHome)
  BY DEF Idle, Jobs, JobOK, MaybeIdentity, Handling, Triggers, None
<1>3. TypeOK
  <2>1. job \in [Workers -> Jobs]
    BY <1>1, <1>2 DEF Init
  <2>2. vs \in [Identities -> [Clusters -> Nat]]
    BY <1>1 DEF Init, None
  <2>3. /\ current \in [Identities -> Nat] /\ cached \in [Identities -> Nat]
        /\ destinations \in [Identities -> SUBSET Identities]
        /\ dependents \in [Identities -> SUBSET Identities]
        /\ home \in [Identities -> SUBSET Clusters]
        /\ everHome \in [Identities -> SUBSET Clusters]
    BY <1>1 DEF Init, None
  <2>4. QED
    BY <2>1, <2>2, <2>3 DEF TypeOK
<1>4. OnlyWhereClientsAre
  BY <1>1 DEF Init, OnlyWhereClientsAre
<1>5. \A w \in Workers : JobOK(job[w], dependents, everHome)
  BY <1>1, <1>2 DEF Init
<1>6. \A i \in Identities : home[i] \subseteq everHome[i]
  BY <1>1 DEF Init
<1>7. QED
  BY <1>3, <1>4, <1>5, <1>6 DEF IInv

-----------------------------------------------------------------------------
(* Triggers.                                                                *)

\* To begin with a traffic config is fine for a job that holds nothing.
LEMMA ApplyingOK ==
  ASSUME NEW j \in Jobs, NEW i \in Identities, NEW r \in Nat, NEW s \in MaybeIdentity,
         NEW next \in {"idle", "dependents", "rest"}, next # "idle" => j.of \in Identities,
         j.deps = {}, j.targets = {}, NEW D, NEW H
  PROVE  /\ Applying(j, i, r, s, next) \in Jobs
         /\ JobOK(Applying(j, i, r, s, next), D, H)
<1>1. Applying(j, i, r, s, next) \in Jobs
  BY DEF Applying, Jobs, MaybeIdentity, Handling
<1>2. /\ Applying(j, i, r, s, next).phase = "lookup"
      /\ Applying(j, i, r, s, next).next = next
      /\ Applying(j, i, r, s, next).of = j.of
      /\ Applying(j, i, r, s, next).tc = i
      /\ Applying(j, i, r, s, next).deps = {}
      /\ Applying(j, i, r, s, next).targets = {}
  BY DEF Applying, Jobs
<1>3. QED
  BY <1>1, <1>2 DEF JobOK, Handling

\* So is to trigger others.
LEMMA TriggeringOK ==
  ASSUME NEW j \in Jobs, NEW I \in SUBSET Identities,
         j.next = "idle", j.deps = {}, j.targets = {}, NEW D, NEW H
  PROVE  Triggering(j, I) \in Jobs /\ JobOK(Triggering(j, I), D, H)
<1>1. Triggering(j, I) \in Jobs
  BY DEF Triggering, Jobs, Triggers
<1>2. /\ Triggering(j, I).phase \in {"idle", "trigger"}
      /\ Triggering(j, I).next = "idle"
      /\ Triggering(j, I).deps = {}
      /\ Triggering(j, I).targets = {}
  BY DEF Triggering, Jobs
<1>3. QED
  BY <1>1, <1>2 DEF JobOK, Handling

\* The steps of a trigger preserve the invariant.
LEMMA TriggerSteps ==
  ASSUME IInv, NEW w \in Workers,
         TriggerSelf(w) \/ TriggerDependents(w) \/ TriggerDependent(w) \/ Triggered(w)
  PROVE  IInv'
<1> USE JobFacts
<1>a. Quiet
  BY DEF TriggerSelf, TriggerDependents, TriggerDependent, Triggered
<1>b. cached \in [Identities -> Nat] /\ dependents \in [Identities -> SUBSET Identities]
  BY DEF IInv, TypeOK
<1>1. CASE TriggerSelf(w)
  <2>1. PICK i \in job[w].pending :
           LET j == [job[w] EXCEPT !.pending = @ \ {i}, !.of = i, !.phase = "dependents"]
           IN  Goes(w, IF GetTrafficConfig(i) = None THEN j
                       ELSE Applying(j, i, GetTrafficConfig(i), NoIdentity, "dependents"))
    BY <1>1 DEF TriggerSelf
  <2> DEFINE j == [job[w] EXCEPT !.pending = @ \ {i}, !.of = i, !.phase = "dependents"]
  <2>2. i \in Identities /\ job[w].phase = "trigger"
    BY <1>1 DEF TriggerSelf, Jobs
  <2>3. j \in Jobs
    BY <2>2 DEF Jobs, Triggers, MaybeIdentity
  <2>4. /\ j.phase = "dependents" /\ j.of = i
        /\ j.next = "idle" /\ j.deps = {} /\ j.targets = {}
    BY <2>2 DEF Jobs, JobOK, Handling
  <2>5. JobOK(j, dependents, everHome)
    <3> HIDE DEF j
    <3>1. QED
      BY <2>2, <2>4 DEF JobOK, Handling
  <2>6. /\ Applying(j, i, cached[i], NoIdentity, "dependents") \in Jobs
        /\ JobOK(Applying(j, i, cached[i], NoIdentity, "dependents"), dependents, everHome)
    <3> HIDE DEF j
    <3>1. cached[i] \in Nat /\ NoIdentity \in MaybeIdentity
      BY <1>b, <2>2 DEF MaybeIdentity
    <3>2. QED
      BY <2>2, <2>3, <2>4, <3>1, ApplyingOK
  <2> HIDE DEF j
  <2>7. \E k \in {j, Applying(j, i, cached[i], NoIdentity, "dependents")} : Goes(w, k)
    BY <2>1 DEF GetTrafficConfig, j
  <2>8. QED
    BY <1>a, <2>3, <2>5, <2>6, <2>7, JobStep DEF Quiet
<1>2. CASE TriggerDependents(w)
  <2> DEFINE j == [job[w] EXCEPT !.phase = "rest", !.rest = dependents[job[w].of]]
  <2>1. job[w].phase = "dependents" /\ job[w].of \in Identities
    BY <1>2 DEF TriggerDependents, JobOK
  <2>2. j \in Jobs
    BY <1>b, <2>1 DEF Jobs, Triggers
  <2>3. JobOK(j, dependents, everHome)
    BY <2>1 DEF Jobs, JobOK, Handling
  <2>4. Goes(w, j)
    BY <1>2 DEF TriggerDependents, GetDependentsForIdentity
  <2>5. QED
    BY <1>a, <2>2, <2>3, <2>4, JobStep DEF Quiet
<1>3. CASE TriggerDependent(w)
  <2>1. PICK d \in job[w].rest :
           LET j == [job[w] EXCEPT !.rest = @ \ {d}]
           IN  Goes(w, IF GetTrafficConfig(d) = None THEN j
                       ELSE Applying(j, d, GetTrafficConfig(d), job[w].of, "rest"))
    BY <1>3 DEF TriggerDependent
  <2> DEFINE j == [job[w] EXCEPT !.rest = @ \ {d}]
  <2>2. d \in Identities /\ job[w].phase = "rest" /\ job[w].of \in Identities
    BY <1>3 DEF TriggerDependent, Jobs, JobOK
  <2>3. j \in Jobs
    BY <2>2 DEF Jobs
  <2>4. /\ j.phase = "rest" /\ j.of = job[w].of
        /\ j.next = "idle" /\ j.deps = {} /\ j.targets = {}
    BY <2>2 DEF Jobs, JobOK, Handling
  <2>5. JobOK(j, dependents, everHome)
    <3> HIDE DEF j
    <3>1. QED
      BY <2>2, <2>4 DEF JobOK, Handling
  <2>6. /\ Applying(j, d, cached[d], job[w].of, "rest") \in Jobs
        /\ JobOK(Applying(j, d, cached[d], job[w].of, "rest"), dependents, everHome)
    <3> HIDE DEF j
    <3>1. cached[d] \in Nat /\ job[w].of \in MaybeIdentity
      BY <1>b, <2>2 DEF MaybeIdentity
    <3>2. QED
      BY <2>2, <2>3, <2>4, <3>1, ApplyingOK
  <2> HIDE DEF j
  <2>7. \E k \in {j, Applying(j, d, cached[d], job[w].of, "rest")} : Goes(w, k)
    BY <2>1 DEF GetTrafficConfig, j
  <2>8. QED
    BY <1>a, <2>3, <2>5, <2>6, <2>7, JobStep DEF Quiet
<1>4. CASE Triggered(w)
  <2> DEFINE j == [job[w] EXCEPT !.of = NoIdentity]
  <2>1. j \in Jobs /\ job[w].pending \in SUBSET Identities
    BY DEF Jobs, MaybeIdentity
  <2>2. j.next = "idle" /\ j.deps = {} /\ j.targets = {}
    BY <1>4 DEF Triggered, Jobs, JobOK, Handling
  <2>3. Goes(w, Triggering(j, job[w].pending))
    BY <1>4 DEF Triggered
  <2> HIDE DEF j
  <2>4. QED
    BY <1>a, <2>1, <2>2, <2>3, TriggeringOK, JobStep DEF Quiet
<1>5. QED
  BY <1>1, <1>2, <1>3, <1>4

-----------------------------------------------------------------------------
(* Handlers.                                                                *)

\* The job k goes on where j was, with clusters that are still to come.
GoesOn(k, j) ==
    /\ k \in Jobs /\ k.phase = "apply"
    /\ k.next = j.next /\ k.of = j.of /\ k.tc = j.tc /\ k.deps = j.deps
    /\ k.targets \subseteq j.targets

\* A handler that goes on is fine.
LEMMA ContinueOK ==
  ASSUME NEW j \in Jobs, NEW k, NEW D, NEW H, JobOK(j, D, H),
         j.phase \in {"apply", "write"}, GoesOn(k, j)
  PROVE  JobOK(k, D, H)
  BY DEF GoesOn, JobOK, Handling

\* A job that has read a virtual service, or failed to.
LEMMA WritingJob ==
  ASSUME NEW j \in Jobs, NEW c \in Clusters, NEW s \in {"absent", "present"}
  PROVE  /\ [j EXCEPT !.phase = "write", !.targets = @ \ {c}, !.cluster = c, !.seen = s] \in Jobs
         /\ [j EXCEPT !.phase = "write", !.targets = @ \ {c}, !.cluster = c, !.seen = s,
                      !.owed = @ \ {c}] \in Jobs
<1>1. [j EXCEPT !.phase = "write", !.targets = @ \ {c}, !.cluster = c, !.seen = s] \in Jobs
  BY DEF Jobs, Handling
<1>2. [j EXCEPT !.phase = "write", !.targets = @ \ {c}, !.cluster = c, !.seen = s,
                !.owed = @ \ {c}] \in Jobs
  BY DEF Jobs, Handling
<1>3. QED
  BY <1>1, <1>2

\* What a call of an API leaves of a job: one lemma for each field it changes.
LEMMA OverGoesOn ==
  ASSUME NEW j \in Jobs PROVE GoesOn(Over(j), j)
<1>1. Over(j) \in Jobs
  BY DEF Over, Jobs, Handling
<1>2. QED
  BY <1>1 DEF GoesOn, Over, Jobs

\* A cluster less to come.
LEMMA TargetsGoesOn ==
  ASSUME NEW j \in Jobs, j.phase = "apply", NEW c PROVE GoesOn([j EXCEPT !.targets = @ \ {c}], j)
<1>1. [j EXCEPT !.targets = @ \ {c}] \in Jobs
  BY DEF Jobs
<1>2. QED
  BY <1>1 DEF GoesOn, Jobs

\* A resource version kept.
LEMMA VersionedGoesOn ==
  ASSUME NEW j, NEW k, GoesOn(k, j) PROVE GoesOn([k EXCEPT !.versioned = TRUE], j)
<1>1. [k EXCEPT !.versioned = TRUE] \in Jobs
  BY DEF GoesOn, Jobs
<1>2. QED
  BY <1>1 DEF GoesOn, Jobs

\* A cluster less to be owed to.
LEMMA OwedGoesOn ==
  ASSUME NEW j, NEW k, GoesOn(k, j), NEW c PROVE GoesOn([k EXCEPT !.owed = @ \ {c}], j)
<1>1. [k EXCEPT !.owed = @ \ {c}] \in Jobs
  BY DEF GoesOn, Jobs
<1>2. QED
  BY <1>1 DEF GoesOn, Jobs

\* A cluster that refused.
LEMMA RefusedGoesOn ==
  ASSUME NEW j, NEW k, GoesOn(k, j), NEW c \in Clusters
  PROVE  GoesOn([k EXCEPT !.refused = @ \cup {c}], j)
<1>1. [k EXCEPT !.refused = @ \cup {c}] \in Jobs
  BY DEF GoesOn, Jobs
<1>2. QED
  BY <1>1 DEF GoesOn, Jobs

\* What others write does not matter for the clients and clusters of a job.
LEMMA DisturbedOK ==
  ASSUME NEW j \in Jobs, NEW D, NEW H, JobOK(j, D, H), NEW i, NEW c
  PROVE  Disturbed(j, i, c) \in Jobs /\ JobOK(Disturbed(j, i, c), D, H)
<1>1. Disturbed(j, i, c) \in Jobs
  BY DEF Disturbed, Jobs
<1>2. /\ Disturbed(j, i, c).phase = j.phase /\ Disturbed(j, i, c).next = j.next
      /\ Disturbed(j, i, c).of = j.of /\ Disturbed(j, i, c).tc = j.tc
      /\ Disturbed(j, i, c).deps = j.deps /\ Disturbed(j, i, c).targets = j.targets
      /\ Disturbed(j, i, c).cluster = j.cluster
  BY DEF Disturbed, Jobs
<1>3. QED
  BY <1>1, <1>2 DEF JobOK

\* To write where clients have been preserves the invariant.
LEMMA StoreStep ==
  ASSUME IInv, NEW w \in Workers, NEW c \in Clusters, NEW r \in Nat,
         NEW mine \in Jobs, JobOK(mine, dependents, everHome),
         job[w].tc \in Identities,
         r # None => Served(job[w].tc, c, dependents, everHome),
         Store(w, c, r, mine), UNCHANGED <<caches, informed, everHome>>
  PROVE  IInv'
<1> DEFINE i == job[w].tc
<1>1. /\ vs' = [vs EXCEPT ![i][c] = r]
      /\ job' = [v \in Workers |-> IF v = w THEN mine ELSE Disturbed(job[v], i, c)]
  BY DEF Store
<1>2. \A v \in Workers : job'[v] \in Jobs /\ JobOK(job'[v], dependents, everHome)
  BY <1>1, JobFacts, DisturbedOK
<1>3. vs' \in [Identities -> [Clusters -> Nat]]
  BY <1>1 DEF IInv, TypeOK
<1>4. \A h \in Identities, d \in Clusters :
         vs'[h][d] = vs[h][d] \/ (h = i /\ d = c /\ vs'[h][d] = r)
  <2> TAKE h \in Identities, d \in Clusters
  <2>1. vs \in [Identities -> [Clusters -> Nat]] /\ vs[i] \in [Clusters -> Nat]
    BY DEF IInv, TypeOK
  <2>2. vs'[h] = IF h = i THEN [vs[i] EXCEPT ![c] = r] ELSE vs[h]
    BY <1>1, <2>1
  <2>3. CASE h = i
    <3>1. vs'[h] = [vs[i] EXCEPT ![c] = r]
      BY <2>2, <2>3
    <3> HIDE DEF i
    <3>2. vs'[h][d] = IF d = c THEN r ELSE vs[i][d]
      BY <2>1, <3>1
    <3>3. QED
      BY <2>3, <3>2
  <2>4. QED
    BY <2>2, <2>3
<1>5. job' \in [Workers -> Jobs]
  BY <1>1, <1>2
<1>6. TypeOK' /\ UNCHANGED <<dependents, home, everHome>>
  BY <1>3, <1>5 DEF IInv, TypeOK, caches, informed
<1> HIDE DEF i
<1>7. \A h \in Identities, d \in Clusters :
         vs'[h][d] \in {vs[h][d], None} \/ Served(h, d, dependents', everHome')
  BY <1>4, <1>6 DEF i
<1>8. \A h \in Identities : /\ dependents[h] \subseteq dependents'[h]
                            /\ everHome[h] \subseteq everHome'[h]
                            /\ home'[h] \subseteq everHome'[h]
  BY <1>6 DEF IInv
<1>9. QED
  BY <1>2, <1>6, <1>7, <1>8, Preserves

\* What a job with clients D still to look up keeps.
LEMMA LookingUpFields ==
  ASSUME NEW j \in Jobs, NEW D \in SUBSET Identities
  PROVE  LET k == LookingUp(j, D)
         IN  /\ k \in Jobs /\ k.phase = (IF D = {} THEN "apply" ELSE "clusters") /\ k.deps = D
             /\ k.next = j.next /\ k.of = j.of /\ k.tc = j.tc /\ k.rev = j.rev
             /\ k.owed = j.owed /\ k.refused = j.refused /\ k.targets \subseteq j.targets
             /\ D # {} \/ HasRoutes(j) => k.targets = j.targets
<1> DEFINE T == IF HasRoutes(j) THEN j.targets ELSE {}
<1>1. T \subseteq j.targets /\ (HasRoutes(j) => T = j.targets) /\ T \in SUBSET Clusters
  BY DEF Jobs
<1>2. LookingUp(j, D) = IF D # {} THEN [j EXCEPT !.deps = D, !.phase = "clusters"]
                        ELSE [j EXCEPT !.deps = {}, !.phase = "apply", !.targets = T]
  BY DEF LookingUp, Jobs
<1> HIDE DEF T
<1>3. CASE D # {}
  <2> DEFINE k == [j EXCEPT !.deps = D, !.phase = "clusters"]
  <2>1. k \in Jobs
    BY DEF Jobs, Handling
  <2>2. /\ k.phase = "clusters" /\ k.deps = D /\ k.targets = j.targets
        /\ k.next = j.next /\ k.of = j.of /\ k.tc = j.tc /\ k.rev = j.rev
        /\ k.owed = j.owed /\ k.refused = j.refused
    BY DEF Jobs
  <2> HIDE DEF k
  <2>3. QED
    BY <1>2, <1>3, <2>1, <2>2 DEF k
<1>4. CASE D = {}
  <2> DEFINE k == [j EXCEPT !.deps = {}, !.phase = "apply", !.targets = T]
  <2>1. k \in Jobs
    BY <1>1 DEF Jobs, Handling
  <2>2. /\ k.phase = "apply" /\ k.deps = {} /\ k.targets = T
        /\ k.next = j.next /\ k.of = j.of /\ k.tc = j.tc /\ k.rev = j.rev
        /\ k.owed = j.owed /\ k.refused = j.refused
    BY DEF Jobs
  <2> HIDE DEF k
  <2>3. QED
    BY <1>1, <1>2, <1>4, <2>1, <2>2 DEF k
<1>5. QED
  BY <1>3, <1>4

\* What one with one more client looked up keeps: what was found is added.
LEMMA FoundFields ==
  ASSUME NEW j \in Jobs, NEW d, NEW C \in SUBSET Clusters
  PROVE  LET k == ClustersFound(j, d, C)
         IN  /\ k \in Jobs /\ k.deps = j.deps \ {d}
             /\ k.phase = (IF k.deps = {} THEN "apply" ELSE "clusters")
             /\ k.next = j.next /\ k.of = j.of /\ k.tc = j.tc /\ k.rev = j.rev
             /\ k.owed = j.owed \cup C /\ k.refused = j.refused
             /\ k.targets \subseteq j.targets \cup C
             /\ k.deps # {} \/ HasRoutes(j) => k.targets = j.targets \cup C
<1> DEFINE m == [j EXCEPT !.targets = @ \cup C, !.owed = @ \cup C]
<1>1. m \in Jobs
  BY DEF Jobs
<1>2. /\ m.next = j.next /\ m.of = j.of /\ m.tc = j.tc /\ m.rev = j.rev /\ m.deps = j.deps
      /\ m.refused = j.refused /\ m.targets = j.targets \cup C /\ m.owed = j.owed \cup C
  BY DEF Jobs
<1>3. ClustersFound(j, d, C) = LookingUp(m, j.deps \ {d})
  BY DEF ClustersFound
<1> HIDE DEF m
<1>4. j.deps \ {d} \in SUBSET Identities
  BY DEF Jobs
<1>5. HasRoutes(m) <=> HasRoutes(j)
  BY <1>2 DEF HasRoutes
<1>6. QED
  BY <1>1, <1>2, <1>3, <1>4, <1>5, LookingUpFields

\* To look up clients and their clusters preserves the invariant.
LEMMA LookUpSteps ==
  ASSUME IInv, NEW w \in Workers, LookUpClients(w) \/ LookUpClusters(w)
  PROVE  IInv'
<1> USE JobFacts
<1>a. UNCHANGED <<caches, informed, vs, everHome>>
  BY DEF LookUpClients, LookUpClusters, Quiet
<1>b. /\ dependents \in [Identities -> SUBSET Identities] /\ home \in [Identities -> SUBSET Clusters]
      /\ \A i \in Identities : home[i] \subseteq everHome[i]
  BY DEF IInv, TypeOK
<1>1. CASE LookUpClients(w)
  <2>1. job[w].phase = "lookup" /\ job[w].tc \in Identities
    BY <1>1 DEF LookUpClients, JobOK, Handling
  <2>2. PICK D : D \subseteq dependents[job[w].tc] /\ Goes(w, LookingUp(job[w], D))
    BY <1>1 DEF LookUpClients, GetDependentsForIdentity
  <2>3. D \in SUBSET Identities
    BY <1>b, <2>1, <2>2
  <2> DEFINE j == LookingUp(job[w], D)
  <2>4. /\ j \in Jobs /\ j.phase = (IF D = {} THEN "apply" ELSE "clusters") /\ j.deps = D
        /\ j.next = job[w].next /\ j.of = job[w].of /\ j.tc = job[w].tc
        /\ j.targets \subseteq job[w].targets
    BY <2>3, LookingUpFields
  <2> HIDE DEF j
  <2>5. JobOK(j, dependents, everHome)
    BY <2>1, <2>2, <2>4 DEF JobOK, Handling
  <2>6. QED
    BY <1>a, <2>2, <2>4, <2>5, JobStep DEF j
<1>2. CASE LookUpClusters(w)
  <2>1. job[w].phase = "clusters" /\ job[w].tc \in Identities
    BY <1>2 DEF LookUpClusters, JobOK, Handling
  <2>2. PICK d \in job[w].deps : Goes(w, ClustersFound(job[w], d, home[d]))
    BY <1>2 DEF LookUpClusters, GetClustersForIdentity
  <2> DEFINE j == ClustersFound(job[w], d, home[d])
  <2>3. d \in Identities /\ d \in dependents[job[w].tc]
    BY <2>1 DEF Jobs, JobOK
  <2>4. home[d] \in SUBSET Clusters
    BY <1>b, <2>3
  <2>5. /\ j \in Jobs /\ j.deps = job[w].deps \ {d}
        /\ j.phase = (IF j.deps = {} THEN "apply" ELSE "clusters")
        /\ j.next = job[w].next /\ j.of = job[w].of /\ j.tc = job[w].tc
        /\ j.targets \subseteq job[w].targets \cup home[d]
    BY <2>4, FoundFields
  <2> HIDE DEF j
  <2>6. \A c \in home[d] : Served(job[w].tc, c, dependents, everHome)
    BY <1>b, <2>3 DEF Served
  <2>7. JobOK(j, dependents, everHome)
    BY <2>1, <2>5, <2>6 DEF JobOK, Handling
  <2>8. QED
    BY <1>a, <2>2, <2>5, <2>7, JobStep DEF j
<1>3. QED
  BY <1>1, <1>2

\* The calls of the clusters' APIs preserve the invariant.
LEMMA WriteSteps ==
  ASSUME IInv, NEW w \in Workers,
         \/ SkipCluster(w) \/ GetVirtualService(w)
         \/ UpdateVirtualService(w) \/ CreateVirtualService(w) \/ DeleteVirtualService(w)
  PROVE  IInv'
<1> USE JobFacts
<1> DEFINE J == job[w]
<1>a. J.phase \in {"apply", "write"} => J.tc \in Identities /\ J.rev \in Nat
  BY DEF JobOK, Jobs, Handling
<1>1. CASE SkipCluster(w)
  <2>1. J.phase = "apply" /\ UNCHANGED <<caches, informed, vs, everHome>>
    BY <1>1 DEF SkipCluster, Quiet
  <2>2. PICK c \in J.targets : Goes(w, [J EXCEPT !.targets = @ \ {c}, !.owed = @ \ {c}])
    BY <1>1 DEF SkipCluster
  <2> DEFINE j == [J EXCEPT !.targets = @ \ {c}, !.owed = @ \ {c}]
  <2>3. /\ j \in Jobs /\ j.phase = "apply" /\ j.next = J.next /\ j.of = J.of
        /\ j.tc = J.tc /\ j.deps = J.deps /\ j.targets \subseteq J.targets
    BY <2>1 DEF Jobs
  <2> HIDE DEF j
  <2>4. JobOK(j, dependents, everHome)
    BY <2>1, <2>3, ContinueOK DEF GoesOn
  <2>5. QED
    BY <2>1, <2>2, <2>3, <2>4, JobStep DEF j
<1>2. CASE GetVirtualService(w)
  <2>1. PICK c \in Clusters :
           /\ Choose(w, c)
           /\ \E j \in {[J EXCEPT !.phase = "write", !.targets = @ \ {c}, !.cluster = c,
                                  !.seen = "absent"],
                        [J EXCEPT !.phase = "write", !.targets = @ \ {c}, !.cluster = c,
                                  !.seen = "present"],
                        [J EXCEPT !.phase = "write", !.targets = @ \ {c}, !.cluster = c,
                                  !.seen = "absent", !.owed = @ \ {c}]} :
                 Goes(w, j)
    BY <1>2 DEF GetVirtualService
  <2>2. PICK j \in {[J EXCEPT !.phase = "write", !.targets = @ \ {c}, !.cluster = c,
                              !.seen = "absent"],
                    [J EXCEPT !.phase = "write", !.targets = @ \ {c}, !.cluster = c,
                              !.seen = "present"],
                    [J EXCEPT !.phase = "write", !.targets = @ \ {c}, !.cluster = c,
                              !.seen = "absent", !.owed = @ \ {c}]} :
           Goes(w, j)
    BY <2>1
  <2>3. /\ J.phase = "apply" /\ c \in J.targets
        /\ UNCHANGED <<caches, informed, vs, everHome>>
    BY <1>2, <2>1 DEF Choose, GetVirtualService
  <2>4. j \in Jobs
    <3>1. [J EXCEPT !.phase = "write", !.targets = @ \ {c}, !.cluster = c,
                    !.seen = "absent"] \in Jobs
      BY WritingJob
    <3>2. [J EXCEPT !.phase = "write", !.targets = @ \ {c}, !.cluster = c,
                    !.seen = "present"] \in Jobs
      BY WritingJob
    <3>3. [J EXCEPT !.phase = "write", !.targets = @ \ {c}, !.cluster = c,
                    !.seen = "absent", !.owed = @ \ {c}] \in Jobs
      BY WritingJob
    <3>4. QED
      BY <2>2, <3>1, <3>2, <3>3
  <2>5. /\ j.phase = "write" /\ j.next = J.next /\ j.of = J.of /\ j.tc = J.tc
        /\ j.deps = J.deps /\ j.targets = J.targets \ {c} /\ j.cluster = c
    BY <2>2 DEF Jobs
  <2>6. JobOK(j, dependents, everHome)
    BY <2>3, <2>5 DEF JobOK, Handling
  <2>7. QED
    BY <2>2, <2>3, <2>4, <2>6, JobStep
<1>3. ASSUME UpdateVirtualService(w) \/ CreateVirtualService(w) PROVE IInv'
  <2>1. /\ J.phase = "write" /\ J.cluster \in Clusters
        /\ Served(J.tc, J.cluster, dependents, everHome)
        /\ UNCHANGED <<caches, informed, everHome>>
    BY <1>3 DEF UpdateVirtualService, CreateVirtualService, JobOK
  <2>2. PICK k \in {Over(J)}
                   \cup {[Over(J) EXCEPT !.versioned = TRUE],
                         [[Over(J) EXCEPT !.versioned = TRUE] EXCEPT !.owed = @ \ {J.cluster}],
                         [Over(J) EXCEPT !.refused = @ \cup {J.cluster}],
                         [Over(J) EXCEPT !.owed = @ \ {J.cluster}]} :
           Store(w, J.cluster, J.rev, k) \/ (Goes(w, k) /\ UNCHANGED vs)
    BY <1>3 DEF UpdateVirtualService, CreateVirtualService, CallFails
  <2>3. GoesOn(Over(J), J)
    BY OverGoesOn
  <2>4. GoesOn(k, J)
    <3> DEFINE u == [Over(J) EXCEPT !.versioned = TRUE]
    <3>1. GoesOn(u, J)
      BY <2>3, VersionedGoesOn
    <3>2. GoesOn([u EXCEPT !.owed = @ \ {J.cluster}], J)
      <4> HIDE DEF u
      <4>1. QED
        BY <3>1, OwedGoesOn
    <3>3. GoesOn([Over(J) EXCEPT !.refused = @ \cup {J.cluster}], J)
      BY <2>1, <2>3, RefusedGoesOn
    <3>4. GoesOn([Over(J) EXCEPT !.owed = @ \ {J.cluster}], J)
      BY <2>3, OwedGoesOn
    <3>5. QED
      BY <2>2, <2>3, <3>1, <3>2, <3>3, <3>4
  <2>5. JobOK(k, dependents, everHome)
    BY <2>1, <2>4, ContinueOK DEF GoesOn
  <2>6. CASE Store(w, J.cluster, J.rev, k)
    BY <1>a, <2>1, <2>4, <2>5, <2>6, StoreStep DEF GoesOn
  <2>7. CASE Goes(w, k) /\ UNCHANGED vs
    BY <2>1, <2>4, <2>5, <2>7, JobStep DEF GoesOn
  <2>8. QED
    BY <2>2, <2>6, <2>7
<1>4. CASE DeleteVirtualService(w)
  <2>1. PICK c \in Clusters :
           /\ Choose(w, c)
           /\ \E k \in {[J EXCEPT !.targets = @ \ {c}],
                        [[J EXCEPT !.targets = @ \ {c}] EXCEPT !.owed = @ \ {c}]} :
                 Store(w, c, None, k) \/ (Goes(w, k) /\ UNCHANGED vs)
    BY <1>4 DEF DeleteVirtualService, CallFails
  <2>2. PICK k \in {[J EXCEPT !.targets = @ \ {c}],
                    [[J EXCEPT !.targets = @ \ {c}] EXCEPT !.owed = @ \ {c}]} :
           Store(w, c, None, k) \/ (Goes(w, k) /\ UNCHANGED vs)
    BY <2>1
  <2>3. J.phase = "apply" /\ UNCHANGED <<caches, informed, everHome>>
    BY <1>4, <2>1 DEF DeleteVirtualService, Choose
  <2>4. GoesOn(k, J)
    <3> DEFINE u == [J EXCEPT !.targets = @ \ {c}]
    <3>1. GoesOn(u, J)
      BY <2>3, TargetsGoesOn
    <3>2. GoesOn([u EXCEPT !.owed = @ \ {c}], J)
      <4> HIDE DEF u
      <4>1. QED
        BY <3>1, OwedGoesOn
    <3>3. QED
      BY <2>2, <3>1, <3>2
  <2>5. JobOK(k, dependents, everHome)
    BY <2>3, <2>4, ContinueOK DEF GoesOn
  <2>6. CASE Store(w, c, None, k)
    <3>1. None \in Nat
      BY DEF None
    <3>2. QED
      BY <1>a, <2>3, <2>4, <2>5, <2>6, <3>1, StoreStep DEF GoesOn
  <2>7. CASE Goes(w, k) /\ UNCHANGED vs
    BY <2>3, <2>4, <2>5, <2>7, JobStep DEF GoesOn
  <2>8. QED
    BY <2>2, <2>6, <2>7
<1>5. QED
  BY <1>1, <1>2, <1>3, <1>4

\* The return of a handler preserves the invariant.
LEMMA ReturnStep ==
  ASSUME IInv, NEW w \in Workers, HandlerReturns(w)
  PROVE  IInv'
<1> DEFINE J == job[w]
           j == [J EXCEPT !.phase = J.next, !.next = "idle", !.tc = NoIdentity, !.rev = None,
                          !.source = NoIdentity, !.versioned = FALSE, !.owed = {}, !.refused = {}]
<1>1. J \in Jobs /\ JobOK(J, dependents, everHome)
  BY JobFacts
<1>2. /\ J.phase = "apply" /\ J.targets = {} /\ J.deps = {}
      /\ UNCHANGED <<caches, informed, vs, everHome>>
  BY <1>1 DEF HandlerReturns, Applied, Quiet, JobOK
<1>3. CASE J.next = "idle"
  <2>1. Idle \in Jobs /\ JobOK(Idle, dependents, everHome)
    BY DEF Idle, Jobs, JobOK, MaybeIdentity, Handling, Triggers, None
  <2>2. Goes(w, Idle)
    BY <1>3 DEF HandlerReturns
  <2>3. QED
    BY <1>2, <2>1, <2>2, JobStep
<1>4. CASE J.next # "idle"
  <2>1. J.next \in {"dependents", "rest"} /\ J.of \in Identities
    BY <1>1, <1>4 DEF Jobs, JobOK
  <2>2. j \in Jobs
    BY <1>1, <2>1 DEF Jobs, Triggers, MaybeIdentity, None
  <2>3. /\ j.phase = J.next /\ j.next = "idle" /\ j.of = J.of
        /\ j.targets = J.targets /\ j.deps = J.deps
    BY <1>1 DEF Jobs
  <2>4. Goes(w, j)
    BY <1>4 DEF HandlerReturns
  <2> HIDE DEF j
  <2>5. JobOK(j, dependents, everHome)
    <3> HIDE DEF J
    <3>1. QED
      BY <1>2, <2>1, <2>3 DEF JobOK, Handling
  <2>6. QED
    BY <1>2, <2>2, <2>4, <2>5, JobStep
<1>5. QED
  BY <1>3, <1>4

-----------------------------------------------------------------------------
(* Notifications.                                                           *)

\* A notification that starts a job which is fine, or none, and changes no
\* virtual service preserves the invariant.
LEMMA NotificationStep ==
  ASSUME IInv, NEW w \in Workers, NEW j \in Jobs, JobOK(j, dependents', everHome'),
         \/ job' = job
         \/ job' = [job EXCEPT ![w] = j],
         vs' = vs,
         current' \in [Identities -> Nat], cached' \in [Identities -> Nat],
         destinations' \in [Identities -> SUBSET Identities],
         dependents' \in [Identities -> SUBSET Identities],
         home' \in [Identities -> SUBSET Clusters], everHome' \in [Identities -> SUBSET Clusters],
         \A i \in Identities : /\ dependents[i] \subseteq dependents'[i]
                               /\ everHome[i] \subseteq everHome'[i]
                               /\ home'[i] \subseteq everHome'[i]
  PROVE  IInv'
<1>1. /\ job' \in [Workers -> Jobs]
      /\ \A v \in Workers : job'[v] = job[v] \/ JobOK(job'[v], dependents', everHome')
  BY DEF IInv, TypeOK
<1>2. TypeOK'
  BY <1>1 DEF IInv, TypeOK
<1>3. QED
  BY <1>1, <1>2, Preserves

\* Types and what they leave of the caches.
LEMMA CacheFacts ==
  ASSUME IInv
  PROVE  /\ current \in [Identities -> Nat] /\ cached \in [Identities -> Nat]
         /\ destinations \in [Identities -> SUBSET Identities]
         /\ dependents \in [Identities -> SUBSET Identities]
         /\ home \in [Identities -> SUBSET Clusters] /\ everHome \in [Identities -> SUBSET Clusters]
         /\ \A i \in Identities : home[i] \subseteq everHome[i]
  BY DEF IInv, TypeOK

\* An idle worker holds nothing.
LEMMA IdleFacts ==
  ASSUME IInv, NEW w \in Workers, IsIdle(w)
  PROVE  job[w] \in Jobs /\ job[w].next = "idle" /\ job[w].deps = {} /\ job[w].targets = {}
  BY JobFacts DEF IsIdle, JobOK, Handling

\* Notifications of traffic configs preserve the invariant.
LEMMA TrafficConfigSteps ==
  ASSUME IInv, NEW i \in Identities,
         \/ TrafficConfigAdded(i) \/ TrafficConfigUpdated(i)
         \/ TrafficConfigSkipped(i) \/ TrafficConfigDeleted(i)
  PROVE  IInv'
<1> DEFINE w == "trafficconfig"
<1>1. /\ w \in Workers /\ IsIdle(w)
      /\ UNCHANGED <<dependents, home, destinations, vs, everHome>>
  BY DEF TrafficConfigAdded, TrafficConfigUpdated, TrafficConfigSkipped, TrafficConfigDeleted,
         NewRevision, Workers
<1>2. current' \in [Identities -> Nat]
  BY CacheFacts DEF TrafficConfigAdded, TrafficConfigUpdated, TrafficConfigSkipped,
                    TrafficConfigDeleted, NewRevision
<1>3. cached' \in [Identities -> Nat]
  <2>1. \/ cached' = cached
        \/ cached' = [cached EXCEPT ![i] = None]
        \/ cached' = [cached EXCEPT ![i] = current'[i]]
    BY DEF TrafficConfigAdded, TrafficConfigUpdated, TrafficConfigSkipped, TrafficConfigDeleted,
           AddTrafficConfigToCache, DeleteTrafficConfigFromCache
  <2>2. QED
    BY <1>2, <2>1, CacheFacts DEF None
<1>4. \/ job' = job
      \/ \E r \in Nat : job' = [job EXCEPT ![w] = Applying(job[w], i, r, NoIdentity, "idle")]
  <2>1. \/ job' = job
        \/ \E r \in {None, current[i], current'[i]} : ApplyIfWarm(i, r)
    BY DEF TrafficConfigAdded, TrafficConfigUpdated, TrafficConfigSkipped, TrafficConfigDeleted
  <2>2. \A r \in {None, current[i], current'[i]} : r \in Nat
    BY <1>2, CacheFacts DEF None
  <2>3. QED
    BY <2>1, <2>2 DEF ApplyIfWarm
<1>5. \A h \in Identities : /\ dependents[h] \subseteq dependents'[h]
                            /\ everHome[h] \subseteq everHome'[h]
                            /\ home'[h] \subseteq everHome'[h]
  BY <1>1, CacheFacts
<1>6. /\ job[w] \in Jobs /\ JobOK(job[w], dependents', everHome')
      /\ \A r \in Nat :
            /\ Applying(job[w], i, r, NoIdentity, "idle") \in Jobs
            /\ JobOK(Applying(job[w], i, r, NoIdentity, "idle"), dependents', everHome')
  <2>1. NoIdentity \in MaybeIdentity
    BY DEF MaybeIdentity
  <2>2. job[w] \in Jobs /\ job[w].deps = {} /\ job[w].targets = {}
    BY <1>1, IdleFacts
  <2>3. JobOK(job[w], dependents', everHome')
    BY <1>1, JobFacts
  <2> HIDE DEF w
  <2>4. QED
    BY <2>1, <2>2, <2>3, ApplyingOK
<1> HIDE DEF w
<1>7. CASE job' = job
  BY <1>1, <1>2, <1>3, <1>5, <1>6, <1>7, CacheFacts, NotificationStep
<1>8. ASSUME NEW r \in Nat, job' = [job EXCEPT ![w] = Applying(job[w], i, r, NoIdentity, "idle")]
      PROVE  IInv'
  BY <1>1, <1>2, <1>3, <1>5, <1>6, <1>8, CacheFacts, NotificationStep
<1>9. QED
  BY <1>4, <1>7, <1>8

\* Notifications of Dependencies preserve the invariant.
LEMMA DependencySteps ==
  ASSUME IInv, NEW i \in Identities,
         \/ \E D \in SUBSET Identities : DependencyAdded(i, D) \/ DependencyUpdated(i, D)
         \/ DependencyDeleted(i)
  PROVE  IInv'
<1> DEFINE w == "dependency"
<1>1. w \in Workers /\ IsIdle(w)
  BY DEF DependencyAdded, DependencyUpdated, DependencyDeleted, Depend, Workers
<1>2. job[w] \in Jobs /\ job[w].next = "idle" /\ job[w].deps = {} /\ job[w].targets = {}
  BY <1>1, IdleFacts
<1>3. UNCHANGED <<cached, home, current, vs, everHome>>
  BY DEF DependencyAdded, DependencyUpdated, DependencyDeleted, Depend, caches
<1>4. CASE DependencyDeleted(i)
  <2>1. UNCHANGED <<dependents, job>> /\ destinations' = [destinations EXCEPT ![i] = {}]
    BY <1>4 DEF DependencyDeleted, caches
  <2>2. destinations' \in [Identities -> SUBSET Identities]
    BY <2>1, CacheFacts
  <2>3. JobOK(job[w], dependents', everHome')
    BY <1>1, <1>3, <2>1, JobFacts
  <2> HIDE DEF w
  <2>4. QED
    BY <1>1, <1>2, <1>3, <2>1, <2>2, <2>3, CacheFacts, NotificationStep
<1>5. ASSUME NEW D \in SUBSET Identities, DependencyAdded(i, D) \/ DependencyUpdated(i, D)
      PROVE  IInv'
  <2>1. /\ destinations' = [destinations EXCEPT ![i] = D]
        /\ dependents' = [d \in Identities |-> IF d \in D THEN dependents[d] \cup {i}
                                               ELSE dependents[d]]
    BY <1>5 DEF DependencyAdded, DependencyUpdated, Depend, AddDependentToIdentity
  <2>2. /\ destinations' \in [Identities -> SUBSET Identities]
        /\ dependents' \in [Identities -> SUBSET Identities]
        /\ \A h \in Identities : dependents[h] \subseteq dependents'[h]
    BY <2>1, CacheFacts
  <2> DEFINE I == D \ destinations[i]
  <2>3. I \in SUBSET Identities
    BY <1>5
  <2>4. job' = job \/ job' = [job EXCEPT ![w] = Triggering(job[w], I)]
    BY <1>5 DEF DependencyAdded, DependencyUpdated
  <2>5. Triggering(job[w], I) \in Jobs /\ JobOK(Triggering(job[w], I), dependents', everHome')
    <3> HIDE DEF w, I
    <3>1. QED
      BY <1>2, <2>3, TriggeringOK
  <2> HIDE DEF w, I
  <2>6. QED
    BY <1>1, <1>3, <2>2, <2>4, <2>5, CacheFacts, NotificationStep
<1>6. QED
  BY <1>4, <1>5

\* Notifications of workloads preserve the invariant.
LEMMA WorkloadSteps ==
  ASSUME IInv, NEW i \in Identities, NEW c \in Clusters, WorkloadAdded(i, c) \/ WorkloadDeleted(i, c)
  PROVE  IInv'
<1>1. c \in Workers /\ IsIdle(c)
  BY DEF WorkloadAdded, WorkloadDeleted, Workers
<1>2. job[c] \in Jobs /\ job[c].next = "idle" /\ job[c].deps = {} /\ job[c].targets = {}
  BY <1>1, IdleFacts
<1>3. UNCHANGED <<cached, dependents, current, destinations, vs>>
  BY DEF WorkloadAdded, WorkloadDeleted, informed
<1>4. /\ home' \in [Identities -> SUBSET Clusters] /\ everHome' \in [Identities -> SUBSET Clusters]
      /\ \A h \in Identities : everHome[h] \subseteq everHome'[h] /\ home'[h] \subseteq everHome'[h]
  <2>1. CASE WorkloadAdded(i, c)
    <3>1. /\ home' = [home EXCEPT ![i] = @ \cup {c}]
          /\ everHome' = [everHome EXCEPT ![i] = @ \cup {c}]
      BY <2>1 DEF WorkloadAdded
    <3>2. QED
      BY <3>1, CacheFacts
  <2>2. CASE WorkloadDeleted(i, c)
    <3>1. home' = [home EXCEPT ![i] = @ \ {c}] /\ everHome' = everHome
      BY <2>2 DEF WorkloadDeleted
    <3>2. QED
      BY <3>1, CacheFacts
  <2>3. QED
    BY <2>1, <2>2
<1>5. \E j \in {job[c], Triggering(job[c], {i})} : job' = job \/ job' = [job EXCEPT ![c] = j]
  BY DEF WorkloadAdded, WorkloadDeleted
<1>6. Triggering(job[c], {i}) \in Jobs /\ JobOK(Triggering(job[c], {i}), dependents', everHome')
  BY <1>2, TriggeringOK
<1>7. JobOK(job[c], dependents', everHome')
  <2>1. JobOK(job[c], dependents, everHome)
    BY <1>1, JobFacts
  <2>2. QED
    BY <1>2, <1>3, <1>4, <2>1, CacheFacts, JobOKGrows
<1>8. QED
  BY <1>1, <1>2, <1>3, <1>4, <1>5, <1>6, <1>7, CacheFacts, NotificationStep

\* Every step preserves the invariant.
LEMMA NextIInv == IInv /\ [Next]_vars => IInv'
<1>1. SUFFICES ASSUME IInv, [Next]_vars PROVE IInv'
  OBVIOUS
<1>2. CASE UNCHANGED <<current, cached, destinations, dependents, home, everHome, job, vs>>
  BY <1>1, <1>2 DEF IInv, TypeOK, OnlyWhereClientsAre
<1>3. CASE UNCHANGED vars
  BY <1>2, <1>3 DEF vars, caches, informed
<1>4. CASE WarmUp
  BY <1>2, <1>4 DEF WarmUp, informed
<1>5. ASSUME NEW c \in Clusters, ClusterDeleted(c) PROVE IInv'
  BY <1>2, <1>5 DEF ClusterDeleted, informed
<1>6. ASSUME NEW i \in Configured,
             \/ TrafficConfigAdded(i) \/ TrafficConfigUpdated(i)
             \/ TrafficConfigSkipped(i) \/ TrafficConfigDeleted(i)
      PROVE  IInv'
  BY <1>1, <1>6, TrafficConfigAssumption, TrafficConfigSteps
<1>7. ASSUME NEW i \in Identities,
             \/ \E D \in SUBSET Identities : DependencyAdded(i, D) \/ DependencyUpdated(i, D)
             \/ DependencyDeleted(i)
      PROVE  IInv'
  BY <1>1, <1>7, DependencySteps
<1>8. ASSUME NEW i \in Identities, NEW c \in Clusters, WorkloadAdded(i, c) \/ WorkloadDeleted(i, c)
      PROVE  IInv'
  BY <1>1, <1>8, WorkloadSteps
<1>9. ASSUME NEW w \in Workers, Step(w) PROVE IInv'
  BY <1>1, <1>9, TriggerSteps, LookUpSteps, WriteSteps, ReturnStep DEF Step
<1>10. ASSUME NEW i \in Configured, TrafficConfigDeletedTombstone(i) PROVE IInv'
  BY <1>2, <1>10 DEF TrafficConfigDeletedTombstone, caches
<1>11. QED
  BY <1>1, <1>3, <1>4, <1>5, <1>6, <1>7, <1>8, <1>9, <1>10 DEF Next

-----------------------------------------------------------------------------

\* A virtual service is only in clusters that a client of the service once had,
\* however notifications and the steps of the handlers interleave.
THEOREM VirtualServicesAreAtClients == Spec => []OnlyWhereClientsAre
<1>1. IInv => OnlyWhereClientsAre
  BY DEF IInv
<1>2. QED
  BY <1>1, InitIInv, NextIInv, PTL DEF Spec

-----------------------------------------------------------------------------
(* What handlers leave in the clusters.                                     *)

\* The job of a worker, its types and invariants.
LEMMA AppliedFacts ==
  ASSUME IInv, AppliedInv, NEW w \in Workers
  PROVE  /\ job[w] \in Jobs /\ JobOK(job[w], dependents, everHome)
         /\ HasRoutes(job[w]) => JobApplies(job[w], vs)
         /\ JobRev(w, job[w], current)
  BY DEF IInv, TypeOK, AppliedInv, HasRoutes, Routes

\* A job that applies nothing is fine if it owes nothing.
LEMMA RestingApplies ==
  ASSUME NEW w, NEW j, NEW v, NEW C, j.phase \notin Handling, j.owed = {}
  PROVE  JobApplies(j, v) /\ JobRev(w, j, C)
  BY DEF JobApplies, JobRev, Handling

\* A job that starts is fine if its revision is.
LEMMA ApplyingApplies ==
  ASSUME NEW w, NEW j \in Jobs, NEW i \in Identities, NEW r \in Nat, NEW s, NEW next, NEW v, NEW C,
         r <= C[i], IF w = "trafficconfig" THEN r \in {None, C[i]} ELSE r # None
  PROVE  JobApplies(Applying(j, i, r, s, next), v) /\ JobRev(w, Applying(j, i, r, s, next), C)
<1>1. /\ Applying(j, i, r, s, next).phase = "lookup"
      /\ Applying(j, i, r, s, next).rev = r
      /\ Applying(j, i, r, s, next).tc = i
      /\ Applying(j, i, r, s, next).owed = {}
  BY DEF Applying, Jobs
<1>2. QED
  BY <1>1 DEF JobApplies, JobRev

\* So is one that triggers others.
LEMMA TriggeringApplies ==
  ASSUME NEW w, NEW j \in Jobs, NEW I, NEW v, NEW C, j.owed = {}
  PROVE  JobApplies(Triggering(j, I), v) /\ JobRev(w, Triggering(j, I), C)
<1>1. Triggering(j, I).phase \in {"idle", "trigger"} /\ Triggering(j, I).owed = {}
  BY DEF Triggering, Jobs
<1>2. QED
  BY <1>1, RestingApplies DEF Handling

\* A step that only moves a job on preserves the invariant if the job is fine.
LEMMA AppliedJobStep ==
  ASSUME IInv, AppliedInv, NEW w \in Workers, NEW j, Goes(w, j),
         UNCHANGED <<caches, informed, vs>>,
         HasRoutes(j) => JobApplies(j, vs), JobRev(w, j, current)
  PROVE  AppliedInv'
<1>1. \A v \in Workers : job'[v] = IF v = w THEN j ELSE job[v]
  BY DEF Goes, IInv, TypeOK
<1>2. UNCHANGED <<cached, current, routeless, vs>>
  BY DEF caches, informed
<1>3. Routes(j, current, routeless) => JobApplies(j, vs)
  BY DEF HasRoutes, Routes
<1>4. QED
  BY <1>1, <1>2, <1>3 DEF AppliedInv

\* What another worker's write does to a job keeps it fine.
LEMMA DisturbedApplies ==
  ASSUME NEW j \in Jobs, NEW i \in Identities, NEW c \in Clusters, NEW w, NEW C,
         NEW v \in [Identities -> [Clusters -> Nat]], NEW u \in [Identities -> [Clusters -> Nat]],
         \A h \in Identities, d \in Clusters : h # i \/ d # c => u[h][d] = v[h][d],
         j.phase \in Handling => j.tc \in Identities, JobRev(w, j, C)
  PROVE  /\ JobApplies(j, v) => JobApplies(Disturbed(j, i, c), u)
         /\ JobRev(w, Disturbed(j, i, c), C)
         /\ Disturbed(j, i, c).tc = j.tc /\ Disturbed(j, i, c).rev = j.rev
<1>1. /\ Disturbed(j, i, c).phase = j.phase /\ Disturbed(j, i, c).tc = j.tc
      /\ Disturbed(j, i, c).rev = j.rev /\ Disturbed(j, i, c).targets = j.targets
      /\ Disturbed(j, i, c).cluster = j.cluster /\ Disturbed(j, i, c).refused = j.refused
      /\ Disturbed(j, i, c).owed \subseteq j.owed
      /\ j.tc = i /\ c \notin j.targets => c \notin Disturbed(j, i, c).owed
      /\ j.cluster # c => Disturbed(j, i, c).seen = j.seen
      /\ j.tc # i \/ c \in j.targets => Disturbed(j, i, c).seen = j.seen
  BY DEF Disturbed, Jobs
<1> DEFINE d == Disturbed(j, i, c)
<1> HIDE DEF d
<1>2. /\ d.phase = j.phase /\ d.tc = j.tc /\ d.rev = j.rev /\ d.targets = j.targets
      /\ d.cluster = j.cluster /\ d.refused = j.refused /\ d.owed \subseteq j.owed
      /\ j.tc = i /\ c \notin j.targets => c \notin d.owed
      /\ j.cluster # c => d.seen = j.seen
      /\ j.tc # i \/ c \in j.targets => d.seen = j.seen
  BY <1>1 DEF d
<1>3. j.owed \subseteq Clusters
  BY DEF Jobs
<1>4. JobRev(w, d, C)
  BY <1>2 DEF JobRev
<1>5. ASSUME JobApplies(j, v), j.phase \in {"apply", "write"}, NEW e \in d.owed \ d.refused
      PROVE  e \in d.targets \/ (d.phase = "write" /\ e = d.cluster) \/ u[d.tc][e] = d.rev
  <2>1. e \in j.targets \/ (j.phase = "write" /\ e = j.cluster) \/ v[j.tc][e] = j.rev
    BY <1>2, <1>5 DEF JobApplies
  <2>2. CASE j.tc = i /\ e = c
    BY <1>2, <1>5, <2>2
  <2>3. CASE j.tc # i \/ e # c
    <3>1. j.tc \in Identities /\ e \in Clusters
      BY <1>2, <1>3, <1>5 DEF Handling
    <3>2. u[j.tc][e] = v[j.tc][e]
      BY <2>3, <3>1
    <3>3. QED
      BY <1>2, <2>1, <3>2
  <2>4. QED
    BY <2>2, <2>3
<1>6. ASSUME JobApplies(j, v), j.phase = "write", d.cluster \in d.owed \ d.refused
      PROVE  d.seen = "present" \/ (d.seen = "absent" /\ u[d.tc][d.cluster] = None)
  <2>1. /\ j.cluster \notin j.targets
        /\ j.seen = "present" \/ (j.seen = "absent" /\ v[j.tc][j.cluster] = None)
    BY <1>2, <1>6 DEF JobApplies, JobRev
  <2>2. ~(j.tc = i /\ j.cluster = c)
    BY <1>2, <1>6, <2>1
  <2>3. d.seen = j.seen
    BY <1>2, <2>2
  <2>4. j.tc \in Identities /\ j.cluster \in Clusters
    BY <1>2, <1>3, <1>6 DEF Handling
  <2>5. u[j.tc][j.cluster] = v[j.tc][j.cluster]
    BY <2>2, <2>4
  <2>6. QED
    BY <1>2, <2>1, <2>3, <2>5
<1>7. JobApplies(j, v) => JobApplies(d, u)
  BY <1>2, <1>5, <1>6 DEF JobApplies
<1>8. QED
  BY <1>2, <1>4, <1>7 DEF d

\* A write preserves the invariant if the revision is no later than the current
\* one and the writer's own job is fine.
LEMMA AppliedStoreStep ==
  ASSUME IInv, AppliedInv, NEW w \in Workers, NEW c \in Clusters, NEW r \in Nat, NEW mine,
         Store(w, c, r, mine), job[w].tc \in Identities, r <= current[job[w].tc],
         UNCHANGED <<caches, informed>>,
         HasRoutes(mine) => JobApplies(mine, vs'), JobRev(w, mine, current)
  PROVE  AppliedInv'
<1> DEFINE i == job[w].tc
<1>1. /\ vs \in [Identities -> [Clusters -> Nat]] /\ vs' = [vs EXCEPT ![i][c] = r]
      /\ \A v \in Workers : job'[v] = IF v = w THEN mine ELSE Disturbed(job[v], i, c)
      /\ UNCHANGED <<cached, current, routeless>>
  BY DEF Store, IInv, TypeOK, caches, informed
<1>2. /\ vs' \in [Identities -> [Clusters -> Nat]]
      /\ \A h \in Identities, d \in Clusters : vs'[h][d] = IF h = i /\ d = c THEN r ELSE vs[h][d]
  BY <1>1
<1>3. ASSUME NEW v \in Workers, v # w
      PROVE  /\ Routes(job'[v], current', routeless') => JobApplies(job'[v], vs')
             /\ JobRev(v, job'[v], current')
  <2>1. /\ job[v] \in Jobs /\ JobRev(v, job[v], current)
        /\ Routes(job[v], current, routeless) => JobApplies(job[v], vs)
        /\ job[v].phase \in Handling => job[v].tc \in Identities
    BY AppliedFacts DEF JobOK, AppliedInv
  <2> DEFINE u == vs'
  <2>2. /\ u \in [Identities -> [Clusters -> Nat]]
        /\ \A h \in Identities, d \in Clusters : h # i \/ d # c => u[h][d] = vs[h][d]
    BY <1>2
  <2> HIDE DEF u, i
  <2>3. /\ JobApplies(job[v], vs) => JobApplies(Disturbed(job[v], i, c), u)
        /\ JobRev(v, Disturbed(job[v], i, c), current)
        /\ Disturbed(job[v], i, c).tc = job[v].tc /\ Disturbed(job[v], i, c).rev = job[v].rev
    BY <1>1, <2>1, <2>2, DisturbedApplies DEF i
  <2>4. Routes(Disturbed(job[v], i, c), current, routeless) <=> Routes(job[v], current, routeless)
    BY <2>3 DEF Routes
  <2>5. QED
    BY <1>1, <1>3, <2>1, <2>3, <2>4 DEF u
<1>4. ASSUME NEW h \in Identities
      PROVE  cached'[h] <= current'[h] /\ \A d \in Clusters : vs'[h][d] <= current'[h]
  BY <1>1, <1>2 DEF AppliedInv
<1>5. /\ Routes(mine, current', routeless') => JobApplies(mine, vs')
      /\ JobRev(w, mine, current')
  BY <1>1 DEF HasRoutes, Routes
<1>6. \A v \in Workers : /\ Routes(job'[v], current', routeless') => JobApplies(job'[v], vs')
                         /\ JobRev(v, job'[v], current')
  BY <1>1, <1>3, <1>5
<1>7. QED
  BY <1>4, <1>6 DEF AppliedInv

\* Triggers take what is in the cache, which is not ahead of the current revision.
LEMMA AppliedTriggerSteps ==
  ASSUME IInv, AppliedInv, NEW w \in Workers, w # "trafficconfig",
         TriggerSelf(w) \/ TriggerDependents(w) \/ TriggerDependent(w) \/ Triggered(w)
  PROVE  AppliedInv'
<1> DEFINE J == job[w]
<1>1. /\ J \in Jobs /\ J.phase \notin Handling /\ J.owed = {}
      /\ J.pending \in SUBSET Identities /\ J.rest \in SUBSET Identities
  BY AppliedFacts DEF TriggerSelf, TriggerDependents, TriggerDependent, Triggered, JobRev,
                      Handling, Jobs
<1>2. /\ UNCHANGED <<caches, informed, vs>>
      /\ cached \in [Identities -> Nat] /\ \A i \in Identities : cached[i] <= current[i]
  BY DEF TriggerSelf, TriggerDependents, TriggerDependent, Triggered, Quiet, IInv, TypeOK, AppliedInv
<1>3. CASE TriggerSelf(w)
  <2>1. PICK i \in J.pending :
           LET j == [J EXCEPT !.pending = @ \ {i}, !.of = i, !.phase = "dependents"]
           IN  Goes(w, IF GetTrafficConfig(i) = None THEN j
                       ELSE Applying(j, i, GetTrafficConfig(i), NoIdentity, "dependents"))
    BY <1>3 DEF TriggerSelf
  <2> DEFINE j == [J EXCEPT !.pending = @ \ {i}, !.of = i, !.phase = "dependents"]
  <2>2. i \in Identities
    BY <1>1
  <2>3. j \in Jobs
    BY <1>1, <2>2 DEF Jobs, MaybeIdentity, Triggers
  <2>4. j.phase \notin Handling /\ j.owed = {}
    BY <1>1 DEF Jobs, Handling
  <2>5. Goes(w, j) \/ (cached[i] # None /\ Goes(w, Applying(j, i, cached[i], NoIdentity, "dependents")))
    BY <2>1 DEF GetTrafficConfig
  <2> HIDE DEF j
  <2>6. JobApplies(j, vs) /\ JobRev(w, j, current)
    BY <2>4, RestingApplies
  <2>7. cached[i] # None => /\ JobApplies(Applying(j, i, cached[i], NoIdentity, "dependents"), vs)
                            /\ JobRev(w, Applying(j, i, cached[i], NoIdentity, "dependents"), current)
    BY <1>2, <2>2, <2>3, ApplyingApplies
  <2>8. QED
    BY <1>2, <2>5, <2>6, <2>7, AppliedJobStep
<1>4. CASE TriggerDependents(w)
  <2> DEFINE j == [J EXCEPT !.phase = "rest", !.rest = GetDependentsForIdentity(J.of)]
  <2>1. j.phase \notin Handling /\ j.owed = {}
    BY <1>1 DEF Jobs, Handling
  <2>2. Goes(w, j)
    BY <1>4 DEF TriggerDependents
  <2> HIDE DEF j
  <2>3. QED
    BY <1>2, <2>1, <2>2, RestingApplies, AppliedJobStep
<1>5. CASE TriggerDependent(w)
  <2>1. PICK i \in J.rest :
           LET j == [J EXCEPT !.rest = @ \ {i}]
           IN  Goes(w, IF GetTrafficConfig(i) = None THEN j
                       ELSE Applying(j, i, GetTrafficConfig(i), J.of, "rest"))
    BY <1>5 DEF TriggerDependent
  <2> DEFINE j == [J EXCEPT !.rest = @ \ {i}]
  <2>2. i \in Identities
    BY <1>1
  <2>3. j \in Jobs
    BY <1>1 DEF Jobs
  <2>4. j.phase \notin Handling /\ j.owed = {}
    BY <1>1 DEF Jobs
  <2>5. Goes(w, j) \/ (cached[i] # None /\ Goes(w, Applying(j, i, cached[i], J.of, "rest")))
    BY <2>1 DEF GetTrafficConfig
  <2> HIDE DEF j
  <2>6. JobApplies(j, vs) /\ JobRev(w, j, current)
    BY <2>4, RestingApplies
  <2>7. cached[i] # None => /\ JobApplies(Applying(j, i, cached[i], J.of, "rest"), vs)
                            /\ JobRev(w, Applying(j, i, cached[i], J.of, "rest"), current)
    BY <1>2, <2>2, <2>3, ApplyingApplies
  <2>8. QED
    BY <1>2, <2>5, <2>6, <2>7, AppliedJobStep
<1>6. CASE Triggered(w)
  <2> DEFINE j == [J EXCEPT !.of = NoIdentity]
  <2>1. j \in Jobs /\ j.owed = {}
    BY <1>1 DEF Jobs, MaybeIdentity
  <2>2. Goes(w, Triggering(j, J.pending))
    BY <1>6 DEF Triggered
  <2> HIDE DEF j
  <2>3. QED
    BY <1>2, <2>1, <2>2, TriggeringApplies, AppliedJobStep
<1>7. QED
  BY <1>3, <1>4, <1>5, <1>6

\* A handler owes its revision, if it has routes, to the clusters it looked up.
LEMMA AppliedLookUpSteps ==
  ASSUME IInv, AppliedInv, NEW w \in Workers, LookUpClients(w) \/ LookUpClusters(w)
  PROVE  AppliedInv'
<1> DEFINE J == job[w]
<1>1. /\ J \in Jobs /\ JobOK(J, dependents, everHome) /\ JobRev(w, J, current)
      /\ J.phase \in {"lookup", "clusters"} => J.tc \in Identities
  BY AppliedFacts DEF JobOK, Handling
<1>2. UNCHANGED <<caches, informed, vs>>
  BY DEF LookUpClients, LookUpClusters, Quiet
<1>a. /\ dependents \in [Identities -> SUBSET Identities]
      /\ home \in [Identities -> SUBSET Clusters]
  BY DEF IInv, TypeOK
<1>b. ASSUME NEW j, J.phase \in {"lookup", "clusters"}, j.phase \in {"apply", "clusters"},
             j.tc = J.tc, j.rev = J.rev, j.phase = "clusters" => j.owed \subseteq j.targets
      PROVE  JobRev(w, j, current)
  <2> HIDE DEF J
  <2>1. QED
    BY <1>1, <1>b DEF JobRev, Handling
<1>c. ASSUME NEW j, j.phase \in {"apply", "clusters"}, j.owed \subseteq j.targets
      PROVE  JobApplies(j, vs)
  BY <1>c DEF JobApplies
<1>3. CASE LookUpClients(w)
  <2>1. J.phase = "lookup" /\ J.owed = {}
    BY <1>1, <1>3 DEF LookUpClients, JobRev
  <2>2. PICK D : D \subseteq dependents[J.tc] /\ Goes(w, LookingUp(J, D))
    BY <1>3 DEF LookUpClients, GetDependentsForIdentity
  <2>3. D \in SUBSET Identities
    BY <1>1, <1>a, <2>1, <2>2
  <2> DEFINE j == LookingUp(J, D)
  <2>4. j.phase \in {"apply", "clusters"} /\ j.tc = J.tc /\ j.rev = J.rev /\ j.owed = {}
    BY <1>1, <2>1, <2>3, LookingUpFields
  <2>5. Goes(w, j)
    BY <2>2
  <2> HIDE DEF j, J
  <2>6. JobApplies(j, vs) /\ JobRev(w, j, current)
    BY <1>b, <1>c, <2>1, <2>4
  <2>7. QED
    BY <1>2, <2>5, <2>6, AppliedJobStep
<1>4. CASE LookUpClusters(w)
  <2>1. J.phase = "clusters" /\ J.owed \subseteq J.targets
    BY <1>1, <1>4 DEF LookUpClusters, JobRev
  <2>2. PICK d \in J.deps : Goes(w, ClustersFound(J, d, home[d]))
    BY <1>4 DEF LookUpClusters, GetClustersForIdentity
  <2> DEFINE j == ClustersFound(J, d, home[d])
  <2>3. home[d] \in SUBSET Clusters
    BY <1>1, <1>a DEF Jobs
  <2>4. /\ j.phase \in {"apply", "clusters"} /\ j.tc = J.tc /\ j.rev = J.rev
        /\ j.owed = J.owed \cup home[d]
        /\ j.phase = "clusters" \/ HasRoutes(J) => j.targets = J.targets \cup home[d]
    BY <1>1, <2>3, FoundFields
  <2>5. Goes(w, j)
    BY <2>2
  <2> HIDE DEF j, J
  <2>6. JobRev(w, j, current)
    BY <1>b, <2>1, <2>4
  <2>7. HasRoutes(j) <=> HasRoutes(J)
    BY <2>4 DEF HasRoutes
  <2>8. HasRoutes(j) => JobApplies(j, vs)
    BY <1>c, <2>1, <2>4, <2>7
  <2>9. QED
    BY <1>2, <2>5, <2>6, <2>8, AppliedJobStep
<1>5. QED
  BY <1>3, <1>4

\* The job k is J after a call for cluster c, with which v became u: it owes no
\* more than before, and what it owes to c it has done.
Done(k, J, c, v, u) ==
    /\ k.phase = "apply" /\ k.tc = J.tc /\ k.rev = J.rev /\ k.targets = J.targets \ {c}
    /\ k.owed \subseteq J.owed /\ J.refused \subseteq k.refused
    /\ \A d \in k.owed : d # c => u[k.tc][d] = v[k.tc][d]
    /\ c \in k.owed \ k.refused => u[k.tc][c] = k.rev

\* A handler that is done with a cluster is fine.
LEMMA DoneApplies ==
  ASSUME NEW w, NEW J, NEW k, NEW c, NEW v, NEW u, NEW C, JobRev(w, J, C),
         \/ J.phase = "apply"
         \/ J.phase = "write" /\ c = J.cluster,
         k.phase = "apply", k.tc = J.tc, k.rev = J.rev
  PROVE  /\ JobRev(w, k, C)
         /\ JobApplies(J, v) /\ Done(k, J, c, v, u) => JobApplies(k, u)
<1>1. JobRev(w, k, C)
  BY DEF JobRev, Handling
<1>2. ASSUME JobApplies(J, v), Done(k, J, c, v, u), NEW d \in k.owed \ k.refused PROVE d \in k.targets \/ u[k.tc][d] = k.rev
  <2>1. d \in J.targets \/ (J.phase = "write" /\ d = J.cluster) \/ v[J.tc][d] = J.rev
    BY <1>2 DEF Done, JobApplies
  <2>2. QED
    BY <1>2, <2>1 DEF Done
<1>3. JobApplies(J, v) /\ Done(k, J, c, v, u) => JobApplies(k, u)
  BY <1>2 DEF JobApplies
<1>4. QED
  BY <1>1, <1>3

\* What the calls change of a job, one lemma for each way to go on.
LEMMA OverFields ==
  ASSUME NEW J \in Jobs
  PROVE  /\ Over(J) \in Jobs /\ Over(J).phase = "apply" /\ Over(J).tc = J.tc /\ Over(J).rev = J.rev
         /\ Over(J).targets = J.targets /\ Over(J).owed = J.owed /\ Over(J).refused = J.refused
<1>1. Over(J) \in Jobs
  BY DEF Over, Jobs, Handling
<1>2. QED
  BY <1>1 DEF Over, Jobs

\* A cluster less to come.
LEMMA TargetsFields ==
  ASSUME NEW J \in Jobs, NEW c
  PROVE  LET k == [J EXCEPT !.targets = @ \ {c}]
         IN  /\ k \in Jobs /\ k.phase = J.phase /\ k.tc = J.tc /\ k.rev = J.rev
             /\ k.targets = J.targets \ {c} /\ k.owed = J.owed /\ k.refused = J.refused
<1> DEFINE k == [J EXCEPT !.targets = @ \ {c}]
<1>1. k \in Jobs
  BY DEF Jobs
<1>2. QED
  BY <1>1 DEF Jobs

\* A resource version kept.
LEMMA VersionedFields ==
  ASSUME NEW J \in Jobs
  PROVE  LET k == [J EXCEPT !.versioned = TRUE]
         IN  /\ k \in Jobs /\ k.phase = J.phase /\ k.tc = J.tc /\ k.rev = J.rev
             /\ k.targets = J.targets /\ k.owed = J.owed /\ k.refused = J.refused
<1> DEFINE k == [J EXCEPT !.versioned = TRUE]
<1>1. k \in Jobs
  BY DEF Jobs
<1>2. QED
  BY <1>1 DEF Jobs

\* A cluster less to be owed to.
LEMMA OwedFields ==
  ASSUME NEW J \in Jobs, NEW c
  PROVE  LET k == [J EXCEPT !.owed = @ \ {c}]
         IN  /\ k \in Jobs /\ k.phase = J.phase /\ k.tc = J.tc /\ k.rev = J.rev
             /\ k.targets = J.targets /\ k.owed = J.owed \ {c} /\ k.refused = J.refused
<1> DEFINE k == [J EXCEPT !.owed = @ \ {c}]
<1>1. k \in Jobs
  BY DEF Jobs
<1>2. QED
  BY <1>1 DEF Jobs

\* A cluster that refused.
LEMMA RefusedFields ==
  ASSUME NEW J \in Jobs, NEW c \in Clusters
  PROVE  LET k == [J EXCEPT !.refused = @ \cup {c}]
         IN  /\ k \in Jobs /\ k.phase = J.phase /\ k.tc = J.tc /\ k.rev = J.rev
             /\ k.targets = J.targets /\ k.owed = J.owed /\ k.refused = J.refused \cup {c}
<1> DEFINE k == [J EXCEPT !.refused = @ \cup {c}]
<1>1. k \in Jobs
  BY DEF Jobs
<1>2. QED
  BY <1>1 DEF Jobs

\* A call that changes no virtual service preserves the invariant, if what is
\* left is owed to other clusters.
LEMMA AppliedCallStep ==
  ASSUME IInv, AppliedInv, NEW w \in Workers, NEW k, NEW c, Goes(w, k), vs' = vs,
         UNCHANGED <<caches, informed>>,
         job[w].phase = "apply" \/ (job[w].phase = "write" /\ c = job[w].cluster),
         k.phase = "apply", k.tc = job[w].tc, k.rev = job[w].rev,
         k.targets = job[w].targets \ {c}, k.owed \subseteq job[w].owed,
         job[w].refused \subseteq k.refused, HasRoutes(job[w]) => c \notin k.owed \ k.refused
  PROVE  AppliedInv'
<1>1. HasRoutes(k) <=> HasRoutes(job[w])
  BY DEF HasRoutes
<1>2. HasRoutes(k) => Done(k, job[w], c, vs, vs)
  BY <1>1 DEF Done
<1>3. JobRev(w, k, current) /\ (HasRoutes(k) => JobApplies(k, vs))
  BY <1>1, <1>2, AppliedFacts, DoneApplies
<1>4. QED
  BY <1>3, AppliedJobStep

\* A call that writes what it has to preserves the invariant.
LEMMA AppliedWriteStep ==
  ASSUME IInv, AppliedInv, NEW w \in Workers, NEW k, NEW c \in Clusters,
         Store(w, c, job[w].rev, k), UNCHANGED <<caches, informed>>,
         job[w].phase = "apply" \/ (job[w].phase = "write" /\ c = job[w].cluster),
         k.phase = "apply", k.tc = job[w].tc, k.rev = job[w].rev,
         k.targets = job[w].targets \ {c}, k.owed = job[w].owed, k.refused = job[w].refused
  PROVE  AppliedInv'
<1> DEFINE J == job[w]
<1>1. /\ J.tc \in Identities /\ J.rev \in Nat /\ J.owed \subseteq Clusters
      /\ J.rev <= current[J.tc]
  BY AppliedFacts DEF Jobs, JobOK, JobRev, Handling
<1>2. vs' = [vs EXCEPT ![J.tc][c] = J.rev] /\ vs \in [Identities -> [Clusters -> Nat]]
  BY DEF Store, IInv, TypeOK
<1>3. \A d \in Clusters : vs'[J.tc][d] = IF d = c THEN J.rev ELSE vs[J.tc][d]
  BY <1>1, <1>2
<1>4. Done(k, J, c, vs, vs')
  BY <1>1, <1>3 DEF Done
<1>5. (HasRoutes(k) => JobApplies(k, vs')) /\ JobRev(w, k, current)
  <2> DEFINE u == vs'
  <2>1. Done(k, J, c, vs, u)
    BY <1>4
  <2>2. HasRoutes(k) <=> HasRoutes(J)
    BY DEF HasRoutes
  <2> HIDE DEF u
  <2>3. (HasRoutes(k) => JobApplies(k, u)) /\ JobRev(w, k, current)
    BY <2>1, <2>2, AppliedFacts, DoneApplies
  <2>4. QED
    BY <2>3 DEF u
<1>6. QED
  BY <1>1, <1>5, AppliedStoreStep

\* To skip a cluster that is gone preserves the invariant.
LEMMA AppliedSkipStep ==
  ASSUME IInv, AppliedInv, NEW w \in Workers, SkipCluster(w)
  PROVE  AppliedInv'
<1> DEFINE J == job[w]
<1>1. J \in Jobs /\ J.phase = "apply" /\ UNCHANGED <<caches, informed, vs>>
  BY AppliedFacts DEF SkipCluster, Quiet
<1>2. PICK c \in J.targets : Goes(w, [J EXCEPT !.targets = @ \ {c}, !.owed = @ \ {c}])
  BY DEF SkipCluster
<1> DEFINE k == [J EXCEPT !.targets = @ \ {c}, !.owed = @ \ {c}]
<1>3. /\ k.phase = "apply" /\ k.tc = J.tc /\ k.rev = J.rev /\ k.refused = J.refused
      /\ k.targets = J.targets \ {c} /\ k.owed = J.owed \ {c}
  BY <1>1 DEF Jobs
<1>4. Goes(w, k)
  BY <1>2
<1> HIDE DEF k
<1>5. QED
  BY <1>1, <1>3, <1>4, AppliedCallStep

\* A handler that read a virtual service, or failed to, owes what it can still write.
LEMMA AppliedGetStep ==
  ASSUME IInv, AppliedInv, NEW w \in Workers, GetVirtualService(w)
  PROVE  AppliedInv'
<1> DEFINE J == job[w]
<1>1. PICK c \in Clusters :
         /\ Choose(w, c) /\ J.rev # None
         /\ \/ Goes(w, [J EXCEPT !.phase = "write", !.targets = @ \ {c}, !.cluster = c,
                          !.seen = IF vs[J.tc][c] = None THEN "absent" ELSE "present"])
            \/ Goes(w, [J EXCEPT !.phase = "write", !.targets = @ \ {c}, !.cluster = c,
                          !.seen = "absent", !.owed = @ \ {c}])
  BY DEF GetVirtualService
<1>2. /\ J \in Jobs /\ J.phase = "apply" /\ c \in J.targets
      /\ (HasRoutes(J) => JobApplies(J, vs)) /\ JobRev(w, J, current)
      /\ UNCHANGED <<caches, informed, vs>>
  BY <1>1, AppliedFacts DEF Choose, GetVirtualService
<1>3. ASSUME NEW k, k.phase = "write", k.tc = J.tc, k.rev = J.rev, k.refused = J.refused,
             k.targets = J.targets \ {c}, k.cluster = c,
             \/ k.owed = J.owed /\ k.seen = IF vs[J.tc][c] = None THEN "absent" ELSE "present"
             \/ k.owed = J.owed \ {c}
      PROVE  (HasRoutes(k) => JobApplies(k, vs)) /\ JobRev(w, k, current)
  <2> HIDE DEF J
  <2>1. JobRev(w, k, current)
    BY <1>1, <1>2, <1>3 DEF JobRev, Handling
  <2>2. HasRoutes(k) <=> HasRoutes(J)
    BY <1>3 DEF HasRoutes
  <2>3. JobApplies(J, vs) => JobApplies(k, vs)
    BY <1>2, <1>3 DEF JobApplies
  <2>4. QED
    BY <1>2, <2>1, <2>2, <2>3
<1>4. CASE Goes(w, [J EXCEPT !.phase = "write", !.targets = @ \ {c}, !.cluster = c,
                      !.seen = IF vs[J.tc][c] = None THEN "absent" ELSE "present"])
  <2> DEFINE k == [J EXCEPT !.phase = "write", !.targets = @ \ {c}, !.cluster = c,
                      !.seen = IF vs[J.tc][c] = None THEN "absent" ELSE "present"]
  <2>1. /\ k.phase = "write" /\ k.tc = J.tc /\ k.rev = J.rev /\ k.refused = J.refused
        /\ k.targets = J.targets \ {c} /\ k.cluster = c /\ k.owed = J.owed
        /\ k.seen = IF vs[J.tc][c] = None THEN "absent" ELSE "present"
    BY <1>2 DEF Jobs
  <2>2. Goes(w, k)
    BY <1>4
  <2> HIDE DEF k, J
  <2>3. (HasRoutes(k) => JobApplies(k, vs)) /\ JobRev(w, k, current)
    BY <1>3, <2>1
  <2>4. QED
    BY <1>2, <2>2, <2>3, AppliedJobStep
<1>5. CASE Goes(w, [J EXCEPT !.phase = "write", !.targets = @ \ {c}, !.cluster = c,
                      !.seen = "absent", !.owed = @ \ {c}])
  <2> DEFINE k == [J EXCEPT !.phase = "write", !.targets = @ \ {c}, !.cluster = c,
                      !.seen = "absent", !.owed = @ \ {c}]
  <2>1. /\ k.phase = "write" /\ k.tc = J.tc /\ k.rev = J.rev /\ k.refused = J.refused
        /\ k.targets = J.targets \ {c} /\ k.cluster = c /\ k.owed = J.owed \ {c}
    BY <1>2 DEF Jobs
  <2>2. Goes(w, k)
    BY <1>5
  <2> HIDE DEF k, J
  <2>3. (HasRoutes(k) => JobApplies(k, vs)) /\ JobRev(w, k, current)
    BY <1>3, <2>1
  <2>4. QED
    BY <1>2, <2>2, <2>3, AppliedJobStep
<1>6. QED
  BY <1>1, <1>4, <1>5

\* An update is written, fails, or is refused as another worker wrote since it was read.
LEMMA AppliedUpdateStep ==
  ASSUME IInv, AppliedInv, NEW w \in Workers, UpdateVirtualService(w)
  PROVE  AppliedInv'
<1> DEFINE J == job[w]
           c == J.cluster
           j == [Over(J) EXCEPT !.versioned = TRUE]
           f == [j EXCEPT !.owed = @ \ {c}]
<1>1. /\ J \in Jobs /\ J.phase = "write" /\ (HasRoutes(J) => JobApplies(J, vs))
      /\ c \in Clusters /\ c \notin J.targets /\ UNCHANGED <<caches, informed>>
  BY AppliedFacts DEF UpdateVirtualService, JobRev, JobOK
<1>2. \/ J.seen = "present" /\ Store(w, c, J.rev, j)
      \/ J.seen = "outdated" /\ Goes(w, j) /\ vs' = vs
      \/ Goes(w, f) /\ vs' = vs
  BY DEF UpdateVirtualService, CallFails
<1>3. /\ j \in Jobs /\ j.phase = "apply" /\ j.tc = J.tc /\ j.rev = J.rev
      /\ j.targets = J.targets \ {c} /\ j.owed = J.owed /\ j.refused = J.refused
  <2> DEFINE o == Over(J)
  <2>1. /\ o \in Jobs /\ o.phase = "apply" /\ o.tc = J.tc /\ o.rev = J.rev
        /\ o.targets = J.targets /\ o.owed = J.owed /\ o.refused = J.refused
    BY <1>1, OverFields
  <2> HIDE DEF o
  <2>2. LET k == [o EXCEPT !.versioned = TRUE]
        IN  /\ k \in Jobs /\ k.phase = o.phase /\ k.tc = o.tc /\ k.rev = o.rev
            /\ k.targets = o.targets /\ k.owed = o.owed /\ k.refused = o.refused
    BY <2>1, VersionedFields
  <2>3. QED
    BY <1>1, <2>1, <2>2 DEF o
<1> HIDE DEF j
<1>4. /\ f.phase = "apply" /\ f.tc = J.tc /\ f.rev = J.rev
      /\ f.targets = J.targets \ {c} /\ f.owed = J.owed \ {c} /\ f.refused = J.refused
  BY <1>3, OwedFields
<1> HIDE DEF f
<1>5. CASE Store(w, c, J.rev, j)
  BY <1>1, <1>3, <1>5, AppliedWriteStep
<1>6. CASE J.seen = "outdated" /\ Goes(w, j) /\ vs' = vs
  <2>1. HasRoutes(J) => c \notin J.owed \ J.refused
    BY <1>1, <1>6 DEF JobApplies
  <2>2. QED
    BY <1>1, <1>3, <1>6, <2>1, AppliedCallStep
<1>7. CASE Goes(w, f) /\ vs' = vs
  BY <1>1, <1>4, <1>7, AppliedCallStep
<1>8. QED
  BY <1>2, <1>5, <1>6, <1>7

\* So is a creation, or it is refused for the resource version of an earlier update.
LEMMA AppliedCreateStep ==
  ASSUME IInv, AppliedInv, NEW w \in Workers, CreateVirtualService(w)
  PROVE  AppliedInv'
<1> DEFINE J == job[w]
           c == J.cluster
           o == Over(J)
           r == [o EXCEPT !.refused = @ \cup {c}]
           f == [o EXCEPT !.owed = @ \ {c}]
<1>1. /\ J \in Jobs /\ J.phase = "write" /\ J.seen = "absent"
      /\ HasRoutes(J) => JobApplies(J, vs)
      /\ c \in Clusters /\ c \notin J.targets /\ UNCHANGED <<caches, informed>>
  BY AppliedFacts DEF CreateVirtualService, JobRev, JobOK
<1>2. \/ Store(w, c, J.rev, o)
      \/ vs[J.tc][c] # None /\ Goes(w, o) /\ vs' = vs
      \/ Goes(w, r) /\ vs' = vs
      \/ Goes(w, f) /\ vs' = vs
  BY DEF CreateVirtualService, CallFails
<1>3. /\ o \in Jobs /\ o.phase = "apply" /\ o.tc = J.tc /\ o.rev = J.rev
      /\ o.targets = J.targets \ {c} /\ o.owed = J.owed /\ o.refused = J.refused
  BY <1>1, OverFields
<1> HIDE DEF o
<1>4. /\ r.phase = "apply" /\ r.tc = J.tc /\ r.rev = J.rev
      /\ r.targets = J.targets \ {c} /\ r.owed = J.owed /\ r.refused = J.refused \cup {c}
  BY <1>1, <1>3, RefusedFields
<1>5. /\ f.phase = "apply" /\ f.tc = J.tc /\ f.rev = J.rev
      /\ f.targets = J.targets \ {c} /\ f.owed = J.owed \ {c} /\ f.refused = J.refused
  BY <1>3, OwedFields
<1> HIDE DEF r, f
<1>6. CASE Store(w, c, J.rev, o)
  BY <1>1, <1>3, <1>6, AppliedWriteStep
<1>7. CASE vs[J.tc][c] # None /\ Goes(w, o) /\ vs' = vs
  <2>1. HasRoutes(J) => c \notin J.owed \ J.refused
    BY <1>1, <1>7 DEF JobApplies
  <2>2. QED
    BY <1>1, <1>3, <1>7, <2>1, AppliedCallStep
<1>8. CASE Goes(w, r) /\ vs' = vs
  BY <1>1, <1>4, <1>8, AppliedCallStep
<1>9. CASE Goes(w, f) /\ vs' = vs
  BY <1>1, <1>5, <1>9, AppliedCallStep
<1>10. QED
  BY <1>2, <1>6, <1>7, <1>8, <1>9

\* A deletion leaves no revision, which is what its handler applies.
LEMMA AppliedDeleteStep ==
  ASSUME IInv, AppliedInv, NEW w \in Workers, DeleteVirtualService(w)
  PROVE  AppliedInv'
<1> DEFINE J == job[w]
<1>1. PICK c \in Clusters :
         /\ Choose(w, c) /\ J.rev = None
         /\ LET j == [J EXCEPT !.targets = @ \ {c}]
            IN  \/ Store(w, c, None, j)
                \/ CallFails(w, [j EXCEPT !.owed = @ \ {c}])
         /\ UNCHANGED <<caches, informed, everHome>>
  BY DEF DeleteVirtualService
<1>2. J \in Jobs /\ J.phase = "apply"
  BY <1>1, AppliedFacts DEF Choose
<1> DEFINE j == [J EXCEPT !.targets = @ \ {c}]
           f == [j EXCEPT !.owed = @ \ {c}]
<1>3. Store(w, c, J.rev, j) \/ (Goes(w, f) /\ vs' = vs)
  BY <1>1 DEF CallFails
<1>4. /\ j \in Jobs /\ j.phase = "apply" /\ j.tc = J.tc /\ j.rev = J.rev
      /\ j.targets = J.targets \ {c} /\ j.owed = J.owed /\ j.refused = J.refused
  BY <1>2, TargetsFields
<1> HIDE DEF j
<1>5. /\ f.phase = "apply" /\ f.tc = J.tc /\ f.rev = J.rev
      /\ f.targets = J.targets \ {c} /\ f.owed = J.owed \ {c} /\ f.refused = J.refused
  BY <1>4, OwedFields
<1> HIDE DEF f
<1>6. CASE Store(w, c, J.rev, j)
  BY <1>1, <1>2, <1>4, <1>6, AppliedWriteStep
<1>7. CASE Goes(w, f) /\ vs' = vs
  BY <1>1, <1>2, <1>5, <1>7, AppliedCallStep
<1>8. QED
  BY <1>3, <1>6, <1>7

\* So does the return of a handler, which owes nothing any more.
LEMMA AppliedReturnStep ==
  ASSUME IInv, AppliedInv, NEW w \in Workers, HandlerReturns(w)
  PROVE  AppliedInv'
<1> DEFINE J == job[w]
           j == [J EXCEPT !.phase = J.next, !.next = "idle", !.tc = NoIdentity, !.rev = None,
                          !.source = NoIdentity, !.versioned = FALSE, !.owed = {}, !.refused = {}]
<1>1. J \in Jobs /\ UNCHANGED <<caches, informed, vs>> /\ (Goes(w, Idle) \/ Goes(w, j))
  BY AppliedFacts DEF HandlerReturns, Quiet
<1>2. Idle.phase \notin Handling /\ Idle.owed = {}
  BY DEF Idle, Handling
<1>3. j.phase \notin Handling /\ j.owed = {}
  BY <1>1 DEF Jobs, Handling
<1> HIDE DEF j
<1>4. QED
  BY <1>1, <1>2, <1>3, RestingApplies, AppliedJobStep

\* The traffic config's own worker triggers nothing: it applies what it is told
\* of and is idle again.
OwnInv == job["trafficconfig"].phase \notin Triggers /\ job["trafficconfig"].next = "idle"

\* A step of that worker keeps it so.
LEMMA OwnStep ==
  ASSUME IInv, OwnInv, Step("trafficconfig")
  PROVE  OwnInv'
<1> DEFINE w == "trafficconfig"
           J == job[w]
<1>1. w \in Workers
  BY DEF Workers
<1>2. J \in Jobs /\ J.phase \notin Triggers /\ J.next = "idle"
  BY <1>1, JobFacts DEF OwnInv
<1>3. ASSUME NEW k, job'[w] = k, k.phase \notin Triggers, k.next = "idle" PROVE OwnInv'
  BY <1>3 DEF OwnInv
<1>4. ASSUME NEW k, Goes(w, k) PROVE job'[w] = k
  BY <1>1, <1>4 DEF Goes, IInv, TypeOK
<1>5. ASSUME NEW c, NEW r, NEW k, Store(w, c, r, k) PROVE job'[w] = k
  BY <1>1, <1>5 DEF Store
<1>6. ~(TriggerSelf(w) \/ TriggerDependents(w) \/ TriggerDependent(w) \/ Triggered(w))
  BY <1>2 DEF TriggerSelf, TriggerDependents, TriggerDependent, Triggered, Triggers
<1>7. /\ dependents \in [Identities -> SUBSET Identities]
      /\ home \in [Identities -> SUBSET Clusters]
  BY DEF IInv, TypeOK
<1>8. CASE LookUpClients(w)
  <2>1. PICK D : D \subseteq dependents[J.tc] /\ Goes(w, LookingUp(J, D))
    BY <1>8 DEF LookUpClients, GetDependentsForIdentity
  <2>2. J.tc \in Identities
    BY <1>1, <1>8, JobFacts DEF LookUpClients, JobOK, Handling
  <2>3. D \in SUBSET Identities
    BY <1>7, <2>1, <2>2
  <2> DEFINE k == LookingUp(J, D)
  <2>4. k.phase \notin Triggers /\ k.next = "idle" /\ Goes(w, k)
    BY <1>2, <2>1, <2>3, LookingUpFields DEF Triggers
  <2> HIDE DEF k
  <2>5. QED
    BY <1>3, <1>4, <2>4
<1>9. CASE LookUpClusters(w)
  <2>1. PICK d \in J.deps : Goes(w, ClustersFound(J, d, home[d]))
    BY <1>9 DEF LookUpClusters, GetClustersForIdentity
  <2>2. home[d] \in SUBSET Clusters
    BY <1>2, <1>7 DEF Jobs
  <2> DEFINE k == ClustersFound(J, d, home[d])
  <2>3. k.phase \notin Triggers /\ k.next = "idle" /\ Goes(w, k)
    BY <1>2, <2>1, <2>2, FoundFields DEF Triggers
  <2> HIDE DEF k
  <2>4. QED
    BY <1>3, <1>4, <2>3
<1>10. CASE SkipCluster(w)
  <2>1. PICK c : Goes(w, [J EXCEPT !.targets = @ \ {c}, !.owed = @ \ {c}])
    BY <1>10 DEF SkipCluster
  <2>2. /\ [J EXCEPT !.targets = @ \ {c}, !.owed = @ \ {c}].phase \notin Triggers
        /\ [J EXCEPT !.targets = @ \ {c}, !.owed = @ \ {c}].next = "idle"
    BY <1>2 DEF Jobs
  <2>3. QED
    BY <1>3, <1>4, <2>1, <2>2
<1>11. CASE GetVirtualService(w)
  <2>1. PICK c \in Clusters, s \in {"absent", "present"} :
           \/ Goes(w, [J EXCEPT !.phase = "write", !.targets = @ \ {c}, !.cluster = c, !.seen = s])
           \/ Goes(w, [J EXCEPT !.phase = "write", !.targets = @ \ {c}, !.cluster = c, !.seen = s,
                                !.owed = @ \ {c}])
    BY <1>11 DEF GetVirtualService
  <2> DEFINE k == [J EXCEPT !.phase = "write", !.targets = @ \ {c}, !.cluster = c, !.seen = s]
             f == [J EXCEPT !.phase = "write", !.targets = @ \ {c}, !.cluster = c, !.seen = s,
                            !.owed = @ \ {c}]
  <2>2. /\ k.phase \notin Triggers /\ k.next = "idle"
        /\ f.phase \notin Triggers /\ f.next = "idle"
    BY <1>2 DEF Jobs, Triggers
  <2>3. Goes(w, k) \/ Goes(w, f)
    BY <2>1
  <2> HIDE DEF k, f
  <2>4. QED
    BY <1>3, <1>4, <2>2, <2>3
<1>12. CASE UpdateVirtualService(w) \/ CreateVirtualService(w)
  <2> DEFINE o == Over(J)
             v == [o EXCEPT !.versioned = TRUE]
             f == [v EXCEPT !.owed = @ \ {J.cluster}]
             g == [o EXCEPT !.owed = @ \ {J.cluster}]
             r == [o EXCEPT !.refused = @ \cup {J.cluster}]
  <2>1. \E k \in {o, v, f, g, r} : Goes(w, k) \/ Store(w, J.cluster, J.rev, k)
    BY <1>12 DEF UpdateVirtualService, CreateVirtualService, CallFails
  <2>2. o \in Jobs /\ o.phase \notin Triggers /\ o.next = "idle"
    BY <1>2 DEF Over, Jobs, Handling, Triggers
  <2> HIDE DEF o
  <2>3. v \in Jobs /\ v.phase \notin Triggers /\ v.next = "idle"
    BY <2>2 DEF Jobs
  <2>4. /\ g.phase \notin Triggers /\ g.next = "idle"
        /\ r.phase \notin Triggers /\ r.next = "idle"
    BY <2>2 DEF Jobs
  <2> HIDE DEF v
  <2>5. f.phase \notin Triggers /\ f.next = "idle"
    BY <2>3 DEF Jobs
  <2> HIDE DEF f, g, r
  <2>6. QED
    BY <1>3, <1>4, <1>5, <2>1, <2>2, <2>3, <2>4, <2>5
<1>13. CASE DeleteVirtualService(w)
  <2>1. PICK c \in Clusters :
           LET j == [J EXCEPT !.targets = @ \ {c}]
           IN  Store(w, c, None, j) \/ Goes(w, [j EXCEPT !.owed = @ \ {c}])
    BY <1>13 DEF DeleteVirtualService, CallFails
  <2> DEFINE j == [J EXCEPT !.targets = @ \ {c}]
             f == [j EXCEPT !.owed = @ \ {c}]
  <2>2. j \in Jobs /\ j.phase \notin Triggers /\ j.next = "idle"
    BY <1>2 DEF Jobs
  <2>3. Store(w, c, None, j) \/ Goes(w, f)
    BY <2>1
  <2> HIDE DEF j
  <2>4. f.phase \notin Triggers /\ f.next = "idle"
    BY <2>2 DEF Jobs
  <2> HIDE DEF f
  <2>5. QED
    BY <1>3, <1>4, <1>5, <2>2, <2>3, <2>4
<1>14. CASE HandlerReturns(w)
  <2>1. Goes(w, Idle)
    BY <1>2, <1>14 DEF HandlerReturns
  <2>2. Idle.phase \notin Triggers /\ Idle.next = "idle"
    BY DEF Idle, Triggers
  <2>3. QED
    BY <1>3, <1>4, <2>1, <2>2
<1>15. QED
  BY <1>6, <1>8, <1>9, <1>10, <1>11, <1>12, <1>13, <1>14 DEF Step

\* A step of another worker only disturbs it.
LEMMA OtherStep ==
  ASSUME IInv, OwnInv, NEW w \in Workers, w # "trafficconfig", Step(w)
  PROVE  OwnInv'
<1> DEFINE v == "trafficconfig"
<1>1. v \in Workers /\ job[v] \in Jobs /\ job \in [Workers -> Jobs]
  BY JobFacts DEF Workers, IInv, TypeOK
<1>2. (\E k : Goes(w, k)) \/ (\E c, r, k : Store(w, c, r, k))
  BY DEF Step, TriggerSelf, TriggerDependents, TriggerDependent, Triggered, LookUpClients,
         LookUpClusters, SkipCluster, GetVirtualService, UpdateVirtualService,
         CreateVirtualService, DeleteVirtualService, HandlerReturns, CallFails
<1>3. ASSUME NEW k, Goes(w, k) PROVE OwnInv'
  <2>1. job'[v] = job[v]
    BY <1>1, <1>3 DEF Goes
  <2>2. QED
    BY <2>1 DEF OwnInv
<1>4. ASSUME NEW c, NEW r, NEW k, Store(w, c, r, k) PROVE OwnInv'
  <2>1. job'[v] = Disturbed(job[v], job[w].tc, c)
    BY <1>1, <1>4 DEF Store
  <2>2. job'[v].phase = job[v].phase /\ job'[v].next = job[v].next
    BY <1>1, <2>1 DEF Disturbed, Jobs
  <2>3. QED
    BY <2>2 DEF OwnInv
<1>5. QED
  BY <1>2, <1>3, <1>4

\* The invariant of what handlers leave, and of who triggers.
AInv == AppliedInv /\ OwnInv

\* A notification to an idle worker preserves the invariant if the job it starts
\* is fine and the cache is not ahead; only the traffic config's own worker is
\* told of revisions.
LEMMA AppliedNotification ==
  ASSUME IInv, AInv, NEW w \in Workers, IsIdle(w), NEW j,
         job' = job \/ job' = [job EXCEPT ![w] = j],
         JobApplies(j, vs), JobRev(w, j, current'), vs' = vs,
         w = "trafficconfig" => j.phase \notin Triggers /\ j.next = "idle",
         current' \in [Identities -> Nat], routeless \subseteq routeless',
         current' = current \/ w = "trafficconfig",
         \A i \in Identities : current[i] <= current'[i] /\ cached'[i] <= current'[i]
  PROVE  AInv'
<1>1. /\ current \in [Identities -> Nat] /\ vs \in [Identities -> [Clusters -> Nat]]
      /\ job \in [Workers -> Jobs]
  BY DEF IInv, TypeOK
<1>2. ASSUME NEW v \in Workers
      PROVE  /\ Routes(job'[v], current', routeless') => JobApplies(job'[v], vs')
             /\ JobRev(v, job'[v], current')
  <2>1. /\ job[v] \in Jobs /\ JobRev(v, job[v], current)
        /\ Routes(job[v], current, routeless) => JobApplies(job[v], vs)
        /\ job[v].phase \in Handling => job[v].tc \in Identities
    BY AppliedFacts DEF AInv, AppliedInv, JobOK
  <2>2. v # w => JobRev(v, job[v], current')
    <3>1. CASE current' = current
      BY <2>1, <3>1
    <3>2. CASE w = "trafficconfig" /\ v # w
      <4>1. job[v].rev \in Nat
        BY <2>1 DEF Jobs
      <4>2. job[v].phase \in Handling =>
               current[job[v].tc] \in Nat /\ current'[job[v].tc] \in Nat
                  /\ current[job[v].tc] <= current'[job[v].tc]
        BY <1>1, <2>1
      <4>3. QED
        BY <2>1, <3>2, <4>1, <4>2 DEF JobRev
    <3>3. QED
      BY <3>1, <3>2
  <2>3. job[w].phase \notin Handling /\ job[w].owed = {}
    <3>1. JobRev(w, job[w], current)
      BY AppliedFacts DEF AInv
    <3>2. QED
      BY <3>1 DEF IsIdle, Handling, JobRev
  <2>4. JobApplies(job[w], vs) /\ JobRev(w, job[w], current')
    BY <2>3, RestingApplies
  <2>5. job'[v] = job[v] \/ (v = w /\ job'[v] = j)
    BY <1>1
  <2>6. CASE job'[v] = job[v] /\ v # w
    <3>1. job[v].phase \notin {"apply", "write"} => JobApplies(job[v], vs)
      BY DEF JobApplies
    <3>2. job[v].phase \in {"apply", "write"} =>
             (Routes(job[v], current', routeless') => Routes(job[v], current, routeless))
      <4>1. job[v].phase \in {"apply", "write"} => current' = current \/ job[v].rev # None
        BY <2>1, <2>6 DEF JobRev, Handling
      <4>2. QED
        BY <4>1 DEF Routes
    <3>3. QED
      BY <2>1, <2>2, <2>6, <3>1, <3>2
  <2>7. CASE job'[v] = job[v] /\ v = w
    BY <2>4, <2>7
  <2>8. CASE v = w /\ job'[v] = j
    BY <2>8
  <2>9. QED
    BY <2>5, <2>6, <2>7, <2>8
<1>3. ASSUME NEW i \in Identities
      PROVE  cached'[i] <= current'[i] /\ \A c \in Clusters : vs'[i][c] <= current'[i]
  <2>1. /\ current[i] \in Nat /\ current'[i] \in Nat /\ current[i] <= current'[i]
        /\ \A c \in Clusters : vs[i][c] \in Nat /\ vs[i][c] <= current[i]
    BY <1>1 DEF AInv, AppliedInv
  <2>2. QED
    BY <2>1
<1>4. AppliedInv'
  BY <1>2, <1>3 DEF AppliedInv
<1>5. OwnInv'
  <2>1. "trafficconfig" \in Workers
    BY DEF Workers
  <2>2. \/ job'["trafficconfig"] = job["trafficconfig"]
        \/ w = "trafficconfig" /\ job'["trafficconfig"] = j
    BY <1>1, <2>1
  <2>3. QED
    BY <2>2 DEF AInv, OwnInv
<1>6. QED
  BY <1>4, <1>5 DEF AInv

\* An idle worker owes nothing.
LEMMA IdleOwes ==
  ASSUME IInv, AInv, NEW w \in Workers, IsIdle(w)
  PROVE  /\ job[w] \in Jobs /\ job[w].owed = {}
         /\ \A C : JobApplies(job[w], vs) /\ JobRev(w, job[w], C)
<1>1. job[w] \in Jobs /\ JobRev(w, job[w], current)
  BY AppliedFacts DEF AInv
<1>2. job[w].owed = {}
  BY <1>1 DEF JobRev, IsIdle
<1>3. job[w].phase \notin Handling
  BY DEF IsIdle, Handling
<1>4. QED
  BY <1>1, <1>2, <1>3, RestingApplies

\* Notifications of traffic configs preserve the invariant.
LEMMA AppliedTrafficConfigSteps ==
  ASSUME IInv, AInv, NEW i \in Identities,
         \/ TrafficConfigAdded(i) \/ TrafficConfigUpdated(i)
         \/ TrafficConfigSkipped(i) \/ TrafficConfigDeleted(i)
  PROVE  AInv'
<1> DEFINE w == "trafficconfig"
<1>1. w \in Workers /\ IsIdle(w) /\ vs' = vs
  BY DEF TrafficConfigAdded, TrafficConfigUpdated, TrafficConfigSkipped, TrafficConfigDeleted,
         NewRevision, Workers
<1>2. /\ current \in [Identities -> Nat] /\ cached \in [Identities -> Nat]
      /\ \A h \in Identities : cached[h] <= current[h]
  BY DEF AInv, AppliedInv, IInv, TypeOK
<1>3. current' = current \/ current' = [current EXCEPT ![i] = @ + 1]
  BY DEF TrafficConfigAdded, TrafficConfigUpdated, TrafficConfigSkipped, TrafficConfigDeleted,
         NewRevision
<1>a. routeless \subseteq routeless'
  BY DEF TrafficConfigAdded, TrafficConfigUpdated, TrafficConfigSkipped, TrafficConfigDeleted,
         NewRevision
<1>4. /\ current' \in [Identities -> Nat] /\ routeless \subseteq routeless'
      /\ \A h \in Identities : current[h] <= current'[h]
  BY <1>2, <1>3, <1>a
<1>5. \A h \in Identities : cached'[h] <= current'[h]
  <2>1. \/ cached' = cached
        \/ cached' = [cached EXCEPT ![i] = None]
        \/ cached' = [cached EXCEPT ![i] = current'[i]]
    BY DEF TrafficConfigAdded, TrafficConfigUpdated, TrafficConfigSkipped, TrafficConfigDeleted,
           AddTrafficConfigToCache, DeleteTrafficConfigFromCache
  <2>2. ASSUME NEW h \in Identities PROVE cached'[h] <= current'[h]
    <3>1. /\ cached[h] \in Nat /\ current[h] \in Nat /\ current'[h] \in Nat
          /\ cached[h] <= current[h] /\ current[h] <= current'[h]
      BY <1>2, <1>4
    <3>2. cached'[h] \in {cached[h], None, current'[h]}
      BY <1>2, <2>1
    <3>3. QED
      BY <3>1, <3>2 DEF None
  <2>3. QED
    BY <2>2
<1>6. job' = job \/ \E r \in {None, current'[i]} : ApplyIfWarm(i, r)
  BY DEF TrafficConfigAdded, TrafficConfigUpdated, TrafficConfigSkipped, TrafficConfigDeleted
<1>7. /\ job[w] \in Jobs /\ JobApplies(job[w], vs) /\ JobRev(w, job[w], current')
      /\ job[w].phase \notin Triggers /\ job[w].next = "idle"
  BY <1>1, IdleOwes DEF AInv, OwnInv
<1>8. CASE job' = job
  <2> HIDE DEF w
  <2>1. QED
    BY <1>1, <1>4, <1>5, <1>7, <1>8, AppliedNotification DEF w
<1>9. ASSUME NEW r \in {None, current'[i]}, job' = [job EXCEPT ![w] = Applying(job[w], i, r,
                                                                          NoIdentity, "idle")]
      PROVE  AInv'
  <2> DEFINE j == Applying(job[w], i, r, NoIdentity, "idle")
  <2>1. r \in Nat /\ r <= current'[i]
    BY <1>4 DEF None
  <2>2. JobApplies(j, vs) /\ JobRev(w, j, current')
    BY <1>7, <2>1, ApplyingApplies
  <2>3. j.phase \notin Triggers /\ j.next = "idle"
    BY <1>7 DEF Applying, Jobs, Triggers
  <2>4. job' = [job EXCEPT ![w] = j]
    BY <1>9
  <2> HIDE DEF j, w
  <2>5. QED
    BY <1>1, <1>4, <1>5, <2>2, <2>3, <2>4, AppliedNotification DEF w
<1>10. QED
  BY <1>6, <1>8, <1>9 DEF ApplyIfWarm

\* Notifications that trigger others, or nobody, preserve the invariant.
LEMMA AppliedOtherNotifications ==
  ASSUME IInv, AInv, NEW w \in Workers, w # "trafficconfig", IsIdle(w), NEW I,
         job' = job \/ job' = [job EXCEPT ![w] = Triggering(job[w], I)],
         UNCHANGED <<cached, current, routeless, vs>>
  PROVE  AInv'
<1>1. JobApplies(Triggering(job[w], I), vs) /\ JobRev(w, Triggering(job[w], I), current')
  BY IdleOwes, TriggeringApplies
<1>2. /\ current' \in [Identities -> Nat] /\ current' = current
      /\ \A i \in Identities : current[i] <= current'[i] /\ cached'[i] <= current'[i]
  BY DEF AInv, AppliedInv, IInv, TypeOK
<1>3. QED
  BY <1>1, <1>2, AppliedNotification

\* The invariant holds initially.
LEMMA InitAInv == Init => AInv
<1>1. SUFFICES ASSUME Init PROVE AInv
  OBVIOUS
<1>2. \A w \in Workers : job[w] = Idle
  BY <1>1 DEF Init
<1>3. Idle.phase \notin Handling /\ Idle.owed = {} /\ Idle.phase \notin Triggers /\ Idle.next = "idle"
  BY DEF Idle, Handling, Triggers
<1>4. \A w \in Workers : JobApplies(job[w], vs) /\ JobRev(w, job[w], current)
  BY <1>2, <1>3, RestingApplies
<1>5. \A i \in Identities : cached[i] <= current[i] /\ \A c \in Clusters : vs[i][c] <= current[i]
  <2>1. /\ cached = [i \in Identities |-> None] /\ current = [i \in Identities |-> None]
        /\ vs = [i \in Identities |-> [c \in Clusters |-> None]]
    BY <1>1 DEF Init
  <2>2. /\ \A i \in Identities : cached[i] = 0 /\ current[i] = 0
        /\ \A i \in Identities, c \in Clusters : vs[i][c] = 0
    BY <2>1, Zenon DEF None
  <2>3. 0 <= 0
    OBVIOUS
  <2>4. QED
    BY <2>2, <2>3, Zenon
<1>6. QED
  BY <1>2, <1>3, <1>4, <1>5 DEF AInv, AppliedInv, OwnInv, Workers

\* Every step preserves the invariant.
LEMMA NextAInv == IInv /\ AInv /\ [Next]_vars => AInv'
<1>1. SUFFICES ASSUME IInv, AInv, [Next]_vars PROVE AInv'
  OBVIOUS
<1>2. CASE UNCHANGED <<current, cached, routeless, job, vs>>
  BY <1>1, <1>2 DEF AInv, AppliedInv, OwnInv
<1>3. CASE UNCHANGED vars
  BY <1>2, <1>3 DEF vars, caches, informed
<1>4. CASE WarmUp
  BY <1>2, <1>4 DEF WarmUp, informed
<1>5. ASSUME NEW c \in Clusters, ClusterDeleted(c) PROVE AInv'
  BY <1>2, <1>5 DEF ClusterDeleted, informed
<1>6. ASSUME NEW i \in Configured,
             \/ TrafficConfigAdded(i) \/ TrafficConfigUpdated(i)
             \/ TrafficConfigSkipped(i) \/ TrafficConfigDeleted(i)
      PROVE  AInv'
  BY <1>1, <1>6, TrafficConfigAssumption, AppliedTrafficConfigSteps
<1>7. ASSUME NEW i \in Identities, DependencyDeleted(i) PROVE AInv'
  BY <1>2, <1>7 DEF DependencyDeleted, caches
<1>8. ASSUME NEW i \in Identities, NEW D \in SUBSET Identities,
             DependencyAdded(i, D) \/ DependencyUpdated(i, D)
      PROVE  AInv'
  <2> DEFINE w == "dependency"
             I == D \ destinations[i]
  <2>1. w \in Workers /\ IsIdle(w) /\ UNCHANGED <<cached, current, routeless, vs>>
    BY <1>8 DEF DependencyAdded, DependencyUpdated, Depend, Workers
  <2>2. job' = job \/ job' = [job EXCEPT ![w] = Triggering(job[w], I)]
    BY <1>8 DEF DependencyAdded, DependencyUpdated
  <2>3. w # "trafficconfig"
    OBVIOUS
  <2> HIDE DEF w, I
  <2>4. QED
    BY <1>1, <2>1, <2>2, <2>3, AppliedOtherNotifications
<1>9. ASSUME NEW i \in Identities, NEW c \in Clusters, WorkloadAdded(i, c) \/ WorkloadDeleted(i, c)
      PROVE  AInv'
  <2>1. c \in Workers /\ IsIdle(c) /\ UNCHANGED <<cached, current, routeless, vs>>
    BY <1>9 DEF WorkloadAdded, WorkloadDeleted, informed, Workers
  <2>2. job' = job \/ job' = [job EXCEPT ![c] = Triggering(job[c], {i})]
    BY <1>9 DEF WorkloadAdded, WorkloadDeleted
  <2>3. c # "trafficconfig"
    BY TrafficConfigAssumption
  <2>4. QED
    BY <1>1, <2>1, <2>2, <2>3, AppliedOtherNotifications
<1>10. ASSUME NEW w \in Workers, Step(w) PROVE AInv'
  <2>1. OwnInv'
    BY <1>1, <1>10, OwnStep, OtherStep DEF AInv
  <2>2. w = "trafficconfig" =>
           ~(TriggerSelf(w) \/ TriggerDependents(w) \/ TriggerDependent(w) \/ Triggered(w))
    BY <1>1 DEF AInv, OwnInv, TriggerSelf, TriggerDependents, TriggerDependent, Triggered, Triggers
  <2>3. AppliedInv'
    BY <1>1, <1>10, <2>2, AppliedTriggerSteps, AppliedLookUpSteps, AppliedSkipStep, AppliedGetStep,
       AppliedUpdateStep, AppliedCreateStep, AppliedDeleteStep, AppliedReturnStep DEF AInv, Step
  <2>4. QED
    BY <2>1, <2>3 DEF AInv
<1>11. ASSUME NEW i \in Configured, TrafficConfigDeletedTombstone(i) PROVE AInv'
  BY <1>2, <1>11 DEF TrafficConfigDeletedTombstone, caches
<1>12. QED
  BY <1>1, <1>3, <1>4, <1>5, <1>6, <1>7, <1>8, <1>9, <1>10, <1>11 DEF Next

-----------------------------------------------------------------------------

\* What a handler is told of is in every cluster it looked up when it is done,
\* but for the exceptions of HandledIsApplied.
THEOREM HandledRevisionIsApplied == Spec => []HandledIsApplied
<1>1. IInv /\ AInv => HandledIsApplied
  <2>1. SUFFICES ASSUME IInv, AInv, NEW w \in Workers, Applied(w), HasRoutes(job[w]),
                        NEW c \in job[w].owed \ job[w].refused
                 PROVE  vs[job[w].tc][c] = job[w].rev
    BY DEF HandledIsApplied
  <2>2. JobApplies(job[w], vs)
    BY <2>1, AppliedFacts DEF AInv
  <2>3. QED
    BY <2>1, <2>2 DEF JobApplies, Applied
<1>2. QED
  BY <1>1, InitIInv, NextIInv, InitAInv, NextAInv, PTL DEF Spec

\* The only steps that change virtual services are calls of handlers.
LEMMA WhoStores ==
  ASSUME Next, vs' # vs
  PROVE  \E w \in Workers :
            UpdateVirtualService(w) \/ CreateVirtualService(w) \/ DeleteVirtualService(w)
<1>1. ~(WarmUp \/ (\E c \in Clusters : ClusterDeleted(c)))
  BY DEF WarmUp, ClusterDeleted
<1>2. ASSUME NEW i \in Configured
      PROVE  ~(TrafficConfigAdded(i) \/ TrafficConfigUpdated(i) \/ TrafficConfigSkipped(i)
               \/ TrafficConfigDeleted(i) \/ TrafficConfigDeletedTombstone(i))
  BY DEF TrafficConfigAdded, TrafficConfigUpdated, TrafficConfigSkipped, TrafficConfigDeleted,
         TrafficConfigDeletedTombstone, NewRevision
<1>3. ASSUME NEW i \in Identities
      PROVE  ~(\/ \E D \in SUBSET Identities : DependencyAdded(i, D) \/ DependencyUpdated(i, D)
               \/ DependencyDeleted(i)
               \/ \E c \in Clusters : WorkloadAdded(i, c) \/ WorkloadDeleted(i, c))
  BY DEF DependencyAdded, DependencyUpdated, Depend, DependencyDeleted, WorkloadAdded,
         WorkloadDeleted
<1>4. ASSUME NEW w \in Workers, Step(w)
      PROVE  UpdateVirtualService(w) \/ CreateVirtualService(w) \/ DeleteVirtualService(w)
  BY <1>4 DEF Step, TriggerSelf, TriggerDependents, TriggerDependent, Triggered, LookUpClients,
              LookUpClusters, SkipCluster, GetVirtualService, HandlerReturns, Quiet
<1>5. QED
  BY <1>1, <1>2, <1>3, <1>4 DEF Next

\* The traffic config's own handler never replaces a revision by an older one: it
\* applies the current one, and no virtual service is ahead of that.
THEOREM OwnHandlerNeverGoesBack == Spec => OwnHandlerMovesOn
<1>1. ASSUME IInv, AInv, [Next]_vars, NEW i \in Identities, NEW c \in Clusters,
             job["trafficconfig"].phase = "write", job'["trafficconfig"].phase # "write"
      PROVE  vs'[i][c] >= vs[i][c]
  <2> DEFINE t == "trafficconfig"
  <2>1. /\ t \in Workers /\ job[t] \in Jobs /\ job[t].tc \in Identities
        /\ vs \in [Identities -> [Clusters -> Nat]] /\ vs[i][c] \in Nat
        /\ current \in [Identities -> Nat]
    BY <1>1, JobFacts DEF IInv, TypeOK, Workers, JobOK, Handling
  <2>2. CASE vs' = vs
    BY <2>1, <2>2
  <2>3. CASE vs' # vs
    <3>1. PICK w \in Workers :
             UpdateVirtualService(w) \/ CreateVirtualService(w) \/ DeleteVirtualService(w)
      BY <1>1, <2>3, WhoStores DEF vars
    <3>2. CASE w # t
      <4>1. PICK d, r, k : Store(w, d, r, k)
        BY <2>3, <3>1 DEF UpdateVirtualService, CreateVirtualService, DeleteVirtualService, CallFails
      <4>2. job'[t] = Disturbed(job[t], job[w].tc, d)
        BY <2>1, <3>2, <4>1 DEF Store
      <4>3. job'[t].phase = job[t].phase
        BY <2>1, <4>2 DEF Disturbed, Jobs
      <4>4. QED
        BY <1>1, <4>3
    <3>3. CASE w = t
      <4>1. \E d \in Clusters : vs' = [vs EXCEPT ![job[t].tc][d] = job[t].rev]
        <5>1. UpdateVirtualService(t) \/ CreateVirtualService(t)
          BY <1>1, <3>1, <3>3 DEF DeleteVirtualService, Choose
        <5>2. job[t].cluster \in Clusters
          BY <1>1, <2>1, JobFacts DEF JobOK
        <5>3. QED
          BY <2>3, <5>1, <5>2 DEF UpdateVirtualService, CreateVirtualService, Store, CallFails
      <4>2. job[t].rev = current[job[t].tc]
        BY <1>1, <2>1 DEF AInv, AppliedInv, JobRev, Handling
      <4>3. vs[job[t].tc][c] <= current[job[t].tc] /\ current[job[t].tc] \in Nat
        BY <1>1, <2>1 DEF AInv, AppliedInv
      <4>4. vs'[i][c] = vs[i][c] \/ (i = job[t].tc /\ vs'[i][c] = job[t].rev)
        BY <2>1, <4>1
      <4>5. QED
        BY <2>1, <4>2, <4>3, <4>4
    <3>4. QED
      BY <3>2, <3>3
  <2>4. QED
    BY <2>2, <2>3
<1>2. IInv /\ AInv /\ [Next]_vars =>
         [\A i \in Identities, c \in Clusters :
             job["trafficconfig"].phase = "write" /\ job'["trafficconfig"].phase # "write" =>
                 vs'[i][c] >= vs[i][c]]_vars
  BY <1>1
<1>3. QED
  BY <1>2, InitIInv, NextIInv, InitAInv, NextAInv, PTL DEF Spec, OwnHandlerMovesOn

-----------------------------------------------------------------------------
(* TrafficConfigs implements RevisionRollout.                               *)

HeldBy(j) == IF j.phase \in Handling THEN <<j.tc, j.rev>> ELSE <<NoIdentity, None>>

heldNow == [w \in Workers |-> HeldBy(job[w])]
reachNow == [i \in Identities |-> UNION {everHome[d] : d \in dependents[i]}]
rollout == <<current, cached, reachNow, heldNow, vs>>

\* The variables of RevisionRollout.
LEMMA RolloutVars ==
  /\ Rollout!vars = rollout
  /\ Rollout!Nothing = <<NoIdentity, None>> /\ Rollout!None = None
  BY DEF Rollout!vars, Rollout!Nothing, Rollout!None, rollout, heldNow, reachNow, HeldBy, None

\* A worker that goes on holds what its job says, and others hold what they held.
LEMMA HeldAfter ==
  ASSUME IInv, NEW w \in Workers, NEW j, Goes(w, j)
  PROVE  heldNow' = [heldNow EXCEPT ![w] = HeldBy(j)]
<1>1. \A v \in Workers : job'[v] = IF v = w THEN j ELSE job[v]
  BY DEF Goes, IInv, TypeOK
<1>2. \A v \in Workers : HeldBy(job'[v]) = IF v = w THEN HeldBy(j) ELSE HeldBy(job[v])
  BY <1>1
<1>3. /\ heldNow' = [v \in Workers |-> HeldBy(job'[v])]
      /\ heldNow = [v \in Workers |-> HeldBy(job[v])]
  BY DEF heldNow, HeldBy
<1> HIDE DEF HeldBy
<1>4. QED
  BY <1>2, <1>3

\* It still holds what it held.
Keeps(k, j) == HeldBy(k) = HeldBy(j)

\* A handler that goes on with the same revision holds the same.
LEMMA KeepsRevision ==
  ASSUME NEW j, NEW k, j.phase \in Handling, k.phase \in Handling, k.tc = j.tc, k.rev = j.rev
  PROVE  Keeps(k, j)
  BY DEF Keeps, HeldBy

\* Before and after a trigger nothing is held.
LEMMA KeepsNothing ==
  ASSUME NEW j, NEW k, j.phase \notin Handling, k.phase \notin Handling
  PROVE  Keeps(k, j)
  BY DEF Keeps, HeldBy

\* A step that keeps what workers hold is a stutter.
LEMMA KeepsStutters ==
  ASSUME IInv, NEW w \in Workers, NEW j, Goes(w, j), Keeps(j, job[w]),
         UNCHANGED <<current, cached, dependents, everHome, vs>>
  PROVE  UNCHANGED rollout
<1>1. heldNow' = [heldNow EXCEPT ![w] = HeldBy(job[w])]
  BY HeldAfter DEF Keeps
<1>2. heldNow \in [Workers -> {HeldBy(job[v]) : v \in Workers}] /\ heldNow[w] = HeldBy(job[w])
  BY DEF heldNow
<1>3. heldNow' = heldNow
  BY <1>1, <1>2
<1>4. reachNow' = reachNow
  BY DEF reachNow
<1>5. QED
  BY <1>3, <1>4 DEF rollout

\* To begin with what the cache has is to take it.
LEMMA TakesCached ==
  ASSUME IInv, NEW w \in Workers, w # "trafficconfig", job[w].phase \notin Handling,
         NEW i \in Identities, cached[i] # None, NEW j \in Jobs, NEW s, NEW next,
         Goes(w, Applying(j, i, cached[i], s, next)),
         UNCHANGED <<current, cached, dependents, everHome, vs>>
  PROVE  Rollout!Next
<1>1. HeldBy(Applying(j, i, cached[i], s, next)) = <<i, cached[i]>>
  BY DEF Applying, Jobs, HeldBy, Handling
<1>2. heldNow' = [heldNow EXCEPT ![w] = <<i, cached[i]>>]
  BY <1>1, HeldAfter
<1>3. heldNow[w] = <<NoIdentity, None>>
  BY DEF heldNow, HeldBy
<1>4. reachNow' = reachNow
  BY DEF reachNow
<1>5. Rollout!Hold(w, i, cached[i])
  BY <1>2, <1>3, RolloutVars DEF Rollout!Hold, heldNow, HeldBy
<1>6. Rollout!Take(w, i)
  BY <1>4, <1>5, RolloutVars DEF Rollout!Take, reachNow
<1>7. QED
  BY <1>6 DEF Rollout!Next

\* The steps of a trigger: it holds nothing but what it takes from the cache.
LEMMA TriggerRollout ==
  ASSUME IInv, AInv, NEW w \in Workers,
         TriggerSelf(w) \/ TriggerDependents(w) \/ TriggerDependent(w) \/ Triggered(w)
  PROVE  Rollout!Next \/ UNCHANGED rollout
<1> DEFINE J == job[w]
<1>1. /\ J \in Jobs /\ J.phase \in Triggers /\ J.phase \notin Handling
      /\ UNCHANGED <<current, cached, dependents, everHome, vs>>
  BY JobFacts DEF TriggerSelf, TriggerDependents, TriggerDependent, Triggered, Quiet, Triggers,
                  Handling, caches, informed
<1>2. w # "trafficconfig"
  BY <1>1 DEF AInv, OwnInv
<1>3. CASE TriggerSelf(w)
  <2>1. PICK i \in J.pending :
           LET j == [J EXCEPT !.pending = @ \ {i}, !.of = i, !.phase = "dependents"]
           IN  Goes(w, IF GetTrafficConfig(i) = None THEN j
                       ELSE Applying(j, i, GetTrafficConfig(i), NoIdentity, "dependents"))
    BY <1>3 DEF TriggerSelf
  <2> DEFINE j == [J EXCEPT !.pending = @ \ {i}, !.of = i, !.phase = "dependents"]
  <2>2. i \in Identities
    BY <1>1 DEF Jobs
  <2>3. j \in Jobs /\ j.phase \notin Handling
    BY <1>1, <2>2 DEF Jobs, Triggers, MaybeIdentity, Handling
  <2>4. IF cached[i] = None THEN Goes(w, j)
        ELSE Goes(w, Applying(j, i, cached[i], NoIdentity, "dependents"))
    BY <2>1 DEF GetTrafficConfig
  <2> HIDE DEF j
  <2>5. CASE cached[i] = None
    BY <1>1, <2>3, <2>4, <2>5, KeepsNothing, KeepsStutters
  <2>6. CASE cached[i] # None
    BY <1>1, <1>2, <2>2, <2>3, <2>4, <2>6, TakesCached
  <2>7. QED
    BY <2>5, <2>6
<1>4. CASE TriggerDependents(w)
  <2> DEFINE j == [J EXCEPT !.phase = "rest", !.rest = GetDependentsForIdentity(J.of)]
  <2>1. Goes(w, j)
    BY <1>4 DEF TriggerDependents
  <2>2. j.phase \notin Handling
    BY <1>1 DEF Jobs, Handling
  <2> HIDE DEF j
  <2>3. QED
    BY <1>1, <2>1, <2>2, KeepsNothing, KeepsStutters
<1>5. CASE TriggerDependent(w)
  <2>1. PICK d \in J.rest :
           LET j == [J EXCEPT !.rest = @ \ {d}]
           IN  Goes(w, IF GetTrafficConfig(d) = None THEN j
                       ELSE Applying(j, d, GetTrafficConfig(d), J.of, "rest"))
    BY <1>5 DEF TriggerDependent
  <2> DEFINE j == [J EXCEPT !.rest = @ \ {d}]
  <2>2. d \in Identities
    BY <1>1 DEF Jobs
  <2>3. j \in Jobs /\ j.phase \notin Handling
    BY <1>1 DEF Jobs
  <2>4. IF cached[d] = None THEN Goes(w, j)
        ELSE Goes(w, Applying(j, d, cached[d], J.of, "rest"))
    BY <2>1 DEF GetTrafficConfig
  <2> HIDE DEF j
  <2>5. CASE cached[d] = None
    BY <1>1, <2>3, <2>4, <2>5, KeepsNothing, KeepsStutters
  <2>6. CASE cached[d] # None
    BY <1>1, <1>2, <2>2, <2>3, <2>4, <2>6, TakesCached
  <2>7. QED
    BY <2>5, <2>6
<1>6. CASE Triggered(w)
  <2> DEFINE j == Triggering([J EXCEPT !.of = NoIdentity], J.pending)
  <2>1. Goes(w, j)
    BY <1>6 DEF Triggered
  <2>2. j.phase \notin Handling
    BY <1>1 DEF Jobs, Triggering, Handling
  <2> HIDE DEF j
  <2>3. QED
    BY <1>1, <2>1, <2>2, KeepsNothing, KeepsStutters
<1>7. QED
  BY <1>3, <1>4, <1>5, <1>6

\* To look things up changes nothing that is held.
LEMMA LookUpRollout ==
  ASSUME IInv, NEW w \in Workers,
         LookUpClients(w) \/ LookUpClusters(w) \/ SkipCluster(w) \/ GetVirtualService(w)
  PROVE  UNCHANGED rollout
<1> DEFINE J == job[w]
<1>1. /\ J \in Jobs /\ J.phase \in Handling
      /\ UNCHANGED <<current, cached, dependents, everHome, vs>>
  BY JobFacts DEF LookUpClients, LookUpClusters, SkipCluster, GetVirtualService, Choose, Quiet,
                  Handling, caches, informed
<1>2. \E k : Goes(w, k) /\ k.phase \in Handling /\ k.tc = J.tc /\ k.rev = J.rev
  <2>1. /\ dependents \in [Identities -> SUBSET Identities]
        /\ home \in [Identities -> SUBSET Clusters]
    BY DEF IInv, TypeOK
  <2>2. CASE LookUpClients(w)
    <3>1. PICK D : D \subseteq dependents[J.tc] /\ Goes(w, LookingUp(J, D))
      BY <2>2 DEF LookUpClients, GetDependentsForIdentity
    <3>2. D \in SUBSET Identities
      BY <1>1, <2>1, <3>1, JobFacts DEF JobOK
    <3> DEFINE k == LookingUp(J, D)
    <3>3. Goes(w, k) /\ k.phase \in Handling /\ k.tc = J.tc /\ k.rev = J.rev
      BY <1>1, <3>1, <3>2, LookingUpFields DEF Handling
    <3> HIDE DEF k
    <3>4. QED
      BY <3>3
  <2>3. CASE LookUpClusters(w)
    <3>1. PICK d \in J.deps : Goes(w, ClustersFound(J, d, home[d]))
      BY <2>3 DEF LookUpClusters, GetClustersForIdentity
    <3>2. home[d] \in SUBSET Clusters
      BY <1>1, <2>1 DEF Jobs
    <3> DEFINE k == ClustersFound(J, d, home[d])
    <3>3. Goes(w, k) /\ k.phase \in Handling /\ k.tc = J.tc /\ k.rev = J.rev
      BY <1>1, <3>1, <3>2, FoundFields DEF Handling
    <3> HIDE DEF k
    <3>4. QED
      BY <3>3
  <2>4. CASE SkipCluster(w)
    <3>1. PICK c \in J.targets : Goes(w, [J EXCEPT !.targets = @ \ {c}, !.owed = @ \ {c}])
      BY <2>4 DEF SkipCluster
    <3>2. LET k == [J EXCEPT !.targets = @ \ {c}, !.owed = @ \ {c}]
          IN  k.phase \in Handling /\ k.tc = J.tc /\ k.rev = J.rev
      BY <1>1 DEF Jobs
    <3>3. QED
      BY <3>1, <3>2
  <2>5. CASE GetVirtualService(w)
    <3>1. PICK c, s : \/ Goes(w, [J EXCEPT !.phase = "write", !.targets = @ \ {c}, !.cluster = c,
                                    !.seen = s])
                      \/ Goes(w, [J EXCEPT !.phase = "write", !.targets = @ \ {c}, !.cluster = c,
                                    !.seen = "absent", !.owed = @ \ {c}])
      BY <2>5 DEF GetVirtualService
    <3>2. /\ LET k == [J EXCEPT !.phase = "write", !.targets = @ \ {c}, !.cluster = c, !.seen = s]
             IN  k.phase \in Handling /\ k.tc = J.tc /\ k.rev = J.rev
          /\ LET k == [J EXCEPT !.phase = "write", !.targets = @ \ {c}, !.cluster = c,
                                !.seen = "absent", !.owed = @ \ {c}]
             IN  k.phase \in Handling /\ k.tc = J.tc /\ k.rev = J.rev
      BY <1>1 DEF Jobs, Handling
    <3>3. QED
      BY <3>1, <3>2
  <2>6. QED
    BY <2>2, <2>3, <2>4, <2>5
<1>3. QED
  BY <1>1, <1>2, KeepsRevision, KeepsStutters

\* To store what is held where clients have been is to write it.
LEMMA StoreRollout ==
  ASSUME IInv, NEW w \in Workers, NEW c \in Clusters, NEW k,
         job[w].phase \in Handling, Served(job[w].tc, c, dependents, everHome),
         Store(w, c, job[w].rev, k), k.phase \in Handling, k.tc = job[w].tc, k.rev = job[w].rev,
         UNCHANGED <<current, cached, dependents, everHome>>
  PROVE  Rollout!Next
<1> DEFINE i == job[w].tc
<1>1. i \in Identities
  BY JobFacts DEF JobOK
<1>2. \A v \in Workers : HeldBy(job'[v]) = HeldBy(job[v])
  <2> TAKE v \in Workers
  <2>1. job'[v] = IF v = w THEN k ELSE Disturbed(job[v], i, c)
    BY DEF Store
  <2>2. job[v] \in Jobs
    BY JobFacts
  <2>3. /\ Disturbed(job[v], i, c).phase = job[v].phase
        /\ Disturbed(job[v], i, c).tc = job[v].tc /\ Disturbed(job[v], i, c).rev = job[v].rev
    BY <2>2 DEF Disturbed, Jobs
  <2>4. QED
    BY <2>1, <2>3 DEF HeldBy
<1>3. heldNow' = heldNow
  <2>1. /\ heldNow' = [v \in Workers |-> HeldBy(job'[v])]
        /\ heldNow = [v \in Workers |-> HeldBy(job[v])]
    BY DEF heldNow, HeldBy
  <2>2. QED
    BY <1>2, <2>1
<1>4. reachNow' = reachNow
  BY DEF reachNow
<1>5. heldNow[w] = <<i, job[w].rev>>
  BY DEF heldNow, HeldBy
<1>6. c \in reachNow[i]
  BY <1>1 DEF reachNow, Served
<1>7. vs' = [vs EXCEPT ![i][c] = job[w].rev]
  BY DEF Store
<1>8. Rollout!Write(w, i, c)
  <2>1. heldNow[w][1] = i /\ vs' = [vs EXCEPT ![i][c] = heldNow[w][2]]
    BY <1>5, <1>7
  <2> HIDE DEF i
  <2>2. QED
    BY <1>3, <1>4, <1>6, <2>1 DEF Rollout!Write, heldNow, HeldBy, reachNow
<1>9. QED
  BY <1>1, <1>8 DEF Rollout!Next

\* Calls write what is held or nothing.
LEMMA WriteRollout ==
  ASSUME IInv, NEW w \in Workers,
         UpdateVirtualService(w) \/ CreateVirtualService(w) \/ DeleteVirtualService(w)
  PROVE  Rollout!Next \/ UNCHANGED rollout
<1> DEFINE J == job[w]
<1>1. /\ J \in Jobs /\ J.phase \in Handling /\ JobOK(J, dependents, everHome)
      /\ UNCHANGED <<current, cached, dependents, everHome>>
  BY JobFacts DEF UpdateVirtualService, CreateVirtualService, DeleteVirtualService, Choose,
                  Handling, caches, informed
<1>2. \E k, c : /\ c \in Clusters /\ Served(J.tc, c, dependents, everHome)
                /\ k.phase \in Handling /\ k.tc = J.tc /\ k.rev = J.rev
                /\ Store(w, c, J.rev, k) \/ (Goes(w, k) /\ UNCHANGED vs)
  <2> DEFINE Same(k) == k.phase \in Handling /\ k.tc = J.tc /\ k.rev = J.rev
             o == Over(J)
             v == [o EXCEPT !.versioned = TRUE]
  <2>1. o \in Jobs /\ Same(o)
    BY <1>1, OverFields DEF Handling
  <2>2. v \in Jobs /\ Same(v)
    <3> HIDE DEF o
    <3>1. QED
      BY <2>1, VersionedFields
  <2>3. \A c : Same([v EXCEPT !.owed = @ \ {c}]) /\ Same([o EXCEPT !.owed = @ \ {c}])
    <3> HIDE DEF o, v
    <3>1. QED
      BY <2>1, <2>2, OwedFields
  <2>4. \A c \in Clusters : Same([o EXCEPT !.refused = @ \cup {c}])
    <3> HIDE DEF o
    <3>1. QED
      BY <2>1, RefusedFields
  <2>5. J.phase = "write" => J.cluster \in Clusters /\ Served(J.tc, J.cluster, dependents, everHome)
    BY <1>1 DEF JobOK
  <2>6. CASE UpdateVirtualService(w)
    <3>1. \E k \in {v, [v EXCEPT !.owed = @ \ {J.cluster}]} :
             Store(w, J.cluster, J.rev, k) \/ (Goes(w, k) /\ UNCHANGED vs)
      BY <2>6 DEF UpdateVirtualService, CallFails
    <3>2. QED
      BY <2>2, <2>3, <2>5, <2>6, <3>1 DEF UpdateVirtualService
  <2>7. CASE CreateVirtualService(w)
    <3>1. \E k \in {o, [o EXCEPT !.refused = @ \cup {J.cluster}], [o EXCEPT !.owed = @ \ {J.cluster}]} :
             Store(w, J.cluster, J.rev, k) \/ (Goes(w, k) /\ UNCHANGED vs)
      BY <2>7 DEF CreateVirtualService, CallFails
    <3>2. QED
      BY <2>1, <2>3, <2>4, <2>5, <2>7, <3>1 DEF CreateVirtualService
  <2>8. CASE DeleteVirtualService(w)
    <3>1. PICK c \in Clusters :
             /\ J.phase = "apply" /\ c \in J.targets /\ J.rev = None
             /\ LET j == [J EXCEPT !.targets = @ \ {c}]
                IN  \/ Store(w, c, None, j)
                    \/ Goes(w, [j EXCEPT !.owed = @ \ {c}]) /\ UNCHANGED vs
      BY <2>8 DEF DeleteVirtualService, Choose, CallFails
    <3> DEFINE j == [J EXCEPT !.targets = @ \ {c}]
    <3>2. j \in Jobs /\ Same(j)
      BY <1>1, TargetsFields
    <3>3. Same([j EXCEPT !.owed = @ \ {c}])
      <4> HIDE DEF j
      <4>1. QED
        BY <3>2, OwedFields
    <3>4. Served(J.tc, c, dependents, everHome)
      BY <1>1, <3>1 DEF JobOK
    <3>5. Store(w, c, J.rev, j) \/ (Goes(w, [j EXCEPT !.owed = @ \ {c}]) /\ UNCHANGED vs)
      BY <3>1
    <3>6. QED
      BY <3>2, <3>3, <3>4, <3>5
  <2>9. QED
    BY <2>6, <2>7, <2>8
<1>3. PICK k, c : /\ c \in Clusters /\ Served(J.tc, c, dependents, everHome)
                  /\ k.phase \in Handling /\ k.tc = J.tc /\ k.rev = J.rev
                  /\ Store(w, c, J.rev, k) \/ (Goes(w, k) /\ UNCHANGED vs)
  BY <1>2
<1>4. QED
  BY <1>1, <1>3, StoreRollout, KeepsRevision, KeepsStutters

\* A handler that returns lets go of what it held.
LEMMA ReturnRollout ==
  ASSUME IInv, NEW w \in Workers, HandlerReturns(w)
  PROVE  Rollout!Next
<1> DEFINE J == job[w]
           j == [J EXCEPT !.phase = J.next, !.next = "idle", !.tc = NoIdentity, !.rev = None,
                          !.source = NoIdentity, !.versioned = FALSE, !.owed = {}, !.refused = {}]
<1>1. J \in Jobs /\ UNCHANGED <<current, cached, dependents, everHome, vs>>
  BY JobFacts DEF HandlerReturns, Quiet, caches, informed
<1>2. \E k : Goes(w, k) /\ k.phase \notin Handling
  <2>1. Idle.phase \notin Handling /\ j.phase \notin Handling
    BY <1>1 DEF Idle, Jobs, Handling
  <2>2. Goes(w, Idle) \/ Goes(w, j)
    BY DEF HandlerReturns
  <2> HIDE DEF j
  <2>3. QED
    BY <2>1, <2>2
<1>3. heldNow' = [heldNow EXCEPT ![w] = <<NoIdentity, None>>]
  BY <1>2, HeldAfter DEF HeldBy
<1>4. reachNow' = reachNow
  BY <1>1 DEF reachNow
<1>5. Rollout!Release(w)
  BY <1>1, <1>3, <1>4, RolloutVars DEF Rollout!Release, heldNow, HeldBy, reachNow
<1>6. QED
  BY <1>5 DEF Rollout!Next

\* What the traffic config's own worker is told of, it holds if it handles it.
LEMMA OwnerHolds ==
  ASSUME IInv, IsIdle("trafficconfig"), NEW i \in Identities, NEW r, ApplyIfWarm(i, r)
  PROVE  /\ heldNow["trafficconfig"] = <<NoIdentity, None>>
         /\ heldNow' = heldNow \/ heldNow' = [heldNow EXCEPT !["trafficconfig"] = <<i, r>>]
<1> DEFINE w == "trafficconfig"
           j == Applying(job[w], i, r, NoIdentity, "idle")
<1>1. w \in Workers /\ job[w] \in Jobs
  BY JobFacts DEF Workers
<1>2. HeldBy(j) = <<i, r>>
  BY <1>1 DEF Applying, Jobs, HeldBy, Handling
<1>3. job' = job \/ Goes(w, j)
  BY DEF ApplyIfWarm, Goes
<1>4. CASE job' = job
  <2>1. heldNow' = heldNow
    BY <1>4 DEF heldNow, HeldBy
  <2>2. QED
    BY <1>1, <2>1 DEF heldNow, HeldBy, IsIdle, Handling
<1>5. CASE Goes(w, j)
  <2>1. heldNow' = [heldNow EXCEPT ![w] = <<i, r>>]
    BY <1>1, <1>2, <1>5, HeldAfter
  <2>2. QED
    BY <1>1, <2>1 DEF heldNow, HeldBy, IsIdle, Handling
<1>6. QED
  BY <1>3, <1>4, <1>5

\* Notifications of traffic configs tell or withdraw.
LEMMA TrafficConfigRollout ==
  ASSUME IInv, NEW i \in Identities,
         \/ TrafficConfigAdded(i) \/ TrafficConfigUpdated(i)
         \/ TrafficConfigSkipped(i) \/ TrafficConfigDeleted(i)
  PROVE  Rollout!Next
<1> DEFINE w == "trafficconfig"
<1>1. IsIdle(w) /\ UNCHANGED <<dependents, everHome, vs>>
  BY DEF TrafficConfigAdded, TrafficConfigUpdated, TrafficConfigSkipped, TrafficConfigDeleted,
         NewRevision
<1>2. reachNow' = reachNow
  BY <1>1 DEF reachNow
<1>3. w \in Workers /\ heldNow[w] = <<NoIdentity, None>>
  BY <1>1 DEF heldNow, HeldBy, IsIdle, Handling, Workers
<1>4. CASE TrafficConfigAdded(i) \/ TrafficConfigUpdated(i) \/ TrafficConfigSkipped(i)
  <2>1. current' = [current EXCEPT ![i] = @ + 1] /\ current'[i] = current[i] + 1
    BY <1>4, CacheFacts DEF TrafficConfigAdded, TrafficConfigUpdated, TrafficConfigSkipped, NewRevision
  <2>2. \E r \in {cached[i], current[i] + 1} : cached' = [cached EXCEPT ![i] = r]
    <3>1. cached' = cached \/ cached' = [cached EXCEPT ![i] = current'[i]]
      BY <1>4 DEF TrafficConfigAdded, TrafficConfigUpdated, TrafficConfigSkipped,
                  AddTrafficConfigToCache
    <3>2. cached = [cached EXCEPT ![i] = cached[i]]
      BY CacheFacts
    <3>3. QED
      BY <2>1, <3>1, <3>2
  <2>3. heldNow' = heldNow \/ heldNow' = [heldNow EXCEPT ![w] = <<i, current[i] + 1>>]
    <3>1. CASE ApplyIfWarm(i, current'[i])
      BY <1>1, <2>1, <3>1, OwnerHolds
    <3>2. CASE UNCHANGED job
      BY <3>2 DEF heldNow, HeldBy
    <3>3. QED
      BY <1>4, <3>1, <3>2 DEF TrafficConfigAdded, TrafficConfigUpdated, TrafficConfigSkipped
  <2>4. Rollout!Tell(i)
    BY <1>1, <1>2, <1>3, <2>1, <2>2, <2>3, RolloutVars
    DEF Rollout!Tell, Rollout!Hold, heldNow, HeldBy, reachNow
  <2>5. QED
    BY <2>4 DEF Rollout!Next
<1>5. CASE TrafficConfigDeleted(i)
  <2>1. current' = current /\ cached' = [cached EXCEPT ![i] = None]
    BY <1>5 DEF TrafficConfigDeleted, DeleteTrafficConfigFromCache
  <2>2. PICK r \in {None, current[i]} : ApplyIfWarm(i, r)
    BY <1>5 DEF TrafficConfigDeleted
  <2>3. heldNow' = heldNow \/ heldNow' = [heldNow EXCEPT ![w] = <<i, r>>]
    BY <1>1, <2>2, OwnerHolds
  <2>4. Rollout!Withdraw(i)
    BY <1>1, <1>2, <1>3, <2>1, <2>3, RolloutVars
    DEF Rollout!Withdraw, Rollout!Hold, heldNow, HeldBy, reachNow
  <2>5. QED
    BY <2>4 DEF Rollout!Next
<1>6. QED
  BY <1>4, <1>5

\* Notifications of others only extend what a service has to reach.
LEMMA ExtendsRollout ==
  ASSUME IInv, NEW w \in Workers, IsIdle(w), NEW I,
         job' = job \/ job' = [job EXCEPT ![w] = Triggering(job[w], I)],
         UNCHANGED <<current, cached, vs>>,
         dependents' \in [Identities -> SUBSET Identities],
         everHome' \in [Identities -> SUBSET Clusters],
         \A i \in Identities : dependents[i] \subseteq dependents'[i] /\ everHome[i] \subseteq everHome'[i]
  PROVE  Rollout!Next
<1>1. heldNow' = heldNow
  <2>1. CASE job' = job
    BY <2>1 DEF heldNow, HeldBy
  <2>2. CASE job' = [job EXCEPT ![w] = Triggering(job[w], I)]
    <3>1. job[w].phase \notin Handling /\ Triggering(job[w], I).phase \notin Handling
      BY JobFacts DEF IsIdle, Triggering, Jobs, Handling
    <3>2. heldNow' = [heldNow EXCEPT ![w] = <<NoIdentity, None>>]
      BY <2>2, <3>1, HeldAfter DEF Goes, HeldBy
    <3>3. heldNow \in [Workers -> {heldNow[v] : v \in Workers}] /\ heldNow[w] = <<NoIdentity, None>>
      BY <3>1 DEF heldNow, HeldBy
    <3>4. QED
      BY <3>2, <3>3
  <2>3. QED
    BY <2>1, <2>2
<1>2. /\ reachNow' \in [Identities -> SUBSET Clusters]
      /\ \A i \in Identities : reachNow[i] \subseteq reachNow'[i]
  <2>1. \A i \in Identities : reachNow'[i] = UNION {everHome'[d] : d \in dependents'[i]}
    BY DEF reachNow
  <2>2. \A i \in Identities : reachNow[i] = UNION {everHome[d] : d \in dependents[i]}
    BY DEF reachNow
  <2>3. dependents \in [Identities -> SUBSET Identities]
    BY CacheFacts
  <2>4. ASSUME NEW i \in Identities  PROVE reachNow[i] \subseteq reachNow'[i]
    <3>1. ASSUME NEW c \in reachNow[i]  PROVE c \in reachNow'[i]
      <4>1. PICK d \in dependents[i] : c \in everHome[d]
        BY <2>2
      <4>2. d \in dependents'[i] /\ c \in everHome'[d]
        BY <2>3, <4>1
      <4>3. QED
        BY <2>1, <4>2
    <3>2. QED
      BY <3>1
  <2>5. ASSUME NEW i \in Identities  PROVE reachNow'[i] \subseteq Clusters
    BY <2>1
  <2>6. reachNow' = [i \in Identities |-> UNION {everHome'[d] : d \in dependents'[i]}]
    BY DEF reachNow
  <2>7. QED
    BY <2>4, <2>5, <2>6
<1>3. Rollout!Extend
  BY <1>1, <1>2 DEF Rollout!Extend, heldNow, HeldBy, reachNow
<1>4. QED
  BY <1>3 DEF Rollout!Next

\* Notifications of Dependencies.
LEMMA DependencyRollout ==
  ASSUME IInv, NEW i \in Identities,
         \/ \E D \in SUBSET Identities : DependencyAdded(i, D) \/ DependencyUpdated(i, D)
         \/ DependencyDeleted(i)
  PROVE  Rollout!Next
<1> DEFINE w == "dependency"
<1>1. w \in Workers /\ IsIdle(w)
  BY DEF DependencyAdded, DependencyUpdated, DependencyDeleted, Depend, Workers
<1>2. UNCHANGED <<cached, current, vs, everHome>>
  BY DEF DependencyAdded, DependencyUpdated, DependencyDeleted, Depend, caches
<1>3. /\ dependents' \in [Identities -> SUBSET Identities]
      /\ \A h \in Identities : dependents[h] \subseteq dependents'[h]
  <2>1. \/ dependents' = dependents
        \/ \E D : dependents' = [d \in Identities |-> IF d \in D THEN dependents[d] \cup {i}
                                                      ELSE dependents[d]]
    BY DEF DependencyAdded, DependencyUpdated, DependencyDeleted, Depend, AddDependentToIdentity,
           caches
  <2>2. QED
    BY <2>1, CacheFacts
<1>4. \E I : job' = job \/ job' = [job EXCEPT ![w] = Triggering(job[w], I)]
  BY DEF DependencyAdded, DependencyUpdated, DependencyDeleted
<1> HIDE DEF w
<1>5. QED
  BY <1>1, <1>2, <1>3, <1>4, CacheFacts, ExtendsRollout

\* Notifications of workloads.
LEMMA WorkloadRollout ==
  ASSUME IInv, NEW i \in Identities, NEW c \in Clusters, WorkloadAdded(i, c) \/ WorkloadDeleted(i, c)
  PROVE  Rollout!Next
<1>1. c \in Workers /\ IsIdle(c)
  BY DEF WorkloadAdded, WorkloadDeleted, Workers
<1>2. UNCHANGED <<cached, dependents, current, vs>>
  BY DEF WorkloadAdded, WorkloadDeleted, informed
<1>3. /\ everHome' \in [Identities -> SUBSET Clusters]
      /\ \A h \in Identities : everHome[h] \subseteq everHome'[h]
  <2>1. everHome' = everHome \/ everHome' = [everHome EXCEPT ![i] = @ \cup {c}]
    BY DEF WorkloadAdded, WorkloadDeleted
  <2>2. QED
    BY <2>1, CacheFacts
<1>4. \E I : job' = job \/ job' = [job EXCEPT ![c] = Triggering(job[c], I)]
  BY DEF WorkloadAdded, WorkloadDeleted
<1>5. QED
  BY <1>1, <1>2, <1>3, <1>4, CacheFacts, ExtendsRollout

\* Every step is one of RevisionRollout or changes none of its variables.
LEMMA NextRollout == IInv /\ AInv /\ [Next]_vars => [Rollout!Next]_rollout
<1>1. SUFFICES ASSUME IInv, AInv, [Next]_vars PROVE Rollout!Next \/ UNCHANGED rollout
  OBVIOUS
<1>2. CASE UNCHANGED <<current, cached, dependents, everHome, job, vs>>
  BY <1>2 DEF rollout, heldNow, HeldBy, reachNow
<1>3. CASE UNCHANGED vars
  BY <1>2, <1>3 DEF vars, caches, informed
<1>4. CASE WarmUp
  BY <1>2, <1>4 DEF WarmUp, informed
<1>5. ASSUME NEW c \in Clusters, ClusterDeleted(c) PROVE Rollout!Next \/ UNCHANGED rollout
  BY <1>2, <1>5 DEF ClusterDeleted, informed
<1>6. ASSUME NEW i \in Configured,
             \/ TrafficConfigAdded(i) \/ TrafficConfigUpdated(i)
             \/ TrafficConfigSkipped(i) \/ TrafficConfigDeleted(i)
      PROVE  Rollout!Next
  BY <1>1, <1>6, TrafficConfigAssumption, TrafficConfigRollout
<1>7. ASSUME NEW i \in Identities,
             \/ \E D \in SUBSET Identities : DependencyAdded(i, D) \/ DependencyUpdated(i, D)
             \/ DependencyDeleted(i)
      PROVE  Rollout!Next
  BY <1>1, <1>7, DependencyRollout
<1>8. ASSUME NEW i \in Identities, NEW c \in Clusters, WorkloadAdded(i, c) \/ WorkloadDeleted(i, c)
      PROVE  Rollout!Next
  BY <1>1, <1>8, WorkloadRollout
<1>9. ASSUME NEW w \in Workers, Step(w) PROVE Rollout!Next \/ UNCHANGED rollout
  BY <1>1, <1>9, TriggerRollout, LookUpRollout, WriteRollout, ReturnRollout DEF Step
<1>10. ASSUME NEW i \in Configured, TrafficConfigDeletedTombstone(i)
       PROVE  Rollout!Next \/ UNCHANGED rollout
  BY <1>2, <1>10 DEF TrafficConfigDeletedTombstone, caches
<1>11. QED
  BY <1>1, <1>3, <1>4, <1>5, <1>6, <1>7, <1>8, <1>9, <1>10 DEF Next

\* Initial states map to initial states.
LEMMA InitRollout == Init => Rollout!Init
<1> SUFFICES ASSUME Init  PROVE Rollout!Init
  OBVIOUS
<1>1. reachNow = [i \in Identities |-> {}]
  BY DEF Init, reachNow
<1>2. heldNow = [w \in Workers |-> <<NoIdentity, None>>]
  <2>1. Idle.phase \notin Handling
    BY DEF Idle, Handling
  <2>2. \A w \in Workers : HeldBy(job[w]) = <<NoIdentity, None>>
    BY <2>1 DEF Init, HeldBy
  <2>3. heldNow = [w \in Workers |-> HeldBy(job[w])]
    BY DEF heldNow
  <2> HIDE DEF HeldBy
  <2>4. QED
    BY <2>2, <2>3
<1>3. QED
  BY <1>1, <1>2, RolloutVars DEF Init, Rollout!Init, heldNow, HeldBy, reachNow

\* However their steps interleave, the handlers write what RevisionRollout lets them
\* write: a worker other than the traffic config's own writes what the cache had when
\* it began, and never removes a virtual service.
THEOREM Refinement == Spec => ImplementsRollout
<1>1. Init => Rollout!Init
  BY InitRollout
<1>2. IInv /\ AInv /\ [Next]_vars => [Rollout!Next]_Rollout!vars
  BY NextRollout DEF Rollout!vars, rollout, heldNow, reachNow, HeldBy
<1>3. QED
  BY <1>1, <1>2, InitIInv, NextIInv, InitAInv, NextAInv, PTL DEF Spec, ImplementsRollout, Rollout!Spec
=============================================================================
