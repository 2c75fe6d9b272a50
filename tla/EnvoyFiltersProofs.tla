-------------------------- MODULE EnvoyFiltersProofs --------------------------
(***************************************************************************)
(* What HandleRateLimiter leaves of the filters, for any number of         *)
(* environments, proxy versions and handlers at work at once.              *)
(***************************************************************************)
EXTENDS EnvoyFilters, TLAPS

Applying == {"build", "write"}

Jobs ==
    [phase : {"idle", "add", "trigger", "unlink"} \cup Applying, rev : Nat,
     env : SUBSET Envs, envs : SUBSET Envs, todo : SUBSET Keys,
     seen : [Keys -> {"none", "absent", "read", "outdated"}],
     create : SUBSET Keys, update : SUBSET Keys, delete : SUBSET Keys, alone : BOOLEAN]

TypeOK ==
    /\ warm \in BOOLEAN /\ exists \in BOOLEAN /\ excused \in BOOLEAN
    /\ revision \in 0 .. MaxRevision /\ cached \in 0 .. MaxRevision
    /\ workloadEnvs \in [1 .. MaxRevision -> SUBSET Envs]
    /\ workloads \in SUBSET Envs /\ known \in SUBSET Envs
    /\ steady \in [Workers -> SUBSET Envs]
    /\ job \in [Workers -> Jobs]
    /\ filters \in [Keys -> Nat]

\* A traffic config that is there has a revision; one whose deletion was handled
\* is not cached.
RevisionInv == (exists => revision # None) /\ (~exists /\ ~excused => cached = None)

\* Handlers only run when the warm-up is over; what is steady has a workload.
WarmInv ==
    /\ \A w \in Workers : job[w].phase \in Applying => warm
    /\ \A w \in Workers : steady[w] \subseteq workloads

\* A handler that applies nothing requests nothing.
JobRev(j) ==
    j.rev = None =>
        /\ j.phase = "build" => j.envs = {} /\ j.todo = {} /\ Requested(j) = {}
        /\ j.phase = "write" => j.create = {} /\ j.update = {}

\* Of the steady environments S that a handler does not have to look up yet it
\* requests all filters, and it deletes none of them.
JobStays(j, S) ==
    /\ j.phase = "build" =>
           \A k \in Keys : k[1] \in j.envs \/ k[1] \notin S \/ k \in j.todo \/ k \in Requested(j)
    /\ j.phase = "write" => \A k \in j.delete : k[1] \notin S

\* What a handler that is alone read is what filters f are, and what it is done
\* with is what it has to be.
JobExact(j, f) ==
    /\ j.phase = "build" =>
           \A k \in Requested(j) : j.seen[k] = IF f[k] = None THEN "absent" ELSE "read"
    /\ j.phase = "write" =>
           \A k \in Keys :
              /\ k \in j.create => k \in Requested(j) /\ f[k] = None /\ j.seen[k] = "absent"
              /\ k \in j.update => k \in Requested(j) /\ j.seen[k] = "read"
              /\ k \in j.delete => k \notin Requested(j)
              /\ k \notin j.create \cup j.update \cup j.delete =>
                     f[k] = IF k \in Requested(j) THEN j.rev ELSE None

JobOK(j, S, f) ==
    /\ JobRev(j)
    /\ JobStays(j, S)
    /\ j.alone => JobExact(j, f)

\* Once the traffic config is deleted its own handler deletes every filter.
Clears(j, f) ==
    /\ j.phase = "build" => j.rev = None
    /\ j.phase = "write" =>
           j.create = {} /\ j.update = {} /\ \A k \in Keys : f[k] # None => k \in j.delete
    /\ j.phase \notin Applying => \A k \in Keys : f[k] = None

DeletedInv ==
    ~exists /\ ~excused =>
        /\ \A w \in Triggers : job[w].phase \notin Applying
        /\ Clears(job["trafficconfig"], filters)

IInv ==
    /\ TypeOK /\ RevisionInv /\ WarmInv
    /\ \A w \in Workers : JobOK(job[w], steady[w], filters)
    /\ DeletedInv

-----------------------------------------------------------------------------

\* Types and invariant of a job at hand.
LEMMA JobFacts ==
  ASSUME IInv, NEW w \in Workers
  PROVE  job[w] \in Jobs /\ JobOK(job[w], steady[w], filters)
  BY DEF IInv, TypeOK

\* A job that applies nothing is fine.
LEMMA RestingOK ==
  ASSUME NEW j, NEW U, NEW f, j.phase \notin Applying
  PROVE  JobOK(j, U, f)
  BY DEF JobOK, JobRev, JobStays, JobExact, Applying

\* Idle is a job.
LEMMA IdleOK == Idle \in Jobs /\ Idle.phase = "idle"
<1>1. [k \in Keys |-> "none"] \in [Keys -> {"none", "absent", "read", "outdated"}]
  OBVIOUS
<1>2. QED
  BY <1>1 DEF Idle, Jobs, None

\* An environment may cease to be steady.
LEMMA JobOKShrinks ==
  ASSUME NEW j, NEW S, NEW T, T \subseteq S, NEW f, JobOK(j, S, f)
  PROVE  JobOK(j, T, f)
<1>1. JobStays(j, S) => JobStays(j, T)
  BY DEF JobStays
<1>2. QED
  BY <1>1 DEF JobOK

\* What is steady now was before.
Shrinks(w) == steady'[w] \subseteq steady[w]

\* Nothing ceases to be steady where nothing changes.
LEMMA SteadySame ==
  ASSUME IInv, UNCHANGED steady
  PROVE  steady' \in [Workers -> SUBSET Envs] /\ \A w \in Workers : Shrinks(w)
  BY DEF IInv, TypeOK, Shrinks

\* A step in which only worker w moves on, and writes nothing, leaves all jobs
\* fine if that of w is.
LEMMA OneJob ==
  ASSUME IInv, NEW w \in Workers, NEW j \in Jobs, Goes(w, j), filters' = filters,
         \A v \in Workers : v # w => Shrinks(v), JobOK(j, steady'[w], filters)
  PROVE  /\ job' \in [Workers -> Jobs]
         /\ \A v \in Workers : job'[v] = IF v = w THEN j ELSE job[v]
         /\ \A v \in Workers : JobOK(job'[v], steady'[v], filters')
<1>1. job' \in [Workers -> Jobs] /\ \A v \in Workers : job'[v] = IF v = w THEN j ELSE job[v]
  BY DEF IInv, TypeOK, Goes
<1>2. ASSUME NEW v \in Workers, v # w PROVE JobOK(job[v], steady'[v], filters)
  <2>1. JobOK(job[v], steady[v], filters)
    BY DEF IInv
  <2>2. steady'[v] \subseteq steady[v]
    BY <1>2 DEF Shrinks
  <2> DEFINE T == steady'[v]
  <2> HIDE DEF T
  <2>3. JobOK(job[v], T, filters)
    BY <2>1, <2>2, JobOKShrinks DEF T
  <2>4. QED
    BY <2>3 DEF T
<1>3. QED
  BY <1>1, <1>2

\* The invariant holds initially.
LEMMA InitIInv == Init => IInv
<1>1. SUFFICES ASSUME Init PROVE IInv
  OBVIOUS
<1>2. \A w \in Workers : job[w] = Idle
  BY <1>1 DEF Init
<1>3. TypeOK
  <2>1. job \in [Workers -> Jobs] /\ filters \in [Keys -> Nat]
    BY <1>1, IdleOK DEF Init, None
  <2>2. workloadEnvs \in [1 .. MaxRevision -> SUBSET Envs]
    BY <1>1 DEF Init
  <2>3. revision \in 0 .. MaxRevision /\ cached \in 0 .. MaxRevision
    BY <1>1, EnvoyFilterAssumption DEF Init, None
  <2>4. steady \in [Workers -> SUBSET Envs]
    BY <1>1 DEF Init
  <2>5. QED
    BY <1>1, <2>1, <2>2, <2>3, <2>4 DEF Init, TypeOK
<1>4. RevisionInv /\ WarmInv
  BY <1>1, <1>2, IdleOK DEF Init, RevisionInv, WarmInv, Applying
<1>5. \A w \in Workers : JobOK(job[w], steady[w], filters)
  BY <1>2, IdleOK, RestingOK DEF Applying
<1>6. DeletedInv
  <2>1. \A k \in Keys : filters[k] = None
    BY <1>1 DEF Init
  <2>2. QED
    BY <1>2, <2>1, IdleOK DEF DeletedInv, Clears, Applying, Workers
<1>7. QED
  BY <1>3, <1>4, <1>5, <1>6 DEF IInv

-----------------------------------------------------------------------------
(* Steps of HandleRateLimiter.                                              *)

\* A step of a handler that writes nothing preserves the invariant if its job
\* is fine afterwards and still clears what it had to clear.
LEMMA JobStep ==
  ASSUME IInv, NEW w \in Workers, NEW j \in Jobs, Goes(w, j),
         job[w].phase \in Applying,
         UNCHANGED <<caches, trafficConfig, filters, known>>,
         steady' \in [Workers -> SUBSET Envs], \A v \in Workers : Shrinks(v),
         excused' \in BOOLEAN, excused => excused',
         JobOK(j, steady'[w], filters),
         ~exists /\ ~excused' /\ Clears(job[w], filters) => Clears(j, filters)
  PROVE  IInv'
<1>1. /\ job' \in [Workers -> Jobs]
      /\ \A v \in Workers : job'[v] = IF v = w THEN j ELSE job[v]
      /\ \A v \in Workers : JobOK(job'[v], steady'[v], filters')
  BY OneJob
<1>2. TypeOK'
  BY <1>1 DEF IInv, TypeOK, caches, trafficConfig
<1>3. RevisionInv'
  BY DEF IInv, RevisionInv, caches, trafficConfig
<1>4. WarmInv'
  <2>1. warm
    BY DEF IInv, WarmInv
  <2>2. \A v \in Workers : steady'[v] \subseteq workloads'
    BY DEF IInv, WarmInv, Shrinks, caches
  <2>3. QED
    BY <2>1, <2>2 DEF WarmInv, caches
<1>5. DeletedInv'
  <2>1. SUFFICES ASSUME ~exists, ~excused'
                 PROVE  /\ \A v \in Triggers : job'[v].phase \notin Applying
                        /\ Clears(job'["trafficconfig"], filters)
    BY DEF DeletedInv, trafficConfig
  <2>2. /\ \A v \in Triggers : job[v].phase \notin Applying
        /\ Clears(job["trafficconfig"], filters)
    BY <2>1 DEF IInv, DeletedInv
  <2>3. w = "trafficconfig" /\ w \notin Triggers
    BY <2>2, EnvoyFilterAssumption DEF Workers
  <2>4. QED
    BY <1>1, <2>1, <2>2, <2>3 DEF Workers
<1>6. QED
  BY <1>1, <1>2, <1>3, <1>4, <1>5 DEF IInv

\* What another worker's call does to a job changes neither what it requests nor
\* where it is.
LEMMA Disturbance ==
  ASSUME NEW J \in Jobs, NEW k \in Keys, NEW U, NEW f, NEW g, JobOK(J, U, f)
  PROVE  LET j == [J EXCEPT !.alone = FALSE, !.seen[k] = IF @ = "read" THEN "outdated" ELSE @]
         IN  j \in Jobs /\ j.phase = J.phase /\ JobOK(j, U, g)
<1> DEFINE j == [J EXCEPT !.alone = FALSE, !.seen[k] = IF @ = "read" THEN "outdated" ELSE @]
<1>1. j \in Jobs
  BY DEF Jobs
<1>2. /\ j.phase = J.phase /\ j.rev = J.rev /\ j.envs = J.envs /\ j.todo = J.todo
      /\ j.create = J.create /\ j.update = J.update /\ j.delete = J.delete /\ ~j.alone
      /\ \A h \in Keys : j.seen[h] # "none" <=> J.seen[h] # "none"
  BY DEF Jobs
<1> HIDE DEF j
<1>3. Requested(j) = Requested(J)
  BY <1>2 DEF Requested
<1>4. JobOK(j, U, g)
  BY <1>2, <1>3 DEF JobOK, JobRev, JobStays
<1>5. QED
  BY <1>1, <1>2, <1>4 DEF j

\* A handler that writes a filter preserves the invariant if its job is fine
\* afterwards and still clears what it had to clear.
LEMMA StoreStep ==
  ASSUME IInv, NEW w \in Workers, NEW k \in Keys, NEW r \in Nat, NEW j \in Jobs,
         Store(w, k, r, j), job[w].phase \in Applying,
         UNCHANGED <<caches, trafficConfig, known, steady>>,
         JobOK(j, steady[w], filters'),
         ~exists /\ ~excused /\ Clears(job[w], filters) => Clears(j, filters')
  PROVE  IInv'
<1>1. /\ filters' = [filters EXCEPT ![k] = r] /\ excused' = excused
      /\ \A v \in Workers :
            job'[v] = IF v = w THEN j
                      ELSE [job[v] EXCEPT !.alone = FALSE,
                                          !.seen[k] = IF @ = "read" THEN "outdated" ELSE @]
  BY DEF Store
<1>2. ASSUME NEW v \in Workers, v # w
      PROVE  /\ job'[v] \in Jobs /\ job'[v].phase = job[v].phase
             /\ JobOK(job'[v], steady[v], filters')
  <2>1. job[v] \in Jobs /\ JobOK(job[v], steady[v], filters)
    BY JobFacts
  <2> DEFINE g == filters'
  <2> HIDE DEF g
  <2>2. LET d == [job[v] EXCEPT !.alone = FALSE, !.seen[k] = IF @ = "read" THEN "outdated" ELSE @]
        IN  d \in Jobs /\ d.phase = job[v].phase /\ JobOK(d, steady[v], g)
    BY <2>1, Disturbance
  <2>3. QED
    BY <1>1, <1>2, <2>2 DEF g
<1>3. \A v \in Workers : job'[v] \in Jobs /\ JobOK(job'[v], steady'[v], filters')
  BY <1>1, <1>2
<1>4. TypeOK'
  <2>1. job' \in [Workers -> Jobs]
    BY <1>3 DEF Store
  <2>2. filters' \in [Keys -> Nat]
    BY <1>1 DEF IInv, TypeOK
  <2>3. QED
    BY <1>1, <2>1, <2>2 DEF IInv, TypeOK, caches, trafficConfig
<1>5. RevisionInv'
  BY <1>1 DEF IInv, RevisionInv, caches, trafficConfig
<1>6. WarmInv'
  <2>1. warm
    BY DEF IInv, WarmInv
  <2>2. QED
    BY <2>1 DEF IInv, WarmInv, caches
<1>7. DeletedInv'
  <2>1. SUFFICES ASSUME ~exists, ~excused
                 PROVE  /\ \A v \in Triggers : job'[v].phase \notin Applying
                        /\ Clears(job'["trafficconfig"], filters')
    BY <1>1 DEF DeletedInv, trafficConfig
  <2>2. /\ \A v \in Triggers : job[v].phase \notin Applying
        /\ Clears(job["trafficconfig"], filters)
    BY <2>1 DEF IInv, DeletedInv
  <2>3. w = "trafficconfig" /\ w \notin Triggers
    BY <2>2, EnvoyFilterAssumption DEF Workers
  <2>4. job'[w] = j
    BY <1>1
  <2>5. \A v \in Triggers : job'[v].phase \notin Applying
    BY <1>2, <2>2, <2>3 DEF Workers
  <2>6. QED
    BY <2>1, <2>2, <2>3, <2>4, <2>5
<1>8. QED
  BY <1>3, <1>4, <1>5, <1>6, <1>7 DEF IInv

\* To look for a workload of one of the environments preserves the invariant:
\* a steady one has it.
LEMMA LookUpWorkloadStep ==
  ASSUME IInv, NEW w \in Workers, LookUpWorkload(w)
  PROVE  IInv'
<1> DEFINE J == job[w]
<1>1. J \in Jobs /\ JobOK(J, steady[w], filters)
  BY JobFacts
<1>2. PICK e \in J.envs :
         Goes(w, [J EXCEPT !.envs = @ \ {e},
                           !.todo = IF e \in workloads THEN {e} \X Versions ELSE {}])
  BY DEF LookUpWorkload
<1>3. J.phase = "build" /\ J.todo = {} /\ e \in Envs
  BY <1>1 DEF LookUpWorkload, Jobs
<1>4. UNCHANGED <<caches, trafficConfig, filters, known, steady, excused>>
  BY DEF LookUpWorkload
<1> DEFINE T == IF e \in workloads THEN {e} \X Versions ELSE {}
           j == [J EXCEPT !.envs = @ \ {e}, !.todo = T]
<1>5. T \in SUBSET Keys
  BY <1>3 DEF Keys
<1>6. Goes(w, j)
  BY <1>2
<1>7. \A k \in Keys : k[1] = e /\ k \notin T => e \notin workloads
  BY DEF Keys
<1> HIDE DEF T
<1>8. j \in Jobs
  BY <1>1, <1>5 DEF Jobs
<1>9. /\ j.phase = "build" /\ j.rev = J.rev /\ j.envs = J.envs \ {e} /\ j.todo = T
      /\ j.seen = J.seen /\ j.alone = J.alone
  BY <1>1, <1>3 DEF Jobs
<1> HIDE DEF j, J
<1>10. Requested(j) = Requested(J)
  BY <1>9 DEF Requested
<1>11. J.rev # None
  BY <1>1, <1>2, <1>3 DEF JobOK, JobRev
<1>12. JobStays(j, steady[w])
  <2>1. SUFFICES ASSUME NEW k \in Keys
                 PROVE  k[1] \in j.envs \/ k[1] \notin steady[w] \/ k \in j.todo \/ k \in Requested(j)
    BY <1>9 DEF JobStays
  <2>2. k[1] \in J.envs \/ k[1] \notin steady[w] \/ k \in Requested(J)
    BY <1>1, <1>3, <2>1 DEF JobOK, JobStays
  <2>3. steady[w] \subseteq workloads
    BY DEF IInv, WarmInv
  <2>4. QED
    BY <1>2, <1>7, <1>9, <1>10, <2>2, <2>3
<1>13. JobOK(j, steady[w], filters)
  <2>1. J.alone => JobExact(j, filters)
    BY <1>1, <1>3, <1>9, <1>10 DEF JobOK, JobExact
  <2>2. JobRev(j)
    BY <1>9, <1>11 DEF JobRev
  <2>3. QED
    BY <1>9, <1>12, <2>1, <2>2 DEF JobOK
<1>14. Clears(J, filters) => Clears(j, filters)
  BY <1>3, <1>9 DEF Clears, Applying
<1>15. steady' \in [Workers -> SUBSET Envs] /\ \A v \in Workers : Shrinks(v)
  BY <1>4, SteadySame
<1>16. J.phase \in Applying /\ excused' \in BOOLEAN
  BY <1>3, <1>4 DEF Applying, IInv, TypeOK
<1>17. QED
  BY <1>4, <1>6, <1>8, <1>13, <1>14, <1>15, <1>16, JobStep DEF J

\* A handler whose call failed is not alone: nothing is said of what it read.
LEMMA FailedOK ==
  ASSUME NEW j \in Jobs, NEW U, NEW f, JobRev(j), JobStays(j, U)
  PROVE  [j EXCEPT !.alone = FALSE] \in Jobs /\ JobOK([j EXCEPT !.alone = FALSE], U, f)
<1> DEFINE h == [j EXCEPT !.alone = FALSE]
<1>1. h \in Jobs
  BY DEF Jobs
<1>2. /\ h.phase = j.phase /\ h.rev = j.rev /\ h.envs = j.envs /\ h.todo = j.todo /\ h.seen = j.seen
      /\ h.create = j.create /\ h.update = j.update /\ h.delete = j.delete /\ ~h.alone
  BY DEF Jobs
<1> HIDE DEF h
<1>3. Requested(h) = Requested(j)
  BY <1>2 DEF Requested
<1>4. JobOK(h, U, f)
  BY <1>2, <1>3 DEF JobOK, JobRev, JobStays
<1>5. QED
  BY <1>1, <1>4 DEF h

\* A call that fails preserves the invariant.
LEMMA FailedStep ==
  ASSUME IInv, NEW w \in Workers, NEW j \in Jobs, CallFails(w, j), job[w].phase \in Applying,
         UNCHANGED <<caches, trafficConfig, known, steady>>,
         JobRev(j), JobStays(j, steady[w])
  PROVE  IInv'
<1> DEFINE h == [j EXCEPT !.alone = FALSE]
<1>1. /\ Goes(w, h) /\ filters' = filters
      /\ excused' \in BOOLEAN /\ (excused => excused') /\ (~exists => excused')
  BY DEF CallFails, IInv, TypeOK
<1>2. h \in Jobs /\ JobOK(h, steady'[w], filters)
  BY FailedOK
<1>3. steady' \in [Workers -> SUBSET Envs] /\ \A v \in Workers : Shrinks(v)
  BY SteadySame
<1> HIDE DEF h
<1>4. QED
  BY <1>1, <1>2, <1>3, JobStep

\* To read a filter preserves the invariant.
LEMMA GetEnvoyFilterStep ==
  ASSUME IInv, NEW w \in Workers, GetEnvoyFilter(w)
  PROVE  IInv'
<1> DEFINE J == job[w]
<1>1. J \in Jobs /\ JobOK(J, steady[w], filters) /\ J.phase = "build"
  BY JobFacts DEF GetEnvoyFilter, GetOne
<1>2. PICK k \in J.todo :
         LET j(what) == [J EXCEPT !.todo = @ \ {k}, !.seen[k] = what]
         IN  \/ /\ Goes(w, j(IF filters[k] = None THEN "absent" ELSE "read"))
                /\ UNCHANGED <<filters, count, excused>>
             \/ CallFails(w, j("absent"))
  BY DEF GetEnvoyFilter, GetOne
<1>3. k \in Keys /\ UNCHANGED <<caches, trafficConfig, known, steady>>
  BY <1>1 DEF GetEnvoyFilter, GetOne, Jobs
<1> DEFINE a == [J EXCEPT !.todo = @ \ {k}, !.seen[k] = "absent"]
           j == [J EXCEPT !.todo = @ \ {k},
                          !.seen[k] = IF filters[k] = None THEN "absent" ELSE "read"]
<1>4. (Goes(w, j) /\ UNCHANGED <<filters, excused>>) \/ CallFails(w, a)
  BY <1>2
<1>5. a \in Jobs
  BY <1>1, <1>3 DEF Jobs
<1>6. /\ a.phase = J.phase /\ a.rev = J.rev /\ a.envs = J.envs /\ a.todo = J.todo \ {k}
      /\ \A h \in Keys : a.seen[h] = IF h = k THEN "absent" ELSE J.seen[h]
      /\ a.alone = J.alone
  BY <1>1, <1>3 DEF Jobs
<1> HIDE DEF a
<1>7. j \in Jobs
  BY <1>1, <1>3 DEF Jobs
<1>8. /\ j.phase = a.phase /\ j.rev = a.rev /\ j.envs = a.envs /\ j.todo = a.todo
      /\ \A h \in Keys : j.seen[h] = IF h = k /\ filters[k] # None THEN "read" ELSE a.seen[h]
      /\ j.alone = a.alone
  BY <1>1, <1>3, <1>6 DEF Jobs
<1> HIDE DEF j, J
<1>9. Requested(a) = Requested(J) \cup {k} /\ Requested(j) = Requested(J) \cup {k}
  BY <1>3, <1>6, <1>8 DEF Requested
<1>10. J.rev # None
  BY <1>1, <1>2 DEF JobOK, JobRev
<1>11. JobRev(a) /\ JobRev(j)
  BY <1>6, <1>8, <1>10 DEF JobRev
<1>12. JobStays(a, steady[w]) /\ JobStays(j, steady[w])
  BY <1>1, <1>6, <1>8, <1>9 DEF JobOK, JobStays
<1>13. j.alone => JobExact(j, filters)
  <2>1. ASSUME J.alone, NEW h \in Requested(j)
        PROVE  j.seen[h] = IF filters[h] = None THEN "absent" ELSE "read"
    <3>1. h \in Keys
      BY <2>1 DEF Requested
    <3>2. CASE h = k
      BY <1>3, <1>6, <1>8, <3>2
    <3>3. CASE h # k
      <4>1. h \in Requested(J)
        BY <1>9, <2>1, <3>3
      <4>2. J.seen[h] = IF filters[h] = None THEN "absent" ELSE "read"
        BY <1>1, <2>1, <4>1 DEF JobOK, JobExact
      <4>3. QED
        BY <1>6, <1>8, <3>1, <3>3, <4>2
    <3>4. QED
      BY <3>2, <3>3
  <2>2. QED
    BY <1>1, <1>6, <1>8, <2>1 DEF JobExact
<1>14. /\ J.phase \in Applying
       /\ steady' \in [Workers -> SUBSET Envs] /\ \A v \in Workers : Shrinks(v)
  BY <1>1, <1>3, SteadySame DEF Applying
<1>15. CASE CallFails(w, a)
  BY <1>3, <1>5, <1>11, <1>12, <1>14, <1>15, FailedStep DEF J
<1>16. CASE Goes(w, j) /\ UNCHANGED <<filters, excused>>
  <2>1. Clears(J, filters) => Clears(j, filters)
    BY <1>1, <1>6, <1>8 DEF Clears, Applying
  <2>2. excused' \in BOOLEAN
    BY <1>16 DEF IInv, TypeOK
  <2>3. JobOK(j, steady'[w], filters)
    BY <1>3, <1>11, <1>12, <1>13 DEF JobOK
  <2>4. QED
    BY <1>3, <1>7, <1>14, <1>16, <2>1, <2>2, <2>3, JobStep DEF J
<1>17. QED
  BY <1>4, <1>15, <1>16

\* So does to compare what is requested with what exists.
LEMMA ApplyEnvoyFiltersStep ==
  ASSUME IInv, NEW w \in Workers, ApplyEnvoyFilters(w)
  PROVE  IInv'
<1> DEFINE J == job[w]
<1>1. J \in Jobs /\ JobOK(J, steady[w], filters)
  BY JobFacts
<1>2. /\ J.phase = "build" /\ J.envs = {} /\ J.todo = {}
      /\ UNCHANGED <<caches, trafficConfig, known, steady>>
      /\ \/ Goes(w, Compare(J, Existing)) /\ UNCHANGED <<filters, excused>>
         \/ CallFails(w, Compare(J, {}))
  BY DEF ApplyEnvoyFilters, ListEnvoyFilters
<1> HIDE DEF J
<1>3. /\ J.phase \in Applying
      /\ steady' \in [Workers -> SUBSET Envs] /\ \A v \in Workers : Shrinks(v)
  BY <1>2, SteadySame DEF Applying
<1>4. ASSUME NEW E \in SUBSET Keys
      PROVE  LET j == Compare(J, E)
             IN  /\ j \in Jobs /\ JobRev(j) /\ JobStays(j, steady[w])
                 /\ j.phase = "write" /\ j.rev = J.rev /\ j.seen = J.seen /\ j.alone = J.alone
                 /\ j.update = Requested(J) \cap E /\ j.create = Requested(J) \ E
                 /\ j.delete = E \ Requested(J)
  <2> DEFINE j == Compare(J, E)
  <2>1. Requested(J) \in SUBSET Keys
    BY DEF Requested
  <2>2. j \in Jobs
    BY <1>1, <2>1 DEF Compare, Present, Jobs, Applying
  <2>3. /\ j.phase = "write" /\ j.rev = J.rev /\ j.seen = J.seen /\ j.alone = J.alone
        /\ j.update = Requested(J) \cap E /\ j.create = Requested(J) \ E
        /\ j.delete = E \ Requested(J)
    BY <1>1 DEF Compare, Present, Jobs
  <2> HIDE DEF j
  <2>4. JobRev(j)
    BY <1>1, <1>2, <2>3 DEF JobOK, JobRev
  <2>5. JobStays(j, steady[w])
    BY <1>1, <1>2, <2>3 DEF JobOK, JobStays
  <2>6. QED
    BY <2>2, <2>3, <2>4, <2>5 DEF j
<1>5. CASE Goes(w, Compare(J, Existing)) /\ UNCHANGED <<filters, excused>>
  <2> DEFINE j == Compare(J, Existing)
  <2>1. /\ j \in Jobs /\ JobRev(j) /\ JobStays(j, steady[w])
        /\ j.phase = "write" /\ j.rev = J.rev /\ j.seen = J.seen /\ j.alone = J.alone
        /\ j.update = Requested(J) \cap Existing /\ j.create = Requested(J) \ Existing
        /\ j.delete = Existing \ Requested(J)
    BY <1>4 DEF Existing
  <2> HIDE DEF j
  <2>2. Requested(j) = Requested(J)
    BY <2>1 DEF Requested
  <2>3. j.alone => JobExact(j, filters)
    <3>1. SUFFICES ASSUME J.alone, NEW k \in Keys
                   PROVE  /\ k \in j.create => /\ k \in Requested(j) /\ filters[k] = None
                                               /\ j.seen[k] = "absent"
                          /\ k \in j.update => k \in Requested(j) /\ j.seen[k] = "read"
                          /\ k \in j.delete => k \notin Requested(j)
                          /\ k \notin j.create \cup j.update \cup j.delete =>
                                 filters[k] = IF k \in Requested(j) THEN j.rev ELSE None
      BY <2>1 DEF JobExact
    <3>2. k \in Requested(J) => J.seen[k] = IF filters[k] = None THEN "absent" ELSE "read"
      BY <1>1, <1>2, <3>1 DEF JobOK, JobExact
    <3>3. k \in Existing <=> filters[k] # None
      BY DEF Existing
    <3>4. QED
      BY <2>1, <2>2, <3>2, <3>3
  <2>4. JobOK(j, steady'[w], filters)
    BY <1>2, <2>1, <2>3 DEF JobOK
  <2>5. Clears(J, filters) => Clears(j, filters)
    <3>1. SUFFICES ASSUME Clears(J, filters) PROVE Clears(j, filters)
      OBVIOUS
    <3>2. Requested(J) = {}
      BY <1>1, <1>2, <3>1 DEF Clears, JobOK, JobRev
    <3>3. QED
      BY <2>1, <3>2 DEF Clears, Applying, Existing
  <2>6. excused' \in BOOLEAN
    BY <1>5 DEF IInv, TypeOK
  <2>7. QED
    BY <1>2, <1>3, <1>5, <2>1, <2>4, <2>5, <2>6, JobStep DEF J, j
<1>6. CASE CallFails(w, Compare(J, {}))
  <2>1. /\ Compare(J, {}) \in Jobs /\ JobRev(Compare(J, {}))
        /\ JobStays(Compare(J, {}), steady[w])
    BY <1>4
  <2>2. QED
    BY <1>2, <1>3, <1>6, <2>1, FailedStep DEF J
<1>7. QED
  BY <1>2, <1>5, <1>6

\* The job j has less left to do than J, and is otherwise the same.
Less(j, J) ==
    /\ j \in Jobs
    /\ j.phase = J.phase /\ j.rev = J.rev /\ j.seen = J.seen /\ j.alone = J.alone
    /\ j.create \subseteq J.create /\ j.update \subseteq J.update /\ j.delete \subseteq J.delete

\* A writing job with less left to do requests the same, deletes no more and
\* applies nothing if it did not.
LEMMA LessOK ==
  ASSUME NEW J, J.phase = "write", NEW j, Less(j, J), NEW U, NEW f, JobOK(J, U, f)
  PROVE  Requested(j) = Requested(J) /\ JobRev(j) /\ JobStays(j, U)
<1>1. Requested(j) = Requested(J)
  BY DEF Less, Requested
<1>2. JobRev(j)
  BY DEF Less, JobOK, JobRev
<1>3. JobStays(j, U)
  BY DEF Less, JobOK, JobStays
<1>4. QED
  BY <1>1, <1>2, <1>3

\* A filter k that is written, or was refused, with the result that f becomes g
\* and nothing is left to do for k, is what it has to be.
LEMMA WrittenOK ==
  ASSUME NEW J, J.phase = "write", NEW j, Less(j, J), NEW U, NEW f, NEW g, JobOK(J, U, f),
         NEW k \in Keys,
         \A h \in Keys :
            h # k => /\ h \in J.create => h \in j.create
                     /\ h \in J.update => h \in j.update
                     /\ h \in J.delete => h \in j.delete
                     /\ g[h] = f[h],
         J.alone => /\ k \notin j.create \cup j.update \cup j.delete
                    /\ g[k] = IF k \in Requested(J) THEN J.rev ELSE None
  PROVE  JobOK(j, U, g)
<1>1. Requested(j) = Requested(J) /\ JobRev(j) /\ JobStays(j, U)
  BY LessOK
<1>2. ASSUME J.alone, NEW h \in Keys
      PROVE  /\ h \in j.create => h \in Requested(j) /\ g[h] = None /\ j.seen[h] = "absent"
             /\ h \in j.update => h \in Requested(j) /\ j.seen[h] = "read"
             /\ h \in j.delete => h \notin Requested(j)
             /\ h \notin j.create \cup j.update \cup j.delete =>
                    g[h] = IF h \in Requested(j) THEN j.rev ELSE None
  <2>1. CASE h = k
    BY <1>1, <1>2, <2>1 DEF Less
  <2>2. CASE h # k
    <3>1. /\ h \in J.create => h \in Requested(J) /\ f[h] = None /\ J.seen[h] = "absent"
          /\ h \in J.update => h \in Requested(J) /\ J.seen[h] = "read"
          /\ h \in J.delete => h \notin Requested(J)
          /\ h \notin J.create \cup J.update \cup J.delete =>
                 f[h] = IF h \in Requested(J) THEN J.rev ELSE None
      BY <1>2 DEF JobOK, JobExact
    <3>2. QED
      BY <1>1, <2>2, <3>1 DEF Less
  <2>3. QED
    BY <2>1, <2>2
<1>3. j.alone => JobExact(j, g)
  BY <1>2 DEF JobExact, Less
<1>4. QED
  BY <1>1, <1>3 DEF JobOK

\* One filter less to create.
LEMMA CreateLess ==
  ASSUME NEW J \in Jobs, NEW k
  PROVE  LET j == [J EXCEPT !.create = @ \ {k}]
         IN  /\ Less(j, J) /\ j.create = J.create \ {k}
             /\ j.update = J.update /\ j.delete = J.delete
<1> DEFINE j == [J EXCEPT !.create = @ \ {k}]
<1>1. j \in Jobs
  BY DEF Jobs
<1>2. QED
  BY <1>1 DEF Less, Jobs

\* One filter less to update.
LEMMA UpdateLess ==
  ASSUME NEW J \in Jobs, NEW k
  PROVE  LET j == [J EXCEPT !.update = @ \ {k}]
         IN  /\ Less(j, J) /\ j.update = J.update \ {k}
             /\ j.create = J.create /\ j.delete = J.delete
<1> DEFINE j == [J EXCEPT !.update = @ \ {k}]
<1>1. j \in Jobs
  BY DEF Jobs
<1>2. QED
  BY <1>1 DEF Less, Jobs

\* One filter less to delete.
LEMMA DeleteLess ==
  ASSUME NEW J \in Jobs, NEW k
  PROVE  LET j == [J EXCEPT !.delete = @ \ {k}]
         IN  /\ Less(j, J) /\ j.delete = J.delete \ {k}
             /\ j.create = J.create /\ j.update = J.update
<1> DEFINE j == [J EXCEPT !.delete = @ \ {k}]
<1>1. j \in Jobs
  BY DEF Jobs
<1>2. QED
  BY <1>1 DEF Less, Jobs

\* To create a filter preserves the invariant.
LEMMA CreateEnvoyFilterStep ==
  ASSUME IInv, NEW w \in Workers, CreateEnvoyFilter(w)
  PROVE  IInv'
<1> DEFINE J == job[w]
<1>1. J \in Jobs /\ JobOK(J, steady[w], filters) /\ J.phase = "write" /\ J.phase \in Applying
  BY JobFacts DEF CreateEnvoyFilter, Applying
<1>2. PICK k \in J.create :
         LET j == [J EXCEPT !.create = @ \ {k}]
             accepted == filters[k] = None /\ J.seen[k] = "absent"
         IN  \/ accepted /\ Store(w, k, J.rev, j)
             \/ ~accepted /\ Refused(w, j)
             \/ CallFails(w, j)
  BY DEF CreateEnvoyFilter
<1> DEFINE j == [J EXCEPT !.create = @ \ {k}]
<1>3. /\ Less(j, J) /\ j.create = J.create \ {k} /\ j.update = J.update /\ j.delete = J.delete
  BY <1>1, CreateLess
<1>4. /\ k \in Keys /\ J.rev \in Nat
      /\ UNCHANGED <<caches, trafficConfig, known, steady>>
      /\ steady' \in [Workers -> SUBSET Envs] /\ (\A v \in Workers : Shrinks(v))
      /\ filters \in [Keys -> Nat]
  BY <1>1, SteadySame DEF CreateEnvoyFilter, Jobs, IInv, TypeOK
<1>5. ~Clears(J, filters)
  BY <1>1, <1>2 DEF Clears
<1>6. /\ (filters[k] = None /\ J.seen[k] = "absent" /\ Store(w, k, J.rev, j))
         \/ (~(filters[k] = None /\ J.seen[k] = "absent") /\ Refused(w, j))
         \/ CallFails(w, j)
  BY <1>2
<1> HIDE DEF j, J
<1>7. J.alone => /\ k \in Requested(J) /\ filters[k] = None /\ J.seen[k] = "absent"
                 /\ k \notin J.update \cup J.delete
  BY <1>1, <1>2, <1>4 DEF JobOK, JobExact
<1>8. CASE Store(w, k, J.rev, j)
  <2>1. \A h \in Keys : filters'[h] = IF h = k THEN J.rev ELSE filters[h]
    BY <1>4, <1>8 DEF Store
  <2>2. JobOK(j, steady[w], filters')
    <3> DEFINE g == filters'
    <3> HIDE DEF g
    <3>1. \A h \in Keys : g[h] = IF h = k THEN J.rev ELSE filters[h]
      BY <2>1 DEF g
    <3>2. JobOK(j, steady[w], g)
      BY <1>1, <1>3, <1>4, <1>7, <3>1, WrittenOK
    <3>3. QED
      BY <3>2 DEF g
  <2>3. j \in Jobs
    BY <1>3 DEF Less
  <2>4. QED
    BY <1>1, <1>4, <1>5, <1>8, <2>2, <2>3, StoreStep DEF J
<1>9. CASE ~(filters[k] = None /\ J.seen[k] = "absent") /\ Refused(w, j)
  <2>1. ~J.alone
    BY <1>7, <1>9
  <2>2. JobOK(j, steady[w], filters)
    BY <1>1, <1>3, <2>1, LessOK DEF JobOK, Less
  <2>3. Goes(w, j) /\ UNCHANGED <<filters, excused>> /\ excused' \in BOOLEAN /\ j \in Jobs
    BY <1>3, <1>9 DEF Refused, Less, IInv, TypeOK
  <2>4. QED
    BY <1>1, <1>4, <1>5, <2>2, <2>3, JobStep DEF J
<1>10. CASE CallFails(w, j)
  <2>1. j \in Jobs /\ JobRev(j) /\ JobStays(j, steady[w])
    BY <1>1, <1>3, LessOK DEF Less
  <2>2. QED
    BY <1>1, <1>4, <1>10, <2>1, FailedStep DEF J
<1>11. QED
  BY <1>6, <1>8, <1>9, <1>10

\* To update a filter preserves the invariant.
LEMMA UpdateEnvoyFilterStep ==
  ASSUME IInv, NEW w \in Workers, UpdateEnvoyFilter(w)
  PROVE  IInv'
<1> DEFINE J == job[w]
<1>1. /\ J \in Jobs /\ JobOK(J, steady[w], filters) /\ J.phase = "write" /\ J.phase \in Applying
      /\ J.create = {}
  BY JobFacts DEF UpdateEnvoyFilter, Applying
<1>2. PICK k \in J.update :
         LET j == [J EXCEPT !.update = @ \ {k}]
         IN  \/ J.seen[k] = "read" /\ Store(w, k, J.rev, j)
             \/ J.seen[k] # "read" /\ Refused(w, j)
             \/ CallFails(w, j)
  BY DEF UpdateEnvoyFilter
<1> DEFINE j == [J EXCEPT !.update = @ \ {k}]
<1>3. /\ Less(j, J) /\ j.update = J.update \ {k} /\ j.create = J.create /\ j.delete = J.delete
  BY <1>1, UpdateLess
<1>4. /\ k \in Keys /\ J.rev \in Nat
      /\ UNCHANGED <<caches, trafficConfig, known, steady>>
      /\ steady' \in [Workers -> SUBSET Envs] /\ (\A v \in Workers : Shrinks(v))
      /\ filters \in [Keys -> Nat]
  BY <1>1, SteadySame DEF UpdateEnvoyFilter, Jobs, IInv, TypeOK
<1>5. ~Clears(J, filters)
  BY <1>1, <1>2 DEF Clears
<1>6. \/ Store(w, k, J.rev, j)
      \/ J.seen[k] # "read" /\ Refused(w, j)
      \/ CallFails(w, j)
  BY <1>2
<1> HIDE DEF j, J
<1>7. J.alone => k \in Requested(J) /\ J.seen[k] = "read" /\ k \notin J.create \cup J.delete
  BY <1>1, <1>2, <1>4 DEF JobOK, JobExact
<1>8. CASE Store(w, k, J.rev, j)
  <2>1. \A h \in Keys : filters'[h] = IF h = k THEN J.rev ELSE filters[h]
    BY <1>4, <1>8 DEF Store
  <2>2. JobOK(j, steady[w], filters')
    <3> DEFINE g == filters'
    <3> HIDE DEF g
    <3>1. \A h \in Keys : g[h] = IF h = k THEN J.rev ELSE filters[h]
      BY <2>1 DEF g
    <3>2. JobOK(j, steady[w], g)
      BY <1>1, <1>3, <1>4, <1>7, <3>1, WrittenOK
    <3>3. QED
      BY <3>2 DEF g
  <2>3. j \in Jobs
    BY <1>3 DEF Less
  <2>4. QED
    BY <1>1, <1>4, <1>5, <1>8, <2>2, <2>3, StoreStep DEF J
<1>9. CASE J.seen[k] # "read" /\ Refused(w, j)
  <2>1. ~J.alone
    BY <1>7, <1>9
  <2>2. JobOK(j, steady[w], filters)
    BY <1>1, <1>3, <2>1, LessOK DEF JobOK, Less
  <2>3. Goes(w, j) /\ UNCHANGED <<filters, excused>> /\ excused' \in BOOLEAN /\ j \in Jobs
    BY <1>3, <1>9 DEF Refused, Less, IInv, TypeOK
  <2>4. QED
    BY <1>1, <1>4, <1>5, <2>2, <2>3, JobStep DEF J
<1>10. CASE CallFails(w, j)
  <2>1. j \in Jobs /\ JobRev(j) /\ JobStays(j, steady[w])
    BY <1>1, <1>3, LessOK DEF Less
  <2>2. QED
    BY <1>1, <1>4, <1>10, <2>1, FailedStep DEF J
<1>11. QED
  BY <1>6, <1>8, <1>9, <1>10

\* To delete a filter preserves the invariant.
LEMMA DeleteEnvoyFilterStep ==
  ASSUME IInv, NEW w \in Workers, DeleteEnvoyFilter(w)
  PROVE  IInv'
<1> DEFINE J == job[w]
<1>1. /\ J \in Jobs /\ JobOK(J, steady[w], filters) /\ J.phase = "write" /\ J.phase \in Applying
      /\ J.create = {} /\ J.update = {}
  BY JobFacts DEF DeleteEnvoyFilter, Applying
<1>2. PICK k \in J.delete :
         LET j == [J EXCEPT !.delete = @ \ {k}]
         IN  Store(w, k, None, j) \/ CallFails(w, j)
  BY DEF DeleteEnvoyFilter
<1> DEFINE j == [J EXCEPT !.delete = @ \ {k}]
<1>3. /\ Less(j, J) /\ j.delete = J.delete \ {k} /\ j.create = J.create /\ j.update = J.update
  BY <1>1, DeleteLess
<1>4. /\ k \in Keys /\ None \in Nat
      /\ UNCHANGED <<caches, trafficConfig, known, steady>>
      /\ filters \in [Keys -> Nat]
  BY <1>1 DEF DeleteEnvoyFilter, Jobs, IInv, TypeOK, None
<1>5. Store(w, k, None, j) \/ CallFails(w, j)
  BY <1>2
<1> HIDE DEF j, J
<1>6. J.alone => k \notin Requested(J)
  BY <1>1, <1>2, <1>4 DEF JobOK, JobExact
<1>7. CASE Store(w, k, None, j)
  <2> DEFINE g == filters'
  <2>1. \A h \in Keys : g[h] = IF h = k THEN None ELSE filters[h]
    BY <1>4, <1>7 DEF Store
  <2> HIDE DEF g
  <2>2. JobOK(j, steady[w], g)
    BY <1>1, <1>3, <1>4, <1>6, <2>1, WrittenOK
  <2>3. j \in Jobs
    BY <1>3 DEF Less
  <2>4. Clears(J, filters) => Clears(j, g)
    BY <1>1, <1>3, <2>1 DEF Clears, Less, Applying
  <2>5. QED
    BY <1>1, <1>4, <1>7, <2>2, <2>3, <2>4, StoreStep DEF J, g
<1>8. CASE CallFails(w, j)
  <2>1. j \in Jobs /\ JobRev(j) /\ JobStays(j, steady[w])
    BY <1>1, <1>3, LessOK DEF Less
  <2>2. QED
    BY <1>1, <1>4, <1>8, <2>1, FailedStep DEF J
<1>9. QED
  BY <1>5, <1>7, <1>8

\* The return of a handler preserves the invariant: one that had to clear the
\* filters has nothing left to delete.
LEMMA ReturnStep ==
  ASSUME IInv, NEW w \in Workers, HandlerReturns(w)
  PROVE  IInv'
<1>1. /\ job[w].phase = "write" /\ job[w].delete = {} /\ Goes(w, Idle)
      /\ steady' = [steady EXCEPT ![w] = {}]
      /\ UNCHANGED <<caches, trafficConfig, filters, known, excused>>
  BY DEF HandlerReturns, Applied, Skip, Goes
<1>2. Clears(job[w], filters) => Clears(Idle, filters)
  BY <1>1, IdleOK DEF Clears
<1>3. Idle \in Jobs /\ JobOK(Idle, steady'[w], filters)
  BY IdleOK, RestingOK DEF Applying
<1>4. /\ steady' \in [Workers -> SUBSET Envs] /\ (\A v \in Workers : Shrinks(v))
      /\ excused' \in BOOLEAN /\ job[w].phase \in Applying
  BY <1>1 DEF IInv, TypeOK, Applying, Shrinks
<1>5. QED
  BY <1>1, <1>2, <1>3, <1>4, JobStep

-----------------------------------------------------------------------------
(* Notifications.                                                           *)

\* A handler that starts has everything still to do.
LEMMA StartedOK ==
  ASSUME NEW r \in Nat, NEW E \in SUBSET Envs, r = None => E = {}, NEW S \in SUBSET E, NEW f
  PROVE  LET j == [Idle EXCEPT !.phase = "build", !.rev = r, !.envs = E]
         IN  j \in Jobs /\ j.phase = "build" /\ j.rev = r /\ JobOK(j, S, f)
<1> DEFINE j == [Idle EXCEPT !.phase = "build", !.rev = r, !.envs = E]
<1>1. j \in Jobs
  BY IdleOK DEF Jobs, Applying
<1>2. /\ j.phase = "build" /\ j.rev = r /\ j.envs = E /\ j.todo = {}
      /\ j.seen = [k \in Keys |-> "none"]
  BY DEF Idle
<1> HIDE DEF j
<1>3. Requested(j) = {}
  BY <1>2 DEF Requested
<1>4. JobOK(j, S, f)
  BY <1>2, <1>3 DEF JobOK, JobRev, JobStays, JobExact, Keys
<1>5. QED
  BY <1>1, <1>2, <1>4 DEF j

\* A notification that calls the handler, or skips it, leaves all jobs fine.
LEMMA CallStep ==
  ASSUME IInv, NEW w \in Workers, NEW r \in Nat, NEW E \in SUBSET Envs, r = None => E = {},
         IfWarm(w, r, E) \/ Skip(w), UNCHANGED <<warm, workloads, known, filters>>
  PROVE  /\ job' \in [Workers -> Jobs] /\ steady' \in [Workers -> SUBSET Envs] /\ WarmInv'
         /\ \A v \in Workers : JobOK(job'[v], steady'[v], filters')
         /\ \A v \in Workers : v # w => job'[v] = job[v]
         /\ Skip(w) => job'[w].phase = "idle"
         /\ IfWarm(w, r, E) /\ warm /\ linked => job'[w].phase = "build" /\ job'[w].rev = r
<1> DEFINE s == [Idle EXCEPT !.phase = "build", !.rev = r, !.envs = E]
<1>0. Idle # s
  <2>1. s.phase = "build"
    BY DEF Idle
  <2>2. QED
    BY <2>1, IdleOK
<1>1. PICK j \in {Idle, s}, S \in SUBSET (E \cap workloads) :
         /\ Goes(w, j) /\ steady' = [steady EXCEPT ![w] = S]
         /\ j = s => warm
         /\ Skip(w) => j = Idle
         /\ IfWarm(w, r, E) /\ warm /\ linked => j = s
  <2>1. CASE Skip(w)
    <3>1. Goes(w, Idle) /\ steady' = [steady EXCEPT ![w] = {}]
      BY <2>1 DEF Skip, Goes
    <3>2. CASE IfWarm(w, r, E) /\ warm /\ linked
      <4>1. Goes(w, s)
        BY <3>2 DEF IfWarm, HandleRateLimiter, Goes
      <4>2. job'[w] = s /\ job'[w] = Idle
        BY <3>1, <4>1 DEF Goes, IInv, TypeOK
      <4>3. QED
        BY <3>1, <3>2, <4>2
    <3>3. QED
      BY <1>0, <3>1, <3>2
  <2>2. CASE ~Skip(w)
    <3>1. warm /\ HandleRateLimiter(w, r, E)
      BY <2>2 DEF IfWarm
    <3>2. CASE linked
      <4>1. Goes(w, s) /\ steady' = [steady EXCEPT ![w] = E \cap workloads]
        BY <3>1, <3>2 DEF HandleRateLimiter, Goes
      <4>2. QED
        BY <2>2, <3>1, <4>1
    <3>3. CASE ~linked
      <4>1. Goes(w, Idle) /\ steady' = [steady EXCEPT ![w] = {}]
        BY <3>1, <3>3 DEF HandleRateLimiter, Goes
      <4>2. QED
        BY <1>0, <2>2, <3>3, <4>1
    <3>4. QED
      BY <3>2, <3>3
  <2>3. QED
    BY <2>1, <2>2
<1>2. s \in Jobs /\ s.phase = "build" /\ s.rev = r /\ JobOK(s, S, filters)
  BY StartedOK
<1> HIDE DEF s
<1>3. j \in Jobs /\ JobOK(j, S, filters)
  BY <1>1, <1>2, IdleOK, RestingOK DEF Applying
<1>4. /\ steady' \in [Workers -> SUBSET Envs]
      /\ \A v \in Workers : steady'[v] = IF v = w THEN S ELSE steady[v]
  BY <1>1 DEF IInv, TypeOK
<1>5. /\ job' \in [Workers -> Jobs]
      /\ \A v \in Workers : job'[v] = IF v = w THEN j ELSE job[v]
      /\ \A v \in Workers : JobOK(job'[v], steady'[v], filters')
  <2>1. (\A v \in Workers : v # w => Shrinks(v)) /\ JobOK(j, steady'[w], filters)
    BY <1>3, <1>4 DEF Shrinks
  <2>2. QED
    BY <1>1, <1>3, <2>1, OneJob
<1>6. WarmInv'
  <2>1. j.phase \in Applying => warm
    BY <1>1, IdleOK DEF Applying
  <2>2. \A v \in Workers : steady'[v] \subseteq workloads
    BY <1>4 DEF IInv, WarmInv
  <2>3. QED
    BY <1>5, <2>1, <2>2 DEF IInv, WarmInv
<1>7. QED
  BY <1>1, <1>2, <1>4, <1>5, <1>6, IdleOK

\* Notifications of the traffic config preserve the invariant: when it is
\* deleted its handler requests nothing.
LEMMA TrafficConfigSteps ==
  ASSUME IInv,
         \/ TrafficConfigListed \/ TrafficConfigAdded \/ TrafficConfigUpdated
         \/ TrafficConfigDeleted
  PROVE  IInv'
<1> DEFINE w == "trafficconfig"
<1>1. w \in Workers /\ w \notin Triggers
  BY EnvoyFilterAssumption DEF Workers
<1>2. UNCHANGED <<warm, linked, workloads, filters, known>>
  BY DEF TrafficConfigListed, TrafficConfigAdded, TrafficConfigUpdated, TrafficConfigDeleted,
         NewRevision, Deleted
<1>a. /\ MaxRevision \in Nat /\ revision \in 0 .. MaxRevision
      /\ workloadEnvs \in [1 .. MaxRevision -> SUBSET Envs]
  BY EnvoyFilterAssumption DEF IInv, TypeOK
<1>3. CASE TrafficConfigListed
  <2>1. /\ revision \in Nat /\ revision # None /\ workloadEnvs[revision] \in SUBSET Envs
        /\ exists /\ cached' = revision /\ IfWarm(w, revision, workloadEnvs[revision])
        /\ UNCHANGED <<trafficConfig, excused>>
    BY <1>3, <1>a DEF TrafficConfigListed, IInv, RevisionInv, None
  <2> HIDE DEF w
  <2>2. /\ job' \in [Workers -> Jobs] /\ steady' \in [Workers -> SUBSET Envs] /\ WarmInv'
        /\ \A v \in Workers : JobOK(job'[v], steady'[v], filters')
    BY <1>1, <1>2, <2>1, CallStep
  <2>3. TypeOK'
    BY <1>2, <2>1, <2>2 DEF IInv, TypeOK, trafficConfig
  <2>4. RevisionInv' /\ DeletedInv'
    BY <2>1 DEF IInv, RevisionInv, DeletedInv, trafficConfig
  <2>5. QED
    BY <2>2, <2>3, <2>4 DEF IInv
<1>4. CASE TrafficConfigAdded \/ TrafficConfigUpdated
  <2>1. /\ revision < MaxRevision /\ exists' = TRUE /\ revision' = revision + 1
        /\ excused' = excused /\ cached' \in {cached, revision + 1}
    BY <1>4 DEF TrafficConfigAdded, TrafficConfigUpdated, NewRevision
  <2>2. PICK E \in SUBSET Envs :
           /\ workloadEnvs' = [workloadEnvs EXCEPT ![revision + 1] = E]
           /\ IfWarm(w, revision + 1, E)
    BY <1>4 DEF TrafficConfigAdded, TrafficConfigUpdated, NewRevision
  <2>3. revision + 1 \in Nat /\ revision + 1 # None /\ revision + 1 \in 0 .. MaxRevision
    BY <1>a, <2>1 DEF None
  <2> HIDE DEF w
  <2>4. /\ job' \in [Workers -> Jobs] /\ steady' \in [Workers -> SUBSET Envs] /\ WarmInv'
        /\ \A v \in Workers : JobOK(job'[v], steady'[v], filters')
    BY <1>1, <1>2, <2>2, <2>3, CallStep
  <2>5. workloadEnvs' \in [1 .. MaxRevision -> SUBSET Envs]
    BY <1>a, <2>2
  <2>6. cached' \in 0 .. MaxRevision /\ revision' \in 0 .. MaxRevision
    BY <2>1, <2>3 DEF IInv, TypeOK
  <2>7. TypeOK'
    BY <1>2, <2>1, <2>4, <2>5, <2>6 DEF IInv, TypeOK
  <2>8. RevisionInv' /\ DeletedInv'
    BY <2>1, <2>3 DEF RevisionInv, DeletedInv
  <2>9. QED
    BY <2>4, <2>7, <2>8 DEF IInv
<1>5. CASE TrafficConfigDeleted
  <2>1. /\ exists' = FALSE /\ cached' = None /\ IfWarm(w, None, {})
        /\ excused' = (~warm \/ ~linked \/ \E v \in Triggers : job[v].phase \in {"build", "write"})
        /\ UNCHANGED <<revision, workloadEnvs>>
    BY <1>5 DEF TrafficConfigDeleted, Deleted
  <2>2. None \in Nat /\ None \in 0 .. MaxRevision
    BY <1>a DEF None
  <2> HIDE DEF w
  <2>3. /\ job' \in [Workers -> Jobs] /\ steady' \in [Workers -> SUBSET Envs] /\ WarmInv'
        /\ \A v \in Workers : JobOK(job'[v], steady'[v], filters')
        /\ \A v \in Workers : v # w => job'[v] = job[v]
        /\ warm /\ linked => job'[w].phase = "build" /\ job'[w].rev = None
    BY <1>1, <1>2, <2>1, <2>2, CallStep
  <2>4. TypeOK'
    BY <1>2, <2>1, <2>2, <2>3 DEF IInv, TypeOK
  <2>5. RevisionInv'
    BY <2>1 DEF RevisionInv
  <2>6. DeletedInv'
    <3>1. SUFFICES ASSUME ~excused'
                   PROVE  /\ \A v \in Triggers : job'[v].phase \notin Applying
                          /\ Clears(job'[w], filters')
      BY DEF DeletedInv, w
    <3>2. warm /\ linked /\ \A v \in Triggers : job[v].phase \notin Applying
      BY <2>1, <3>1 DEF Applying
    <3>3. \A v \in Triggers : job'[v].phase \notin Applying
      BY <1>1, <2>3, <3>2 DEF Workers
    <3>4. Clears(job'[w], filters')
      BY <2>3, <3>2 DEF Clears, Applying
    <3>5. QED
      BY <3>3, <3>4
  <2>7. QED
    BY <2>3, <2>4, <2>5, <2>6 DEF IInv
<1>6. QED
  BY <1>3, <1>4, <1>5

\* A tombstone preserves the invariant: it excuses all.
LEMMA TombstoneStep ==
  ASSUME IInv, TrafficConfigDeletedTombstone
  PROVE  IInv'
<1>1. /\ exists' = FALSE /\ excused' = TRUE
      /\ UNCHANGED <<caches, revision, workloadEnvs, job, filters, known, steady>>
  BY DEF TrafficConfigDeletedTombstone
<1>2. TypeOK' /\ RevisionInv' /\ WarmInv' /\ DeletedInv'
  BY <1>1 DEF IInv, TypeOK, RevisionInv, WarmInv, DeletedInv, caches
<1>3. \A w \in Workers : JobOK(job'[w], steady'[w], filters')
  BY <1>1 DEF IInv
<1>4. QED
  BY <1>2, <1>3 DEF IInv

\* A step of another worker leaves what the traffic config's handler clears, as
\* long as none starts to apply a traffic config that is gone.
LEMMA OtherWorker ==
  ASSUME IInv, NEW w \in Triggers, \A v \in Workers : v # w => job'[v] = job[v],
         UNCHANGED <<exists, excused, filters>>,
         ~exists /\ ~excused => job'[w].phase \notin Applying
  PROVE  DeletedInv'
<1>1. w # "trafficconfig"
  BY EnvoyFilterAssumption
<1>2. QED
  BY <1>1 DEF IInv, DeletedInv, Workers

\* To trigger the handler preserves the invariant.
LEMMA TriggerSteps ==
  ASSUME IInv, NEW w \in Triggers, Triggered(w) \/ TriggerForWorkload(w)
  PROVE  IInv'
<1>1. Trigger(w) /\ UNCHANGED <<caches, trafficConfig, filters, known, excused>> /\ w \in Workers
  BY DEF Triggered, TriggerForWorkload, Workers
<1>2. PICK r \in Nat, E \in SUBSET Envs :
         (r = None => E = {}) /\ (IfWarm(w, r, E) \/ Skip(w)) /\ (cached = None => Skip(w))
  <2>1. CASE cached = None
    <3>1. Skip(w) /\ {} \in SUBSET Envs /\ None \in Nat
      BY <1>1, <2>1 DEF Trigger, None
    <3>2. QED
      BY <3>1
  <2>2. CASE cached # None
    <3>1. cached \in 1 .. MaxRevision /\ MaxRevision \in Nat
      BY <2>2, EnvoyFilterAssumption DEF IInv, TypeOK, None
    <3>2. cached \in Nat /\ workloadEnvs[cached] \in SUBSET Envs
      BY <3>1 DEF IInv, TypeOK
    <3>3. IfWarm(w, cached, workloadEnvs[cached])
      BY <1>1, <2>2 DEF Trigger
    <3>4. QED
      BY <2>2, <3>2, <3>3
  <2>3. QED
    BY <2>1, <2>2
<1>3. UNCHANGED <<warm, workloads, known, filters>>
  BY <1>1 DEF caches
<1>4. /\ job' \in [Workers -> Jobs] /\ steady' \in [Workers -> SUBSET Envs] /\ WarmInv'
      /\ \A v \in Workers : JobOK(job'[v], steady'[v], filters')
      /\ \A v \in Workers : v # w => job'[v] = job[v]
      /\ Skip(w) => job'[w].phase = "idle"
  BY <1>1, <1>2, <1>3, CallStep
<1>5. TypeOK' /\ RevisionInv'
  BY <1>1, <1>4 DEF IInv, TypeOK, RevisionInv, caches, trafficConfig
<1>6. DeletedInv'
  <2>1. ~exists /\ ~excused => job'[w].phase \notin Applying
    BY <1>2, <1>4 DEF IInv, RevisionInv, Applying
  <2>2. UNCHANGED <<exists, excused, filters>>
    BY <1>1 DEF trafficConfig
  <2>3. QED
    BY <1>4, <2>1, <2>2, OtherWorker
<1>7. QED
  BY <1>4, <1>5, <1>6 DEF IInv

\* A worker that goes on without applying anything preserves the invariant, if
\* what loses its workload ceases to be steady.
LEMMA RestingStep ==
  ASSUME IInv, NEW w \in Triggers, NEW j \in Jobs, j.phase \notin Applying, Goes(w, j),
         UNCHANGED <<warm, cached, trafficConfig, filters, excused>>,
         workloads' \in SUBSET Envs, known' \in SUBSET Envs,
         steady' \in [Workers -> SUBSET Envs],
         \A v \in Workers : Shrinks(v) /\ steady'[v] \subseteq workloads'
  PROVE  IInv'
<1>1. w \in Workers /\ JobOK(j, steady'[w], filters)
  BY RestingOK DEF Workers
<1>2. /\ job' \in [Workers -> Jobs]
      /\ \A v \in Workers : job'[v] = IF v = w THEN j ELSE job[v]
      /\ \A v \in Workers : JobOK(job'[v], steady'[v], filters')
  BY <1>1, OneJob
<1>3. TypeOK' /\ RevisionInv'
  BY <1>2 DEF IInv, TypeOK, RevisionInv, trafficConfig
<1>4. WarmInv'
  BY <1>2 DEF IInv, WarmInv
<1>5. DeletedInv'
  <2>1. UNCHANGED <<exists, excused, filters>>
    BY DEF trafficConfig
  <2>2. job'[w].phase \notin Applying /\ \A v \in Workers : v # w => job'[v] = job[v]
    BY <1>1, <1>2
  <2>3. QED
    BY <2>1, <2>2, OtherWorker
<1>6. QED
  BY <1>2, <1>3, <1>4, <1>5 DEF IInv

\* Notifications of workloads preserve the invariant.
LEMMA WorkloadSteps ==
  ASSUME IInv, NEW w \in Triggers,
         \/ \E e \in Envs : WorkloadSeen(w, e) \/ WorkloadDeleted(w, e)
         \/ CacheWorkload(w) \/ Unlink(w)
  PROVE  IInv'
<1>1. job[w] \in Jobs /\ workloads \in SUBSET Envs /\ known \in SUBSET Envs
  BY DEF IInv, TypeOK, Workers
<1>2. Idle \in Jobs /\ Idle.phase \notin Applying
  BY IdleOK DEF Applying
<1>a. ASSUME UNCHANGED steady, workloads \subseteq workloads'
      PROVE  /\ steady' \in [Workers -> SUBSET Envs]
             /\ \A v \in Workers : Shrinks(v) /\ steady'[v] \subseteq workloads'
  BY <1>a, SteadySame DEF IInv, WarmInv
<1>3. ASSUME NEW e \in Envs, WorkloadSeen(w, e) PROVE IInv'
  <2> DEFINE j == [Idle EXCEPT !.phase = "add", !.env = {e}]
  <2>1. j \in Jobs /\ j.phase \notin Applying
    BY IdleOK DEF Jobs, Applying
  <2>2. /\ Goes(w, j)
        /\ UNCHANGED <<warm, cached, workloads, trafficConfig, filters, known, steady, excused>>
    BY <1>3 DEF WorkloadSeen, Goes
  <2> HIDE DEF j
  <2>3. QED
    BY <1>1, <1>a, <2>1, <2>2, RestingStep
<1>4. ASSUME NEW e \in Envs, WorkloadDeleted(w, e) PROVE IInv'
  <2> DEFINE j == [Idle EXCEPT !.phase = "unlink"]
  <2>1. j \in Jobs /\ j.phase \notin Applying
    BY IdleOK DEF Jobs, Applying
  <2>2. /\ Goes(w, j) /\ workloads' = workloads \ {e} /\ known' = known \ {e}
        /\ steady' = [v \in Workers |-> steady[v] \ {e}]
        /\ UNCHANGED <<warm, cached, trafficConfig, filters, excused>>
    BY <1>4 DEF WorkloadDeleted, Goes
  <2> HIDE DEF j
  <2>3. /\ steady' \in [Workers -> SUBSET Envs]
        /\ \A v \in Workers : Shrinks(v) /\ steady'[v] \subseteq workloads'
    BY <2>2 DEF IInv, TypeOK, WarmInv, Shrinks
  <2>4. QED
    BY <1>1, <2>1, <2>2, <2>3, RestingStep
<1>5. CASE CacheWorkload(w)
  <2> DEFINE t == [job[w] EXCEPT !.phase = "trigger"]
  <2>1. t \in Jobs /\ t.phase \notin Applying
    BY <1>1 DEF Jobs, Applying
  <2>2. job[w].env \in SUBSET Envs
    BY <1>1 DEF Jobs
  <2>3. /\ Goes(w, t) \/ Goes(w, Idle)
        /\ workloads' = workloads \cup job[w].env /\ known' = known \cup job[w].env
        /\ UNCHANGED <<warm, cached, trafficConfig, filters, steady, excused>>
    BY <1>5 DEF CacheWorkload, Goes
  <2> HIDE DEF t
  <2>4. QED
    BY <1>1, <1>2, <1>a, <2>1, <2>2, <2>3, RestingStep
<1>6. CASE Unlink(w)
  <2>1. /\ Goes(w, Idle)
        /\ UNCHANGED <<warm, cached, workloads, trafficConfig, filters, known, steady, excused>>
    BY <1>6 DEF Unlink, Goes
  <2>2. QED
    BY <1>1, <1>2, <1>a, <2>1, RestingStep
<1>7. QED
  BY <1>3, <1>4, <1>5, <1>6

\* The end of warm-up preserves the invariant, whatever is in the caches.
LEMMA WarmUpStep ==
  ASSUME IInv, WarmUp
  PROVE  IInv'
<1>1. warm' = TRUE
  BY DEF WarmUp
<1>2. UNCHANGED <<cached, linked, workloads, trafficConfig, job, filters, count, known, steady,
                  excused>>
  BY DEF WarmUp
<1>3. TypeOK' /\ RevisionInv' /\ WarmInv'
  BY <1>1, <1>2 DEF IInv, TypeOK, RevisionInv, WarmInv, trafficConfig
<1>4. DeletedInv' /\ \A w \in Workers : JobOK(job'[w], steady'[w], filters')
  BY <1>2 DEF IInv, DeletedInv, trafficConfig
<1>5. QED
  BY <1>3, <1>4 DEF IInv

\* A restart preserves the invariant: nobody is at work afterwards.
LEMMA RestartStep ==
  ASSUME IInv, Restart
  PROVE  IInv'
<1>1. /\ ~warm' /\ cached' = None /\ workloads' = {} /\ job' = [w \in Workers |-> Idle]
      /\ known' \in SUBSET known /\ exists' \in {exists, FALSE} /\ excused' = (excused \/ ~exists')
      /\ steady' = [w \in Workers |-> {}]
      /\ UNCHANGED <<revision, workloadEnvs, filters>>
  BY DEF Restart
<1>2. warm' \in BOOLEAN
  BY DEF Restart
<1>3. TypeOK'
  <2>1. None \in 0 .. MaxRevision
    BY EnvoyFilterAssumption DEF None
  <2>2. QED
    BY <1>1, <1>2, <2>1, IdleOK DEF IInv, TypeOK
<1>4. \A w \in Workers : job'[w].phase \notin Applying
  BY <1>1, IdleOK DEF Applying
<1>5. \A w \in Workers : JobOK(job'[w], steady'[w], filters')
  BY <1>4, RestingOK
<1>6. RevisionInv'
  <2>1. exists' => exists
    BY <1>1
  <2>2. exists => revision # None
    BY DEF IInv, RevisionInv
  <2>3. QED
    BY <1>1, <2>1, <2>2 DEF RevisionInv
<1>7. WarmInv'
  BY <1>1, <1>4 DEF WarmInv
<1>8. DeletedInv'
  BY <1>1 DEF DeletedInv
<1>9. QED
  BY <1>3, <1>5, <1>6, <1>7, <1>8 DEF IInv

\* Every step preserves the invariant.
LEMMA NextIInv == IInv /\ [Next]_vars => IInv'
<1>1. SUFFICES ASSUME IInv, [Next]_vars PROVE IInv'
  OBVIOUS
<1>2. CASE UNCHANGED vars
  <2>1. UNCHANGED <<warm, cached, workloads, exists, revision, workloadEnvs, job, filters, known,
                    steady, excused>>
    BY <1>2 DEF vars, caches, trafficConfig
  <2>2. TypeOK' /\ RevisionInv' /\ WarmInv' /\ DeletedInv'
    BY <1>1, <2>1 DEF IInv, TypeOK, RevisionInv, WarmInv, DeletedInv
  <2>3. \A w \in Workers : JobOK(job'[w], steady'[w], filters')
    BY <1>1, <2>1 DEF IInv
  <2>4. QED
    BY <2>2, <2>3 DEF IInv
<1>3. CASE WarmUp \/ Restart
  BY <1>1, <1>3, WarmUpStep, RestartStep
<1>4. CASE \/ TrafficConfigListed \/ TrafficConfigAdded \/ TrafficConfigUpdated
           \/ TrafficConfigDeleted \/ TrafficConfigDeletedTombstone
  BY <1>1, <1>4, TrafficConfigSteps, TombstoneStep
<1>5. ASSUME NEW w \in Triggers, Triggered(w) \/ Workload(w) PROVE IInv'
  BY <1>1, <1>5, TriggerSteps, WorkloadSteps DEF Workload
<1>6. ASSUME NEW w \in Workers, Step(w) PROVE IInv'
  BY <1>1, <1>6, LookUpWorkloadStep, GetEnvoyFilterStep, ApplyEnvoyFiltersStep,
     CreateEnvoyFilterStep, UpdateEnvoyFilterStep, DeleteEnvoyFilterStep, ReturnStep DEF Step
<1>7. QED
  BY <1>1, <1>2, <1>3, <1>4, <1>5, <1>6 DEF Next

-----------------------------------------------------------------------------

\* The only steps that change filters are calls of handlers, one filter each.
LEMMA WhoWrites ==
  ASSUME Next, filters' # filters
  PROVE  \E w \in Workers : CreateEnvoyFilter(w) \/ UpdateEnvoyFilter(w) \/ DeleteEnvoyFilter(w)
<1>1. ~(WarmUp \/ Restart \/ TrafficConfigListed \/ TrafficConfigAdded \/ TrafficConfigUpdated
        \/ TrafficConfigDeleted \/ TrafficConfigDeletedTombstone)
  BY DEF WarmUp, Restart, TrafficConfigListed, TrafficConfigAdded, TrafficConfigUpdated,
         TrafficConfigDeleted, TrafficConfigDeletedTombstone, NewRevision, Deleted
<1>2. ASSUME NEW w \in Triggers PROVE ~(Triggered(w) \/ Workload(w))
  BY DEF Triggered, Workload, WorkloadSeen, WorkloadDeleted, CacheWorkload, TriggerForWorkload,
         Unlink
<1>3. ASSUME NEW w \in Workers
      PROVE  ~(LookUpWorkload(w) \/ GetEnvoyFilter(w) \/ ApplyEnvoyFilters(w) \/ HandlerReturns(w))
  BY DEF LookUpWorkload, GetEnvoyFilter, GetOne, ApplyEnvoyFilters, ListEnvoyFilters, HandlerReturns,
         CallFails
<1>4. QED
  BY <1>1, <1>2, <1>3 DEF Next, Step

\* A handler with something to create or to update has a revision.
LEMMA WritesRevision ==
  ASSUME IInv, NEW w \in Workers, job[w].phase = "write",
         job[w].create # {} \/ job[w].update # {}
  PROVE  job[w].rev # None
  BY JobFacts DEF JobOK, JobRev

\* Services stay throttled: a filter goes only after warm-up, and only if its
\* environment was not steady for the handler that deletes it.
THEOREM WantedFiltersStay == Spec => FiltersStay
<1>1. ASSUME IInv, [Next]_vars, NEW k \in Keys, filters[k] # None, filters'[k] = None
      PROVE  warm /\ \E w \in Workers : k \in job[w].delete \ job'[w].delete
                                        /\ k[1] \notin steady[w]
  <2>1. PICK w \in Workers :
           CreateEnvoyFilter(w) \/ UpdateEnvoyFilter(w) \/ DeleteEnvoyFilter(w)
    BY <1>1, WhoWrites DEF vars
  <2>2. filters \in [Keys -> Nat] /\ job[w] \in Jobs /\ JobStays(job[w], steady[w])
    BY <1>1, JobFacts DEF IInv, TypeOK, JobOK
  <2>3. CASE CreateEnvoyFilter(w) \/ UpdateEnvoyFilter(w)
    <3>1. \E h \in Keys : filters' = [filters EXCEPT ![h] = job[w].rev]
      BY <1>1, <2>2, <2>3
         DEF CreateEnvoyFilter, UpdateEnvoyFilter, Store, CallFails, Refused, Jobs
    <3>2. job[w].rev # None
      BY <1>1, <2>3, WritesRevision DEF CreateEnvoyFilter, UpdateEnvoyFilter
    <3>3. QED
      BY <1>1, <2>2, <3>1, <3>2
  <2>4. CASE DeleteEnvoyFilter(w)
    <3>1. PICK h \in job[w].delete : /\ filters' = [filters EXCEPT ![h] = None]
                                     /\ job'[w] = [job[w] EXCEPT !.delete = @ \ {h}]
      BY <1>1, <2>4 DEF DeleteEnvoyFilter, Store, CallFails
    <3>2. h = k
      BY <1>1, <2>2, <3>1
    <3>3. job[w].phase = "write"
      BY <2>4 DEF DeleteEnvoyFilter
    <3>4. k[1] \notin steady[w] /\ warm
      BY <1>1, <2>2, <3>1, <3>2, <3>3 DEF JobStays, IInv, WarmInv, Applying
    <3>5. k \in job[w].delete \ job'[w].delete
      BY <2>2, <3>1, <3>2 DEF Jobs
    <3>6. QED
      BY <3>4, <3>5
  <2>5. QED
    BY <2>1, <2>3, <2>4
<1>2. IInv /\ [Next]_vars =>
         [\A k \in Keys :
             filters[k] # None /\ filters'[k] = None =>
                 warm /\ \E w \in Workers : k \in job[w].delete \ job'[w].delete
                                            /\ k[1] \notin steady[w]]_vars
  BY <1>1
<1>3. QED
  BY <1>2, InitIInv, NextIInv, PTL DEF Spec, FiltersStay

\* A handler during which no call failed and nobody else wrote leaves exactly the
\* filters it requested, however many it had to create, update and delete.
THEOREM HandledFiltersAreExact == Spec => []HandledIsExact
<1>1. IInv => HandledIsExact
  <2>1. SUFFICES ASSUME IInv, NEW w \in Workers, Applied(w), job[w].alone, NEW k \in Keys
                 PROVE  filters[k] = IF k \in Requested(job[w]) THEN job[w].rev ELSE None
    BY DEF HandledIsExact
  <2>2. JobExact(job[w], filters)
    BY <2>1, JobFacts DEF JobOK
  <2>3. QED
    BY <2>1, <2>2 DEF JobExact, Applied
<1>2. QED
  BY <1>1, InitIInv, NextIInv, PTL DEF Spec

\* A deleted traffic config leaves no filter, but for the excuses.
THEOREM NoFilterOfDeletedTrafficConfig == Spec => []DeletedLeavesNothing
<1>1. IInv => DeletedLeavesNothing
  BY DEF IInv, DeletedInv, DeletedLeavesNothing, Clears, Applying, IsIdle
<1>2. QED
  BY <1>1, InitIInv, NextIInv, PTL DEF Spec

=============================================================================
