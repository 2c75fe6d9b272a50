------------------------- MODULE RemoteClustersProofs -------------------------
(***************************************************************************)
(* Which controllers run, and who closes their StopCh, for any number of   *)
(* secrets, clusters, kinds of controllers and workers.                    *)
(***************************************************************************)
EXTENDS RemoteClusters, TLAPS

\* IDs occur only in the names of their own controllers.
OwnNames == Matching = {<<c, c>> : c \in Clusters}

\* The secret controller has one worker.
OneWorker == \A v, w \in Workers : v = w

Jobs == [op : {"idle", "add", "delete"}, secret : Secrets \cup {NoSecret},
         todo : SUBSET Clusters, resolving : Clusters \cup {NoCluster}]

Stoppers == [by : Clusters, instance : Instances, event : Nat, at : {"deregister", "close", "wait"}]

TypeOK ==
    /\ {present, disabled, missed} \subseteq SUBSET Secrets /\ misses \in Nat /\ events \in Nat
    /\ event \in [Workers -> Jobs]
    /\ remoteCluster \in [Clusters -> Secrets \cup {NoSecret}]
    /\ starts \in [Clusters -> 0 .. MaxStarts]
    /\ instance \in [Instances -> {"none", "starting", "running", "stopping", "stopped"}]
    /\ controllerCache \in [Names -> 0 .. MaxStarts]
    /\ stoppers \in SUBSET Stoppers
    /\ missing \in SUBSET Names
    /\ crashed \in BOOLEAN /\ calm \in BOOLEAN

\* What an event in progress is about.
EventInv ==
    \A w \in Workers :
        /\ event[w].op = "idle" <=> event[w] = Idle
        /\ event[w].resolving # NoCluster =>
               event[w].op = "add" /\ event[w].resolving \in event[w].todo
        /\ event[w].op # "idle" => event[w].secret \in Secrets /\ event[w].todo \subseteq Data[event[w].secret]

\* One event at a time; while one adds, or a controller starts, none stops.
OneAtATime ==
    /\ \A v, w \in Workers : event[v].op # "idle" /\ event[w].op # "idle" => v = w
    /\ (\E w \in Workers : event[w].op = "add") => stoppers = {}
    /\ (\E i \in Instances : instance[i] = "starting") =>
           stoppers = {} /\ \A w \in Workers : event[w].op # "delete"
    /\ \A w \in Workers :
           event[w].resolving # NoCluster => remoteCluster[event[w].resolving] = NoSecret

\* A goroutine that stops an instance is the only one to do so, for its own
\* cluster, which is no longer cached; until it closes StopCh the instance runs.
StopperInv ==
    \A g \in stoppers :
        /\ g.by = g.instance[2] /\ remoteCluster[g.by] = NoSecret
        /\ g.at = "deregister" => /\ instance[g.instance] = "running"
                                  /\ controllerCache[NameOf(g.instance)] = g.instance[3]
        /\ g.at = "close" => /\ instance[g.instance] = "running"
                             /\ controllerCache[NameOf(g.instance)] = 0
        /\ \A h \in stoppers : h.instance = g.instance => h = g
        /\ \A w \in Workers : event[w].op = "delete" => g.by \notin event[w].todo

\* Only the last instance of a name starts or runs, registered and with its
\* cluster in the cache, or about to be stopped.
InstanceOK(k, c, n) ==
    /\ n > starts[c] => instance[<<k, c, n>>] = "none"
    /\ instance[<<k, c, n>>] \in {"starting", "running"} => n = starts[c] /\ <<k, c>> \notin missing
    /\ instance[<<k, c, n>>] = "starting" =>
           controllerCache[<<k, c>>] = 0 /\ remoteCluster[c] # NoSecret
    /\ instance[<<k, c, n>>] = "running" =>
           \/ controllerCache[<<k, c>>] = n /\ remoteCluster[c] # NoSecret
           \/ \E g \in stoppers : g.instance = <<k, c, n>> /\ g.at \in {"deregister", "close"}

InstanceInv == \A k \in Kinds, c \in Clusters, n \in 1 .. MaxStarts : InstanceOK(k, c, n)

\* What is registered runs, and a cached cluster has all that did not fail to start.
CacheOK(k, c) ==
    /\ controllerCache[<<k, c>>] # 0 => instance[<<k, c, controllerCache[<<k, c>>]>>] = "running"
    /\ remoteCluster[c] # NoSecret =>
           \/ <<k, c>> \in missing
           \/ starts[c] # 0 /\ instance[<<k, c, starts[c]>>] \in {"starting", "running"}

CacheInv == \A k \in Kinds, c \in Clusters : CacheOK(k, c)

CalmInv == OwnNames /\ calm => ~crashed /\ OneAtATime /\ StopperInv /\ InstanceInv /\ CacheInv

\* A cached cluster is one of its secret's, which is there, or being deleted, or
\* was deleted with a tombstone; a
\* secret that is being added is there.
OwnerInv ==
    /\ \A c \in Clusters : remoteCluster[c] # NoSecret => c \in Data[remoteCluster[c]]
    /\ OneWorker => /\ OwnerIsPresent
                    /\ \A w \in Workers : event[w].op = "add" => event[w].secret \in present

IInv == TypeOK /\ EventInv /\ CalmInv /\ OwnerInv

-----------------------------------------------------------------------------
(* Tuples and events.                                                       *)

\* An instance is a kind, a cluster and a number, and is known by the three.
LEMMA InstanceParts ==
    ASSUME NEW i \in Instances
    PROVE  /\ i[1] \in Kinds /\ i[2] \in Clusters /\ i[3] \in 1 .. MaxStarts
           /\ i = <<i[1], i[2], i[3]>> /\ NameOf(i) = <<i[1], i[2]>> /\ NameOf(i) \in Names
  BY DEF Instances, Names, NameOf

\* Instances with equal parts are equal.
LEMMA SameParts ==
    ASSUME NEW i \in Instances, NEW j \in Instances, NameOf(i) = NameOf(j), i[3] = j[3]
    PROVE  i = j
  BY DEF Instances, NameOf

\* No event in progress.
LEMMA IdleJob ==
    /\ Idle \in Jobs /\ Idle.op = "idle" /\ Idle.secret = NoSecret
    /\ Idle.todo = {} /\ Idle.resolving = NoCluster
  BY DEF Idle, Jobs

\* An event goes on to its next cluster.
LEMMA SmallerJob ==
    ASSUME NEW J \in Jobs, NEW left \in SUBSET Clusters
    PROVE  LET K == [J EXCEPT !.todo = left, !.resolving = NoCluster]
           IN  /\ K \in Jobs /\ K.op = J.op /\ K.secret = J.secret
               /\ K.todo = left /\ K.resolving = NoCluster
  BY DEF Jobs

\* An event has its configuration resolved.
LEMMA ResolvingJob ==
    ASSUME NEW J \in Jobs, NEW c \in Clusters
    PROVE  LET K == [J EXCEPT !.resolving = c]
           IN  /\ K \in Jobs /\ K.op = J.op /\ K.secret = J.secret
               /\ K.todo = J.todo /\ K.resolving = c
  BY DEF Jobs

\* What Handle does to the events.
LEMMA HandleStep ==
    ASSUME NEW w \in Workers, NEW op \in {"add", "delete"}, NEW s \in Secrets,
           event \in [Workers -> Jobs], Handle(w, op, s)
    PROVE  /\ event' \in [Workers -> Jobs]
           /\ \A v \in Workers : v # w => event'[v] = event[v]
           /\ event'[w].op = op /\ event'[w].secret = s
           /\ event'[w].todo = Data[s] /\ event'[w].resolving = NoCluster
<1>1. Data[s] \in SUBSET Clusters
  BY ClustersAssumption
<1> DEFINE J == [Idle EXCEPT !.op = op, !.secret = s, !.todo = Data[s]]
<1>2. /\ J \in Jobs /\ J.op = op /\ J.secret = s
      /\ J.todo = Data[s] /\ J.resolving = NoCluster
  BY <1>1 DEF Idle, Jobs
<1>3. event' = [event EXCEPT ![w] = J]
  BY DEF Handle
<1> HIDE DEF J
<1> QED  BY <1>2, <1>3

\* What an event about a secret does: it is handled, or it is dropped.
LEMMA SecretEventStep ==
    ASSUME NEW w \in Workers, NEW s \in Secrets, SecretEvent(w, s)
    PROVE  /\ event[w] = Idle /\ ~crashed
           /\ UNCHANGED <<remoteCluster, startVars, instance, controllerCache, stoppers, crashed>>
           /\ \/ Handle(w, "add", s) /\ s \in present' /\ present \cup missed \subseteq present' \cup missed'
              \/ Handle(w, "delete", s) /\ (present \cup missed) \ {s} \subseteq present' \cup missed'
              \/ UNCHANGED <<event, calm>> /\ present \cup missed \subseteq present' \cup missed'
<1>1. CASE SecretAdded(w, s) \/ SecretUpdated(w, s)
  BY <1>1 DEF SecretAdded, SecretUpdated, SyncEnabled, Handle, secretVars
<1>2. CASE SecretDisabled(w, s) \/ SecretDeleted(w, s)
  BY <1>2 DEF SecretDisabled, SecretDeleted, SyncDisabled, Gone, Handle
<1>3. CASE SecretDeletedTombstone(w, s)
  BY <1>3 DEF SecretDeletedTombstone, Gone
<1>4. CASE SecretIgnored(w, s)
  BY <1>4 DEF SecretIgnored, SyncDisabled
<1> QED  BY <1>1, <1>2, <1>3, <1>4 DEF SecretEvent

\* What Completed does to the events.
LEMMA CompletedStep ==
    ASSUME NEW w \in Workers, NEW c \in Clusters, event \in [Workers -> Jobs], Completed(w, c)
    PROVE  /\ event' \in [Workers -> Jobs]
           /\ \A v \in Workers : v # w => event'[v] = event[v]
           /\ event'[w].todo = event[w].todo \ {c} /\ event'[w].resolving = NoCluster
           /\ \/ event'[w] = Idle /\ event[w].todo \ {c} = {}
              \/ event'[w].op = event[w].op /\ event'[w].secret = event[w].secret
<1> DEFINE left == event[w].todo \ {c}
<1> DEFINE K == [event[w] EXCEPT !.todo = left, !.resolving = NoCluster]
<1>1. event[w] \in Jobs
  OBVIOUS
<1>2. left \in SUBSET Clusters
  BY <1>1 DEF Jobs
<1>3. /\ K \in Jobs /\ K.op = event[w].op /\ K.secret = event[w].secret
      /\ K.todo = left /\ K.resolving = NoCluster
  BY <1>1, <1>2, SmallerJob
<1>4. event' = [event EXCEPT ![w] = IF left = {} THEN Idle ELSE K]
  BY DEF Completed
<1>5. left = event[w].todo \ {c}
  OBVIOUS
<1> HIDE DEF left, K
<1>6. CASE left = {}
  <2>1. event' = [event EXCEPT ![w] = Idle]
    BY <1>4, <1>6
  <2> QED  BY <2>1, <1>5, <1>6, IdleJob
<1>7. CASE left # {}
  <2>1. event' = [event EXCEPT ![w] = K]
    BY <1>4, <1>7
  <2> QED  BY <2>1, <1>3, <1>5
<1> QED  BY <1>6, <1>7

\* What Resolve does to the events.
LEMMA ResolveStep ==
    ASSUME NEW w \in Workers, NEW c \in Clusters, event \in [Workers -> Jobs], Resolve(w, c)
    PROVE  /\ event' \in [Workers -> Jobs]
           /\ \A v \in Workers : v # w => event'[v] = event[v]
           /\ event'[w].todo = event[w].todo /\ event'[w].resolving = c
           /\ event'[w].op = event[w].op /\ event'[w].secret = event[w].secret
<1> DEFINE K == [event[w] EXCEPT !.resolving = c]
<1>1. event[w] \in Jobs
  OBVIOUS
<1>2. /\ K \in Jobs /\ K.op = event[w].op /\ K.secret = event[w].secret
      /\ K.todo = event[w].todo /\ K.resolving = c
  BY <1>1, ResolvingJob
<1>3. event' = [event EXCEPT ![w] = K]
  BY DEF Resolve
<1> HIDE DEF K
<1> QED  BY <1>2, <1>3

\* A cluster is never the placeholder.
LEMMA ClustersAreReal ==
    /\ \A c \in Clusters : c # NoCluster
    /\ \A s \in Secrets : s # NoSecret /\ Data[s] \subseteq Clusters
    /\ MaxStarts \in Nat
  BY ClustersAssumption

-----------------------------------------------------------------------------
(* Types.                                                                   *)

\* What Start does to the counters and the instances.
LEMMA StartStep ==
    ASSUME TypeOK, NEW c \in Clusters, NEW failing \in SUBSET Kinds, Start(c, failing)
    PROVE  /\ starts' \in [Clusters -> 0 .. MaxStarts] /\ missing' \in SUBSET Names
           /\ instance' \in [Instances -> {"none", "starting", "running", "stopping", "stopped"}]
           /\ starts'[c] = starts[c] + 1 /\ starts'[c] \in 1 .. MaxStarts
           /\ \A d \in Clusters : d # c => starts'[d] = starts[d]
           /\ \A k \in Kinds, d \in Clusters :
                 <<k, d>> \in missing' <=> IF d = c THEN k \in failing ELSE <<k, d>> \in missing
           /\ \A k \in Kinds, d \in Clusters, n \in 1 .. MaxStarts :
                 instance'[<<k, d, n>>] = IF k \notin failing /\ d = c /\ n = starts'[c]
                                          THEN "starting" ELSE instance[<<k, d, n>>]
<1>1. /\ starts \in [Clusters -> 0 .. MaxStarts] /\ missing \in SUBSET Names
      /\ instance \in [Instances -> {"none", "starting", "running", "stopping", "stopped"}]
      /\ starts[c] < MaxStarts /\ starts' = [starts EXCEPT ![c] = @ + 1]
      /\ missing' = {n \in missing : n[2] # c} \cup (failing \X {c})
      /\ instance' = [i \in Instances |->
                       IF i[1] \notin failing /\ i[2] = c /\ i[3] = starts[c] + 1
                       THEN "starting" ELSE instance[i]]
  BY DEF TypeOK, Start
<1>2. MaxStarts \in Nat
  BY ClustersAreReal
<1>3. /\ starts' \in [Clusters -> 0 .. MaxStarts] /\ starts'[c] = starts[c] + 1
      /\ starts'[c] \in 1 .. MaxStarts /\ \A d \in Clusters : d # c => starts'[d] = starts[d]
  BY <1>1, <1>2
<1>4. missing' \in SUBSET Names
  BY <1>1 DEF Names
<1>5. instance' \in [Instances -> {"none", "starting", "running", "stopping", "stopped"}]
  BY <1>1
<1>6. \A k \in Kinds, d \in Clusters :
         <<k, d>> \in missing' <=> IF d = c THEN k \in failing ELSE <<k, d>> \in missing
  BY <1>1
<1>7. ASSUME NEW k \in Kinds, NEW d \in Clusters, NEW n \in 1 .. MaxStarts
      PROVE  instance'[<<k, d, n>>] = IF k \notin failing /\ d = c /\ n = starts'[c]
                                      THEN "starting" ELSE instance[<<k, d, n>>]
  <2>1. <<k, d, n>> \in Instances
    BY DEF Instances
  <2> QED  BY <1>1, <1>3, <2>1
<1> QED  BY <1>3, <1>4, <1>5, <1>6, <1>7

\* The goroutines Stop starts.
LEMMA StopStep ==
    ASSUME TypeOK, NEW c \in Clusters, Stop(c)
    PROVE  /\ stoppers' \in SUBSET Stoppers /\ stoppers \subseteq stoppers'
           /\ \A g \in stoppers' : g \in stoppers \/
                 /\ g.by = c /\ g.event = events /\ g.at = "deregister"
                 /\ <<c, g.instance[2]>> \in Matching
                 /\ controllerCache[NameOf(g.instance)] = g.instance[3]
           /\ \A m \in Names :
                 <<c, m[2]>> \in Matching /\ controllerCache[m] # 0 =>
                     \E g \in stoppers' : /\ g.instance = <<m[1], m[2], controllerCache[m]>>
                                          /\ g.at = "deregister"
<1> DEFINE G(n) == [by |-> c, instance |-> <<n[1], n[2], controllerCache[n]>>,
                    event |-> events, at |-> "deregister"]
<1> DEFINE M == {m \in Names : <<c, m[2]>> \in Matching /\ controllerCache[m] # 0}
<1>1. stoppers' = stoppers \cup {G(n) : n \in M}
  BY DEF Stop
<1>2. /\ controllerCache \in [Names -> 0 .. MaxStarts] /\ stoppers \in SUBSET Stoppers
      /\ events \in Nat /\ MaxStarts \in Nat
  BY ClustersAreReal DEF TypeOK
<1>3. ASSUME NEW n \in M
      PROVE  /\ G(n) \in Stoppers /\ G(n).by = c /\ G(n).event = events /\ G(n).at = "deregister"
             /\ G(n).instance = <<n[1], n[2], controllerCache[n]>>
             /\ NameOf(G(n).instance) = n /\ G(n).instance[2] = n[2]
             /\ G(n).instance[3] = controllerCache[n]
  <2>1. n \in Names /\ controllerCache[n] \in 1 .. MaxStarts
    BY <1>2
  <2>2. <<n[1], n[2], controllerCache[n]>> \in Instances
    BY <2>1 DEF Names, Instances
  <2>3. n = <<n[1], n[2]>>
    BY <2>1 DEF Names
  <2> QED  BY <1>2, <2>1, <2>2, <2>3 DEF Stoppers, NameOf
<1>4. \A n \in M : n \in Names /\ <<c, n[2]>> \in Matching /\ controllerCache[n] # 0
  OBVIOUS
<1>5. \A n \in Names : <<c, n[2]>> \in Matching /\ controllerCache[n] # 0 => n \in M
  OBVIOUS
<1> HIDE DEF G, M
<1> QED  BY <1>1, <1>2, <1>3, <1>4, <1>5

\* Where Advance takes a goroutine.
LEMMA AdvanceStep ==
    ASSUME TypeOK, NEW g \in stoppers, NEW at \in {"close", "wait"}, Advance(g, at)
    PROVE  /\ stoppers' \in SUBSET Stoppers
           /\ \E h \in stoppers' :
                 /\ h.by = g.by /\ h.instance = g.instance /\ h.event = g.event /\ h.at = at
                 /\ stoppers' = (stoppers \ {g}) \cup {h}
<1>1. stoppers \in SUBSET Stoppers /\ g \in Stoppers
  BY DEF TypeOK
<1> DEFINE h == [g EXCEPT !.at = at]
<1>2. h \in Stoppers /\ h.by = g.by /\ h.instance = g.instance /\ h.event = g.event /\ h.at = at
  BY <1>1 DEF Stoppers
<1>3. stoppers' = (stoppers \ {g}) \cup {h}
  BY DEF Advance
<1> HIDE DEF h
<1> QED  BY <1>1, <1>2, <1>3

\* A goroutine is about an instance.
LEMMA StopperParts ==
    ASSUME TypeOK, NEW g \in stoppers
    PROVE  g.by \in Clusters /\ g.instance \in Instances /\ g.at \in {"deregister", "close", "wait"}
  BY DEF TypeOK, Stoppers

\* Every step leads from types to types.
LEMMA TypeStep ==
    ASSUME TypeOK, [Next]_vars
    PROVE  TypeOK'
<1> USE DEF TypeOK
<1>1. ASSUME NEW w \in Workers, NEW s \in Secrets, SecretEvent(w, s)
      PROVE  TypeOK'
  <2>1. {present', disabled', missed'} \subseteq SUBSET Secrets
    BY <1>1 DEF SecretEvent, SecretAdded, SecretUpdated, SecretDisabled, SecretDeleted,
                SecretDeletedTombstone, SecretIgnored, SyncEnabled, SyncDisabled, Gone, secretVars
  <2>2. misses' \in Nat /\ events' \in Nat
    BY <1>1 DEF SecretEvent, SecretAdded, SecretUpdated, SecretDisabled, SecretDeleted,
                SecretDeletedTombstone, SecretIgnored, Count, secretVars
  <2>3. event' \in [Workers -> Jobs] /\ calm' \in BOOLEAN
    BY <1>1, SecretEventStep, HandleStep DEF Handle
  <2>4. UNCHANGED <<remoteCluster, startVars, instance, controllerCache, stoppers, crashed>>
    BY <1>1, SecretEventStep
  <2> QED  BY <2>1, <2>2, <2>3, <2>4 DEF startVars
<1>2. ASSUME NEW w \in Workers, NEW c \in Clusters, SkipCached(w, c) \/ ResolveFails(w, c)
      PROVE  TypeOK'
  <2>1. event' \in [Workers -> Jobs]
    BY <1>2, CompletedStep DEF SkipCached, ResolveFails
  <2> QED  BY <1>2, <2>1 DEF SkipCached, ResolveFails, startVars, secretVars
<1>3. ASSUME NEW w \in Workers, NEW c \in Clusters, Resolve(w, c)
      PROVE  TypeOK'
  <2>1. event' \in [Workers -> Jobs]
    BY <1>3, ResolveStep
  <2> QED  BY <1>3, <2>1 DEF Resolve, startVars, secretVars
<1>4. ASSUME NEW w \in Workers, NEW c \in Clusters, StopCluster(w, c)
      PROVE  TypeOK'
  <2>1. event' \in [Workers -> Jobs]
    BY <1>4, CompletedStep DEF StopCluster
  <2>2. stoppers' \in SUBSET Stoppers
    BY <1>4, StopStep DEF StopCluster
  <2> QED  BY <1>4, <2>1, <2>2 DEF StopCluster, startVars, secretVars
<1>5. ASSUME NEW w \in Workers, NEW c \in Clusters, StartCluster(w, c)
      PROVE  TypeOK'
  <2>1. event' \in [Workers -> Jobs]
    BY <1>5, CompletedStep DEF StartCluster
  <2>2. PICK failing \in SUBSET Kinds : Start(c, failing)
    BY <1>5 DEF StartCluster
  <2>3. /\ starts' \in [Clusters -> 0 .. MaxStarts] /\ missing' \in SUBSET Names
        /\ instance' \in [Instances -> {"none", "starting", "running", "stopping", "stopped"}]
    BY <2>2, StartStep
  <2>4. event[w].secret \in Secrets \cup {NoSecret}
    BY DEF Jobs
  <2> QED  BY <1>5, <2>1, <2>3, <2>4 DEF StartCluster, secretVars
<1>6. ASSUME NEW i \in Instances, Register(i) \/ WorkersDone(i)
      PROVE  TypeOK'
  <2>1. i[3] \in 0 .. MaxStarts /\ NameOf(i) \in Names
    BY InstanceParts, ClustersAreReal
  <2> QED  BY <1>6, <2>1 DEF Register, WorkersDone, handlerVars, secretVars, startVars
<1>7. ASSUME NEW g \in stoppers, DeRegister(g)
      PROVE  TypeOK'
  <2>1. stoppers' \in SUBSET Stoppers
    BY <1>7, AdvanceStep DEF DeRegister
  <2>2. NameOf(g.instance) \in Names /\ 0 \in 0 .. MaxStarts
    BY StopperParts, InstanceParts, ClustersAreReal
  <2>3. controllerCache' \in [Names -> 0 .. MaxStarts]
    BY <1>7, <2>2 DEF DeRegister
  <2> QED  BY <1>7, <2>1, <2>3 DEF DeRegister, handlerVars, secretVars, startVars
<1>8. ASSUME NEW g \in stoppers, CloseStopCh(g)
      PROVE  TypeOK'
  <2>1. stoppers' \in SUBSET Stoppers
    BY <1>8, AdvanceStep DEF CloseStopCh
  <2>2. instance' \in [Instances -> {"none", "starting", "running", "stopping", "stopped"}]
        /\ crashed' \in BOOLEAN
    BY <1>8 DEF CloseStopCh
  <2> QED  BY <1>8, <2>1, <2>2 DEF CloseStopCh, handlerVars, secretVars, startVars
<1>9. ASSUME NEW g \in stoppers, DeleteCluster(g)
      PROVE  TypeOK'
  BY <1>9 DEF DeleteCluster, handlerVars, secretVars, startVars
<1>10. CASE UNCHANGED vars
  BY <1>10 DEF vars, handlerVars, secretVars, startVars
<1> QED  BY <1>1, <1>2, <1>3, <1>4, <1>5, <1>6, <1>7, <1>8, <1>9, <1>10
         DEF Next, Handler, Controller, Stopper

-----------------------------------------------------------------------------
(* Events, and the secrets clusters came from.                              *)

\* Events stay as EventInv says.
LEMMA EventStep ==
    ASSUME TypeOK, EventInv, [Next]_vars
    PROVE  EventInv'
<1>1. event \in [Workers -> Jobs]
  BY DEF TypeOK
<1>2. ASSUME NEW w \in Workers, NEW s \in Secrets, SecretEvent(w, s)
      PROVE  EventInv'
  <2>1. CASE UNCHANGED event
    BY <2>1 DEF EventInv
  <2>2. CASE \E op \in {"add", "delete"} : Handle(w, op, s)
    BY <1>1, <2>2, HandleStep, IdleJob DEF EventInv
  <2> QED  BY <1>2, <2>1, <2>2, SecretEventStep
<1>3. ASSUME NEW w \in Workers, NEW c \in Clusters, Completed(w, c),
             event[w].op # "idle"
      PROVE  EventInv'
  <2> USE DEF EventInv
  <2>1. /\ \A v \in Workers : v # w => event'[v] = event[v]
        /\ event'[w].todo = event[w].todo \ {c} /\ event'[w].resolving = NoCluster
        /\ \/ event'[w] = Idle /\ event[w].todo \ {c} = {}
           \/ event'[w].op = event[w].op /\ event'[w].secret = event[w].secret
    BY <1>1, <1>3, CompletedStep
  <2> QED  BY <1>3, <2>1, IdleJob
<1>4. ASSUME NEW w \in Workers, NEW c \in Clusters, Handler(w) \/ StartCluster(w, c)
      PROVE  EventInv'
  <2>1. CASE \E d \in Clusters : Resolve(w, d)
    <3>1. PICK d \in Clusters : Resolve(w, d)
      BY <2>1
    <3>2. event[w].op = "add" /\ d \in event[w].todo
      BY <3>1 DEF Resolve
    <3> QED  BY <1>1, <3>1, <3>2, ResolveStep, IdleJob DEF EventInv
  <2>2. CASE \E d \in Clusters : Completed(w, d) /\ event[w].op # "idle"
    BY <1>3, <2>2
  <2>3. \A d \in Clusters : event[w].resolving = d => event[w].op # "idle"
    BY ClustersAreReal DEF EventInv
  <2> QED  BY <1>4, <2>1, <2>2, <2>3
           DEF Handler, SkipCached, ResolveFails, StopCluster, StartCluster
<1>5. CASE UNCHANGED event
  BY <1>5 DEF EventInv
<1>6. ASSUME NEW i \in Instances, Controller(i)
      PROVE  UNCHANGED event
  BY <1>6 DEF Controller, Register, WorkersDone, handlerVars, secretVars
<1>7. ASSUME NEW g \in stoppers, Stopper(g)
      PROVE  UNCHANGED event
  BY <1>7 DEF Stopper, DeRegister, CloseStopCh, DeleteCluster, handlerVars, secretVars
<1>8. CASE UNCHANGED vars
  BY <1>5, <1>8 DEF vars, handlerVars
<1>9. ASSUME NEW w \in Workers, Handler(w)
      PROVE  EventInv'
  BY <1>4, <1>9 DEF Handler
<1> QED  BY <1>2, <1>4, <1>5, <1>6, <1>7, <1>8, <1>9 DEF Next

\* A cached cluster is in the data of its secret.
LEMMA OwnDataStep ==
    ASSUME TypeOK, EventInv, [Next]_vars,
           \A c \in Clusters : remoteCluster[c] # NoSecret => c \in Data[remoteCluster[c]]
    PROVE  \A c \in Clusters : remoteCluster'[c] # NoSecret => c \in Data[remoteCluster'[c]]
<1>1. remoteCluster \in [Clusters -> Secrets \cup {NoSecret}]
  BY DEF TypeOK
<1>2. ASSUME NEW w \in Workers, NEW c \in Clusters, StartCluster(w, c)
      PROVE  \A d \in Clusters : remoteCluster'[d] # NoSecret => d \in Data[remoteCluster'[d]]
  <2>1. event[w].resolving = c /\ remoteCluster' = [remoteCluster EXCEPT ![c] = event[w].secret]
    BY <1>2 DEF StartCluster
  <2>2. c \in Data[event[w].secret]
    BY <2>1, ClustersAreReal DEF EventInv
  <2> QED  BY <1>1, <2>1, <2>2
<1>3. CASE \E c \in Clusters : remoteCluster' = [remoteCluster EXCEPT ![c] = NoSecret]
  BY <1>1, <1>3
<1>4. CASE UNCHANGED remoteCluster
  BY <1>4
<1>5. ASSUME NEW w \in Workers, Handler(w)
      PROVE  \/ UNCHANGED remoteCluster
             \/ \E c \in Clusters : remoteCluster' = [remoteCluster EXCEPT ![c] = NoSecret]
  BY <1>5 DEF Handler, SkipCached, Resolve, ResolveFails, StopCluster
<1>6. ASSUME NEW g \in stoppers, Stopper(g)
      PROVE  \/ UNCHANGED remoteCluster
             \/ \E c \in Clusters : remoteCluster' = [remoteCluster EXCEPT ![c] = NoSecret]
  BY <1>6, StopperParts DEF Stopper, DeRegister, CloseStopCh, DeleteCluster
<1>7. ASSUME NEW i \in Instances, Controller(i)
      PROVE  UNCHANGED remoteCluster
  BY <1>7 DEF Controller, Register, WorkersDone
<1>8. ASSUME NEW w \in Workers, NEW s \in Secrets, SecretEvent(w, s)
      PROVE  UNCHANGED remoteCluster
  BY <1>8, SecretEventStep
<1>9. CASE UNCHANGED vars
  BY <1>4, <1>9 DEF vars
<1> QED  BY <1>2, <1>3, <1>4, <1>5, <1>6, <1>7, <1>8, <1>9 DEF Next

\* With one worker, a cached cluster's secret is as OwnerIsPresent says, and a
\* secret that is being added is there.
LEMMA OwnerStep ==
    ASSUME OneWorker, TypeOK, EventInv, OwnerInv, [Next]_vars
    PROVE  /\ OwnerIsPresent'
           /\ \A w \in Workers : event'[w].op = "add" => event'[w].secret \in present'
<1> DEFINE Adding == \A w \in Workers : event[w].op = "add" => event[w].secret \in present
<1>1. /\ event \in [Workers -> Jobs] /\ remoteCluster \in [Clusters -> Secrets \cup {NoSecret}]
      /\ present \in SUBSET Secrets /\ OwnerIsPresent /\ Adding
      /\ \A c \in Clusters : remoteCluster[c] # NoSecret => c \in Data[remoteCluster[c]]
  BY DEF TypeOK, OwnerInv
<1>2. ASSUME NEW w \in Workers, NEW s \in Secrets, SecretEvent(w, s)
      PROVE  OwnerIsPresent' /\ Adding'
  <2>1. /\ event[w] = Idle /\ UNCHANGED remoteCluster /\ \A v \in Workers : v = w
        /\ \/ Handle(w, "add", s) /\ s \in present' /\ present \cup missed \subseteq present' \cup missed'
           \/ Handle(w, "delete", s) /\ (present \cup missed) \ {s} \subseteq present' \cup missed'
           \/ UNCHANGED event /\ present \cup missed \subseteq present' \cup missed'
    BY <1>2, SecretEventStep DEF OneWorker
  <2>2. \A c \in Clusters : remoteCluster[c] \in present \cup missed \cup {NoSecret}
    BY <1>1, <2>1, IdleJob DEF OwnerIsPresent
  <2>3. CASE Handle(w, "add", s) /\ s \in present' /\ present \cup missed \subseteq present' \cup missed'
    <3>1. event'[w].op = "add" /\ event'[w].secret = s
      BY <1>1, <2>3, HandleStep
    <3> QED  BY <2>1, <2>2, <2>3, <3>1 DEF OwnerIsPresent
  <2>4. CASE Handle(w, "delete", s) /\ (present \cup missed) \ {s} \subseteq present' \cup missed'
    <3>1. event'[w].op = "delete" /\ event'[w].todo = Data[s]
      BY <1>1, <2>4, HandleStep
    <3> QED  BY <1>1, <2>1, <2>2, <2>4, <3>1 DEF OwnerIsPresent
  <2>5. CASE UNCHANGED event /\ present \cup missed \subseteq present' \cup missed'
    BY <2>1, <2>2, <2>5, IdleJob DEF OwnerIsPresent
  <2> QED  BY <2>1, <2>3, <2>4, <2>5
<1>3. ASSUME NEW w \in Workers, NEW c \in Clusters,
             SkipCached(w, c) \/ ResolveFails(w, c) \/ StopCluster(w, c) \/ StartCluster(w, c)
      PROVE  OwnerIsPresent' /\ Adding'
  <2>1. /\ event'[w].todo = event[w].todo \ {c}
        /\ \/ event'[w] = Idle /\ event[w].todo \ {c} = {}
           \/ event'[w].op = event[w].op /\ event'[w].secret = event[w].secret
    BY <1>1, <1>3, CompletedStep DEF SkipCached, ResolveFails, StopCluster, StartCluster
  <2>2. UNCHANGED <<present, missed>> /\ \A v \in Workers : v = w
    BY <1>3 DEF SkipCached, ResolveFails, StopCluster, StartCluster, secretVars, OneWorker
  <2>3. Adding'
    BY <1>1, <2>1, <2>2, IdleJob
  <2>4. CASE StopCluster(w, c)
    <3>1. /\ event[w].op = "delete" /\ remoteCluster' = [remoteCluster EXCEPT ![c] = NoSecret]
      BY <2>4 DEF StopCluster
    <3> QED  BY <1>1, <2>1, <2>2, <2>3, <3>1 DEF OwnerIsPresent
  <2>5. CASE ~StopCluster(w, c)
    <3>1. event[w].op = "add"
      BY <1>3, <2>5, ClustersAreReal DEF SkipCached, ResolveFails, StartCluster, EventInv
    <3>2. \A d \in Clusters : remoteCluster[d] \in present \cup missed \cup {NoSecret}
      BY <1>1, <2>2, <3>1 DEF OwnerIsPresent
    <3>3. event[w].secret \in present
      BY <1>1, <3>1
    <3>4. UNCHANGED remoteCluster \/ remoteCluster' = [remoteCluster EXCEPT ![c] = event[w].secret]
      BY <1>3, <2>5 DEF SkipCached, ResolveFails, StartCluster
    <3> QED  BY <1>1, <2>2, <2>3, <3>2, <3>3, <3>4 DEF OwnerIsPresent
  <2> QED  BY <2>4, <2>5
<1>4. ASSUME NEW w \in Workers, NEW c \in Clusters, Resolve(w, c)
      PROVE  OwnerIsPresent' /\ Adding'
  <2>1. UNCHANGED <<remoteCluster, present, missed>> /\ \A v \in Workers : v = w
    BY <1>4 DEF Resolve, OneWorker, secretVars
  <2>2. /\ event'[w].todo = event[w].todo /\ event'[w].op = event[w].op
        /\ event'[w].secret = event[w].secret
    BY <1>1, <1>4, ResolveStep
  <2> QED  BY <1>1, <2>1, <2>2 DEF OwnerIsPresent
<1>5. ASSUME NEW g \in stoppers, DeleteCluster(g)
      PROVE  OwnerIsPresent' /\ Adding'
  <2>1. /\ UNCHANGED <<event, present, missed>> /\ g.by \in Clusters
        /\ remoteCluster' = [remoteCluster EXCEPT ![g.by] = NoSecret]
    BY <1>5, StopperParts DEF DeleteCluster, handlerVars, secretVars
  <2> QED  BY <1>1, <2>1 DEF OwnerIsPresent
<1>6. CASE UNCHANGED <<event, present, missed, remoteCluster>>
  BY <1>1, <1>6 DEF OwnerIsPresent
<1>7. ASSUME NEW i \in Instances, Controller(i)
      PROVE  UNCHANGED <<event, present, missed, remoteCluster>>
  BY <1>7 DEF Controller, Register, WorkersDone, handlerVars, secretVars
<1>8. ASSUME NEW g \in stoppers, DeRegister(g) \/ CloseStopCh(g)
      PROVE  UNCHANGED <<event, present, missed, remoteCluster>>
  BY <1>8 DEF DeRegister, CloseStopCh, handlerVars, secretVars
<1>9. CASE UNCHANGED vars
  BY <1>6, <1>9 DEF vars, handlerVars, secretVars
<1>10. OwnerIsPresent' /\ Adding'
  BY <1>2, <1>3, <1>4, <1>5, <1>6, <1>7, <1>8, <1>9 DEF Next, Handler, Stopper
<1> QED  BY <1>10

-----------------------------------------------------------------------------
(* What holds as long as secrets change calmly.                             *)

Calmly == ~crashed /\ OneAtATime /\ StopperInv /\ InstanceInv /\ CacheInv

\* An event that begins calmly begins when nothing is in progress.
LEMMA HandleCalmly ==
    ASSUME TypeOK, Calmly, NEW w \in Workers, NEW op \in {"add", "delete"}, NEW s \in Secrets,
           Handle(w, op, s), calm'
    PROVE  Calmly'
<1>1. /\ Quiet /\ event \in [Workers -> Jobs] /\ ~crashed
      /\ UNCHANGED <<remoteCluster, starts, missing, instance, controllerCache, stoppers, crashed>>
  BY DEF TypeOK, Handle, startVars, Calmly
<1>2. /\ \A v \in Workers : v # w => event'[v] = Idle
      /\ event'[w].resolving = NoCluster
  BY <1>1, HandleStep DEF Quiet
<1>3. OneAtATime'
  BY <1>1, <1>2, IdleJob DEF OneAtATime, Quiet
<1>4. StopperInv'
  BY <1>1 DEF StopperInv, Quiet
<1>5. InstanceInv'
  <2>1. UNCHANGED <<starts, instance, controllerCache, remoteCluster, stoppers, missing>>
    BY <1>1
  <2> QED  BY <2>1 DEF InstanceInv, InstanceOK, Calmly
<1>6. CacheInv'
  BY <1>1 DEF CacheInv, CacheOK, Calmly
<1> QED  BY <1>1, <1>3, <1>4, <1>5, <1>6 DEF Calmly

\* What StopperInv and OneAtATime say of events survives an event's going on.
LEMMA CompletedCalmly ==
    ASSUME TypeOK, EventInv, OneAtATime, NEW w \in Workers, NEW c \in Clusters, Completed(w, c)
    PROVE  /\ \A v \in Workers : /\ event'[v].op \in {"idle", event[v].op}
                                 /\ event'[v].todo \subseteq event[v].todo
                                 /\ event'[v].resolving \in {event[v].resolving, NoCluster}
           /\ event'[w].todo = event[w].todo \ {c} /\ event'[w].resolving = NoCluster
<1>1. event \in [Workers -> Jobs]
  BY DEF TypeOK
<1>2. /\ \A v \in Workers : v # w => event'[v] = event[v]
      /\ event'[w].todo = event[w].todo \ {c} /\ event'[w].resolving = NoCluster
      /\ \/ event'[w] = Idle /\ event[w].todo \ {c} = {}
         \/ event'[w].op = event[w].op /\ event'[w].secret = event[w].secret
  BY <1>1, CompletedStep
<1> QED  BY <1>2, IdleJob

\* A cluster that is skipped, or whose configuration does not resolve, changes
\* only the event.
LEMMA SkipCalmly ==
    ASSUME TypeOK, EventInv, Calmly, NEW w \in Workers, NEW c \in Clusters,
           SkipCached(w, c) \/ ResolveFails(w, c)
    PROVE  Calmly'
<1>1. /\ Completed(w, c) /\ ~crashed
      /\ UNCHANGED <<remoteCluster, starts, missing, instance, controllerCache, stoppers, crashed>>
  BY DEF SkipCached, ResolveFails, startVars
<1>2. \A v \in Workers : /\ event'[v].op \in {"idle", event[v].op}
                         /\ event'[v].todo \subseteq event[v].todo
                         /\ event'[v].resolving \in {event[v].resolving, NoCluster}
  BY <1>1, CompletedCalmly DEF Calmly
<1>3. OneAtATime'
  BY <1>1, <1>2 DEF OneAtATime, Calmly
<1>4. StopperInv'
  BY <1>1, <1>2 DEF StopperInv, Calmly
<1>5. InstanceInv'
  <2>1. UNCHANGED <<starts, instance, controllerCache, remoteCluster, stoppers, missing>>
    BY <1>1
  <2> QED  BY <2>1 DEF InstanceInv, InstanceOK, Calmly
<1>6. CacheInv'
  BY <1>1 DEF CacheInv, CacheOK, Calmly
<1> QED  BY <1>1, <1>3, <1>4, <1>5, <1>6 DEF Calmly

\* A configuration is resolved for a cluster that is not cached.
LEMMA ResolveCalmly ==
    ASSUME TypeOK, Calmly, NEW w \in Workers, NEW c \in Clusters, Resolve(w, c)
    PROVE  Calmly'
<1>1. /\ event \in [Workers -> Jobs] /\ ~crashed /\ remoteCluster[c] = NoSecret
      /\ UNCHANGED <<remoteCluster, starts, missing, instance, controllerCache, stoppers, crashed>>
  BY DEF Resolve, startVars, TypeOK
<1>2. /\ \A v \in Workers : v # w => event'[v] = event[v]
      /\ event'[w].todo = event[w].todo /\ event'[w].resolving = c
      /\ event'[w].op = event[w].op /\ event'[w].secret = event[w].secret
  BY <1>1, ResolveStep
<1>3. OneAtATime'
  BY <1>1, <1>2 DEF OneAtATime, Calmly
<1>4. StopperInv'
  BY <1>1, <1>2 DEF StopperInv, Calmly
<1>5. InstanceInv'
  <2>1. UNCHANGED <<starts, instance, controllerCache, remoteCluster, stoppers, missing>>
    BY <1>1
  <2> QED  BY <2>1 DEF InstanceInv, InstanceOK, Calmly
<1>6. CacheInv'
  BY <1>1 DEF CacheInv, CacheOK, Calmly
<1> QED  BY <1>1, <1>3, <1>4, <1>5, <1>6 DEF Calmly

\* A cluster that is not cached has nothing running or registered, unless a
\* goroutine is stopping it.
LEMMA UncachedIsStopped ==
    ASSUME TypeOK, Calmly, stoppers = {}, NEW c \in Clusters, remoteCluster[c] = NoSecret,
           NEW k \in Kinds
    PROVE  /\ controllerCache[<<k, c>>] = 0
           /\ \A n \in 1 .. MaxStarts : instance[<<k, c, n>>] \notin {"starting", "running"}
<1>1. \A n \in 1 .. MaxStarts : instance[<<k, c, n>>] \notin {"starting", "running"}
  BY DEF Calmly, InstanceInv, InstanceOK
<1>2. controllerCache[<<k, c>>] \in 0 .. MaxStarts
  BY DEF TypeOK, Names
<1>3. controllerCache[<<k, c>>] # 0 => controllerCache[<<k, c>>] \in 1 .. MaxStarts
  BY <1>2, ClustersAreReal
<1>4. controllerCache[<<k, c>>] = 0
  BY <1>1, <1>3 DEF Calmly, CacheInv, CacheOK
<1> QED  BY <1>1, <1>4

\* A cluster starts when nothing of it is left.
LEMMA StartCalmly ==
    ASSUME TypeOK, EventInv, Calmly, NEW w \in Workers, NEW c \in Clusters, StartCluster(w, c)
    PROVE  Calmly'
<1>1. /\ event[w].resolving = c /\ Completed(w, c) /\ ~crashed /\ event[w].secret \in Secrets
      /\ remoteCluster' = [remoteCluster EXCEPT ![c] = event[w].secret]
      /\ UNCHANGED <<controllerCache, stoppers, crashed>>
      /\ remoteCluster \in [Clusters -> Secrets \cup {NoSecret}]
  BY ClustersAreReal DEF StartCluster, TypeOK, EventInv
<1>2. event[w].op = "add" /\ stoppers = {} /\ remoteCluster[c] = NoSecret
  BY <1>1, ClustersAreReal DEF Calmly, OneAtATime, EventInv
<1>3. PICK failing \in SUBSET Kinds : Start(c, failing)
  BY DEF StartCluster
<1>4. /\ starts'[c] = starts[c] + 1 /\ starts'[c] \in 1 .. MaxStarts
      /\ \A d \in Clusters : d # c => starts'[d] = starts[d]
      /\ \A k \in Kinds, d \in Clusters :
            <<k, d>> \in missing' <=> IF d = c THEN k \in failing ELSE <<k, d>> \in missing
      /\ \A k \in Kinds, d \in Clusters, n \in 1 .. MaxStarts :
            instance'[<<k, d, n>>] = IF k \notin failing /\ d = c /\ n = starts'[c]
                                     THEN "starting" ELSE instance[<<k, d, n>>]
  BY <1>3, StartStep
<1>5. \A k \in Kinds : /\ controllerCache[<<k, c>>] = 0
                       /\ \A n \in 1 .. MaxStarts :
                             instance[<<k, c, n>>] \notin {"starting", "running"}
  BY <1>2, UncachedIsStopped
<1>6. starts \in [Clusters -> 0 .. MaxStarts] /\ MaxStarts \in Nat
  BY ClustersAreReal DEF TypeOK
<1>7. /\ \A d \in Clusters : d # c => remoteCluster'[d] = remoteCluster[d]
      /\ remoteCluster'[c] # NoSecret
  BY <1>1, ClustersAreReal
<1>8. OneAtATime'
  <2>1. \A v \in Workers : /\ event'[v].op \in {"idle", event[v].op}
                           /\ event'[v].resolving \in {event[v].resolving, NoCluster}
    BY <1>1, CompletedCalmly DEF Calmly
  <2>2. \A v \in Workers : v # w => event[v].op = "idle"
    BY <1>2 DEF Calmly, OneAtATime
  <2>3. \A v \in Workers : event'[v].op \in {"idle", "add"}
    BY <1>2, <2>1, <2>2
  <2>4. \A v \in Workers : event'[v].resolving = NoCluster
    <3>1. event'[w].resolving = NoCluster
      BY <1>1, CompletedCalmly DEF Calmly
    <3>2. \A v \in Workers : v # w => event[v].resolving = NoCluster
      BY <2>2 DEF EventInv
    <3> QED  BY <2>1, <3>1, <3>2
  <2>5. \A u, v \in Workers : event'[u].op # "idle" /\ event'[v].op # "idle" => u = v
    BY <2>1, <2>2
  <2> QED  BY <1>1, <1>2, <2>3, <2>4, <2>5 DEF OneAtATime
<1>9. StopperInv'
  BY <1>1, <1>2 DEF StopperInv
<1>10. InstanceInv'
  <2> SUFFICES ASSUME NEW k \in Kinds, NEW d \in Clusters, NEW n \in 1 .. MaxStarts
               PROVE  InstanceOK(k, d, n)'
    BY DEF InstanceInv
  <2>1. /\ n > starts[d] => instance[<<k, d, n>>] = "none"
        /\ instance[<<k, d, n>>] \in {"starting", "running"} =>
              n = starts[d] /\ <<k, d>> \notin missing
        /\ instance[<<k, d, n>>] = "starting" =>
              controllerCache[<<k, d>>] = 0 /\ remoteCluster[d] # NoSecret
        /\ instance[<<k, d, n>>] = "running" =>
              controllerCache[<<k, d>>] = n /\ remoteCluster[d] # NoSecret
    BY <1>2 DEF Calmly, InstanceInv, InstanceOK
  <2>2. CASE d # c
    BY <1>1, <1>4, <1>7, <2>1, <2>2 DEF InstanceOK
  <2>3. CASE d = c
    <3>1. instance[<<k, d, n>>] \notin {"starting", "running"} /\ controllerCache[<<k, d>>] = 0
      BY <1>5, <2>3
    <3>2. CASE k \notin failing /\ n = starts'[c]
      <4>1. instance'[<<k, d, n>>] = "starting" /\ <<k, d>> \notin missing'
        BY <1>4, <2>3, <3>2
      <4>2. starts'[d] \in Nat /\ n \in Nat
        BY <1>4, <2>3
      <4> QED  BY <1>1, <1>7, <2>3, <3>1, <3>2, <4>1, <4>2 DEF InstanceOK
    <3>3. CASE ~(k \notin failing /\ n = starts'[c])
      <4>1. instance'[<<k, d, n>>] = instance[<<k, d, n>>]
        BY <1>4, <2>3, <3>3
      <4>2. n > starts'[d] => n > starts[d]
        BY <1>4, <1>6, <2>3
      <4> QED  BY <2>1, <3>1, <4>1, <4>2 DEF InstanceOK
    <3> QED  BY <3>2, <3>3
  <2> QED  BY <2>2, <2>3
<1>11. CacheInv'
  <2> SUFFICES ASSUME NEW k \in Kinds, NEW d \in Clusters
               PROVE  /\ controllerCache'[<<k, d>>] # 0 =>
                            instance'[<<k, d, controllerCache'[<<k, d>>]>>] = "running"
                      /\ remoteCluster'[d] # NoSecret =>
                            \/ <<k, d>> \in missing'
                            \/ /\ starts'[d] # 0
                               /\ instance'[<<k, d, starts'[d]>>] \in {"starting", "running"}
    BY DEF CacheInv, CacheOK
  <2>1. CASE d = c
    BY <1>1, <1>4, <1>5, <2>1
  <2>2. CASE d # c
    <3>1. controllerCache[<<k, d>>] \in 0 .. MaxStarts
      BY DEF TypeOK, Names
    <3>2. /\ controllerCache[<<k, d>>] # 0 =>
                instance[<<k, d, controllerCache[<<k, d>>]>>] = "running"
          /\ remoteCluster[d] # NoSecret =>
                \/ <<k, d>> \in missing
                \/ starts[d] # 0 /\ instance[<<k, d, starts[d]>>] \in {"starting", "running"}
      BY DEF Calmly, CacheInv, CacheOK
    <3>3. starts[d] \in 0 .. MaxStarts
      BY <1>6
    <3>4. \A n \in 1 .. MaxStarts : instance'[<<k, d, n>>] = instance[<<k, d, n>>]
      BY <1>4, <2>2
    <3>5. /\ controllerCache[<<k, d>>] # 0 => controllerCache[<<k, d>>] \in 1 .. MaxStarts
          /\ starts[d] # 0 => starts[d] \in 1 .. MaxStarts
      BY <1>6, <3>1, <3>3
    <3> QED  BY <1>1, <1>4, <1>7, <2>2, <3>2, <3>4, <3>5
  <2> QED  BY <2>1, <2>2
<1> QED  BY <1>1, <1>8, <1>9, <1>10, <1>11 DEF Calmly

\* When a secret's cluster is removed, every controller registered for it runs and
\* no goroutine is stopping it yet.
LEMMA StopCalmly ==
    ASSUME OwnNames, TypeOK, EventInv, Calmly, NEW w \in Workers, NEW c \in Clusters,
           StopCluster(w, c)
    PROVE  Calmly'
<1>1. /\ event[w].op = "delete" /\ c \in event[w].todo /\ Stop(c) /\ Completed(w, c) /\ ~crashed
      /\ remoteCluster' = [remoteCluster EXCEPT ![c] = NoSecret]
      /\ UNCHANGED <<starts, missing, instance, controllerCache, crashed>>
      /\ remoteCluster \in [Clusters -> Secrets \cup {NoSecret}]
  BY DEF StopCluster, startVars, TypeOK
<1>2. /\ \A v \in Workers : event[v].op = "idle" \/ v = w
      /\ \A i \in Instances : instance[i] # "starting"
  BY <1>1 DEF Calmly, OneAtATime
<1>3. /\ stoppers \subseteq stoppers' /\ \A g \in stoppers' : g \in Stoppers
      /\ \A g \in stoppers' : g \in stoppers \/
            /\ g.by = c /\ g.event = events /\ g.at = "deregister"
            /\ <<c, g.instance[2]>> \in Matching
            /\ controllerCache[NameOf(g.instance)] = g.instance[3]
      /\ \A m \in Names :
            <<c, m[2]>> \in Matching /\ controllerCache[m] # 0 =>
                \E g \in stoppers' : /\ g.instance = <<m[1], m[2], controllerCache[m]>>
                                     /\ g.at = "deregister"
  BY <1>1, StopStep
<1>4. /\ \A v \in Workers : /\ event'[v].op \in {"idle", event[v].op}
                            /\ event'[v].todo \subseteq event[v].todo
                            /\ event'[v].resolving \in {event[v].resolving, NoCluster}
      /\ event'[w].todo = event[w].todo \ {c} /\ event'[w].resolving = NoCluster
  BY <1>1, CompletedCalmly DEF Calmly
<1>5. \A v \in Workers : event'[v].op # "add" /\ event'[v].resolving = NoCluster
  BY <1>1, <1>2, <1>4 DEF EventInv
<1>6. OneAtATime'
  BY <1>1, <1>2, <1>4, <1>5 DEF OneAtATime
<1>7. ASSUME NEW g \in stoppers'
      PROVE  /\ g.by \in Clusters /\ g.instance \in Instances /\ g.event \in Nat
             /\ g = [by |-> g.by, instance |-> g.instance, event |-> g.event, at |-> g.at]
  BY <1>3 DEF Stoppers
<1>8. ASSUME NEW g \in stoppers', g \notin stoppers
      PROVE  /\ g.by = c /\ g.event = events /\ g.at = "deregister" /\ g.instance[2] = c
             /\ controllerCache[NameOf(g.instance)] = g.instance[3]
             /\ instance[g.instance] = "running"
  <2>1. /\ g.by = c /\ g.event = events /\ g.at = "deregister" /\ g.instance[2] = c
        /\ controllerCache[NameOf(g.instance)] = g.instance[3]
    BY <1>3, <1>8 DEF OwnNames
  <2>2. /\ g.instance[1] \in Kinds /\ g.instance[3] \in 1 .. MaxStarts
        /\ g.instance = <<g.instance[1], c, g.instance[3]>>
        /\ NameOf(g.instance) = <<g.instance[1], c>>
    BY <1>7, <2>1, InstanceParts
  <2>3. controllerCache[<<g.instance[1], c>>] # 0
    BY <2>1, <2>2
  <2>4. instance[g.instance] = "running"
    BY <2>1, <2>2, <2>3 DEF Calmly, CacheInv, CacheOK
  <2> QED  BY <2>1, <2>4
<1>9. \A g \in stoppers : g.by # c /\ g.by = g.instance[2]
  BY <1>1 DEF Calmly, StopperInv
<1>10. StopperInv'
  <2> SUFFICES ASSUME NEW g \in stoppers'
               PROVE  /\ g.by = g.instance[2] /\ remoteCluster'[g.by] = NoSecret
                      /\ g.at = "deregister" =>
                            /\ instance'[g.instance] = "running"
                            /\ controllerCache'[NameOf(g.instance)] = g.instance[3]
                      /\ g.at = "close" => /\ instance'[g.instance] = "running"
                                           /\ controllerCache'[NameOf(g.instance)] = 0
                      /\ \A h \in stoppers' : h.instance = g.instance => h = g
                      /\ \A v \in Workers : event'[v].op = "delete" => g.by \notin event'[v].todo
    BY DEF StopperInv
  <2>1. \A h \in stoppers' : h.instance = g.instance => h = g
    <3> SUFFICES ASSUME NEW h \in stoppers', h.instance = g.instance  PROVE h = g
      OBVIOUS
    <3>1. CASE g \in stoppers /\ h \in stoppers
      BY <3>1 DEF Calmly, StopperInv
    <3>2. CASE g \notin stoppers /\ h \notin stoppers
      BY <1>7, <1>8, <3>2
    <3>3. CASE g \in stoppers /\ h \notin stoppers
      BY <1>8, <1>9, <3>3
    <3>4. CASE g \notin stoppers /\ h \in stoppers
      BY <1>8, <1>9, <3>4
    <3> QED  BY <3>1, <3>2, <3>3, <3>4
  <2>2. CASE g \in stoppers
    BY <1>1, <1>4, <1>7, <2>1, <2>2 DEF Calmly, StopperInv
  <2>3. CASE g \notin stoppers
    <3>1. \A v \in Workers : event'[v].op = "delete" => c \notin event'[v].todo
      BY <1>2, <1>4
    <3> QED  BY <1>1, <1>8, <2>1, <2>3, <3>1
  <2> QED  BY <2>2, <2>3
<1>11. InstanceInv'
  <2> SUFFICES ASSUME NEW k \in Kinds, NEW d \in Clusters, NEW n \in 1 .. MaxStarts,
                      instance[<<k, d, n>>] = "running"
               PROVE  \/ controllerCache[<<k, d>>] = n /\ remoteCluster'[d] # NoSecret
                      \/ \E g \in stoppers' :
                            g.instance = <<k, d, n>> /\ g.at \in {"deregister", "close"}
    <3> SUFFICES ASSUME NEW k \in Kinds, NEW d \in Clusters, NEW n \in 1 .. MaxStarts,
                        instance[<<k, d, n>>] = "running" =>
                            \/ controllerCache[<<k, d>>] = n /\ remoteCluster'[d] # NoSecret
                            \/ \E g \in stoppers' :
                                  g.instance = <<k, d, n>> /\ g.at \in {"deregister", "close"}
                 PROVE  InstanceOK(k, d, n)'
      BY DEF InstanceInv
    <3>1. <<k, d, n>> \in Instances
      BY DEF Instances
    <3>2. instance[<<k, d, n>>] # "starting" /\ InstanceOK(k, d, n)
      BY <1>2, <3>1 DEF Calmly, InstanceInv
    <3> QED  BY <1>1, <3>2 DEF InstanceOK
  <2>1. \/ controllerCache[<<k, d>>] = n /\ remoteCluster[d] # NoSecret
        \/ \E g \in stoppers : g.instance = <<k, d, n>> /\ g.at \in {"deregister", "close"}
    BY DEF Calmly, InstanceInv, InstanceOK
  <2>2. CASE d # c \/ controllerCache[<<k, d>>] # n
    BY <1>1, <1>3, <2>1, <2>2
  <2>3. CASE d = c /\ controllerCache[<<k, d>>] = n
    <3>1. /\ <<k, c>> \in Names /\ <<c, <<k, c>>[2]>> \in Matching
          /\ controllerCache[<<k, c>>] # 0
      BY <2>3, ClustersAreReal DEF Names, OwnNames
    <3>2. \E g \in stoppers' : /\ g.instance = <<k, c, controllerCache[<<k, c>>]>>
                               /\ g.at = "deregister"
      BY <1>3, <3>1
    <3> QED  BY <2>3, <3>2
  <2> QED  BY <2>2, <2>3
<1>12. CacheInv'
  BY <1>1 DEF Calmly, CacheInv, CacheOK
<1> QED  BY <1>1, <1>6, <1>10, <1>11, <1>12 DEF Calmly

\* A controller that registers is the only one of its name.
LEMMA RegisterCalmly ==
    ASSUME TypeOK, Calmly, NEW i \in Instances, Register(i)
    PROVE  Calmly'
<1>1. PICK k \in Kinds, c \in Clusters, n \in 1 .. MaxStarts :
          i = <<k, c, n>> /\ i[3] = n /\ NameOf(i) = <<k, c>>
  BY InstanceParts
<1>2. /\ instance[<<k, c, n>>] = "starting" /\ ~crashed
      /\ instance' = [instance EXCEPT ![<<k, c, n>>] = "running"]
      /\ controllerCache' = [controllerCache EXCEPT ![<<k, c>>] = n]
      /\ UNCHANGED <<event, remoteCluster, starts, missing, stoppers, crashed>>
      /\ DOMAIN instance = Instances /\ DOMAIN controllerCache = Names
  BY <1>1 DEF Register, handlerVars, secretVars, startVars, TypeOK
<1>3. /\ stoppers = {} /\ \A w \in Workers : event[w].op # "delete"
      /\ n = starts[c] /\ <<k, c>> \notin missing /\ remoteCluster[c] # NoSecret
      /\ i \in Instances
  BY <1>1, <1>2 DEF Calmly, OneAtATime, InstanceInv, InstanceOK
<1>4. \A j \in Kinds, d \in Clusters, m \in 1 .. MaxStarts :
         /\ <<j, d, m>> \in Instances /\ <<j, d>> \in Names
         /\ instance'[<<j, d, m>>] = IF j = k /\ d = c /\ m = n THEN "running"
                                     ELSE instance[<<j, d, m>>]
         /\ controllerCache'[<<j, d>>] = IF j = k /\ d = c THEN n ELSE controllerCache[<<j, d>>]
  BY <1>2 DEF Instances, Names
<1>5. OneAtATime'
  BY <1>2, <1>3 DEF Calmly, OneAtATime
<1>6. StopperInv'
  BY <1>2, <1>3 DEF StopperInv
<1>7. InstanceInv'
  <2> SUFFICES ASSUME NEW j \in Kinds, NEW d \in Clusters, NEW m \in 1 .. MaxStarts
               PROVE  InstanceOK(j, d, m)'
    BY DEF InstanceInv
  <2>1. /\ m > starts[d] => instance[<<j, d, m>>] = "none"
        /\ instance[<<j, d, m>>] \in {"starting", "running"} =>
              m = starts[d] /\ <<j, d>> \notin missing
        /\ instance[<<j, d, m>>] = "starting" =>
              controllerCache[<<j, d>>] = 0 /\ remoteCluster[d] # NoSecret
        /\ instance[<<j, d, m>>] = "running" =>
              controllerCache[<<j, d>>] = m /\ remoteCluster[d] # NoSecret
    BY <1>3 DEF Calmly, InstanceInv, InstanceOK
  <2>2. UNCHANGED <<starts, missing, remoteCluster>>
    BY <1>2
  <2>3. CASE j = k /\ d = c /\ m = n
    BY <1>3, <1>4, <2>1, <2>2, <2>3 DEF InstanceOK
  <2>4. CASE j = k /\ d = c /\ m # n
    <3>1. instance'[<<j, d, m>>] \notin {"starting", "running"}
      BY <1>3, <1>4, <2>1, <2>4
    <3> QED  BY <1>4, <2>1, <2>2, <2>4, <3>1 DEF InstanceOK
  <2>5. CASE ~(j = k /\ d = c)
    BY <1>4, <2>1, <2>2, <2>5 DEF InstanceOK
  <2> QED  BY <2>3, <2>4, <2>5
<1>8. CacheInv'
  <2> SUFFICES ASSUME NEW j \in Kinds, NEW d \in Clusters
               PROVE  /\ controllerCache'[<<j, d>>] # 0 =>
                            instance'[<<j, d, controllerCache'[<<j, d>>]>>] = "running"
                      /\ remoteCluster[d] # NoSecret =>
                            \/ <<j, d>> \in missing
                            \/ /\ starts[d] # 0
                               /\ instance'[<<j, d, starts[d]>>] \in {"starting", "running"}
    BY <1>2 DEF CacheInv, CacheOK
  <2>1. controllerCache[<<j, d>>] \in 0 .. MaxStarts /\ starts[d] \in 0 .. MaxStarts
    BY DEF TypeOK, Names
  <2>2. /\ controllerCache[<<j, d>>] # 0 => controllerCache[<<j, d>>] \in 1 .. MaxStarts
        /\ starts[d] # 0 => starts[d] \in 1 .. MaxStarts
    BY <2>1, ClustersAreReal
  <2>3. /\ controllerCache[<<j, d>>] # 0 =>
              instance[<<j, d, controllerCache[<<j, d>>]>>] = "running"
        /\ remoteCluster[d] # NoSecret =>
              \/ <<j, d>> \in missing
              \/ starts[d] # 0 /\ instance[<<j, d, starts[d]>>] \in {"starting", "running"}
    BY DEF Calmly, CacheInv, CacheOK
  <2>4. CASE j = k /\ d = c
    BY <1>3, <1>4, <2>2, <2>3, <2>4
  <2>5. CASE ~(j = k /\ d = c)
    BY <1>4, <2>2, <2>3, <2>5
  <2> QED  BY <2>4, <2>5
<1> QED  BY <1>2, <1>5, <1>6, <1>7, <1>8 DEF Calmly

\* A controller that has stopped was not one that runs.
LEMMA WorkersDoneCalmly ==
    ASSUME TypeOK, Calmly, NEW i \in Instances, WorkersDone(i)
    PROVE  Calmly'
<1>1. /\ instance[i] = "stopping" /\ ~crashed
      /\ instance' = [instance EXCEPT ![i] = "stopped"]
      /\ UNCHANGED <<event, remoteCluster, starts, missing, controllerCache, stoppers, crashed>>
  BY DEF WorkersDone, handlerVars, secretVars, startVars
<1>2. \A j \in Instances : instance'[j] = instance[j] \/ (j = i /\ instance'[j] = "stopped")
  <2>1. instance \in [Instances -> {"none", "starting", "running", "stopping", "stopped"}]
    BY DEF TypeOK
  <2> QED  BY <1>1, <2>1
<1>3. OneAtATime'
  BY <1>1, <1>2 DEF Calmly, OneAtATime
<1>4. StopperInv'
  <2>1. \A g \in stoppers : g.instance \in Instances
    BY StopperParts
  <2>2. \A g \in stoppers : instance[g.instance] = "running" => instance'[g.instance] = "running"
    BY <1>1, <1>2, <2>1
  <2> QED  BY <1>1, <2>2 DEF Calmly, StopperInv
<1>5. InstanceInv'
  <2> SUFFICES ASSUME NEW k \in Kinds, NEW c \in Clusters, NEW n \in 1 .. MaxStarts
               PROVE  InstanceOK(k, c, n)'
    BY DEF InstanceInv
  <2>1. <<k, c, n>> \in Instances /\ InstanceOK(k, c, n)
    BY DEF Instances, Calmly, InstanceInv
  <2> QED  BY <1>1, <1>2, <2>1 DEF InstanceOK
<1>6. CacheInv'
  <2> SUFFICES ASSUME NEW k \in Kinds, NEW c \in Clusters
               PROVE  /\ controllerCache[<<k, c>>] # 0 =>
                            instance'[<<k, c, controllerCache[<<k, c>>]>>] = "running"
                      /\ remoteCluster[c] # NoSecret =>
                            \/ <<k, c>> \in missing
                            \/ /\ starts[c] # 0
                               /\ instance'[<<k, c, starts[c]>>] \in {"starting", "running"}
    BY <1>1 DEF CacheInv, CacheOK
  <2>1. /\ controllerCache[<<k, c>>] # 0 => <<k, c, controllerCache[<<k, c>>]>> \in Instances
        /\ starts[c] # 0 => <<k, c, starts[c]>> \in Instances
    BY ClustersAreReal DEF TypeOK, Names, Instances
  <2> QED  BY <1>1, <1>2, <2>1 DEF Calmly, CacheInv, CacheOK
<1> QED  BY <1>1, <1>3, <1>4, <1>5, <1>6 DEF Calmly

\* While a goroutine stops a controller nothing starts and no cluster is added.
LEMMA NothingStarts ==
    ASSUME Calmly, NEW g \in stoppers
    PROVE  /\ \A i \in Instances : instance[i] # "starting"
           /\ \A w \in Workers : event[w].op # "add"
  BY DEF Calmly, OneAtATime

\* Deregistering by name removes the instance that is stopped and no other.
LEMMA DeRegisterCalmly ==
    ASSUME TypeOK, Calmly, NEW g \in stoppers, DeRegister(g)
    PROVE  Calmly'
<1>1. /\ g.at = "deregister" /\ ~crashed
      /\ controllerCache' = [controllerCache EXCEPT ![NameOf(g.instance)] = 0]
      /\ UNCHANGED <<event, remoteCluster, starts, missing, instance, crashed>>
      /\ controllerCache \in [Names -> 0 .. MaxStarts]
  BY DEF DeRegister, handlerVars, secretVars, startVars, TypeOK
<1>2. PICK h \in stoppers' : /\ h.by = g.by /\ h.instance = g.instance /\ h.at = "close"
                             /\ stoppers' = (stoppers \ {g}) \cup {h}
  BY AdvanceStep DEF DeRegister
<1>3. /\ g.by = g.instance[2] /\ remoteCluster[g.by] = NoSecret
      /\ instance[g.instance] = "running"
      /\ controllerCache[NameOf(g.instance)] = g.instance[3]
      /\ \A f \in stoppers : f.instance = g.instance => f = g
      /\ \A w \in Workers : event[w].op = "delete" => g.by \notin event[w].todo
  BY <1>1 DEF Calmly, StopperInv
<1>4. /\ \A i \in Instances : instance[i] # "starting"
      /\ \A w \in Workers : event[w].op # "add"
  BY NothingStarts
<1>5. /\ g.instance \in Instances /\ NameOf(g.instance) \in Names
      /\ \A f \in stoppers : f.instance \in Instances /\ NameOf(f.instance) \in Names
  BY StopperParts, InstanceParts
<1>6. OneAtATime'
  BY <1>1, <1>4 DEF Calmly, OneAtATime
<1>7. StopperInv'
  <2> SUFFICES ASSUME NEW f \in stoppers'
               PROVE  /\ f.by = f.instance[2] /\ remoteCluster[f.by] = NoSecret
                      /\ f.at = "deregister" =>
                            /\ instance[f.instance] = "running"
                            /\ controllerCache'[NameOf(f.instance)] = f.instance[3]
                      /\ f.at = "close" => /\ instance[f.instance] = "running"
                                           /\ controllerCache'[NameOf(f.instance)] = 0
                      /\ \A e \in stoppers' : e.instance = f.instance => e = f
                      /\ \A w \in Workers : event[w].op = "delete" => f.by \notin event[w].todo
    BY <1>1 DEF StopperInv
  <2>1. CASE f = h
    BY <1>1, <1>2, <1>3, <1>5, <2>1
  <2>2. CASE f # h
    <3>1. f \in stoppers /\ f # g
      BY <1>2, <2>2
    <3>2. f.instance # g.instance
      BY <1>3, <3>1
    <3>3. /\ f.by = f.instance[2] /\ remoteCluster[f.by] = NoSecret
          /\ f.at = "deregister" => /\ instance[f.instance] = "running"
                                    /\ controllerCache[NameOf(f.instance)] = f.instance[3]
          /\ f.at = "close" => /\ instance[f.instance] = "running"
                               /\ controllerCache[NameOf(f.instance)] = 0
          /\ \A e \in stoppers : e.instance = f.instance => e = f
          /\ \A w \in Workers : event[w].op = "delete" => f.by \notin event[w].todo
      BY <3>1 DEF Calmly, StopperInv
    <3>4. f.at = "deregister" => NameOf(f.instance) # NameOf(g.instance)
      BY <1>3, <1>5, <3>1, <3>2, <3>3, SameParts
    <3>5. \A e \in stoppers' : e.instance = f.instance => e = f
      BY <1>2, <3>2, <3>3
    <3>6. \A m \in Names : controllerCache'[m] = IF m = NameOf(g.instance) THEN 0
                                                 ELSE controllerCache[m]
      BY <1>1
    <3> QED  BY <1>5, <3>1, <3>3, <3>4, <3>5, <3>6
  <2> QED  BY <2>1, <2>2
<1>8. PICK k \in Kinds, c \in Clusters, n \in 1 .. MaxStarts :
          g.instance = <<k, c, n>> /\ g.instance[3] = n /\ NameOf(g.instance) = <<k, c>>
  BY <1>5, InstanceParts
<1>9. \A j \in Kinds, d \in Clusters :
         /\ <<j, d>> \in Names
         /\ controllerCache'[<<j, d>>] = IF j = k /\ d = c THEN 0 ELSE controllerCache[<<j, d>>]
  BY <1>1, <1>8 DEF Names
<1>10. InstanceInv'
  <2> SUFFICES ASSUME NEW j \in Kinds, NEW d \in Clusters, NEW m \in 1 .. MaxStarts
               PROVE  InstanceOK(j, d, m)'
    BY DEF InstanceInv
  <2>1. InstanceOK(j, d, m) /\ instance[<<j, d, m>>] # "starting"
    BY <1>4 DEF Calmly, InstanceInv, Instances
  <2>2. instance[<<j, d, m>>] = "running" =>
           \/ controllerCache'[<<j, d>>] = m /\ remoteCluster[d] # NoSecret
           \/ \E f \in stoppers' : f.instance = <<j, d, m>> /\ f.at \in {"deregister", "close"}
    <3>1. CASE <<j, d, m>> = g.instance
      BY <1>2, <3>1
    <3>2. CASE <<j, d, m>> # g.instance
      <4>1. \A f \in stoppers : f.instance = <<j, d, m>> => f \in stoppers'
        BY <1>2, <3>2
      <4>2. controllerCache[<<j, d>>] = m => ~(j = k /\ d = c)
        BY <1>3, <1>8, <3>2
      <4> QED  BY <1>9, <2>1, <4>1, <4>2 DEF InstanceOK
    <3> QED  BY <3>1, <3>2
  <2> QED  BY <1>1, <2>1, <2>2 DEF InstanceOK
<1>11. CacheInv'
  BY <1>1, <1>9 DEF Calmly, CacheInv, CacheOK
<1> QED  BY <1>1, <1>6, <1>7, <1>10, <1>11 DEF Calmly

\* A StopCh that is closed is that of a controller that runs.
LEMMA CloseCalmly ==
    ASSUME TypeOK, Calmly, NEW g \in stoppers, CloseStopCh(g)
    PROVE  Calmly'
<1>1. /\ g.by = g.instance[2] /\ remoteCluster[g.by] = NoSecret
      /\ instance[g.instance] = "running" /\ controllerCache[NameOf(g.instance)] = 0
      /\ \A f \in stoppers : f.instance = g.instance => f = g
      /\ \A w \in Workers : event[w].op = "delete" => g.by \notin event[w].todo
  BY DEF CloseStopCh, Calmly, StopperInv
<1>2. /\ ~crashed /\ instance' = [instance EXCEPT ![g.instance] = "stopping"]
      /\ UNCHANGED <<event, remoteCluster, starts, missing, controllerCache, crashed>>
  BY <1>1 DEF CloseStopCh, handlerVars, secretVars, startVars
<1>3. PICK h \in stoppers' : /\ h.by = g.by /\ h.instance = g.instance /\ h.at = "wait"
                             /\ stoppers' = (stoppers \ {g}) \cup {h}
  BY AdvanceStep DEF CloseStopCh
<1>4. /\ \A i \in Instances : instance[i] # "starting"
      /\ \A w \in Workers : event[w].op # "add"
  BY NothingStarts
<1>5. g.instance \in Instances /\ \A f \in stoppers : f.instance \in Instances
  BY StopperParts
<1>6. /\ instance'[g.instance] = "stopping"
      /\ \A i \in Instances : i # g.instance => instance'[i] = instance[i]
  BY <1>2, <1>5 DEF TypeOK
<1>7. OneAtATime'
  BY <1>2, <1>4, <1>6 DEF Calmly, OneAtATime
<1>8. StopperInv'
  <2> SUFFICES ASSUME NEW f \in stoppers'
               PROVE  /\ f.by = f.instance[2] /\ remoteCluster[f.by] = NoSecret
                      /\ f.at = "deregister" =>
                            /\ instance'[f.instance] = "running"
                            /\ controllerCache[NameOf(f.instance)] = f.instance[3]
                      /\ f.at = "close" => /\ instance'[f.instance] = "running"
                                           /\ controllerCache[NameOf(f.instance)] = 0
                      /\ \A e \in stoppers' : e.instance = f.instance => e = f
                      /\ \A w \in Workers : event[w].op = "delete" => f.by \notin event[w].todo
    BY <1>2 DEF StopperInv
  <2>1. CASE f = h
    BY <1>1, <1>3, <2>1
  <2>2. CASE f # h
    <3>1. f \in stoppers /\ f # g /\ f.instance # g.instance
      BY <1>1, <1>3, <2>2
    <3>2. instance'[f.instance] = instance[f.instance]
      BY <1>5, <1>6, <3>1
    <3>3. /\ f.by = f.instance[2] /\ remoteCluster[f.by] = NoSecret
          /\ f.at = "deregister" => /\ instance[f.instance] = "running"
                                    /\ controllerCache[NameOf(f.instance)] = f.instance[3]
          /\ f.at = "close" => /\ instance[f.instance] = "running"
                               /\ controllerCache[NameOf(f.instance)] = 0
          /\ \A e \in stoppers : e.instance = f.instance => e = f
          /\ \A w \in Workers : event[w].op = "delete" => f.by \notin event[w].todo
      BY <3>1 DEF Calmly, StopperInv
    <3>4. \A e \in stoppers' : e.instance = f.instance => e = f
      BY <1>3, <3>1, <3>3
    <3> QED  BY <3>2, <3>3, <3>4
  <2> QED  BY <2>1, <2>2
<1>9. PICK k \in Kinds, c \in Clusters, n \in 1 .. MaxStarts :
          g.instance = <<k, c, n>> /\ g.instance[2] = c /\ NameOf(g.instance) = <<k, c>>
  BY <1>5, InstanceParts
<1>10. \A j \in Kinds, d \in Clusters, m \in 1 .. MaxStarts :
          instance'[<<j, d, m>>] = IF j = k /\ d = c /\ m = n THEN "stopping"
                                   ELSE instance[<<j, d, m>>]
  BY <1>6, <1>9 DEF Instances
<1>11. InstanceInv'
  <2> SUFFICES ASSUME NEW j \in Kinds, NEW d \in Clusters, NEW m \in 1 .. MaxStarts
               PROVE  InstanceOK(j, d, m)'
    BY DEF InstanceInv
  <2>1. InstanceOK(j, d, m)
    BY DEF Calmly, InstanceInv
  <2>2. CASE <<j, d, m>> = g.instance
    BY <1>1, <1>2, <1>6, <2>1, <2>2 DEF InstanceOK
  <2>3. CASE <<j, d, m>> # g.instance
    <3>1. instance'[<<j, d, m>>] = instance[<<j, d, m>>]
      BY <1>9, <1>10, <2>3
    <3>2. \A f \in stoppers : f.instance = <<j, d, m>> => f \in stoppers'
      BY <1>3, <2>3
    <3> QED  BY <1>2, <2>1, <3>1, <3>2 DEF InstanceOK
  <2> QED  BY <2>2, <2>3
<1>12. CacheInv'
  <2> SUFFICES ASSUME NEW j \in Kinds, NEW d \in Clusters
               PROVE  CacheOK(j, d)'
    BY DEF CacheInv
  <2>1. /\ controllerCache[<<j, d>>] # 0 => controllerCache[<<j, d>>] \in 1 .. MaxStarts
        /\ starts[d] # 0 => starts[d] \in 1 .. MaxStarts
    BY ClustersAreReal DEF TypeOK, Names
  <2>2. /\ controllerCache[<<k, c>>] = 0 /\ remoteCluster[c] = NoSecret
    BY <1>1, <1>9
  <2>3. CacheOK(j, d)
    BY DEF Calmly, CacheInv, CacheOK
  <2>4. UNCHANGED <<remoteCluster, starts, missing, controllerCache>>
    BY <1>2
  <2> QED  BY <1>10, <2>1, <2>2, <2>3, <2>4 DEF CacheOK
<1> QED  BY <1>2, <1>7, <1>8, <1>11, <1>12 DEF Calmly

\* The goroutine that has waited finds the cluster gone already.
LEMMA DeleteCalmly ==
    ASSUME TypeOK, Calmly, NEW g \in stoppers, DeleteCluster(g)
    PROVE  Calmly'
<1>1. /\ g.at = "wait" /\ ~crashed /\ stoppers' = stoppers \ {g}
      /\ remoteCluster' = [remoteCluster EXCEPT ![g.by] = NoSecret]
      /\ UNCHANGED <<event, starts, missing, instance, controllerCache, crashed>>
  BY DEF DeleteCluster, handlerVars, secretVars, startVars
<1>2. UNCHANGED remoteCluster
  BY <1>1 DEF Calmly, StopperInv, TypeOK
<1>3. OneAtATime'
  BY <1>1, <1>2 DEF Calmly, OneAtATime
<1>4. StopperInv'
  BY <1>1, <1>2 DEF Calmly, StopperInv
<1>5. InstanceInv'
  <2> SUFFICES ASSUME NEW k \in Kinds, NEW c \in Clusters, NEW n \in 1 .. MaxStarts
               PROVE  InstanceOK(k, c, n)'
    BY DEF InstanceInv
  <2>1. InstanceOK(k, c, n)
    BY DEF Calmly, InstanceInv
  <2>2. \A f \in stoppers : f.at \in {"deregister", "close"} => f \in stoppers'
    BY <1>1
  <2> QED  BY <1>1, <1>2, <2>1, <2>2 DEF InstanceOK
<1>6. CacheInv'
  BY <1>1, <1>2 DEF Calmly, CacheInv, CacheOK
<1> QED  BY <1>1, <1>3, <1>4, <1>5, <1>6 DEF Calmly

-----------------------------------------------------------------------------
(* The invariant.                                                           *)

\* The calm part of the invariant is kept by every step that keeps it calm.
LEMMA CalmStep ==
    ASSUME TypeOK, EventInv, CalmInv, [Next]_vars
    PROVE  CalmInv'
<1> SUFFICES ASSUME OwnNames, calm'  PROVE Calmly'
  BY DEF CalmInv, Calmly, OwnNames
<1>1. ASSUME calm  PROVE Calmly
  BY <1>1 DEF CalmInv, Calmly
<1>0. ASSUME Calmly, UNCHANGED <<event, remoteCluster, startVars, instance, controllerCache,
                                 stoppers, crashed>>
      PROVE  Calmly'
  <2>1. Calmly /\ UNCHANGED <<event, remoteCluster, starts, missing, instance,
                              controllerCache, stoppers, crashed>>
    BY <1>0 DEF startVars
  <2>2. OneAtATime' /\ StopperInv'
    BY <2>1 DEF Calmly, OneAtATime, StopperInv
  <2>3. InstanceInv'
    BY <2>1 DEF Calmly, InstanceInv, InstanceOK
  <2>4. CacheInv'
    BY <2>1 DEF Calmly, CacheInv, CacheOK
  <2> QED  BY <2>1, <2>2, <2>3, <2>4 DEF Calmly
<1>2. ASSUME NEW w \in Workers, NEW s \in Secrets, SecretEvent(w, s)
      PROVE  Calmly'
  <2>1. CASE \E op \in {"add", "delete"} : Handle(w, op, s)
    <3>1. Calmly
      BY <1>1, <2>1 DEF Handle
    <3> QED  BY <2>1, <3>1, HandleCalmly
  <2>2. CASE UNCHANGED <<event, calm>>
    BY <1>1, <1>2, <1>0, <2>2, SecretEventStep
  <2> QED  BY <1>2, <2>1, <2>2, SecretEventStep
<1>3. ASSUME NEW w \in Workers, Handler(w)
      PROVE  Calmly'
  <2>1. PICK c \in Clusters :
            SkipCached(w, c) \/ Resolve(w, c) \/ ResolveFails(w, c) \/ StopCluster(w, c)
    BY <1>3 DEF Handler
  <2>2. Calmly
    BY <1>1, <2>1 DEF SkipCached, Resolve, ResolveFails, StopCluster
  <2> QED  BY <2>1, <2>2, SkipCalmly, ResolveCalmly, StopCalmly
<1>4. ASSUME NEW w \in Workers, NEW c \in Clusters, StartCluster(w, c)
      PROVE  Calmly'
  <2>1. Calmly
    BY <1>1, <1>4 DEF StartCluster
  <2> QED  BY <1>4, <2>1, StartCalmly
<1>5. ASSUME NEW i \in Instances, Controller(i)
      PROVE  Calmly'
  <2>1. Calmly
    BY <1>1, <1>5 DEF Controller, Register, WorkersDone, handlerVars, secretVars
  <2> QED  BY <1>5, <2>1, RegisterCalmly, WorkersDoneCalmly DEF Controller
<1>6. ASSUME NEW g \in stoppers, Stopper(g)
      PROVE  Calmly'
  <2>1. Calmly
    BY <1>1, <1>6 DEF Stopper, DeRegister, CloseStopCh, DeleteCluster, handlerVars, secretVars
  <2> QED  BY <1>6, <2>1, DeRegisterCalmly, CloseCalmly, DeleteCalmly DEF Stopper
<1>7. CASE UNCHANGED vars
  BY <1>1, <1>7, <1>0 DEF vars, handlerVars
<1> QED  BY <1>2, <1>3, <1>4, <1>5, <1>6, <1>7 DEF Next

\* The invariant holds at the start.
LEMMA InitIInv == Init => IInv
<1> SUFFICES ASSUME Init  PROVE IInv
  OBVIOUS
<1> USE DEF Init
<1>1. MaxStarts \in Nat /\ Idle \in Jobs
  BY ClustersAreReal, IdleJob
<1>2. TypeOK
  <2>1. event \in [Workers -> Jobs] /\ remoteCluster \in [Clusters -> Secrets \cup {NoSecret}]
    BY <1>1
  <2>2. starts \in [Clusters -> 0 .. MaxStarts] /\ controllerCache \in [Names -> 0 .. MaxStarts]
    BY <1>1
  <2>3. instance \in [Instances -> {"none", "starting", "running", "stopping", "stopped"}]
    OBVIOUS
  <2> QED  BY <2>1, <2>2, <2>3 DEF TypeOK
<1>3. EventInv
  BY IdleJob DEF EventInv
<1>4. OneAtATime /\ StopperInv
  BY IdleJob DEF OneAtATime, StopperInv
<1>5. InstanceInv
  BY DEF InstanceInv, InstanceOK, Instances
<1>6. CacheInv
  BY DEF CacheInv, CacheOK, Names
<1>7. OwnerInv
  BY IdleJob DEF OwnerInv, OwnerIsPresent
<1> QED  BY <1>2, <1>3, <1>4, <1>5, <1>6, <1>7 DEF IInv, CalmInv

\* The invariant is kept by every step.
LEMMA NextIInv == IInv /\ [Next]_vars => IInv'
<1> SUFFICES ASSUME IInv, [Next]_vars  PROVE IInv'
  OBVIOUS
<1>1. TypeOK' /\ EventInv' /\ CalmInv'
  BY TypeStep, EventStep, CalmStep DEF IInv
<1>2. \A c \in Clusters : remoteCluster'[c] # NoSecret => c \in Data[remoteCluster'[c]]
  BY OwnDataStep DEF IInv, OwnerInv
<1>3. OneWorker => /\ OwnerIsPresent'
                   /\ \A w \in Workers : event'[w].op = "add" => event'[w].secret \in present'
  BY OwnerStep DEF IInv
<1>4. OwnerInv'
  BY <1>2, <1>3 DEF OwnerInv, OneWorker
<1> QED  BY <1>1, <1>4 DEF IInv

\* The invariant holds throughout.
THEOREM Invariance == Spec => []IInv
<1>1. Init => IInv
  BY InitIInv
<1>2. IInv /\ [Next]_vars => IInv'
  BY NextIInv
<1> QED  BY <1>1, <1>2, PTL DEF Spec

\* When IDs occur in no other cluster's names and secrets changed calmly, at rest
\* a controller runs, registered, for each kind of a cached cluster that could be
\* built, and none for any other.
THEOREM RunningControllersAreThoseOfCachedClusters == OwnNames => (Spec => []RunningIffCached)
<1>1. ASSUME OwnNames, IInv  PROVE RunningIffCached
  <2> SUFFICES ASSUME calm, Quiet, NEW k \in Kinds, NEW c \in Clusters
               PROVE  LET running == {n \in 1 .. MaxStarts : instance[<<k, c, n>>] = "running"}
                          registered == {controllerCache[<<k, c>>]} \ {0}
                      IN  /\ running = registered
                          /\ running # {} <=> remoteCluster[c] # NoSecret /\ <<k, c>> \notin missing
    BY DEF RunningIffCached
  <2> DEFINE running == {n \in 1 .. MaxStarts : instance[<<k, c, n>>] = "running"}
  <2> DEFINE cc == controllerCache[<<k, c>>]
  <2>1. InstanceInv /\ CacheOK(k, c) /\ stoppers = {}
    BY <1>1 DEF IInv, CalmInv, CacheInv, Quiet
  <2>2. cc \in 0 .. MaxStarts /\ starts[c] \in 0 .. MaxStarts /\ MaxStarts \in Nat
    BY <1>1, ClustersAreReal DEF IInv, TypeOK, Names
  <2>3. \A n \in 1 .. MaxStarts :
           instance[<<k, c, n>>] = "running" =>
              cc = n /\ remoteCluster[c] # NoSecret /\ <<k, c>> \notin missing
    BY <2>1 DEF InstanceInv, InstanceOK
  <2>4. cc # 0 => cc \in 1 .. MaxStarts /\ instance[<<k, c, cc>>] = "running"
    BY <2>1, <2>2 DEF CacheOK
  <2>5. ASSUME remoteCluster[c] # NoSecret, <<k, c>> \notin missing
        PROVE  starts[c] \in 1 .. MaxStarts /\ instance[<<k, c, starts[c]>>] = "running"
    <3>1. starts[c] \in 1 .. MaxStarts /\ instance[<<k, c, starts[c]>>] \in {"starting", "running"}
      BY <2>1, <2>2, <2>5 DEF CacheOK
    <3>2. <<k, c, starts[c]>> \in Instances
      BY <3>1 DEF Instances
    <3> QED  BY <3>1, <3>2 DEF Quiet
  <2>6. \A n \in running : n = cc /\ cc # 0
    BY <2>2, <2>3
  <2>7. cc # 0 => cc \in running
    BY <2>4
  <2>8. running # {} <=> remoteCluster[c] # NoSecret /\ <<k, c>> \notin missing
    BY <2>3, <2>5
  <2> HIDE DEF running, cc
  <2>9. running = {cc} \ {0}
    BY <2>6, <2>7
  <2> QED  BY <2>8, <2>9 DEF running, cc
<1>2. ASSUME OwnNames  PROVE Spec => []RunningIffCached
  <2>1. IInv => RunningIffCached
    BY <1>1, <1>2
  <2> QED  BY <2>1, Invariance, PTL
<1> QED  BY <1>2

\* When IDs occur in no other cluster's names and secrets change calmly, no StopCh
\* is closed twice.
THEOREM NoStopChIsClosedTwice == OwnNames => (Spec => []StopChClosedOnce)
<1>1. ASSUME OwnNames  PROVE Spec => []StopChClosedOnce
  <2>1. IInv => StopChClosedOnce
    BY <1>1 DEF IInv, CalmInv, StopChClosedOnce
  <2> QED  BY <2>1, Invariance, PTL
<1> QED  BY <1>1

\* With one worker a cached cluster's secret is there or being deleted, unless its
\* deletion was a tombstone, however quickly secrets change and whatever the
\* goroutines do.
THEOREM CachedClustersHaveTheirSecret == OneWorker => (Spec => []OwnerIsPresent)
<1>1. ASSUME OneWorker  PROVE Spec => []OwnerIsPresent
  <2>1. IInv => OwnerIsPresent
    BY <1>1 DEF IInv, OwnerInv
  <2> QED  BY <2>1, Invariance, PTL
<1> QED  BY <1>1


=============================================================================
