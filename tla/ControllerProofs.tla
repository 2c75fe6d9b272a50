--------------------------- MODULE ControllerProofs ---------------------------
EXTENDS Controller, TLAPS

-----------------------------------------------------------------------------
(* The inductive invariant.                                                 *)

\* The queue holds dirty items only, none twice and none that is processed.
QueueInv ==
    /\ \A i \in 1 .. Len(queue) : queue[i] \in dirty /\ queue[i] \notin processing
    /\ \A i, j \in 1 .. Len(queue) : queue[i] = queue[j] => i = j

\* An item is in processing exactly while its status goroutine is alive.
RangingInv == ranging = processing

\* A worker in a run owns its event: no other worker runs it.
OwnerInv ==
    \A w \in Workers :
        /\ pc[w] \in {"handle", "close", "return"} => item[w] \in Events
        /\ pc[w] \in InRun =>
              /\ item[w] \in ranging
              /\ ~closed[item[w]]
              /\ \A v \in Workers \ {w} : pc[v] \in InRun => item[v] # item[w]

\* A retry is asked for with the run's final status.
HasRetry(e) == \E i \in 1 .. Len(statusChan[e]) : statusChan[e][i] = "Retry"

ChanInv ==
    \A e \in Events :
        /\ e \notin ranging => statusChan[e] = <<>>
        /\ \A i \in 1 .. Len(statusChan[e]) :
              statusChan[e][i] = "Retry" => i = Len(statusChan[e])
        /\ \A w \in Workers : pc[w] = "handle" /\ item[w] = e => ~HasRetry(e)

\* Each run follows the previous one's granted retry.
RetryInv ==
    \A e \in Events :
        /\ retryCount[e] <= runs[e] /\ runs[e] <= retryCount[e] + 1
        /\ e \in dirty \cup delayed => runs[e] = retryCount[e]
        /\ e \in dirty => e \notin delayed
        /\ HasRetry(e) => runs[e] = retryCount[e] + 1
        /\ \A w \in Workers :
              pc[w] = "handle" /\ item[w] = e => runs[e] = retryCount[e] + 1
        /\ e \in gaveUp => runs[e] = MaxRetry + 1

Leaving == {"quit", "wait", "woken", "done"}

\* A worker leaves its loop only after ShutDown, and then drain stays set.
DrainInv ==
    \A w \in Workers :
        /\ pc[w] \in Leaving => shuttingDown
        /\ pc[w] \in {"wait", "woken"} => drain

\* Somebody is left to wait for the items in processing.
LastWorkerInv ==
    processing # {} => \E w \in Workers : pc[w] \notin {"sync", "failed", "done"}

\* Only arrived events are scheduled, and one that was never run is queued.
BacklogInv ==
    /\ dirty \cup delayed \cup processing \subseteq ArrivedEvents
    /\ \A e \in Events \ ArrivedEvents : runs[e] = 0
    /\ \A e \in ArrivedEvents :
          runs[e] = 0 => \E i \in 1 .. Len(queue) : queue[i] = e
    /\ BacklogHandled

IInv ==
    /\ TypeOK
    /\ QueueInv
    /\ RangingInv
    /\ OwnerInv
    /\ ChanInv
    /\ RetryInv
    /\ DrainInv
    /\ LastWorkerInv
    /\ BacklogInv

-----------------------------------------------------------------------------
(* Facts about the operators the actions are built from.                    *)

\* The invariant holds initially.
LEMMA InitIInv == Init => IInv
<1> SUFFICES ASSUME Init PROVE IInv
  OBVIOUS
<1>1. TypeOK
  <2>1. arrived \in Seq(Events) /\ queue \in Seq(Events)
    BY DEF Init
  <2>2. statusChan \in [Events -> Seq(Status)]
    BY DEF Init
  <2>3. runs \in [Events -> 0 .. (MaxRetry + 1)] /\ retryCount \in [Events -> 0 .. MaxRetry]
    BY ConstantsAssumption DEF Init
  <2>4. /\ childChan \in [Events -> [Runs -> {"none", "open", "closed"}]]
        /\ childStatus \in [Events -> [Runs -> {"none", "ranging", "received", "done"}]]
    BY DEF Init
  <2>5. QED
    BY <2>1, <2>2, <2>3, <2>4 DEF Init, TypeOK, PC
<1>2. QueueInv /\ RangingInv /\ OwnerInv /\ DrainInv /\ LastWorkerInv
  BY DEF Init, QueueInv, RangingInv, OwnerInv, DrainInv, LastWorkerInv, InRun, Leaving
<1>3. ChanInv /\ RetryInv
  BY DEF Init, ChanInv, RetryInv, HasRetry
<1>4. BacklogInv
  BY DEF Init, BacklogInv, BacklogHandled, ArrivedEvents
<1>5. QED
  BY <1>1, <1>2, <1>3, <1>4 DEF IInv

\* Appending keeps what is in the queue, in its place, and adds the item.
LEMMA AppendFacts ==
  ASSUME NEW S, NEW s \in Seq(S), NEW x \in S
  PROVE  /\ Append(s, x) \in Seq(S)
         /\ Len(s) \in Nat /\ Len(Append(s, x)) = Len(s) + 1
         /\ \A i \in 1 .. Len(s) : Append(s, x)[i] = s[i]
         /\ Append(s, x)[Len(s) + 1] = x
  OBVIOUS

\* What Add does to the queue and to its dirty set.
LEMMA AddEffect ==
  ASSUME TypeOK, QueueInv, NEW e \in Events, Add(e), processing' = processing
  PROVE  /\ queue' \in Seq(Events) /\ dirty' \subseteq Events
         /\ QueueInv'
         /\ dirty' = IF shuttingDown THEN dirty ELSE dirty \cup {e}
         /\ ~shuttingDown /\ e \notin dirty \cup processing
               => \E i \in 1 .. Len(queue') : queue'[i] = e
         /\ \A f \in Events : (\E i \in 1 .. Len(queue) : queue[i] = f)
               => \E i \in 1 .. Len(queue') : queue'[i] = f
<1> queue \in Seq(Events) /\ dirty \subseteq Events
  BY DEF TypeOK
<1>1. CASE shuttingDown \/ e \in dirty
  BY <1>1 DEF Add, QueueInv
<1>2. CASE ~shuttingDown /\ e \notin dirty /\ e \in processing
  BY <1>2 DEF Add, QueueInv
<1>3. CASE ~shuttingDown /\ e \notin dirty /\ e \notin processing
  <2>1. queue' = Append(queue, e) /\ dirty' = dirty \cup {e}
    BY <1>3 DEF Add
  <2>2. QueueInv'
    BY <1>3, <2>1, AppendFacts DEF QueueInv
  <2>3. QED
    BY <1>3, <2>1, <2>2, AppendFacts
<1>4. QED
  BY <1>1, <1>2, <1>3

\* The only workers a Signal moves are waiters.
OnlyWakes ==
    /\ pc' \in [Workers -> PC]
    /\ \A w \in Workers : pc'[w] = pc[w] \/ (pc[w] = "wait" /\ pc'[w] = "woken")

\* Signal wakes at most one waiter and moves no other worker.
LEMMA SignalEffect ==
  ASSUME TypeOK, Signal \/ UNCHANGED pc
  PROVE  OnlyWakes
  BY DEF TypeOK, Signal, Waiting, PC, OnlyWakes

\* Done puts a dirty item back.
LEMMA DoneEffect ==
  ASSUME TypeOK, QueueInv, NEW e \in processing, Done(e)
  PROVE  /\ queue' \in Seq(Events) /\ QueueInv' /\ dirty' = dirty
         /\ processing' = processing \ {e} /\ OnlyWakes
         /\ \A f \in Events : (\E i \in 1 .. Len(queue) : queue[i] = f)
               => \E i \in 1 .. Len(queue') : queue'[i] = f
<1> queue \in Seq(Events) /\ e \in Events
  BY DEF TypeOK
<1>1. processing' = processing \ {e} /\ dirty' = dirty /\ OnlyWakes
  BY SignalEffect DEF Done
<1>2. CASE e \notin dirty
  BY <1>1, <1>2 DEF Done, QueueInv
<1>3. CASE e \in dirty
  <2>1. queue' = Append(queue, e)
    BY <1>3 DEF Done
  <2>2. QueueInv'
    BY <1>1, <1>3, <2>1, AppendFacts DEF QueueInv
  <2>3. QED
    BY <1>1, <2>1, <2>2, AppendFacts
<1>4. QED
  BY <1>2, <1>3

\* What a send and a receive do to the status channels.
LEMMA EmitEffect ==
  ASSUME TypeOK, NEW e \in Events, NEW s \in Status, Emit(e, s)
  PROVE  /\ statusChan' \in [Events -> Seq(Status)]
         /\ \A f \in Events \ {e} : statusChan'[f] = statusChan[f]
         /\ Len(statusChan[e]) \in Nat /\ Len(statusChan'[e]) = Len(statusChan[e]) + 1
         /\ \A i \in 1 .. Len(statusChan[e]) : statusChan'[e][i] = statusChan[e][i]
         /\ statusChan'[e][Len(statusChan[e]) + 1] = s
<1>1. statusChan[e] \in Seq(Status) /\ statusChan'[e] = Append(statusChan[e], s)
  BY DEF TypeOK, Emit
<1>2. Append(statusChan[e], s) \in Seq(Status)
  BY <1>1, AppendFacts
<1>3. statusChan' \in [Events -> Seq(Status)]
  BY <1>1, <1>2 DEF TypeOK, Emit
<1>4. \A f \in Events \ {e} : statusChan'[f] = statusChan[f]
  BY DEF TypeOK, Emit
<1>5. QED
  BY <1>1, <1>3, <1>4, AppendFacts

\* Receiving takes the oldest status out of one channel.
LEMMA ReceiveEffect ==
  ASSUME TypeOK, NEW e \in Events, NEW s \in Status, Receive(e, s)
  PROVE  /\ statusChan' \in [Events -> Seq(Status)]
         /\ \A f \in Events \ {e} : statusChan'[f] = statusChan[f]
         /\ Len(statusChan[e]) \in Nat \ {0}
         /\ Len(statusChan'[e]) = Len(statusChan[e]) - 1
         /\ statusChan[e][1] = s
         /\ \A i \in 1 .. Len(statusChan'[e]) : statusChan'[e][i] = statusChan[e][i + 1]
<1>1. /\ statusChan[e] \in Seq(Status) /\ statusChan[e] # <<>>
      /\ statusChan'[e] = Tail(statusChan[e]) /\ statusChan[e][1] = s
  BY DEF TypeOK, Receive
<1>2. /\ Tail(statusChan[e]) \in Seq(Status)
      /\ Len(statusChan[e]) \in Nat \ {0}
      /\ Len(Tail(statusChan[e])) = Len(statusChan[e]) - 1
      /\ \A i \in 1 .. Len(Tail(statusChan[e])) :
             Tail(statusChan[e])[i] = statusChan[e][i + 1]
  BY <1>1
<1>3. statusChan' \in [Events -> Seq(Status)]
  BY <1>1, <1>2 DEF TypeOK, Receive
<1>4. \A f \in Events \ {e} : statusChan'[f] = statusChan[f]
  BY DEF TypeOK, Receive
<1>5. QED
  BY <1>1, <1>2, <1>3, <1>4

\* Receiving keeps the channel part of the invariant, and what is left of a
\* channel whose retry was just received asks for no other.
LEMMA ReceiveKeeps ==
  ASSUME IInv, NEW e \in Events, NEW s \in Status, Receive(e, s),
         UNCHANGED <<ranging, pc, item>>
  PROVE  /\ ChanInv'
         /\ \A f \in Events : HasRetry(f)' => HasRetry(f)
         /\ s = "Retry" => HasRetry(e) /\ ~HasRetry(e)'
<1>1. TypeOK /\ ChanInv
  BY DEF IInv
<1>2. \A f \in Events : HasRetry(f)' => HasRetry(f)
  <2> SUFFICES ASSUME NEW f \in Events, HasRetry(f)' PROVE HasRetry(f)
    OBVIOUS
  <2>1. CASE f # e
    BY <1>1, <2>1, ReceiveEffect DEF HasRetry
  <2>2. CASE f = e
    <3>1. PICK i \in 1 .. Len(statusChan'[e]) : statusChan'[e][i] = "Retry"
      BY <2>2 DEF HasRetry
    <3>2. i + 1 \in 1 .. Len(statusChan[e]) /\ statusChan[e][i + 1] = "Retry"
      BY <1>1, <3>1, ReceiveEffect
    <3>3. QED
      BY <2>2, <3>2 DEF HasRetry
  <2>3. QED
    BY <2>1, <2>2
<1>3. s = "Retry" => HasRetry(e) /\ ~HasRetry(e)'
  <2> SUFFICES ASSUME s = "Retry" PROVE HasRetry(e) /\ Len(statusChan[e]) = 1
    BY <1>1, ReceiveEffect DEF HasRetry
  <2>1. 1 \in 1 .. Len(statusChan[e]) /\ statusChan[e][1] = "Retry"
    BY <1>1, ReceiveEffect
  <2>2. QED
    BY <1>1, <2>1 DEF ChanInv, HasRetry
<1>4. ChanInv'
  <2> SUFFICES ASSUME NEW f \in Events
               PROVE  /\ f \notin ranging' => statusChan'[f] = <<>>
                      /\ \A i \in 1 .. Len(statusChan'[f]) :
                            statusChan'[f][i] = "Retry" => i = Len(statusChan'[f])
                      /\ \A w \in Workers :
                            pc'[w] = "handle" /\ item'[w] = f => ~HasRetry(f)'
    BY DEF ChanInv
  <2>1. \A w \in Workers : pc'[w] = "handle" /\ item'[w] = f => ~HasRetry(f)'
    BY <1>1, <1>2 DEF ChanInv
  <2>2. CASE f # e
    BY <1>1, <2>1, <2>2, ReceiveEffect DEF ChanInv
  <2>3. CASE f = e
    <3>1. e \in ranging'
      BY DEF Receive
    <3>2. ASSUME NEW i \in 1 .. Len(statusChan'[e]), statusChan'[e][i] = "Retry"
          PROVE  i = Len(statusChan'[e])
      <4>1. i + 1 \in 1 .. Len(statusChan[e]) /\ statusChan[e][i + 1] = "Retry"
        BY <1>1, <3>2, ReceiveEffect
      <4>2. QED
        BY <1>1, <4>1, ReceiveEffect DEF ChanInv
    <3>3. QED
      BY <2>1, <2>3, <3>1, <3>2
  <2>4. QED
    BY <2>2, <2>3
<1>5. QED
  BY <1>2, <1>3, <1>4

\* Only the send of a retry makes a channel ask for one.
LEMMA EmitKeeps ==
  ASSUME IInv, NEW e \in Events, NEW s \in Status, Emit(e, s), ~HasRetry(e)
  PROVE  /\ \A f \in Events : HasRetry(f)' => HasRetry(f) \/ (f = e /\ s = "Retry")
         /\ \A f \in Events : \A i \in 1 .. Len(statusChan'[f]) :
               statusChan'[f][i] = "Retry" => i = Len(statusChan'[f])
         /\ \A f \in Events \ ranging : f # e => statusChan'[f] = <<>>
<1>1. TypeOK /\ ChanInv
  BY DEF IInv
<1>2. \A f \in Events : HasRetry(f)' => HasRetry(f) \/ (f = e /\ s = "Retry")
  <2> SUFFICES ASSUME NEW f \in Events, HasRetry(f)' 
               PROVE  HasRetry(f) \/ (f = e /\ s = "Retry")
    OBVIOUS
  <2>1. CASE f # e
    BY <1>1, <2>1, EmitEffect DEF HasRetry
  <2>2. CASE f = e
    BY <1>1, <2>2, EmitEffect DEF HasRetry
  <2>3. QED
    BY <2>1, <2>2
<1>3. \A f \in Events : \A i \in 1 .. Len(statusChan'[f]) :
         statusChan'[f][i] = "Retry" => i = Len(statusChan'[f])
  <2> SUFFICES ASSUME NEW f \in Events, NEW i \in 1 .. Len(statusChan'[f]),
                      statusChan'[f][i] = "Retry"
               PROVE  i = Len(statusChan'[f])
    OBVIOUS
  <2>1. CASE f # e
    BY <1>1, <2>1, EmitEffect DEF ChanInv
  <2>2. CASE f = e
    BY <1>1, <2>2, EmitEffect DEF HasRetry
  <2>3. QED
    BY <2>1, <2>2
<1>4. \A f \in Events \ ranging : f # e => statusChan'[f] = <<>>
  BY <1>1, EmitEffect DEF ChanInv
<1>5. QED
  BY <1>2, <1>3, <1>4

\* Each part of the invariant depends on these variables only.
LEMMA Frame ==
  ASSUME IInv
  PROVE  /\ UNCHANGED <<queue, dirty, processing>> => QueueInv'
         /\ UNCHANGED <<ranging, processing>> => RangingInv'
         /\ UNCHANGED <<pc, item, ranging, closed>> => OwnerInv'
         /\ UNCHANGED <<statusChan, ranging, pc, item>> => ChanInv'
         /\ UNCHANGED <<runs, retryCount, dirty, delayed, statusChan, pc, item, gaveUp>>
               => RetryInv'
         /\ UNCHANGED <<pc, shuttingDown, drain>> => DrainInv'
         /\ UNCHANGED <<processing, pc>> => LastWorkerInv'
         /\ UNCHANGED <<dirty, delayed, processing, arrived, runs, queue, pc>>
               => BacklogInv'
<1>1. UNCHANGED <<queue, dirty, processing>> => QueueInv'
  BY DEF IInv, QueueInv
<1>2. UNCHANGED <<ranging, processing>> => RangingInv'
  BY DEF IInv, RangingInv
<1>3. UNCHANGED <<pc, item, ranging, closed>> => OwnerInv'
  BY DEF IInv, OwnerInv, InRun
<1>4. UNCHANGED <<statusChan, ranging, pc, item>> => ChanInv'
  BY DEF IInv, ChanInv, HasRetry
<1>5. UNCHANGED <<runs, retryCount, dirty, delayed, statusChan, pc, item, gaveUp>>
         => RetryInv'
  BY DEF IInv, RetryInv, HasRetry
<1>6. UNCHANGED <<pc, shuttingDown, drain>> => DrainInv'
  BY DEF IInv, DrainInv, Leaving
<1>7. UNCHANGED <<processing, pc>> => LastWorkerInv'
  BY DEF IInv, LastWorkerInv
<1>8. UNCHANGED <<dirty, delayed, processing, arrived, runs, queue, pc>> => BacklogInv'
  BY DEF IInv, BacklogInv, BacklogHandled, ArrivedEvents
<1>9. QED
  BY <1>1, <1>2, <1>3, <1>4, <1>5, <1>6, <1>7, <1>8

\* Waking waiters disturbs none of the parts that speak of workers.
LEMMA WakeKeeps ==
  ASSUME IInv, OnlyWakes
  PROVE  /\ UNCHANGED <<item, ranging, closed>> => OwnerInv'
         /\ UNCHANGED <<statusChan, ranging, item>> => ChanInv'
         /\ UNCHANGED <<runs, retryCount, dirty, delayed, statusChan, item, gaveUp>>
               => RetryInv'
         /\ UNCHANGED <<shuttingDown, drain>> => DrainInv'
         /\ processing' \subseteq processing => LastWorkerInv'
         /\ (\E w \in Workers : pc'[w] \in Leaving) => \E w \in Workers : pc[w] \in Leaving
<1>1. UNCHANGED <<item, ranging, closed>> => OwnerInv'
  BY DEF IInv, OwnerInv, InRun, OnlyWakes
<1>2. UNCHANGED <<statusChan, ranging, item>> => ChanInv'
  BY DEF IInv, ChanInv, HasRetry, OnlyWakes
<1>3. UNCHANGED <<runs, retryCount, dirty, delayed, statusChan, item, gaveUp>> => RetryInv'
  BY DEF IInv, RetryInv, HasRetry, OnlyWakes
<1>4. UNCHANGED <<shuttingDown, drain>> => DrainInv'
  BY DEF IInv, DrainInv, Leaving, OnlyWakes
<1>5. processing' \subseteq processing => LastWorkerInv'
  BY DEF IInv, LastWorkerInv, OnlyWakes
<1>6. (\E w \in Workers : pc'[w] \in Leaving) => \E w \in Workers : pc[w] \in Leaving
  BY DEF OnlyWakes, Leaving
<1>7. QED
  BY <1>1, <1>2, <1>3, <1>4, <1>5, <1>6

-----------------------------------------------------------------------------
(* One lemma per action: it preserves the invariant.                        *)

\* InformerSync preserves the invariant.
LEMMA InformerSyncStep ==
  ASSUME IInv, InformerSync
  PROVE  IInv'
<1>1. TypeOK'
  BY DEF IInv, InformerSync, queueVars, workerVars, chanVars, eventVars, childVars,
     TypeOK
<1>2. QueueInv' /\ RangingInv' /\ OwnerInv' /\ ChanInv' /\ RetryInv' /\ DrainInv' /\
   LastWorkerInv' /\ BacklogInv'
  BY Frame DEF InformerSync, queueVars, workerVars, chanVars, eventVars, childVars
<1>3. QED
  BY <1>1, <1>2 DEF IInv

\* Stop preserves the invariant.
LEMMA StopStep ==
  ASSUME IInv, Stop
  PROVE  IInv'
<1>1. TypeOK'
  BY DEF IInv, Stop, queueVars, workerVars, chanVars, eventVars, childVars, TypeOK
<1>2. QueueInv' /\ RangingInv' /\ OwnerInv' /\ ChanInv' /\ RetryInv' /\ DrainInv' /\
   LastWorkerInv' /\ BacklogInv'
  BY Frame DEF Stop, queueVars, workerVars, chanVars, eventVars, childVars
<1>3. QED
  BY <1>1, <1>2 DEF IInv

\* RunReturns preserves the invariant.
LEMMA RunReturnsStep ==
  ASSUME IInv, RunReturns
  PROVE  IInv'
<1>1. TypeOK'
  BY DEF IInv, RunReturns, informerVars, workerVars, chanVars, eventVars, childVars,
     TypeOK
<1>2. QueueInv' /\ RangingInv' /\ OwnerInv' /\ ChanInv' /\ RetryInv' /\
   LastWorkerInv' /\ BacklogInv'
  BY Frame DEF RunReturns, informerVars, workerVars, chanVars, eventVars, childVars
<1>3. DrainInv'
  BY DEF IInv, RunReturns, informerVars, workerVars, chanVars, eventVars, childVars,
     DrainInv, Leaving
<1>4. QED
  BY <1>1, <1>2, <1>3 DEF IInv

\* SyncSucceeds preserves the invariant.
LEMMA SyncSucceedsStep ==
  ASSUME IInv, NEW w \in Workers, SyncSucceeds(w)
  PROVE  IInv'
<1>1. TypeOK'
  BY DEF IInv, SyncSucceeds, PC, queueVars, informerVars, chanVars, eventVars,
     childVars, TypeOK
<1>2. QueueInv' /\ RangingInv'
  BY Frame DEF SyncSucceeds, queueVars, informerVars, chanVars, eventVars, childVars
<1>3. OwnerInv'
  BY DEF IInv, SyncSucceeds, PC, queueVars, informerVars, chanVars, eventVars,
     childVars, TypeOK, OwnerInv, InRun
<1>4. ChanInv'
  BY DEF IInv, SyncSucceeds, PC, queueVars, informerVars, chanVars, eventVars,
     childVars, TypeOK, ChanInv, HasRetry
<1>5. RetryInv'
  BY ConstantsAssumption DEF IInv, SyncSucceeds, PC, queueVars, informerVars,
     chanVars, eventVars, childVars, TypeOK, RetryInv, HasRetry
<1>6. DrainInv'
  BY DEF IInv, SyncSucceeds, PC, queueVars, informerVars, chanVars, eventVars,
     childVars, TypeOK, DrainInv, Leaving
<1>7. LastWorkerInv'
  BY DEF IInv, SyncSucceeds, PC, queueVars, informerVars, chanVars, eventVars,
     childVars, TypeOK, LastWorkerInv
<1>8. BacklogInv'
  BY DEF IInv, SyncSucceeds, PC, queueVars, informerVars, chanVars, eventVars,
     childVars, TypeOK, BacklogInv, BacklogHandled, ArrivedEvents
<1>9. QED
  BY <1>1, <1>2, <1>3, <1>4, <1>5, <1>6, <1>7, <1>8 DEF IInv

\* SyncFails preserves the invariant.
LEMMA SyncFailsStep ==
  ASSUME IInv, NEW w \in Workers, SyncFails(w)
  PROVE  IInv'
<1>1. TypeOK'
  BY DEF IInv, SyncFails, PC, queueVars, informerVars, chanVars, eventVars,
     childVars, TypeOK
<1>2. QueueInv' /\ RangingInv'
  BY Frame DEF SyncFails, queueVars, informerVars, chanVars, eventVars, childVars
<1>3. OwnerInv'
  BY DEF IInv, SyncFails, PC, queueVars, informerVars, chanVars, eventVars,
     childVars, TypeOK, OwnerInv, InRun
<1>4. ChanInv'
  BY DEF IInv, SyncFails, PC, queueVars, informerVars, chanVars, eventVars,
     childVars, TypeOK, ChanInv, HasRetry
<1>5. RetryInv'
  BY ConstantsAssumption DEF IInv, SyncFails, PC, queueVars, informerVars, chanVars,
     eventVars, childVars, TypeOK, RetryInv, HasRetry
<1>6. DrainInv'
  BY DEF IInv, SyncFails, PC, queueVars, informerVars, chanVars, eventVars,
     childVars, TypeOK, DrainInv, Leaving
<1>7. LastWorkerInv'
  BY DEF IInv, SyncFails, PC, queueVars, informerVars, chanVars, eventVars,
     childVars, TypeOK, LastWorkerInv
<1>8. BacklogInv'
  BY DEF IInv, SyncFails, PC, queueVars, informerVars, chanVars, eventVars,
     childVars, TypeOK, BacklogInv, BacklogHandled, ArrivedEvents
<1>9. QED
  BY <1>1, <1>2, <1>3, <1>4, <1>5, <1>6, <1>7, <1>8 DEF IInv

\* GetQuits preserves the invariant.
LEMMA GetQuitsStep ==
  ASSUME IInv, NEW w \in Workers, GetQuits(w)
  PROVE  IInv'
<1>1. TypeOK'
  BY DEF IInv, GetQuits, PC, queueVars, informerVars, chanVars, eventVars,
     childVars, TypeOK
<1>2. QueueInv' /\ RangingInv'
  BY Frame DEF GetQuits, queueVars, informerVars, chanVars, eventVars, childVars
<1>3. OwnerInv'
  BY DEF IInv, GetQuits, PC, queueVars, informerVars, chanVars, eventVars,
     childVars, TypeOK, OwnerInv, InRun
<1>4. ChanInv'
  BY DEF IInv, GetQuits, PC, queueVars, informerVars, chanVars, eventVars,
     childVars, TypeOK, ChanInv, HasRetry
<1>5. RetryInv'
  BY ConstantsAssumption DEF IInv, GetQuits, PC, queueVars, informerVars, chanVars,
     eventVars, childVars, TypeOK, RetryInv, HasRetry
<1>6. DrainInv'
  BY DEF IInv, GetQuits, PC, queueVars, informerVars, chanVars, eventVars,
     childVars, TypeOK, DrainInv, Leaving
<1>7. LastWorkerInv'
  BY DEF IInv, GetQuits, PC, queueVars, informerVars, chanVars, eventVars,
     childVars, TypeOK, LastWorkerInv
<1>8. BacklogInv'
  BY DEF IInv, GetQuits, PC, queueVars, informerVars, chanVars, eventVars,
     childVars, TypeOK, BacklogInv, BacklogHandled, ArrivedEvents
<1>9. QED
  BY <1>1, <1>2, <1>3, <1>4, <1>5, <1>6, <1>7, <1>8 DEF IInv

\* ShutDownWithDrain preserves the invariant: the waiting worker keeps LastWorkerInv.
LEMMA ShutDownWithDrainStep ==
  ASSUME IInv, NEW w \in Workers, ShutDownWithDrain(w)
  PROVE  IInv'
<1>1. TypeOK'
  BY DEF IInv, ShutDownWithDrain, PC, informerVars, chanVars, eventVars, childVars,
     TypeOK
<1>2. QueueInv' /\ RangingInv'
  BY Frame DEF ShutDownWithDrain, informerVars, chanVars, eventVars, childVars
<1>3. OwnerInv'
  BY DEF IInv, ShutDownWithDrain, PC, informerVars, chanVars, eventVars, childVars,
     TypeOK, OwnerInv, InRun
<1>4. ChanInv'
  BY DEF IInv, ShutDownWithDrain, PC, informerVars, chanVars, eventVars, childVars,
     TypeOK, ChanInv, HasRetry
<1>5. RetryInv'
  BY ConstantsAssumption DEF IInv, ShutDownWithDrain, PC, informerVars, chanVars,
     eventVars, childVars, TypeOK, RetryInv, HasRetry
<1>6. DrainInv'
  BY DEF IInv, ShutDownWithDrain, PC, informerVars, chanVars, eventVars, childVars,
     TypeOK, DrainInv, Leaving
<1>7. LastWorkerInv'
  BY DEF IInv, ShutDownWithDrain, PC, informerVars, chanVars, eventVars, childVars,
     TypeOK, LastWorkerInv
<1>8. BacklogInv'
  BY DEF IInv, ShutDownWithDrain, PC, informerVars, chanVars, eventVars, childVars,
     TypeOK, BacklogInv, BacklogHandled, ArrivedEvents
<1>9. QED
  BY <1>1, <1>2, <1>3, <1>4, <1>5, <1>6, <1>7, <1>8 DEF IInv

\* Recheck preserves the invariant: a worker that stops waiting saw no item in processing.
LEMMA RecheckStep ==
  ASSUME IInv, NEW w \in Workers, Recheck(w)
  PROVE  IInv'
<1>1. TypeOK'
  BY DEF IInv, Recheck, PC, queueVars, informerVars, chanVars, eventVars, childVars,
     TypeOK
<1>2. QueueInv' /\ RangingInv'
  BY Frame DEF Recheck, queueVars, informerVars, chanVars, eventVars, childVars
<1>3. OwnerInv'
  BY DEF IInv, Recheck, PC, queueVars, informerVars, chanVars, eventVars, childVars,
     TypeOK, OwnerInv, InRun
<1>4. ChanInv'
  BY DEF IInv, Recheck, PC, queueVars, informerVars, chanVars, eventVars, childVars,
     TypeOK, ChanInv, HasRetry
<1>5. RetryInv'
  BY ConstantsAssumption DEF IInv, Recheck, PC, queueVars, informerVars, chanVars,
     eventVars, childVars, TypeOK, RetryInv, HasRetry
<1>6. DrainInv'
  BY DEF IInv, Recheck, PC, queueVars, informerVars, chanVars, eventVars, childVars,
     TypeOK, DrainInv, Leaving
<1>7. LastWorkerInv'
  BY DEF IInv, TypeOK, DrainInv, LastWorkerInv, Recheck, queueVars, informerVars, chanVars, eventVars, childVars
<1>8. BacklogInv'
  BY DEF IInv, Recheck, PC, queueVars, informerVars, chanVars, eventVars, childVars,
     TypeOK, BacklogInv, BacklogHandled, ArrivedEvents
<1>9. QED
  BY <1>1, <1>2, <1>3, <1>4, <1>5, <1>6, <1>7, <1>8 DEF IInv

\* Send preserves the invariant.
LEMMA SendStep ==
  ASSUME IInv, NEW w \in Workers, Send(w)
  PROVE  IInv'
<1>a. /\ item[w] \in Events /\ item[w] \in ranging
      /\ "Completed" \in Status /\ Emit(item[w], "Completed")
  BY DEF IInv, OwnerInv, InRun, Status, Send
<1>b. /\ ~HasRetry(item[w]) /\ pc[w] = "handle"
      /\ UNCHANGED <<runs, retryCount, dirty, delayed, pc, item, gaveUp, ranging>>
  BY <1>a DEF IInv, ChanInv, Send, queueVars, informerVars, workerVars, eventVars, childVars
<1>c. /\ \A f \in Events : HasRetry(f)' => HasRetry(f)
      /\ \A f \in Events : \A i \in 1 .. Len(statusChan'[f]) :
            statusChan'[f][i] = "Retry" => i = Len(statusChan'[f])
      /\ \A f \in Events \ ranging : statusChan'[f] = <<>>
  BY <1>a, <1>b, EmitKeeps
<1>1. TypeOK'
  BY <1>a, EmitEffect DEF IInv, TypeOK, Send, queueVars, informerVars, workerVars, eventVars, childVars
<1>2. QueueInv' /\ RangingInv' /\ OwnerInv' /\ DrainInv' /\ LastWorkerInv' /\
   BacklogInv'
  BY Frame DEF Send, queueVars, informerVars, workerVars, eventVars, childVars
<1>3. ChanInv'
  BY <1>b, <1>c DEF IInv, ChanInv
<1>4. RetryInv'
  BY <1>b, <1>c DEF IInv, RetryInv
<1>5. QED
  BY <1>1, <1>2, <1>3, <1>4 DEF IInv

\* CreateChildEvent preserves the invariant.
LEMMA CreateChildEventStep ==
  ASSUME IInv, NEW w \in Workers, CreateChildEvent(w)
  PROVE  IInv'
<1>a. /\ item[w] \in Events /\ item[w] \in ranging
      /\ "CreateChild" \in Status /\ Emit(item[w], "CreateChild")
  BY DEF IInv, OwnerInv, InRun, Status, CreateChildEvent
<1>b. /\ ~HasRetry(item[w]) /\ pc[w] = "handle"
      /\ UNCHANGED <<runs, retryCount, dirty, delayed, pc, item, gaveUp, ranging>>
  BY <1>a DEF IInv, ChanInv, CreateChildEvent, queueVars, informerVars, workerVars, eventVars
<1>c. /\ \A f \in Events : HasRetry(f)' => HasRetry(f)
      /\ \A f \in Events : \A i \in 1 .. Len(statusChan'[f]) :
            statusChan'[f][i] = "Retry" => i = Len(statusChan'[f])
      /\ \A f \in Events \ ranging : statusChan'[f] = <<>>
  BY <1>a, <1>b, EmitKeeps
<1>1. TypeOK'
  <2>1. childChan' \in [Events -> [Runs -> {"none", "open", "closed"}]]
    BY <1>a DEF IInv, TypeOK, CreateChildEvent
  <2>2. statusChan' \in [Events -> Seq(Status)]
    BY <1>a, EmitEffect DEF IInv
  <2>3. QED
    BY <1>a, <2>1, <2>2 DEF IInv, TypeOK, CreateChildEvent, queueVars, informerVars, workerVars, eventVars
<1>2. QueueInv' /\ RangingInv' /\ OwnerInv' /\ DrainInv' /\ LastWorkerInv' /\
   BacklogInv'
  BY Frame DEF CreateChildEvent, queueVars, informerVars, workerVars, eventVars
<1>3. ChanInv'
  BY <1>b, <1>c DEF IInv, ChanInv
<1>4. RetryInv'
  BY <1>b, <1>c DEF IInv, RetryInv
<1>5. QED
  BY <1>1, <1>2, <1>3, <1>4 DEF IInv

\* ChildSendClose preserves the invariant.
LEMMA ChildSendCloseStep ==
  ASSUME IInv, NEW w \in Workers, ChildSendClose(w)
  PROVE  IInv'
<1>1. TypeOK'
  BY DEF IInv, ChildSendClose, queueVars, informerVars, workerVars, chanVars,
     eventVars, TypeOK
<1>2. QueueInv' /\ RangingInv' /\ OwnerInv' /\ ChanInv' /\ RetryInv' /\ DrainInv' /\
   LastWorkerInv' /\ BacklogInv'
  BY Frame DEF ChildSendClose, queueVars, informerVars, workerVars, chanVars,
     eventVars
<1>3. QED
  BY <1>1, <1>2 DEF IInv

\* SendFinal preserves the invariant: only the final status may ask for a retry.
LEMMA SendFinalStep ==
  ASSUME IInv, NEW w \in Workers, SendFinal(w)
  PROVE  IInv'
<1>a. /\ item[w] \in Events /\ item[w] \in ranging
      /\ \E s \in Status : Emit(item[w], s)
  BY DEF IInv, OwnerInv, InRun, Status, FinalStatus, SendFinal
<1>b. /\ pc' = [pc EXCEPT ![w] = "close"] /\ pc[w] = "handle"
      /\ pc \in [Workers -> PC] /\ pc' \in [Workers -> PC]
      /\ ~HasRetry(item[w])
  BY <1>a DEF IInv, TypeOK, ChanInv, PC, SendFinal
<1>c. /\ \A f \in Events : HasRetry(f)' => HasRetry(f) \/ f = item[w]
      /\ \A f \in Events : \A i \in 1 .. Len(statusChan'[f]) :
            statusChan'[f][i] = "Retry" => i = Len(statusChan'[f])
      /\ \A f \in Events \ ranging : statusChan'[f] = <<>>
  BY <1>a, <1>b, EmitKeeps
<1>1. TypeOK'
  BY <1>a, <1>b, EmitEffect DEF IInv, TypeOK, SendFinal, queueVars, informerVars, eventVars, childVars
<1>2. QueueInv' /\ RangingInv'
  BY Frame DEF SendFinal, queueVars, informerVars, eventVars, childVars
<1>3. OwnerInv'
  BY <1>b DEF IInv, OwnerInv, InRun, SendFinal, queueVars, informerVars, eventVars, childVars
<1>4. ChanInv'
  <2>1. \A v \in Workers : pc'[v] = "handle" => v # w /\ pc[v] = "handle" /\ item[v] # item[w]
    BY <1>b DEF IInv, OwnerInv, InRun
  <2>2. UNCHANGED <<item, ranging>>
    BY DEF SendFinal, queueVars, informerVars, eventVars, childVars
  <2>3. QED
    BY <1>a, <1>c, <2>1, <2>2 DEF IInv, ChanInv
<1>5. RetryInv'
  <2>1. UNCHANGED <<runs, retryCount, dirty, delayed, item, gaveUp>>
    BY DEF SendFinal, queueVars, informerVars, eventVars, childVars
  <2>2. \A v \in Workers : pc'[v] = "handle" => pc[v] = "handle"
    BY <1>b
  <2>3. runs[item[w]] = retryCount[item[w]] + 1
    BY <1>a, <1>b DEF IInv, RetryInv
  <2>4. QED
    BY <1>a, <1>c, <2>1, <2>2, <2>3 DEF IInv, RetryInv
<1>6. DrainInv'
  BY <1>b DEF IInv, DrainInv, Leaving, SendFinal, queueVars, informerVars, eventVars, childVars
<1>7. LastWorkerInv'
  BY <1>b DEF IInv, LastWorkerInv, SendFinal, queueVars, informerVars, eventVars, childVars
<1>8. BacklogInv'
  <2>1. \A v \in Workers : pc'[v] \in Leaving => pc[v] \in Leaving
    BY <1>b DEF Leaving
  <2>2. UNCHANGED <<dirty, delayed, processing, arrived, runs, queue>>
    BY DEF SendFinal, queueVars, informerVars, eventVars, childVars
  <2>3. QED
    BY <2>1, <2>2 DEF IInv, BacklogInv, BacklogHandled, ArrivedEvents, Leaving
<1>9. QED
  BY <1>1, <1>2, <1>3, <1>4, <1>5, <1>6, <1>7, <1>8 DEF IInv

\* Close preserves the invariant.
LEMMA CloseStep ==
  ASSUME IInv, NEW w \in Workers, Close(w)
  PROVE  IInv'
<1>1. TypeOK'
  BY DEF IInv, Close, PC, queueVars, informerVars, eventVars, childVars, TypeOK
<1>2. QueueInv' /\ RangingInv'
  BY Frame DEF Close, queueVars, informerVars, eventVars, childVars
<1>3. OwnerInv'
  BY DEF IInv, Close, PC, queueVars, informerVars, eventVars, childVars, TypeOK,
     OwnerInv, InRun
<1>4. ChanInv'
  BY DEF IInv, Close, PC, queueVars, informerVars, eventVars, childVars, TypeOK,
     ChanInv, HasRetry
<1>5. RetryInv'
  BY ConstantsAssumption DEF IInv, Close, PC, queueVars, informerVars, eventVars,
     childVars, TypeOK, RetryInv, HasRetry
<1>6. DrainInv'
  BY DEF IInv, Close, PC, queueVars, informerVars, eventVars, childVars, TypeOK,
     DrainInv, Leaving
<1>7. LastWorkerInv'
  BY DEF IInv, Close, PC, queueVars, informerVars, eventVars, childVars, TypeOK,
     LastWorkerInv
<1>8. BacklogInv'
  <2>1. \A v \in Workers : pc'[v] \in Leaving => pc[v] \in Leaving
    BY DEF IInv, TypeOK, PC, Leaving, Close
  <2>2. UNCHANGED <<dirty, delayed, processing, arrived, runs, queue>>
    BY DEF Close, queueVars, informerVars, eventVars, childVars
  <2>3. QED
    BY <2>1, <2>2 DEF IInv, BacklogInv, BacklogHandled, ArrivedEvents, Leaving
<1>9. QED
  BY <1>1, <1>2, <1>3, <1>4, <1>5, <1>6, <1>7, <1>8 DEF IInv

\* Return preserves the invariant.
LEMMA ReturnStep ==
  ASSUME IInv, NEW w \in Workers, Return(w)
  PROVE  IInv'
<1>1. TypeOK'
  BY DEF IInv, Return, PC, queueVars, informerVars, chanVars, eventVars, childVars,
     TypeOK
<1>2. QueueInv' /\ RangingInv'
  BY Frame DEF Return, queueVars, informerVars, chanVars, eventVars, childVars
<1>3. OwnerInv'
  BY DEF IInv, Return, PC, queueVars, informerVars, chanVars, eventVars, childVars,
     TypeOK, OwnerInv, InRun
<1>4. ChanInv'
  BY DEF IInv, Return, PC, queueVars, informerVars, chanVars, eventVars, childVars,
     TypeOK, ChanInv, HasRetry
<1>5. RetryInv'
  BY ConstantsAssumption DEF IInv, Return, PC, queueVars, informerVars, chanVars,
     eventVars, childVars, TypeOK, RetryInv, HasRetry
<1>6. DrainInv'
  BY DEF IInv, Return, PC, queueVars, informerVars, chanVars, eventVars, childVars,
     TypeOK, DrainInv, Leaving
<1>7. LastWorkerInv'
  BY DEF IInv, Return, PC, queueVars, informerVars, chanVars, eventVars, childVars,
     TypeOK, LastWorkerInv
<1>8. BacklogInv'
  BY DEF IInv, Return, PC, queueVars, informerVars, chanVars, eventVars, childVars,
     TypeOK, BacklogInv, BacklogHandled, ArrivedEvents
<1>9. QED
  BY <1>1, <1>2, <1>3, <1>4, <1>5, <1>6, <1>7, <1>8 DEF IInv

\* OnCreateChild preserves the invariant.
LEMMA OnCreateChildStep ==
  ASSUME IInv, NEW e \in Events, OnCreateChild(e)
  PROVE  IInv'
<1>a. "CreateChild" \in Status /\ Receive(e, "CreateChild") /\ UNCHANGED <<ranging, pc, item, closed, sends>>
  BY DEF Status, Receive, OnCreateChild, queueVars, informerVars, workerVars, eventVars
<1>b. /\ ChanInv' /\ statusChan' \in [Events -> Seq(Status)]
      /\ \A f \in Events : HasRetry(f)' => HasRetry(f)
      /\ "CreateChild" = "Retry" => HasRetry(e) /\ ~HasRetry(e)'
  BY <1>a, ReceiveKeeps, ReceiveEffect DEF IInv
<1>1. TypeOK'
  BY <1>a, <1>b DEF IInv, TypeOK, OnCreateChild, queueVars, informerVars, workerVars, eventVars
<1>2. QueueInv' /\ RangingInv' /\ OwnerInv' /\ DrainInv' /\ LastWorkerInv' /\
   BacklogInv'
  BY <1>a, Frame DEF OnCreateChild, queueVars, informerVars, workerVars, eventVars
<1>3. ChanInv'
  BY <1>b
<1>4. RetryInv'
  BY <1>a, <1>b DEF IInv, TypeOK, RetryInv, OnCreateChild, queueVars, informerVars, workerVars, eventVars
<1>5. QED
  BY <1>1, <1>2, <1>3, <1>4 DEF IInv

\* OnSkipOrCompleted preserves the invariant.
LEMMA OnSkipOrCompletedStep ==
  ASSUME IInv, NEW e \in Events, OnSkipOrCompleted(e)
  PROVE  IInv'
<1>a. (\E s \in Status : Receive(e, s)) /\ UNCHANGED <<ranging, pc, item, closed, sends>>
  BY DEF Status, Receive, OnSkipOrCompleted, queueVars, informerVars, workerVars, eventVars, childVars
<1>b. /\ ChanInv' /\ statusChan' \in [Events -> Seq(Status)]
      /\ \A f \in Events : HasRetry(f)' => HasRetry(f)
  BY <1>a, ReceiveKeeps, ReceiveEffect DEF IInv
<1>1. TypeOK'
  BY <1>a, <1>b DEF IInv, TypeOK, OnSkipOrCompleted, queueVars, informerVars, workerVars, eventVars, childVars
<1>2. QueueInv' /\ RangingInv' /\ OwnerInv' /\ DrainInv' /\ LastWorkerInv' /\
   BacklogInv'
  BY <1>a, Frame DEF OnSkipOrCompleted, queueVars, informerVars, workerVars,
     eventVars, childVars
<1>3. ChanInv'
  BY <1>b
<1>4. RetryInv'
  BY <1>a, <1>b DEF IInv, TypeOK, RetryInv, OnSkipOrCompleted, queueVars, informerVars, workerVars, eventVars, childVars
<1>5. QED
  BY <1>1, <1>2, <1>3, <1>4 DEF IInv

\* OnRetry preserves the invariant: the granted retry is counted before the item is added.
LEMMA OnRetryStep ==
  ASSUME IInv, NEW e \in Events, OnRetry(e)
  PROVE  IInv'
<1>a. "Retry" \in Status /\ Receive(e, "Retry") /\ UNCHANGED <<ranging, pc, item, closed, sends>>
  BY DEF Status, Receive, OnRetry, informerVars, workerVars, childVars
<1>b. /\ ChanInv' /\ statusChan' \in [Events -> Seq(Status)]
      /\ \A f \in Events : HasRetry(f)' => HasRetry(f)
      /\ "Retry" = "Retry" => HasRetry(e) /\ ~HasRetry(e)'
  BY <1>a, ReceiveKeeps, ReceiveEffect DEF IInv
<1>c. /\ retryCount[e] < MaxRetry /\ runs[e] = retryCount[e] + 1
      /\ e \notin dirty \cup delayed /\ e \in processing
      /\ \A w \in Workers : pc[w] = "handle" => item[w] # e
  BY <1>a, <1>b, ConstantsAssumption DEF IInv, TypeOK, RetryInv, ChanInv, RangingInv, Receive, OnRetry
<1>d. /\ queue' \in Seq(Events) /\ QueueInv'
      /\ dirty' \subseteq dirty \cup {e} /\ dirty \subseteq dirty'
      /\ delayed' \subseteq delayed \cup {e} /\ delayed \subseteq delayed'
      /\ e \in dirty' => e \notin delayed'
      /\ \A f \in Events : (\E i \in 1 .. Len(queue) : queue[i] = f)
            => \E i \in 1 .. Len(queue') : queue'[i] = f
  <2>1. processing' = processing
    BY DEF OnRetry
  <2>2. CASE Add(e) /\ UNCHANGED delayed
    BY <1>c, <2>1, <2>2, AddEffect DEF IInv
  <2>3. CASE UNCHANGED <<queue, dirty>> /\ delayed' = IF shuttingDown THEN delayed ELSE delayed \cup {e}
    BY <1>c, <2>1, <2>3 DEF IInv, TypeOK, QueueInv
  <2>4. QED
    BY <2>2, <2>3 DEF OnRetry
<1>1. TypeOK'
  <2>1. retryCount' \in [Events -> 0 .. MaxRetry]
    BY <1>c, ConstantsAssumption DEF IInv, TypeOK, OnRetry
  <2>2. QED
    BY <1>a, <1>b, <1>d, <2>1 DEF IInv, TypeOK, OnRetry, informerVars, workerVars, childVars
<1>2. RangingInv' /\ OwnerInv' /\ DrainInv' /\ LastWorkerInv'
  BY <1>a, Frame DEF OnRetry, informerVars, workerVars, childVars
<1>3. QueueInv'
  BY <1>d
<1>4. ChanInv'
  BY <1>b
<1>5. RetryInv'
  <2>1. /\ retryCount' = [retryCount EXCEPT ![e] = @ + 1]
        /\ UNCHANGED <<runs, gaveUp, pc, item>>
    BY <1>a DEF OnRetry
  <2> DEFINE Granted(f) ==
        /\ retryCount[f] <= runs[f] /\ runs[f] <= retryCount[f] + 1
        /\ f \in dirty \cup delayed => runs[f] = retryCount[f]
        /\ f \in dirty => f \notin delayed
        /\ HasRetry(f) => runs[f] = retryCount[f] + 1
        /\ \A w \in Workers :
              pc[w] = "handle" /\ item[w] = f => runs[f] = retryCount[f] + 1
        /\ f \in gaveUp => runs[f] = MaxRetry + 1
  <2>2. \A f \in Events : Granted(f)
    BY DEF IInv, RetryInv
  <2>3. retryCount'[e] = retryCount[e] + 1 /\ retryCount[e] \in Nat /\ runs[e] \in Nat
    BY <2>1, ConstantsAssumption DEF IInv, TypeOK
  <2>4. ~HasRetry(e)' /\ (e \in dirty' => e \notin delayed')
    BY <1>b, <1>d
  <2>5. \A w \in Workers : ~(pc'[w] = "handle" /\ item'[w] = e)
    BY <1>c, <2>1
  <2>6. Granted(e)'
    BY <1>c, <2>1, <2>2, <2>3, <2>4, <2>5
  <2>7. ASSUME NEW f \in Events \ {e} PROVE Granted(f)'
    <3>1. retryCount'[f] = retryCount[f] /\ (HasRetry(f)' => HasRetry(f))
      BY <1>b, <2>1 DEF IInv, TypeOK
    <3>2. (f \in dirty' <=> f \in dirty) /\ (f \in delayed' <=> f \in delayed)
      BY <1>d
    <3>3. QED
      BY <2>1, <2>2, <3>1, <3>2
  <2>8. QED
    BY <2>6, <2>7 DEF RetryInv
<1>6. BacklogInv'
  <2>1. UNCHANGED <<arrived, runs, processing, pc>>
    BY <1>a DEF OnRetry, informerVars, workerVars, childVars
  <2>2. e \in ArrivedEvents
    BY <1>c DEF IInv, BacklogInv
  <2>3. \A f \in ArrivedEvents : f \in Events
    BY DEF IInv, TypeOK, ArrivedEvents
  <2>4. ArrivedEvents' = ArrivedEvents
    BY <2>1 DEF ArrivedEvents
  <2>5. QED
    BY <1>d, <2>1, <2>2, <2>3, <2>4 DEF IInv, BacklogInv, BacklogHandled
<1>7. QED
  BY <1>1, <1>2, <1>3, <1>4, <1>5, <1>6 DEF IInv

\* OnMaxRetryReached preserves the invariant.
LEMMA OnMaxRetryReachedStep ==
  ASSUME IInv, NEW e \in Events, OnMaxRetryReached(e)
  PROVE  IInv'
<1>a. "Retry" \in Status /\ Receive(e, "Retry") /\ UNCHANGED <<ranging, pc, item, closed, sends>>
  BY DEF Status, Receive, OnMaxRetryReached, queueVars, informerVars, workerVars, childVars
<1>b. /\ ChanInv' /\ statusChan' \in [Events -> Seq(Status)]
      /\ \A f \in Events : HasRetry(f)' => HasRetry(f)
      /\ "Retry" = "Retry" => HasRetry(e) /\ ~HasRetry(e)'
  BY <1>a, ReceiveKeeps, ReceiveEffect DEF IInv
<1>1. TypeOK'
  BY <1>a, <1>b DEF IInv, TypeOK, OnMaxRetryReached, queueVars, informerVars, workerVars, childVars
<1>2. QueueInv' /\ RangingInv' /\ OwnerInv' /\ DrainInv' /\ LastWorkerInv' /\
   BacklogInv'
  BY <1>a, Frame DEF OnMaxRetryReached, queueVars, informerVars, workerVars,
     childVars
<1>3. ChanInv'
  BY <1>b
<1>4. RetryInv'
  BY <1>a, <1>b, ConstantsAssumption DEF IInv, TypeOK, RetryInv, OnMaxRetryReached, queueVars, informerVars, workerVars, childVars
<1>5. QED
  BY <1>1, <1>2, <1>3, <1>4 DEF IInv

\* StatusDone preserves the invariant: the finished item leaves processing and may be queued again.
LEMMA StatusDoneStep ==
  ASSUME IInv, NEW e \in Events, StatusDone(e)
  PROVE  IInv'
<1>a. /\ e \in processing /\ Done(e) /\ closed[e] /\ statusChan[e] = <<>>
      /\ ranging' = ranging \ {e}
      /\ UNCHANGED <<delayed, arrived, item, closed, statusChan, runs, retryCount, gaveUp, shuttingDown, drain>>
  BY DEF IInv, RangingInv, StatusDone, informerVars, chanVars, childVars
<1>b. /\ queue' \in Seq(Events) /\ QueueInv' /\ dirty' = dirty
      /\ processing' = processing \ {e} /\ OnlyWakes
      /\ \A f \in Events : (\E i \in 1 .. Len(queue) : queue[i] = f)
            => \E i \in 1 .. Len(queue') : queue'[i] = f
  BY <1>a, DoneEffect DEF IInv
<1>1. TypeOK'
  BY <1>a, <1>b DEF IInv, TypeOK, OnlyWakes, StatusDone, informerVars, chanVars, childVars
<1>2. QueueInv'
  BY <1>b
<1>3. RangingInv'
  BY <1>a, <1>b DEF IInv, RangingInv
<1>4. OwnerInv'
  BY <1>a, <1>b DEF IInv, OwnerInv, InRun, OnlyWakes
<1>5. ChanInv'
  BY <1>a, <1>b DEF IInv, ChanInv, HasRetry, OnlyWakes
<1>6. RetryInv'
  BY <1>a, <1>b, WakeKeeps
<1>7. DrainInv'
  BY <1>a, <1>b, WakeKeeps
<1>8. LastWorkerInv'
  BY <1>b, WakeKeeps
<1>9. BacklogInv'
  <2>1. \A f \in ArrivedEvents : f \in Events
    BY DEF IInv, TypeOK, ArrivedEvents
  <2>2. BacklogHandled'
    BY <1>a, <1>b, WakeKeeps DEF IInv, BacklogInv, BacklogHandled, ArrivedEvents, Leaving
  <2>3. ArrivedEvents' = ArrivedEvents
    BY <1>a DEF ArrivedEvents
  <2>4. QED
    BY <1>a, <1>b, <2>1, <2>2, <2>3 DEF IInv, BacklogInv
<1>10. QED
  BY <1>1, <1>2, <1>3, <1>4, <1>5, <1>6, <1>7, <1>8, <1>9 DEF IInv

\* DelayExpires preserves the invariant: a timer moves its item from delayed to dirty.
LEMMA DelayExpiresStep ==
  ASSUME IInv, NEW e \in Events, DelayExpires(e)
  PROVE  IInv'
<1>a. /\ e \in delayed /\ delayed' = delayed \ {e} /\ ~shuttingDown
      /\ Add(e) /\ processing' = processing
      /\ UNCHANGED <<arrived, runs, retryCount, gaveUp, statusChan, pc, item>>
  BY DEF DelayExpires, informerVars, workerVars, chanVars, eventVars, childVars
<1>b. /\ queue' \in Seq(Events) /\ QueueInv'
      /\ dirty' = dirty \cup {e}
      /\ \A f \in Events : (\E i \in 1 .. Len(queue) : queue[i] = f)
            => \E i \in 1 .. Len(queue') : queue'[i] = f
  BY <1>a, AddEffect DEF IInv
<1>1. TypeOK'
  BY <1>a, <1>b DEF IInv, TypeOK, DelayExpires, informerVars, workerVars, chanVars, eventVars, childVars
<1>2. RangingInv' /\ OwnerInv' /\ ChanInv' /\ DrainInv' /\ LastWorkerInv'
  BY Frame DEF DelayExpires, informerVars, workerVars, chanVars, eventVars,
     childVars
<1>3. QueueInv'
  BY <1>b
<1>4. RetryInv'
  BY <1>a, <1>b DEF IInv, RetryInv, HasRetry
<1>5. BacklogInv'
  <2>1. \A f \in ArrivedEvents : f \in Events
    BY DEF IInv, TypeOK, ArrivedEvents
  <2>2. ArrivedEvents' = ArrivedEvents
    BY <1>a DEF ArrivedEvents
  <2>3. QED
    BY <1>a, <1>b, <2>1, <2>2 DEF IInv, BacklogInv, BacklogHandled
<1>6. QED
  BY <1>1, <1>2, <1>3, <1>4, <1>5 DEF IInv

\* ChildReceive preserves the invariant.
LEMMA ChildReceiveStep ==
  ASSUME IInv, NEW e \in Events, NEW r \in Runs, ChildReceive(e, r)
  PROVE  IInv'
<1>1. TypeOK'
  BY DEF IInv, ChildReceive, queueVars, informerVars, workerVars, chanVars,
     eventVars, TypeOK
<1>2. QueueInv' /\ RangingInv' /\ OwnerInv' /\ ChanInv' /\ RetryInv' /\ DrainInv' /\
   LastWorkerInv' /\ BacklogInv'
  BY Frame DEF ChildReceive, queueVars, informerVars, workerVars, chanVars,
     eventVars
<1>3. QED
  BY <1>1, <1>2 DEF IInv

\* ChildDone preserves the invariant.
LEMMA ChildDoneStep ==
  ASSUME IInv, NEW e \in Events, NEW r \in Runs, ChildDone(e, r)
  PROVE  IInv'
<1>a. OnlyWakes /\ UNCHANGED <<queue, dirty, processing>>
  BY SignalEffect DEF IInv, ChildDone, DoneChild
<1>1. TypeOK'
  BY <1>a DEF IInv, TypeOK, OnlyWakes, ChildDone, informerVars, chanVars, eventVars
<1>2. QueueInv' /\ RangingInv'
  BY <1>a, Frame DEF ChildDone, informerVars, chanVars, eventVars
<1>3. OwnerInv'
  BY <1>a, WakeKeeps DEF ChildDone, informerVars, chanVars, eventVars
<1>4. ChanInv'
  BY <1>a, WakeKeeps DEF ChildDone, informerVars, chanVars, eventVars
<1>5. RetryInv'
  BY <1>a, WakeKeeps DEF ChildDone, informerVars, chanVars, eventVars
<1>6. DrainInv'
  BY <1>a, WakeKeeps DEF ChildDone, informerVars, chanVars, eventVars
<1>7. LastWorkerInv'
  BY <1>a, WakeKeeps DEF ChildDone, informerVars, chanVars, eventVars
<1>8. BacklogInv'
  <2>1. UNCHANGED <<arrived, runs, queue, dirty, delayed, processing>>
    BY <1>a DEF ChildDone, informerVars, chanVars, eventVars
  <2>2. QED
    BY <1>a, <2>1, WakeKeeps DEF IInv, BacklogInv, BacklogHandled, ArrivedEvents, Leaving
<1>9. QED
  BY <1>1, <1>2, <1>3, <1>4, <1>5, <1>6, <1>7, <1>8 DEF IInv

\* Notify preserves the invariant: the new event was nowhere before, and is queued.
LEMMA NotifyStep ==
  ASSUME IInv, NEW e \in Events, Notify(e)
  PROVE  IInv'
<1>a. /\ ~shuttingDown /\ e \notin ArrivedEvents /\ arrived' = Append(arrived, e)
      /\ Add(e) /\ processing' = processing
      /\ UNCHANGED <<delayed, runs, retryCount, gaveUp, statusChan, pc, item>>
  BY DEF Notify, workerVars, chanVars, eventVars, childVars
<1>b. e \notin dirty \cup delayed \cup processing
  BY <1>a DEF IInv, BacklogInv
<1>c. /\ queue' \in Seq(Events) /\ QueueInv'
      /\ dirty' = dirty \cup {e}
      /\ \E i \in 1 .. Len(queue') : queue'[i] = e
      /\ \A f \in Events : (\E i \in 1 .. Len(queue) : queue[i] = f)
            => \E i \in 1 .. Len(queue') : queue'[i] = f
  BY <1>a, <1>b, AddEffect DEF IInv
<1>d. arrived' \in Seq(Events) /\ ArrivedEvents' = ArrivedEvents \cup {e}
  <2>1. arrived \in Seq(Events)
    BY DEF IInv, TypeOK
  <2>2. /\ arrived' \in Seq(Events)
        /\ Len(arrived) \in Nat /\ Len(arrived') = Len(arrived) + 1
        /\ \A i \in 1 .. Len(arrived) : arrived'[i] = arrived[i]
        /\ arrived'[Len(arrived) + 1] = e
    BY <1>a, <2>1, AppendFacts
  <2>3. ASSUME NEW f \in ArrivedEvents' PROVE f \in ArrivedEvents \cup {e}
    <3>1. PICK i \in 1 .. Len(arrived') : f = arrived'[i]
      BY DEF ArrivedEvents
    <3>2. i \in 1 .. Len(arrived) \/ i = Len(arrived) + 1
      BY <2>2
    <3>3. QED
      BY <2>2, <3>1, <3>2 DEF ArrivedEvents
  <2>4. ASSUME NEW f \in ArrivedEvents \cup {e} PROVE f \in ArrivedEvents'
    <3>1. CASE f = e
      <4>1. Len(arrived) + 1 \in 1 .. Len(arrived')
        BY <2>2
      <4>2. QED
        BY <2>2, <3>1, <4>1 DEF ArrivedEvents
    <3>2. CASE f \in ArrivedEvents
      <4>1. PICK i \in 1 .. Len(arrived) : f = arrived[i]
        BY <3>2 DEF ArrivedEvents
      <4>2. i \in 1 .. Len(arrived')
        BY <2>2
      <4>3. QED
        BY <2>2, <4>1, <4>2 DEF ArrivedEvents
    <3>3. QED
      BY <3>1, <3>2
  <2>5. QED
    BY <2>2, <2>3, <2>4
<1>1. TypeOK'
  BY <1>a, <1>c, <1>d DEF IInv, TypeOK, Notify, workerVars, chanVars, eventVars, childVars
<1>2. RangingInv' /\ OwnerInv' /\ ChanInv' /\ DrainInv' /\ LastWorkerInv'
  BY Frame DEF Notify, workerVars, chanVars, eventVars, childVars
<1>3. QueueInv'
  BY <1>c
<1>4. RetryInv'
  <2>1. runs[e] = retryCount[e]
    BY <1>a, ConstantsAssumption DEF IInv, TypeOK, RetryInv, BacklogInv
  <2>2. QED
    BY <1>a, <1>b, <1>c, <2>1 DEF IInv, RetryInv, HasRetry
<1>5. BacklogInv'
  <2>1. \A f \in ArrivedEvents : f \in Events
    BY DEF IInv, TypeOK, ArrivedEvents
  <2>2. \A w \in Workers : pc[w] \notin Leaving
    BY <1>a DEF IInv, DrainInv
  <2>3. QED
    BY <1>a, <1>c, <1>d, <2>1, <2>2 DEF IInv, BacklogInv, BacklogHandled, Leaving
<1>6. QED
  BY <1>1, <1>2, <1>3, <1>4, <1>5 DEF IInv

\* Get preserves the invariant: the queue had the item once and nobody ran it.
LEMMA GetStep ==
  ASSUME IInv, NEW w \in Workers, Get(w)
  PROVE  IInv'
<1>e. PICK e \in Events : e = Head(queue) /\ queue # <<>>
  BY DEF IInv, TypeOK, Get
<1>a. /\ queue \in Seq(Events) /\ queue # <<>> /\ e \in Events /\ e = queue[1]
      /\ Len(queue) \in Nat \ {0} /\ queue' = Tail(queue) /\ queue' \in Seq(Events)
      /\ Len(queue') = Len(queue) - 1
      /\ \A i \in 1 .. Len(queue') : queue'[i] = queue[i + 1]
  BY <1>e DEF IInv, TypeOK, Get
<1>b. e \in dirty /\ e \notin processing /\ e \notin ranging /\ e \in ArrivedEvents
  BY <1>a DEF IInv, QueueInv, RangingInv, BacklogInv
<1>c. /\ runs[e] = retryCount[e] /\ e \notin delayed /\ runs[e] \in 0 .. MaxRetry
      /\ e \notin gaveUp
  BY <1>a, <1>b, ConstantsAssumption DEF IInv, TypeOK, RetryInv
<1>d. /\ processing' = processing \cup {e} /\ ranging' = ranging \cup {e}
      /\ dirty' = dirty \ {e}
      /\ item' = [item EXCEPT ![w] = e] /\ pc' = [pc EXCEPT ![w] = "handle"]
      /\ statusChan' = [statusChan EXCEPT ![e] = <<>>]
      /\ closed' = [closed EXCEPT ![e] = FALSE] /\ sends' = [sends EXCEPT ![e] = 0]
      /\ runs' = [runs EXCEPT ![e] = @ + 1]
      /\ UNCHANGED <<arrived, retryCount, delayed, gaveUp>>
      /\ pc[w] = "get"
  BY <1>e DEF Get, informerVars
<1>1. TypeOK'
  <2>1. runs' \in [Events -> 0 .. (MaxRetry + 1)]
    BY <1>a, <1>c, <1>d, ConstantsAssumption DEF IInv, TypeOK
  <2>2. statusChan' \in [Events -> Seq(Status)]
    BY <1>a, <1>d DEF IInv, TypeOK
  <2>3. /\ pc' \in [Workers -> PC] /\ item' \in [Workers -> Events \cup {NoEvent}]
        /\ closed' \in [Events -> BOOLEAN] /\ sends' \in [Events -> Nat]
    BY <1>a, <1>d DEF IInv, TypeOK, PC
  <2>4. UNCHANGED <<arrived, delayed, shuttingDown, drain, synced, stopped, retryCount,
                    gaveUp, childChan, childStatus>>
    BY DEF Get, informerVars, childVars
  <2>5. QED
    BY <1>a, <1>d, <2>1, <2>2, <2>3, <2>4 DEF IInv, TypeOK
<1>2. QueueInv'
  <2>1. \A i \in 1 .. Len(queue') : i + 1 \in 1 .. Len(queue) /\ queue[i + 1] # e
    BY <1>a DEF IInv, QueueInv
  <2>2. QED
    BY <1>a, <1>d, <2>1 DEF IInv, QueueInv
<1>3. RangingInv'
  BY <1>d DEF IInv, RangingInv
<1>4. OwnerInv'
  <2>1. \A v \in Workers : v # w => pc'[v] = pc[v] /\ item'[v] = item[v]
    BY <1>d DEF IInv, TypeOK
  <2>2. pc'[w] = "handle" /\ item'[w] = e
    BY <1>d DEF IInv, TypeOK
  <2>3. ~closed'[e] /\ \A f \in Events \ {e} : closed'[f] = closed[f]
    BY <1>a, <1>d DEF IInv, TypeOK
  <2>4. \A v \in Workers : pc[v] \in InRun => item[v] # e /\ item[v] \in Events
    BY <1>b DEF IInv, OwnerInv, InRun
  <2>5. QED
    BY <1>a, <1>d, <2>1, <2>2, <2>3, <2>4 DEF IInv, OwnerInv, InRun
<1>5. ChanInv'
  <2>1. \A v \in Workers : pc'[v] = "handle" => v = w \/ (pc[v] = "handle" /\ item'[v] = item[v])
    BY <1>d DEF IInv, TypeOK
  <2>2. statusChan'[e] = <<>> /\ \A f \in Events \ {e} : statusChan'[f] = statusChan[f]
    BY <1>a, <1>d DEF IInv, TypeOK
  <2>3. item'[w] = e
    BY <1>d DEF IInv, TypeOK
  <2>4. QED
    BY <1>a, <1>d, <2>1, <2>2, <2>3 DEF IInv, ChanInv, HasRetry
<1>6. RetryInv'
  <2>1. \A v \in Workers : pc'[v] = "handle" =>
           \/ v = w /\ item'[v] = e
           \/ pc[v] = "handle" /\ item'[v] = item[v] /\ item[v] # e
    BY <1>b, <1>d DEF IInv, TypeOK, OwnerInv, InRun
  <2>2. ~HasRetry(e)' /\ \A f \in Events \ {e} : HasRetry(f)' => HasRetry(f)
    <3>1. statusChan'[e] = <<>> /\ \A f \in Events \ {e} : statusChan'[f] = statusChan[f]
      BY <1>a, <1>d DEF IInv, TypeOK
    <3>2. Len(statusChan'[e]) = 0
      BY <3>1
    <3>3. ~HasRetry(e)'
      BY <3>2 DEF HasRetry
    <3>4. QED
      BY <3>1, <3>3 DEF HasRetry
  <2>3. runs'[e] = runs[e] + 1 /\ \A f \in Events \ {e} : runs'[f] = runs[f]
    BY <1>a, <1>d DEF IInv, TypeOK
  <2>4. retryCount[e] \in Nat
    BY <1>a, ConstantsAssumption DEF IInv, TypeOK
  <2>5. QED
    BY <1>a, <1>c, <1>d, <2>1, <2>2, <2>3, <2>4 DEF IInv, RetryInv
<1>7. DrainInv'
  BY <1>d DEF IInv, TypeOK, DrainInv, Leaving, Get
<1>8. LastWorkerInv'
  BY <1>d DEF IInv, TypeOK, LastWorkerInv
<1>9. BacklogInv'
  <2>1. ArrivedEvents' = ArrivedEvents /\ \A f \in ArrivedEvents : f \in Events
    <3>1. \A f \in ArrivedEvents : f \in Events
      BY DEF IInv, TypeOK, ArrivedEvents
    <3>2. arrived' = arrived
      BY <1>d
    <3>3. ArrivedEvents' = ArrivedEvents
      BY <3>2 DEF ArrivedEvents
    <3>4. QED
      BY <3>1, <3>3
  <2>2. runs'[e] > 0 /\ \A f \in Events \ {e} : runs'[f] = runs[f]
    BY <1>a, <1>c, <1>d, ConstantsAssumption DEF IInv, TypeOK
  <2>3. ASSUME NEW f \in ArrivedEvents, f # e, NEW i \in 1 .. Len(queue), queue[i] = f
        PROVE  \E j \in 1 .. Len(queue') : queue'[j] = f
    <3>1. i - 1 \in 1 .. Len(queue') /\ queue'[i - 1] = f
      BY <1>a, <2>3
    <3>2. QED
      BY <3>1
  <2>4. \A v \in Workers : pc'[v] \in Leaving => pc[v] \in Leaving
    BY <1>d DEF IInv, TypeOK, Leaving
  <2>5. QED
    BY <1>b, <1>d, <2>1, <2>2, <2>3, <2>4 DEF IInv, BacklogInv, BacklogHandled, Leaving
<1>10. QED
  BY <1>1, <1>2, <1>3, <1>4, <1>5, <1>6, <1>7, <1>8, <1>9 DEF IInv

\* Every step of the controller, and every stutter, preserves the invariant.
LEMMA NextIInv == IInv /\ [Next]_vars => IInv'
<1> SUFFICES ASSUME IInv, [Next]_vars PROVE IInv'
  OBVIOUS
<1>1. CASE UNCHANGED vars
  <2>1. TypeOK'
    BY <1>1 DEF IInv, TypeOK, vars, queueVars, informerVars, workerVars, chanVars,
       eventVars, childVars
  <2>2. QED
    BY <1>1, <2>1, Frame DEF IInv, vars, queueVars, informerVars, workerVars,
       chanVars, eventVars, childVars
<1>2. CASE InformerSync \/ Stop \/ RunReturns
  BY <1>2, InformerSyncStep, StopStep, RunReturnsStep
<1>3. ASSUME NEW w \in Workers, Worker(w) PROVE IInv'
  BY <1>3, SyncSucceedsStep, SyncFailsStep, GetStep, GetQuitsStep,
     ShutDownWithDrainStep, RecheckStep, SendStep, CreateChildEventStep,
     ChildSendCloseStep, SendFinalStep, CloseStep, ReturnStep DEF Worker, Handler
<1>4. ASSUME NEW e \in Events, Notify(e) \/ StatusHandler(e) \/ DelayExpires(e)
      PROVE  IInv'
  BY <1>4, NotifyStep, DelayExpiresStep, OnCreateChildStep, OnSkipOrCompletedStep,
     OnRetryStep, OnMaxRetryReachedStep, StatusDoneStep DEF StatusHandler
<1>5. ASSUME NEW e \in Events, NEW r \in Runs, ChildStatusHandler(e, r) PROVE IInv'
  BY <1>5, ChildReceiveStep, ChildDoneStep DEF ChildStatusHandler
<1>6. QED
  BY <1>1, <1>2, <1>3, <1>4, <1>5 DEF Next

-----------------------------------------------------------------------------
(* The theorems.                                                            *)

\* The inductive invariant holds of every behaviour of the controller.
THEOREM Inductive == Spec => []IInv
  BY InitIInv, NextIInv, PTL DEF Spec

\* Every variable keeps its type, whatever events, workers and bounds; in
\* particular no handler runs more often than MaxRetry + 1 times.
THEOREM TypeCorrect == Spec => []TypeOK
<1>1. IInv => TypeOK
  BY DEF IInv
<1>2. QED
  BY <1>1, Inductive, PTL

\* No two workers run a handler for the same event, and a handler that sends
\* always has a status goroutine at the other end of its channel.
THEOREM RunsAreExclusive == Spec => []ExclusiveRun
<1>1. IInv => ExclusiveRun
  BY DEF IInv, OwnerInv, ExclusiveRun
<1>2. QED
  BY <1>1, Inductive, PTL

\* The invariant implies RetriesBounded.
LEMMA RetriesFact == IInv => RetriesBounded
<1> SUFFICES ASSUME IInv, NEW e \in Events
             PROVE  /\ runs[e] <= retryCount[e] + 1
                    /\ e \in gaveUp => /\ runs[e] = MaxRetry + 1
                                       /\ e \notin dirty \cup delayed
  BY DEF RetriesBounded
<1>1. retryCount[e] \in 0 .. MaxRetry
  BY DEF IInv, TypeOK
<1>2. QED
  BY <1>1, ConstantsAssumption DEF IInv, RetryInv

\* Retries are bounded, and MaxRetryReached is only reported to an event that
\* has used them all and is not scheduled any more.
THEOREM RetriesAreBounded == Spec => []RetriesBounded
  BY RetriesFact, Inductive, PTL

\* When the last worker has stopped every picked event is processed completely.
THEOREM GracefulStop == Spec => []StoppedMeansDrained
<1>1. IInv => StoppedMeansDrained
  <2> SUFFICES ASSUME IInv, \A w \in Workers : pc[w] \in {"failed", "done"}
               PROVE  /\ processing = {} /\ ranging = {}
                      /\ \A e \in Events : statusChan[e] = <<>>
    BY DEF StoppedMeansDrained
  <2>1. processing = {} /\ ranging = {}
    BY DEF IInv, LastWorkerInv, RangingInv
  <2>2. QED
    BY <2>1 DEF IInv, ChanInv
<1>2. QED
  BY <1>1, Inductive, PTL

\* No worker leaves its loop before the whole backlog was handled once.
THEOREM BacklogIsHandled == Spec => []BacklogHandled
<1>1. IInv => BacklogHandled
  BY DEF IInv, BacklogInv
<1>2. QED
  BY <1>1, Inductive, PTL

\* An event that was given up is never picked again: Get takes dirty items only.
THEOREM GiveUpFinal == Spec => GiveUpIsFinal
<1>1. IInv /\ [Next]_vars => [\A e \in gaveUp : runs'[e] = runs[e] /\ e \in gaveUp']_vars
  <2> SUFFICES ASSUME IInv, Next, NEW e \in gaveUp
               PROVE  runs'[e] = runs[e] /\ e \in gaveUp'
    OBVIOUS
  <2>1. e \in Events /\ e \notin dirty /\ runs \in [Events -> 0 .. (MaxRetry + 1)]
    BY RetriesFact DEF IInv, TypeOK, RetriesBounded
  <2>2. ASSUME NEW w \in Workers, Get(w) PROVE runs'[e] = runs[e] /\ e \in gaveUp'
    <3>1. Head(queue) # e
      <4>1. queue # <<>> /\ queue \in Seq(Events)
        BY <2>2 DEF IInv, TypeOK, Get
      <4>2. Head(queue) = queue[1] /\ 1 \in 1 .. Len(queue)
        BY <4>1
      <4>3. QED
        BY <2>1, <4>2 DEF IInv, QueueInv
    <3>2. QED
      BY <2>1, <2>2, <3>1 DEF Get
  <2>3. CASE UNCHANGED runs /\ gaveUp \subseteq gaveUp'
    BY <2>3
  <2>4. CASE ~\E w \in Workers : Get(w)
    <3>1. CASE InformerSync \/ Stop \/ RunReturns
      BY <3>1, <2>3 DEF InformerSync, Stop, RunReturns, eventVars
    <3>2. ASSUME NEW w \in Workers, Worker(w) PROVE UNCHANGED <<runs, gaveUp>>
      BY <2>4, <3>2 DEF Worker, Handler, SyncSucceeds, SyncFails, GetQuits,
         ShutDownWithDrain, Recheck, Send, CreateChildEvent, ChildSendClose,
         SendFinal, Close, Return, eventVars
    <3>3. ASSUME NEW f \in Events, Notify(f) \/ StatusHandler(f) \/ DelayExpires(f)
          PROVE  UNCHANGED runs /\ gaveUp \subseteq gaveUp'
      BY <3>3 DEF StatusHandler, Notify, DelayExpires, OnCreateChild,
         OnSkipOrCompleted, OnRetry, OnMaxRetryReached, StatusDone, eventVars
    <3>4. ASSUME NEW f \in Events, NEW r \in Runs, ChildStatusHandler(f, r)
          PROVE  UNCHANGED <<runs, gaveUp>>
      BY <3>4 DEF ChildStatusHandler, ChildReceive, ChildDone, eventVars
    <3>5. QED
      BY <2>3, <3>1, <3>2, <3>3, <3>4 DEF Next
  <2>5. QED
    BY <2>2, <2>4
<1>2. QED
  BY <1>1, Inductive, PTL DEF Spec, GiveUpIsFinal

-----------------------------------------------------------------------------
(* The order of first runs.                                                 *)

\* What Get, Add and Done may do to the order of first runs: among the events that
\* were never run the queue has the order of arrival, and an event that is processed
\* or delayed was run before.
OrderInv ==
    /\ \A i, j \in 1 .. Len(arrived) : arrived[i] = arrived[j] => i = j
    /\ \A e \in processing \cup delayed : runs[e] > 0
    /\ \A p, q \in 1 .. Len(queue), i, j \in 1 .. Len(arrived) :
          /\ queue[p] = arrived[i] /\ queue[q] = arrived[j] /\ i < j
          /\ runs[arrived[i]] = 0 /\ runs[arrived[j]] = 0
          => p < q
    /\ FirstRunsInOrder

\* Initially nothing has arrived.
LEMMA InitOrder == Init => OrderInv
  BY DEF Init, OrderInv, FirstRunsInOrder

\* Putting an event that was run before into the queue, or none, keeps the order.
LEMMA OrderKept ==
  ASSUME IInv, OrderInv, UNCHANGED <<arrived, runs>>,
         NEW e \in Events, runs[e] > 0,
         queue' = queue \/ queue' = Append(queue, e),
         processing' \subseteq processing \cup {e}, delayed' \subseteq delayed \cup {e}
  PROVE  OrderInv'
<1>1. queue \in Seq(Events) /\ arrived \in Seq(Events) /\ runs \in [Events -> Nat]
  BY ConstantsAssumption DEF IInv, TypeOK
<1>2. Len(queue) \in Nat /\ \A p \in 1 .. Len(queue) : queue'[p] = queue[p]
  BY <1>1, AppendFacts
<1>3. ASSUME NEW p \in 1 .. Len(queue'), runs[queue'[p]] = 0  PROVE p \in 1 .. Len(queue)
  BY <1>1, <1>2, <1>3, AppendFacts
<1>4. ASSUME NEW p \in 1 .. Len(queue'), NEW q \in 1 .. Len(queue'),
             NEW i \in 1 .. Len(arrived), NEW j \in 1 .. Len(arrived),
             queue'[p] = arrived[i], queue'[q] = arrived[j], i < j,
             runs[arrived[i]] = 0, runs[arrived[j]] = 0
      PROVE  p < q
  <2>1. p \in 1 .. Len(queue) /\ q \in 1 .. Len(queue)
    BY <1>3, <1>4
  <2> QED  BY <1>2, <1>4, <2>1 DEF OrderInv
<1>5. FirstRunsInOrder'
  BY DEF OrderInv, FirstRunsInOrder
<1> QED  BY <1>4, <1>5 DEF OrderInv

\* A new notification goes behind all that wait.
LEMMA NotifyOrder ==
  ASSUME IInv, OrderInv, NEW e \in Events, Notify(e)
  PROVE  OrderInv'
<1>1. queue \in Seq(Events) /\ arrived \in Seq(Events) /\ runs \in [Events -> Nat]
  BY ConstantsAssumption DEF IInv, TypeOK
<1>2. /\ e \notin ArrivedEvents /\ arrived' = Append(arrived, e) /\ Add(e) /\ ~shuttingDown
      /\ UNCHANGED <<processing, delayed, runs>>
  BY DEF Notify, eventVars
<1>3. e \notin dirty \cup processing /\ runs[e] = 0
  BY <1>2 DEF IInv, BacklogInv
<1>4. queue' = Append(queue, e)
  BY <1>2, <1>3 DEF Add
<1> DEFINE n == Len(arrived) m == Len(queue)
<1>5. /\ n \in Nat /\ Len(arrived') = n + 1 /\ arrived'[n + 1] = e
      /\ \A i \in 1 .. n : arrived'[i] = arrived[i]
  BY <1>1, <1>2, AppendFacts
<1>6. /\ m \in Nat /\ Len(queue') = m + 1 /\ queue'[m + 1] = e
      /\ \A p \in 1 .. m : queue'[p] = queue[p]
  BY <1>1, <1>4, AppendFacts
<1>7. \A i \in 1 .. n : arrived[i] # e
  BY <1>2 DEF ArrivedEvents
<1>8. \A p \in 1 .. m : queue[p] # e
  BY <1>3 DEF IInv, QueueInv
<1> HIDE DEF n, m
<1>9. \A i, j \in 1 .. Len(arrived') : arrived'[i] = arrived'[j] => i = j
  <2> SUFFICES ASSUME NEW i \in 1 .. n + 1, NEW j \in 1 .. n + 1, arrived'[i] = arrived'[j]
               PROVE  i = j
    BY <1>5
  <2>1. CASE i \in 1 .. n /\ j \in 1 .. n
    BY <1>5, <2>1 DEF OrderInv, n
  <2>2. CASE i = n + 1 \/ j = n + 1
    BY <1>5, <1>7, <2>2
  <2> QED  BY <1>5, <2>1, <2>2
<1>10. ASSUME NEW p \in 1 .. m + 1, NEW q \in 1 .. m + 1,
              NEW i \in 1 .. n + 1, NEW j \in 1 .. n + 1,
              queue'[p] = arrived'[i], queue'[q] = arrived'[j], i < j,
              runs[arrived'[i]] = 0, runs[arrived'[j]] = 0
       PROVE  p < q
  <2>1. i \in 1 .. n /\ arrived'[i] = arrived[i] /\ arrived[i] # e
    BY <1>5, <1>7, <1>10
  <2>2. p \in 1 .. m /\ queue'[p] = queue[p]
    BY <1>6, <1>10, <2>1
  <2>3. CASE q = m + 1
    BY <1>6, <2>2, <2>3
  <2>4. CASE q \in 1 .. m
    <3>1. queue'[q] = queue[q] /\ queue[q] # e
      BY <1>6, <1>8, <2>4
    <3>2. arrived'[j] # e
      BY <1>10, <3>1
    <3>3. j # n + 1
      BY <1>5, <3>2
    <3>4. j \in 1 .. n /\ arrived'[j] = arrived[j]
      BY <1>5, <1>10, <3>3
    <3> QED  BY <1>10, <2>1, <2>2, <2>4, <3>1, <3>4 DEF OrderInv, n, m
  <2> QED  BY <1>6, <2>3, <2>4
<1>11. FirstRunsInOrder'
  <2> SUFFICES ASSUME NEW i \in 1 .. n + 1, NEW j \in 1 .. n + 1, i < j, runs[arrived'[j]] > 0
               PROVE  runs[arrived'[i]] > 0
    BY <1>2, <1>5 DEF FirstRunsInOrder
  <2>1. j \in 1 .. n /\ i \in 1 .. n
    BY <1>3, <1>5
  <2> QED  BY <1>5, <2>1 DEF OrderInv, FirstRunsInOrder, n
<1> QED  BY <1>2, <1>5, <1>6, <1>9, <1>10, <1>11 DEF OrderInv

\* A worker takes the head: of the events that were never run the first to arrive.
LEMMA GetOrder ==
  ASSUME IInv, OrderInv, NEW w \in Workers, Get(w)
  PROVE  OrderInv'
<1> DEFINE e == Head(queue)
<1>1. /\ queue \in Seq(Events) /\ queue # <<>> /\ arrived \in Seq(Events)
      /\ runs \in [Events -> Nat]
  BY ConstantsAssumption DEF IInv, TypeOK, Get
<1>2. /\ Len(queue) \in Nat \ {0} /\ e = queue[1] /\ e \in Events
      /\ Len(Tail(queue)) = Len(queue) - 1
      /\ \A p \in 1 .. Len(queue) - 1 : Tail(queue)[p] = queue[p + 1]
  BY <1>1
<1>3. /\ queue' = Tail(queue) /\ processing' = processing \cup {e}
      /\ runs' = [runs EXCEPT ![e] = @ + 1] /\ UNCHANGED <<delayed, arrived>>
  BY DEF Get, informerVars
<1> HIDE DEF e
<1>4. runs'[e] > 0 /\ \A f \in Events : f # e => runs'[f] = runs[f]
  BY <1>1, <1>2, <1>3
<1>5. Len(arrived) \in Nat /\ \A i \in 1 .. Len(arrived) : arrived[i] \in Events
  BY <1>1
<1>6. \A f \in processing' \cup delayed' : runs'[f] > 0
  BY <1>3, <1>4 DEF OrderInv, IInv, TypeOK
<1>7. ASSUME NEW p \in 1 .. Len(queue'), NEW q \in 1 .. Len(queue'),
             NEW i \in 1 .. Len(arrived), NEW j \in 1 .. Len(arrived),
             queue'[p] = arrived[i], queue'[q] = arrived[j], i < j,
             runs'[arrived[i]] = 0, runs'[arrived[j]] = 0
      PROVE  p < q
  <2>1. /\ p + 1 \in 1 .. Len(queue) /\ queue[p + 1] = arrived[i]
        /\ q + 1 \in 1 .. Len(queue) /\ queue[q + 1] = arrived[j]
    BY <1>2, <1>3, <1>7
  <2>2. runs[arrived[i]] = 0 /\ runs[arrived[j]] = 0
    BY <1>4, <1>5, <1>7
  <2>3. p + 1 < q + 1
    BY <1>7, <2>1, <2>2 DEF OrderInv
  <2> QED  BY <1>2, <2>1, <2>3
<1>8. FirstRunsInOrder'
  <2> SUFFICES ASSUME NEW i \in 1 .. Len(arrived), NEW j \in 1 .. Len(arrived), i < j,
                      runs'[arrived[j]] > 0, runs'[arrived[i]] = 0
               PROVE  FALSE
    <3>1. runs' \in [Events -> Nat]
      BY <1>1, <1>2, <1>3
    <3> QED  BY <1>3, <1>5, <3>1 DEF FirstRunsInOrder
  <2>1. arrived[i] # e /\ runs[arrived[i]] = 0
    BY <1>4, <1>5
  <2>2. CASE arrived[j] # e \/ runs[e] > 0
    <3>1. runs[arrived[j]] > 0
      BY <1>4, <1>5, <2>2
    <3> QED  BY <2>1, <3>1 DEF OrderInv, FirstRunsInOrder
  <2>3. CASE arrived[j] = e /\ runs[e] = 0
    <3>1. PICK p \in 1 .. Len(queue) : queue[p] = arrived[i]
      BY <1>5, <2>1 DEF IInv, BacklogInv, ArrivedEvents
    <3>2. 1 \in 1 .. Len(queue) /\ queue[1] = arrived[j]
      BY <1>2, <2>3
    <3>3. p < 1
      BY <2>1, <2>3, <3>1, <3>2 DEF OrderInv
    <3> QED  BY <3>1, <3>3
  <2> QED  BY <1>1, <1>2, <2>2, <2>3
<1> QED  BY <1>3, <1>6, <1>7, <1>8 DEF OrderInv

\* Nothing that counts for the order changes.
LEMMA OrderFrame ==
  ASSUME OrderInv, UNCHANGED <<arrived, queue, runs, processing, delayed>>
  PROVE  OrderInv'
  BY DEF OrderInv, FirstRunsInOrder

\* Add puts the event behind the others, or does not change the queue.
LEMMA AddAppends ==
  ASSUME NEW e, Add(e)
  PROVE  queue' = queue \/ queue' = Append(queue, e)
  BY DEF Add

\* Every step keeps the order.
LEMMA NextOrder == IInv /\ OrderInv /\ [Next]_vars => OrderInv'
<1> SUFFICES ASSUME IInv, OrderInv, [Next]_vars PROVE OrderInv'
  OBVIOUS
<1>1. CASE UNCHANGED vars
  BY <1>1, OrderFrame DEF vars, queueVars, informerVars, eventVars
<1>2. CASE InformerSync \/ Stop \/ RunReturns
  BY <1>2, OrderFrame DEF InformerSync, Stop, RunReturns, queueVars, eventVars, informerVars
<1>3. ASSUME NEW w \in Workers, Worker(w) PROVE OrderInv'
  <2>1. CASE Get(w)
    BY <2>1, GetOrder
  <2>2. CASE ~Get(w)
    <3>1. UNCHANGED <<arrived, queue, runs, processing, delayed>>
      BY <1>3, <2>2 DEF Worker, Handler, SyncSucceeds, SyncFails, GetQuits,
         ShutDownWithDrain, Recheck, Send, CreateChildEvent, ChildSendClose,
         SendFinal, Close, Return, eventVars, queueVars, informerVars
    <3> QED  BY <3>1, OrderFrame
  <2> QED  BY <2>1, <2>2
<1>4. ASSUME NEW e \in Events, StatusHandler(e) PROVE OrderInv'
  <2>1. CASE OnCreateChild(e) \/ OnSkipOrCompleted(e) \/ OnMaxRetryReached(e)
    BY <2>1, OrderFrame DEF OnCreateChild, OnSkipOrCompleted, OnMaxRetryReached,
       eventVars, queueVars, informerVars
  <2>2. CASE OnRetry(e) \/ StatusDone(e)
    <3>1. e \in processing
      BY <2>2 DEF OnRetry, StatusDone, Receive, IInv, RangingInv
    <3>2. runs[e] > 0
      BY <3>1 DEF OrderInv
    <3>3. /\ UNCHANGED <<arrived, runs>> /\ processing' \subseteq processing
          /\ delayed' \subseteq delayed \cup {e}
      BY <2>2 DEF OnRetry, StatusDone, Done, informerVars
    <3>4. queue' = queue \/ queue' = Append(queue, e)
      BY <2>2, AddAppends DEF OnRetry, StatusDone, Done
    <3> QED  BY <3>2, <3>3, <3>4, OrderKept
  <2> QED  BY <1>4, <2>1, <2>2 DEF StatusHandler
<1>5. ASSUME NEW e \in Events, DelayExpires(e) PROVE OrderInv'
  <2>1. runs[e] > 0
    BY <1>5 DEF DelayExpires, OrderInv
  <2>2. /\ UNCHANGED <<arrived, runs, processing>> /\ delayed' \subseteq delayed /\ Add(e)
    BY <1>5 DEF DelayExpires, informerVars, eventVars
  <2> QED  BY <2>1, <2>2, AddAppends, OrderKept
<1>6. ASSUME NEW e \in Events, NEW r \in Runs, ChildStatusHandler(e, r) PROVE OrderInv'
  BY <1>6, OrderFrame DEF ChildStatusHandler, ChildReceive, ChildDone, DoneChild,
     queueVars, informerVars, eventVars
<1> QED  BY <1>1, <1>2, <1>3, <1>4, <1>5, <1>6, NotifyOrder DEF Next

\* Whatever is retried or put back in between, workers start the first runs in the
\* order in which the informer delivered the notifications.
THEOREM FirstRunsAreInOrder == Spec => []FirstRunsInOrder
<1>1. OrderInv => FirstRunsInOrder
  BY DEF OrderInv
<1> QED  BY <1>1, Inductive, InitOrder, NextOrder, PTL DEF Spec

-----------------------------------------------------------------------------
(* Controller implements EventLifecycle.                                    *)

phases == [e \in Events |-> Phase(e)]

\* Steps that keep these variables keep every event's phase.
LEMMA PhaseFrame ==
  UNCHANGED <<processing, dirty, delayed, arrived>> => phases' = phases
  BY DEF phases, Phase, ArrivedEvents

\* Initial states map to initial states.
LEMMA LifecycleInit == Init => Lifecycle!Init
  BY DEF Init, Lifecycle!Init, Phase, ArrivedEvents

\* What a step of the lifecycle is, in the terms of phases.
LEMMA LifecycleStep ==
  ASSUME NEW e \in Events, phases' = [phases EXCEPT ![e] = Phase(e)'],
         \/ Phase(e) = "new" /\ Phase(e)' = "waiting" /\ runs' = runs
         \/ Phase(e) = "waiting" /\ Phase(e)' = "running" /\ runs[e] <= MaxRetry
            /\ runs' = [runs EXCEPT ![e] = @ + 1]
         \/ Phase(e) = "running" /\ Phase(e)' = "finished" /\ runs' = runs
         \/ Phase(e) = "running" /\ Phase(e)' = "waiting" /\ runs[e] <= MaxRetry
            /\ runs' = runs
  PROVE  Lifecycle!Next
  BY DEF phases, Lifecycle!Next, Lifecycle!Accept, Lifecycle!Start,
     Lifecycle!Finish, Lifecycle!AwaitRetry

\* A notification is the lifecycle's Accept: its event becomes waiting.
LEMMA NotifyLifecycle ==
  ASSUME IInv, NEW e \in Events, Notify(e)
  PROVE  Lifecycle!Next
<1>1. /\ ~shuttingDown /\ e \notin ArrivedEvents /\ arrived' = Append(arrived, e)
      /\ Add(e) /\ UNCHANGED <<processing, delayed, runs>>
  BY DEF Notify, eventVars
<1>2. e \notin dirty \cup delayed \cup processing
  BY <1>1 DEF IInv, BacklogInv
<1>3. dirty' = dirty \cup {e}
  BY <1>1, AddEffect DEF IInv
<1>4. \A f \in Events : f # e => (f \in ArrivedEvents' <=> f \in ArrivedEvents)
  <2>1. arrived \in Seq(Events)
    BY DEF IInv, TypeOK
  <2>2. /\ Len(arrived) \in Nat /\ Len(arrived') = Len(arrived) + 1
        /\ \A i \in 1 .. Len(arrived) : arrived'[i] = arrived[i]
        /\ arrived'[Len(arrived) + 1] = e
    BY <1>1, <2>1, AppendFacts
  <2>3. \A i \in 1 .. Len(arrived') : i \in 1 .. Len(arrived) \/ i = Len(arrived) + 1
    BY <2>2
  <2>4. \A i \in 1 .. Len(arrived) : i \in 1 .. Len(arrived')
    BY <2>2
  <2>5. QED
    BY <2>2, <2>3, <2>4 DEF ArrivedEvents
<1>5. Phase(e) = "new" /\ Phase(e)' = "waiting"
  BY <1>1, <1>2, <1>3 DEF Phase
<1>6. \A f \in Events : f # e => Phase(f)' = Phase(f)
  BY <1>1, <1>3, <1>4 DEF Phase
<1>7. phases' = [phases EXCEPT ![e] = Phase(e)']
  BY <1>6 DEF phases
<1>8. QED
  BY <1>1, <1>5, <1>7, LifecycleStep

\* Get is the lifecycle's Start.
LEMMA GetLifecycle ==
  ASSUME IInv, NEW w \in Workers, Get(w)
  PROVE  Lifecycle!Next
<1>1. PICK e \in Events : e = Head(queue) /\ queue # <<>>
  BY DEF IInv, TypeOK, Get
<1>2. e \in dirty /\ e \notin processing
  BY <1>1 DEF IInv, TypeOK, QueueInv
<1>3. runs[e] <= MaxRetry
  BY <1>2, ConstantsAssumption DEF IInv, TypeOK, RetryInv
<1>4. /\ processing' = processing \cup {e} /\ dirty' = dirty \ {e}
      /\ runs' = [runs EXCEPT ![e] = @ + 1] /\ UNCHANGED <<arrived, delayed>>
  BY <1>1 DEF Get, informerVars
<1>5. Phase(e) = "waiting" /\ Phase(e)' = "running"
  BY <1>2, <1>4 DEF Phase
<1>6. \A f \in Events : f # e => Phase(f)' = Phase(f)
  BY <1>4 DEF Phase, ArrivedEvents
<1>7. phases' = [phases EXCEPT ![e] = Phase(e)']
  BY <1>6 DEF phases
<1>8. QED
  BY <1>3, <1>4, <1>5, <1>7, LifecycleStep

\* The end of a status goroutine is Finish, or AwaitRetry after a granted retry.
LEMMA StatusDoneLifecycle ==
  ASSUME IInv, NEW e \in Events, StatusDone(e)
  PROVE  Lifecycle!Next
<1>1. /\ e \in processing /\ processing' = processing \ {e}
      /\ UNCHANGED <<dirty, delayed, arrived, runs>>
  BY DEF IInv, RangingInv, StatusDone, Done, informerVars
<1>2. e \in ArrivedEvents
  BY <1>1 DEF IInv, BacklogInv
<1>3. e \in dirty \cup delayed => runs[e] <= MaxRetry
  BY ConstantsAssumption DEF IInv, TypeOK, RetryInv
<1>4. /\ Phase(e) = "running"
      /\ Phase(e)' = IF e \in dirty \cup delayed THEN "waiting" ELSE "finished"
  BY <1>1, <1>2 DEF Phase, ArrivedEvents
<1>5. \A f \in Events : f # e => Phase(f)' = Phase(f)
  BY <1>1 DEF Phase, ArrivedEvents
<1>6. phases' = [phases EXCEPT ![e] = Phase(e)']
  BY <1>5 DEF phases
<1>7. QED
  BY <1>1, <1>3, <1>4, <1>6, LifecycleStep

\* A granted retry and its timer leave every event's phase as it is.
LEMMA RetryLifecycle ==
  ASSUME IInv, NEW e \in Events, OnRetry(e) \/ DelayExpires(e)
  PROVE  phases' = phases /\ runs' = runs
<1>1. UNCHANGED <<processing, arrived, runs>>
  BY DEF OnRetry, DelayExpires, informerVars, eventVars
<1>2. CASE OnRetry(e)
  <2>1. e \in processing
    BY <1>2 DEF IInv, RangingInv, OnRetry, Receive
  <2>2. dirty' \cup delayed' \subseteq dirty \cup delayed \cup {e}
    BY <1>2 DEF OnRetry, Add
  <2>3. dirty \cup delayed \subseteq dirty' \cup delayed'
    BY <1>2 DEF OnRetry, Add
  <2>4. QED
    BY <1>1, <2>1, <2>2, <2>3 DEF phases, Phase, ArrivedEvents
<1>3. CASE DelayExpires(e)
  <2>1. e \in delayed /\ delayed' = delayed \ {e} /\ dirty' = dirty \cup {e}
    BY <1>3, AddEffect DEF IInv, DelayExpires
  <2>2. QED
    BY <1>1, <2>1 DEF phases, Phase, ArrivedEvents
<1>4. QED
  BY <1>1, <1>2, <1>3

\* Every step maps to a step of the lifecycle or to a stutter.
LEMMA NextLifecycle ==
  IInv /\ [Next]_vars => [Lifecycle!Next]_<<phases, runs>>
<1> SUFFICES ASSUME IInv, [Next]_vars
             PROVE  Lifecycle!Next \/ UNCHANGED <<phases, runs>>
  OBVIOUS
<1>1. CASE UNCHANGED vars \/ InformerSync \/ Stop \/ RunReturns
  <2>1. UNCHANGED <<processing, dirty, delayed, arrived, runs>>
    BY <1>1 DEF vars, queueVars, informerVars, eventVars, InformerSync, Stop, RunReturns
  <2>2. QED
    BY <2>1, PhaseFrame
<1>2. ASSUME NEW w \in Workers, Worker(w)
      PROVE  Lifecycle!Next \/ UNCHANGED <<phases, runs>>
  <2>1. CASE Get(w)
    BY <2>1, GetLifecycle
  <2>2. CASE ~Get(w)
    <3>1. UNCHANGED <<processing, dirty, delayed, arrived, runs>>
      BY <1>2, <2>2 DEF Worker, Handler, SyncSucceeds, SyncFails, GetQuits,
         ShutDownWithDrain, Recheck, Send, CreateChildEvent, ChildSendClose,
         SendFinal, Close, Return, eventVars, queueVars, informerVars
    <3>2. QED
      BY <3>1, PhaseFrame
  <2>3. QED
    BY <2>1, <2>2
<1>3. ASSUME NEW e \in Events, Notify(e) \/ StatusHandler(e) \/ DelayExpires(e)
      PROVE  Lifecycle!Next \/ UNCHANGED <<phases, runs>>
  <2>1. CASE Notify(e) \/ StatusDone(e)
    BY <2>1, NotifyLifecycle, StatusDoneLifecycle
  <2>2. CASE OnRetry(e) \/ DelayExpires(e)
    BY <2>2, RetryLifecycle
  <2>3. CASE OnCreateChild(e) \/ OnSkipOrCompleted(e) \/ OnMaxRetryReached(e)
    <3>1. UNCHANGED <<processing, dirty, delayed, arrived, runs>>
      BY <2>3 DEF OnCreateChild, OnSkipOrCompleted, OnMaxRetryReached, eventVars,
         queueVars, informerVars
    <3>2. QED
      BY <3>1, PhaseFrame
  <2>4. QED
    BY <1>3, <2>1, <2>2, <2>3 DEF StatusHandler
<1>4. ASSUME NEW e \in Events, NEW r \in Runs, ChildStatusHandler(e, r)
      PROVE  UNCHANGED <<phases, runs>>
  <2>1. UNCHANGED <<processing, dirty, delayed, arrived, runs>>
    BY <1>4 DEF ChildStatusHandler, ChildReceive, ChildDone, DoneChild, eventVars,
       queueVars, informerVars
  <2>2. QED
    BY <2>1, PhaseFrame
<1>5. QED
  BY <1>1, <1>2, <1>3, <1>4 DEF Next

\* Queue, workers, status goroutines and shutdown together implement the simple
\* lifecycle of an event, for every number of events, workers and retries.
THEOREM Refinement == Spec => ImplementsLifecycle
<1>1. Init => Lifecycle!Init
  BY LifecycleInit
<1>2. IInv /\ [Next]_vars => [Lifecycle!Next]_<<phases, runs>>
  BY NextLifecycle
<1>3. QED
  BY <1>1, <1>2, Inductive, PTL DEF Spec, ImplementsLifecycle, Lifecycle!Spec, phases
===============================================================================
