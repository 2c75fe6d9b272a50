------------------------------ MODULE Controller ------------------------------
(***************************************************************************)
(* The controller framework of internal/controller: one informer feeding a *)
(* client-go workqueue, a fixed number of workers that run the delegator's *)
(* handlers, and one status goroutine per handler run that ranges over the *)
(* run's status channel, triggers OnStatus, asks for retries, starts child *)
(* status goroutines and finally marks the item done in the queue.         *)
(*                                                                         *)
(* An event is one *InformerCacheObj.  The queue holds pointers, so two    *)
(* notifications of the same Kubernetes object are two distinct events.    *)
(***************************************************************************)
EXTENDS Naturals, Sequences

CONSTANTS
    Events,     \* notifications the informer may deliver
    Workers,    \* the worker goroutines (workerConcurrency)
    NoEvent,    \* "no event", for an idle worker
    MaxRetry,   \* MaxRetryCount of the statuses a handler sends
    ChanCap,    \* DefaultEventStatusBufferedChannelSize
    MaxSends    \* bound: statuses a run sends before its final one

ASSUME ConstantsAssumption ==
    /\ NoEvent \notin Events
    /\ MaxRetry \in Nat
    /\ ChanCap \in Nat \ {0}
    /\ MaxSends \in Nat

(***************************************************************************)
(* "Completed" stands for every status that only triggers OnStatus:        *)
(* Completed, Failure, PartialCompleted and Processing without retry.      *)
(***************************************************************************)
Status == {"CreateChild", "Skip", "Completed", "Retry"}
FinalStatus == {"Skip", "Completed", "Retry"}
Runs == 1 .. (MaxRetry + 1)

VARIABLES
    arrived,    \* notifications delivered so far, in order
    queue, dirty, processing, delayed, shuttingDown, drain,   \* the workqueue
    synced, stopped,        \* informer.HasSynced, and stopCh closed
    pc, item,               \* each worker's control point and its event
    statusChan, closed,     \* channel of the event's latest run
    sends,                  \* non-final statuses the latest run has sent
    ranging,                \* events whose status goroutine is alive
    runs, retryCount,       \* handler runs started, InformerCacheObj.retryCount
    gaveUp,                 \* events whose OnStatus got MaxRetryReached
    childChan, childStatus  \* child channel and child goroutine of each run

queueVars == <<queue, dirty, processing, delayed, shuttingDown, drain>>
informerVars == <<arrived, synced, stopped>>
workerVars == <<pc, item>>
chanVars == <<statusChan, closed, sends>>
eventVars == <<ranging, runs, retryCount, gaveUp>>
childVars == <<childChan, childStatus>>
vars == <<queueVars, informerVars, workerVars, chanVars, eventVars, childVars>>

PC == {"sync", "get", "handle", "close", "return", "quit", "wait", "woken",
       "failed", "done"}
ArrivedEvents == {arrived[i] : i \in 1 .. Len(arrived)}

Init ==
    /\ arrived = <<>> /\ synced = FALSE /\ stopped = FALSE
    /\ queue = <<>> /\ dirty = {} /\ processing = {} /\ delayed = {}
    /\ shuttingDown = FALSE /\ drain = FALSE
    /\ pc = [w \in Workers |-> "sync"] /\ item = [w \in Workers |-> NoEvent]
    /\ statusChan = [e \in Events |-> <<>>]
    /\ closed = [e \in Events |-> FALSE]
    /\ sends = [e \in Events |-> 0]
    /\ ranging = {} /\ gaveUp = {}
    /\ runs = [e \in Events |-> 0]
    /\ retryCount = [e \in Events |-> 0]
    /\ childChan = [e \in Events |-> [r \in Runs |-> "none"]]
    /\ childStatus = [e \in Events |-> [r \in Runs |-> "none"]]

-----------------------------------------------------------------------------
(* The workqueue of client-go.  Add, Done and the condition variable that   *)
(* Get and ShutDownWithDrain share; Signal wakes one waiter, Broadcast all. *)

\* Mutant of Add: an item being processed is queued at once.
AddWhileProcessing(e) ==
    IF shuttingDown \/ e \in dirty
    THEN UNCHANGED <<queue, dirty>>
    ELSE dirty' = dirty \cup {e} /\ queue' = Append(queue, e)

\* Mutant of Add: the newest item is taken first.
AddInFront(e) ==
    IF shuttingDown \/ e \in dirty
    THEN UNCHANGED <<queue, dirty>>
    ELSE /\ dirty' = dirty \cup {e}
         /\ queue' = IF e \in processing THEN queue ELSE <<e>> \o queue

Add(e) ==
    IF shuttingDown \/ e \in dirty
    THEN UNCHANGED <<queue, dirty>>
    ELSE /\ dirty' = dirty \cup {e}
         /\ queue' = IF e \in processing THEN queue ELSE Append(queue, e)

Waiting == {w \in Workers : pc[w] = "wait"}

Signal ==
    IF Waiting = {}
    THEN UNCHANGED pc
    ELSE \E w \in Waiting : pc' = [pc EXCEPT ![w] = "woken"]

\* Mutant of Done: an item added while it was processed is not queued again.
DoneForgetsDirty(e) ==
    /\ processing' = processing \ {e}
    /\ IF processing' = {} THEN Signal ELSE UNCHANGED pc
    /\ UNCHANGED <<queue, dirty>>

\* Mutant of Done: nobody is woken.
DoneWithoutSignal(e) ==
    /\ processing' = processing \ {e}
    /\ queue' = IF e \in dirty THEN Append(queue, e) ELSE queue
    /\ UNCHANGED <<dirty, pc>>

Done(e) ==
    /\ processing' = processing \ {e}
    /\ queue' = IF e \in dirty THEN Append(queue, e) ELSE queue
    /\ IF e \in dirty \/ processing' = {} THEN Signal ELSE UNCHANGED pc
    /\ UNCHANGED dirty

\* A child item is never in the queue's sets, so Done only signals.
DoneChild ==
    /\ IF processing = {} THEN Signal ELSE UNCHANGED pc
    /\ UNCHANGED <<queue, dirty, processing>>

-----------------------------------------------------------------------------
(* The informer and Run.                                                    *)

\* AddFunc, UpdateFunc or DeleteFunc: a fresh item with a fresh channel.
Notify(e) ==
    /\ ~shuttingDown
    /\ e \notin ArrivedEvents
    /\ arrived' = Append(arrived, e)
    /\ Add(e)
    /\ UNCHANGED <<processing, delayed, shuttingDown, drain, synced, stopped>>
    /\ UNCHANGED <<workerVars, chanVars, eventVars, childVars>>

InformerSync ==
    /\ ~synced /\ ~stopped
    /\ synced' = TRUE
    /\ UNCHANGED <<arrived, stopped>>
    /\ UNCHANGED <<queueVars, workerVars, chanVars, eventVars, childVars>>

\* StopAllControllers closes the controller's StopCh.
Stop ==
    /\ ~stopped
    /\ stopped' = TRUE
    /\ UNCHANGED <<arrived, synced>>
    /\ UNCHANGED <<queueVars, workerVars, chanVars, eventVars, childVars>>

\* informer.Run returns and the deferred queue.ShutDown() runs.
RunReturns ==
    /\ stopped /\ ~shuttingDown
    /\ shuttingDown' = TRUE
    /\ drain' = FALSE
    /\ UNCHANGED <<queue, dirty, processing, delayed>>
    /\ UNCHANGED <<informerVars, workerVars, chanVars, eventVars, childVars>>

-----------------------------------------------------------------------------
(* A worker.                                                                *)

SyncSucceeds(w) ==
    /\ pc[w] = "sync" /\ synced
    /\ pc' = [pc EXCEPT ![w] = "get"]
    /\ UNCHANGED <<queueVars, informerVars, item, chanVars, eventVars, childVars>>

SyncFails(w) ==
    /\ pc[w] = "sync" /\ stopped
    /\ pc' = [pc EXCEPT ![w] = "failed"]
    /\ UNCHANGED <<queueVars, informerVars, item, chanVars, eventVars, childVars>>

\* queue.Get() returns an item, even while shutting down; processItem starts
\* the status goroutine and calls the handler with the item's channel.
Get(w) ==
    /\ pc[w] = "get"
    /\ queue # <<>>
    /\ LET e == Head(queue)
       IN  /\ queue' = Tail(queue)
           /\ processing' = processing \cup {e}
           /\ dirty' = dirty \ {e}
           /\ item' = [item EXCEPT ![w] = e]
           /\ ranging' = ranging \cup {e}
           /\ runs' = [runs EXCEPT ![e] = @ + 1]
           /\ statusChan' = [statusChan EXCEPT ![e] = <<>>]
           /\ closed' = [closed EXCEPT ![e] = FALSE]
           /\ sends' = [sends EXCEPT ![e] = 0]
    /\ pc' = [pc EXCEPT ![w] = "handle"]
    /\ UNCHANGED <<delayed, shuttingDown, drain, informerVars, retryCount, gaveUp, childVars>>

\* Mutant of GetQuits: a worker leaves as soon as the queue is shut down.
GetQuitsAtOnce(w) ==
    /\ pc[w] = "get" /\ shuttingDown
    /\ pc' = [pc EXCEPT ![w] = "quit"]
    /\ UNCHANGED <<queueVars, informerVars, item, chanVars, eventVars, childVars>>

GetQuits(w) ==
    /\ pc[w] = "get"
    /\ queue = <<>> /\ shuttingDown
    /\ pc' = [pc EXCEPT ![w] = "quit"]
    /\ UNCHANGED <<queueVars, informerVars, item, chanVars, eventVars, childVars>>

\* Mutant of ShutDownWithDrain: ShutDown in its place.
ShutDownWithoutDrain(w) ==
    /\ pc[w] = "quit"
    /\ drain' = FALSE
    /\ shuttingDown' = TRUE
    /\ pc' = [v \in Workers |->
                 IF v = w THEN "done" ELSE IF pc[v] = "wait" THEN "woken" ELSE pc[v]]
    /\ UNCHANGED <<queue, dirty, processing, delayed>>
    /\ UNCHANGED <<informerVars, item, chanVars, eventVars, childVars>>

\* queue.ShutDownWithDrain(): Broadcast, then wait while items are processed.
ShutDownWithDrain(w) ==
    /\ pc[w] = "quit"
    /\ drain' = TRUE
    /\ shuttingDown' = TRUE
    /\ pc' = [v \in Workers |->
                 IF v = w THEN IF processing = {} THEN "done" ELSE "wait"
                 ELSE IF pc[v] = "wait" THEN "woken" ELSE pc[v]]
    /\ UNCHANGED <<queue, dirty, processing, delayed>>
    /\ UNCHANGED <<informerVars, item, chanVars, eventVars, childVars>>

\* A woken waiter tests the condition of the loop in ShutDownWithDrain again.
Recheck(w) ==
    /\ pc[w] = "woken"
    /\ pc' = [pc EXCEPT ![w] = IF processing # {} /\ drain THEN "wait" ELSE "done"]
    /\ UNCHANGED <<queueVars, informerVars, item, chanVars, eventVars, childVars>>

-----------------------------------------------------------------------------
(* The handler, run by worker w.  A send blocks while the channel is full.  *)

Emit(e, s) ==
    /\ Len(statusChan[e]) < ChanCap
    /\ statusChan' = [statusChan EXCEPT ![e] = Append(@, s)]

\* eventStatus.Send(statusChan)
Send(w) ==
    /\ pc[w] = "handle"
    /\ sends[item[w]] < MaxSends
    /\ Emit(item[w], "Completed")
    /\ sends' = [sends EXCEPT ![item[w]] = @ + 1]
    /\ UNCHANGED <<queueVars, informerVars, workerVars, closed, eventVars, childVars>>

\* CreateChildEvent: a new channel, announced on the parent's channel.
CreateChildEvent(w) ==
    /\ pc[w] = "handle"
    /\ sends[item[w]] < MaxSends
    /\ childChan[item[w]][runs[item[w]]] = "none"
    /\ Emit(item[w], "CreateChild")
    /\ sends' = [sends EXCEPT ![item[w]] = @ + 1]
    /\ childChan' = [childChan EXCEPT ![item[w]][runs[item[w]]] = "open"]
    /\ UNCHANGED <<queueVars, informerVars, workerVars, closed, eventVars, childStatus>>

\* The handler called with the child's channel ends with SkipClose or
\* SendClose on it: one status, then the channel is closed.
ChildSendClose(w) ==
    /\ pc[w] = "handle"
    /\ childChan[item[w]][runs[item[w]]] = "open"
    /\ childChan' = [childChan EXCEPT ![item[w]][runs[item[w]]] = "closed"]
    /\ UNCHANGED <<queueVars, informerVars, workerVars, chanVars, eventVars, childStatus>>

\* SkipClose or SendClose: the send, and then the close.
SendFinal(w) ==
    /\ pc[w] = "handle"
    /\ childChan[item[w]][runs[item[w]]] # "open"
    /\ \E s \in FinalStatus : Emit(item[w], s)
    /\ pc' = [pc EXCEPT ![w] = "close"]
    /\ UNCHANGED <<queueVars, informerVars, item, closed, sends, eventVars, childVars>>

\* Mutant of Close: the handler returns without closing the channel.
CloseForgotten(w) ==
    /\ pc[w] = "close"
    /\ pc' = [pc EXCEPT ![w] = "return"]
    /\ UNCHANGED <<queueVars, informerVars, item, chanVars, eventVars, childVars>>

Close(w) ==
    /\ pc[w] = "close"
    /\ closed' = [closed EXCEPT ![item[w]] = TRUE]
    /\ pc' = [pc EXCEPT ![w] = "return"]
    /\ UNCHANGED <<queueVars, informerVars, item, statusChan, sends, eventVars, childVars>>

Return(w) ==
    /\ pc[w] = "return"
    /\ pc' = [pc EXCEPT ![w] = "get"]
    /\ item' = [item EXCEPT ![w] = NoEvent]
    /\ UNCHANGED <<queueVars, informerVars, chanVars, eventVars, childVars>>

-----------------------------------------------------------------------------
(* The status goroutine that handleStatus starts for event e.               *)

Receive(e, s) ==
    /\ e \in ranging
    /\ statusChan[e] # <<>>
    /\ Head(statusChan[e]) = s
    /\ statusChan' = [statusChan EXCEPT ![e] = Tail(@)]
    /\ UNCHANGED <<closed, sends>>

OnCreateChild(e) ==
    /\ Receive(e, "CreateChild")
    /\ childStatus' = [childStatus EXCEPT ![e][runs[e]] = "ranging"]
    /\ UNCHANGED <<queueVars, informerVars, workerVars, eventVars, childChan>>

OnSkipOrCompleted(e) ==
    /\ \E s \in {"Skip", "Completed"} : Receive(e, s)
    /\ UNCHANGED <<queueVars, informerVars, workerVars, eventVars, childVars>>

\* Mutant of OnRetry: retryCount <= MaxRetryCount.
OnRetryOnceMore(e) ==
    /\ Receive(e, "Retry")
    /\ retryCount[e] <= MaxRetry
    /\ retryCount' = [retryCount EXCEPT ![e] = @ + 1]
    /\ Add(e)
    /\ UNCHANGED <<processing, delayed, shuttingDown, drain, informerVars, workerVars>>
    /\ UNCHANGED <<ranging, runs, gaveUp, childVars>>

\* Mutant of OnRetry: the retry is not counted.
OnRetryUncounted(e) ==
    /\ Receive(e, "Retry")
    /\ retryCount[e] < MaxRetry
    /\ Add(e)
    /\ UNCHANGED <<processing, delayed, shuttingDown, drain, informerVars, workerVars>>
    /\ UNCHANGED <<ranging, runs, retryCount, gaveUp, childVars>>

\* queue.Add(item), or queue.AddAfter(item, RetryAfter) when RetryAfter > 0.
OnRetry(e) ==
    /\ Receive(e, "Retry")
    /\ retryCount[e] < MaxRetry
    /\ retryCount' = [retryCount EXCEPT ![e] = @ + 1]
    /\ \/ Add(e) /\ UNCHANGED delayed
       \/ /\ delayed' = IF shuttingDown THEN delayed ELSE delayed \cup {e}
          /\ UNCHANGED <<queue, dirty>>
    /\ UNCHANGED <<processing, shuttingDown, drain, informerVars, workerVars>>
    /\ UNCHANGED <<ranging, runs, gaveUp, childVars>>

\* Mutant of OnMaxRetryReached: the item is added although it was given up.
OnMaxRetryReachedAdds(e) ==
    /\ Receive(e, "Retry")
    /\ retryCount[e] >= MaxRetry
    /\ gaveUp' = gaveUp \cup {e}
    /\ Add(e)
    /\ UNCHANGED <<processing, delayed, shuttingDown, drain, informerVars, workerVars>>
    /\ UNCHANGED <<ranging, runs, retryCount, childVars>>

OnMaxRetryReached(e) ==
    /\ Receive(e, "Retry")
    /\ retryCount[e] >= MaxRetry
    /\ gaveUp' = gaveUp \cup {e}
    /\ UNCHANGED <<queueVars, informerVars, workerVars, ranging, runs, retryCount, childVars>>

\* The range loop ends on a closed, empty channel; the deferred Done runs.
StatusDone(e) ==
    /\ e \in ranging
    /\ statusChan[e] = <<>> /\ closed[e]
    /\ ranging' = ranging \ {e}
    /\ Done(e)
    /\ UNCHANGED <<delayed, shuttingDown, drain, informerVars, item, chanVars>>
    /\ UNCHANGED <<runs, retryCount, gaveUp, childVars>>

\* The delaying queue's loop; it exits, dropping its items, on ShutDown.
DelayExpires(e) ==
    /\ e \in delayed /\ ~shuttingDown
    /\ delayed' = delayed \ {e}
    /\ Add(e)
    /\ UNCHANGED <<processing, shuttingDown, drain, informerVars, workerVars>>
    /\ UNCHANGED <<chanVars, eventVars, childVars>>

\* The child's status goroutine: its status, then the end of its channel.
ChildReceive(e, r) ==
    /\ childStatus[e][r] = "ranging" /\ childChan[e][r] = "closed"
    /\ childStatus' = [childStatus EXCEPT ![e][r] = "received"]
    /\ UNCHANGED <<queueVars, informerVars, workerVars, chanVars, eventVars, childChan>>

ChildDone(e, r) ==
    /\ childStatus[e][r] = "received"
    /\ childStatus' = [childStatus EXCEPT ![e][r] = "done"]
    /\ DoneChild
    /\ UNCHANGED <<delayed, shuttingDown, drain, informerVars, item, chanVars>>
    /\ UNCHANGED <<eventVars, childChan>>

-----------------------------------------------------------------------------

Handler(w) ==
    \/ Send(w) \/ CreateChildEvent(w) \/ ChildSendClose(w)
    \/ SendFinal(w) \/ Close(w) \/ Return(w)

Worker(w) ==
    \/ SyncSucceeds(w) \/ SyncFails(w)
    \/ Get(w) \/ GetQuits(w) \/ ShutDownWithDrain(w) \/ Recheck(w)
    \/ Handler(w)

StatusHandler(e) ==
    \/ OnCreateChild(e) \/ OnSkipOrCompleted(e) \/ OnRetry(e)
    \/ OnMaxRetryReached(e) \/ StatusDone(e)

ChildStatusHandler(e, r) == ChildReceive(e, r) \/ ChildDone(e, r)

Next ==
    \/ InformerSync \/ Stop \/ RunReturns
    \/ \E w \in Workers : Worker(w)
    \/ \E e \in Events : Notify(e) \/ StatusHandler(e) \/ DelayExpires(e)
    \/ \E e \in Events, r \in Runs : ChildStatusHandler(e, r)

Spec == Init /\ [][Next]_vars

(***************************************************************************)
(* Goroutines that can run are eventually scheduled, informer.Run returns  *)
(* once its stop channel is closed and timers fire.  Nothing forces the    *)
(* informer to sync, to deliver a notification or to be stopped.           *)
(***************************************************************************)
Fairness ==
    /\ WF_vars(RunReturns)
    /\ \A w \in Workers : WF_vars(Worker(w))
    /\ \A e \in Events : WF_vars(StatusHandler(e)) /\ WF_vars(DelayExpires(e))
    /\ \A e \in Events, r \in Runs : WF_vars(ChildStatusHandler(e, r))

FairSpec == Spec /\ Fairness

-----------------------------------------------------------------------------
(* Properties.                                                              *)

\* Types of the variables.
TypeOK ==
    /\ arrived \in Seq(Events) /\ queue \in Seq(Events)
    /\ dirty \subseteq Events /\ processing \subseteq Events
    /\ delayed \subseteq Events /\ ranging \subseteq Events
    /\ gaveUp \subseteq Events
    /\ shuttingDown \in BOOLEAN /\ drain \in BOOLEAN
    /\ synced \in BOOLEAN /\ stopped \in BOOLEAN
    /\ pc \in [Workers -> PC]
    /\ item \in [Workers -> Events \cup {NoEvent}]
    /\ statusChan \in [Events -> Seq(Status)]
    /\ closed \in [Events -> BOOLEAN]
    /\ sends \in [Events -> Nat]
    /\ runs \in [Events -> 0 .. (MaxRetry + 1)]
    /\ retryCount \in [Events -> 0 .. MaxRetry]
    /\ childChan \in [Events -> [Runs -> {"none", "open", "closed"}]]
    /\ childStatus \in [Events -> [Runs -> {"none", "ranging", "received", "done"}]]

InRun == {"handle", "close"}

\* While a handler may still send on an event's status channel, no other
\* worker runs a handler for that event and the event's status goroutine is
\* there to receive: a retry never overlaps the run that asked for it, and a
\* blocked send always has a reader.
ExclusiveRun ==
    \A w \in Workers : pc[w] \in InRun =>
        /\ item[w] \in ranging
        /\ ~closed[item[w]]
        /\ \A v \in Workers \ {w} : pc[v] \in InRun => item[v] # item[w]

\* The handler of an event runs at most once plus once per granted retry, and
\* an event whose OnStatus was told MaxRetryReached has used them all and is
\* nowhere scheduled to run again.
RetriesBounded ==
    \A e \in Events :
        /\ runs[e] <= retryCount[e] + 1
        /\ e \in gaveUp => /\ runs[e] = MaxRetry + 1
                           /\ e \notin dirty \cup delayed

\* A worker stops only when every event that was picked has been processed
\* completely: once all of them have stopped no item is in processing and no
\* status is left in a channel ("All the events picked should be processed
\* completely", controller_test.go).
StoppedMeansDrained ==
    (\A w \in Workers : pc[w] \in {"failed", "done"}) =>
        /\ processing = {} /\ ranging = {}
        /\ \A e \in Events : statusChan[e] = <<>>

\* Shutting down does not lose the backlog: a worker leaves its loop only when
\* every notification the queue accepted has been handled at least once.
BacklogHandled ==
    (\E w \in Workers : pc[w] \in {"quit", "wait", "woken", "done"}) =>
        \A e \in ArrivedEvents : runs[e] > 0

\* Workers take notifications for their first run in the order the informer
\* delivered them, whatever retries are put in between.
FirstRunsInOrder ==
    \A i, j \in 1 .. Len(arrived) :
        i < j /\ runs[arrived[j]] > 0 => runs[arrived[i]] > 0

\* Once an event was given up its handler is not started again.
GiveUpIsFinal ==
    [][\A e \in gaveUp : runs'[e] = runs[e] /\ e \in gaveUp']_vars

\* An event a worker has picked is eventually processed: its handler closes the
\* channel, its statuses are received and the queue is told it is done.
PickedIsProcessed ==
    \A e \in Events : e \in processing ~> e \notin processing

\* With a synced informer every event that waits, for its first run or for a
\* retry it was granted, is eventually run unless the controller is stopped.
WaitingIsRun ==
    \A e \in Events :
        synced /\ e \in dirty \cup delayed ~> e \in processing \/ stopped

\* After StopAllControllers has closed the stop channel every worker's context
\* is cancelled, so StopAllControllers returns.
StopTerminates ==
    stopped ~> \A w \in Workers : pc[w] \in {"failed", "done"}

-----------------------------------------------------------------------------
(* Controller implements EventLifecycle.                                    *)

Phase(e) ==
    IF e \in processing THEN "running"
    ELSE IF e \in dirty \cup delayed THEN "waiting"
    ELSE IF e \in ArrivedEvents THEN "finished" ELSE "new"

Lifecycle == INSTANCE EventLifecycle
    WITH phase <- [e \in Events |-> Phase(e)], tries <- runs

\* Queue, workers and status goroutines together give every event the lifecycle
\* EventLifecycle promises.
ImplementsLifecycle == Lifecycle!Spec
=============================================================================
