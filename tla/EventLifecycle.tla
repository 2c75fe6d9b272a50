---------------------------- MODULE EventLifecycle ----------------------------
(***************************************************************************)
(* What the controller framework promises about one event, without queue,  *)
(* workers or channels: an accepted event waits, runs, and is either       *)
(* finished or waits for a retry; it runs at most MaxRetry + 1 times, and  *)
(* never again once it is finished.                                        *)
(***************************************************************************)
EXTENDS Naturals

CONSTANTS Events, MaxRetry

VARIABLES phase, tries

Init ==
    /\ phase = [e \in Events |-> "new"]
    /\ tries = [e \in Events |-> 0]

Accept(e) ==
    /\ phase[e] = "new"
    /\ phase' = [phase EXCEPT ![e] = "waiting"]
    /\ UNCHANGED tries

Start(e) ==
    /\ phase[e] = "waiting"
    /\ tries[e] <= MaxRetry
    /\ phase' = [phase EXCEPT ![e] = "running"]
    /\ tries' = [tries EXCEPT ![e] = @ + 1]

Finish(e) ==
    /\ phase[e] = "running"
    /\ phase' = [phase EXCEPT ![e] = "finished"]
    /\ UNCHANGED tries

AwaitRetry(e) ==
    /\ phase[e] = "running"
    /\ tries[e] <= MaxRetry
    /\ phase' = [phase EXCEPT ![e] = "waiting"]
    /\ UNCHANGED tries

Next == \E e \in Events : Accept(e) \/ Start(e) \/ Finish(e) \/ AwaitRetry(e)

Spec == Init /\ [][Next]_<<phase, tries>>
=============================================================================
