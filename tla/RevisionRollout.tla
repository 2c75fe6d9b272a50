---------------------------- MODULE RevisionRollout ----------------------------
(***************************************************************************)
(* What the handlers of traffic configs promise, without clients, caches   *)
(* of them, resource versions or failing calls.  A worker holds a revision *)
(* and writes what it holds, as often as it likes, to clusters the service *)
(* has to reach.  The owner of a traffic config holds what it was told     *)
(* last, or removes what it wrote; while it does it is told nothing else.  *)
(* Any other worker holds what was known when it began, and never removes. *)
(***************************************************************************)
EXTENDS Naturals

CONSTANTS Identities, Clusters, Workers, Owner, NoIdentity

VARIABLES
    told,   \* the revision the owner was last told of
    known,  \* the revision any other worker goes by
    reach,  \* the clusters a service has to reach
    held,   \* the identity and the revision each worker is at
    store   \* the revision in each cluster

None == 0       \* no revision
Nothing == <<NoIdentity, None>>

vars == <<told, known, reach, held, store>>

Init ==
    /\ told = [i \in Identities |-> None] /\ known = [i \in Identities |-> None]
    /\ reach = [i \in Identities |-> {}]
    /\ held = [w \in Workers |-> Nothing]
    /\ store = [i \in Identities |-> [c \in Clusters |-> None]]

Hold(w, i, r) == held[w] = Nothing /\ held' = [held EXCEPT ![w] = <<i, r>>]

\* What is known follows what is told only now and then.
Tell(i) ==
    /\ held[Owner] = Nothing
    /\ told' = [told EXCEPT ![i] = @ + 1]
    /\ \E r \in {known[i], told[i] + 1} : known' = [known EXCEPT ![i] = r]
    /\ UNCHANGED held \/ Hold(Owner, i, told[i] + 1)
    /\ UNCHANGED <<reach, store>>

Withdraw(i) ==
    /\ held[Owner] = Nothing
    /\ known' = [known EXCEPT ![i] = None]
    /\ UNCHANGED held \/ \E r \in {None, told[i]} : Hold(Owner, i, r)
    /\ UNCHANGED <<told, reach, store>>

Extend ==
    /\ reach' \in [Identities -> SUBSET Clusters]
    /\ \A i \in Identities : reach[i] \subseteq reach'[i]
    /\ UNCHANGED <<told, known, held, store>>

Take(w, i) ==
    /\ w # Owner /\ known[i] # None
    /\ Hold(w, i, known[i])
    /\ UNCHANGED <<told, known, reach, store>>

Write(w, i, c) ==
    /\ held[w][1] = i /\ c \in reach[i]
    /\ store' = [store EXCEPT ![i][c] = held[w][2]]
    /\ UNCHANGED <<told, known, reach, held>>

Release(w) ==
    /\ held' = [held EXCEPT ![w] = Nothing]
    /\ UNCHANGED <<told, known, reach, store>>

Next ==
    \/ Extend
    \/ \E i \in Identities : Tell(i) \/ Withdraw(i)
    \/ \E w \in Workers :
          \/ Release(w)
          \/ \E i \in Identities : Take(w, i) \/ \E c \in Clusters : Write(w, i, c)

Spec == Init /\ [][Next]_vars
=============================================================================
