----------------------------- MODULE AtomicCache -----------------------------
(***************************************************************************)
(* What a workload cache promises: a set of keys that Put and Remove       *)
(* change atomically.  A Delete call may return without removing its key   *)
(* only if the key was absent at some moment between its call and return.  *)
(***************************************************************************)
CONSTANTS Threads, Keys, NoKey

VARIABLES
    content,    \* the keys in the cache
    deleting,   \* the key each thread's pending Delete is about
    wasAbsent   \* whether that key was absent since the call

Init ==
    /\ content = {}
    /\ deleting = [t \in Threads |-> NoKey]
    /\ wasAbsent = [t \in Threads |-> FALSE]

Put(k) ==
    /\ content' = content \cup {k}
    /\ UNCHANGED <<deleting, wasAbsent>>

Call(t, k) ==
    /\ deleting[t] = NoKey
    /\ deleting' = [deleting EXCEPT ![t] = k]
    /\ wasAbsent' = [wasAbsent EXCEPT ![t] = k \notin content]
    /\ UNCHANGED content

Remove(t) ==
    /\ deleting[t] \in Keys
    /\ content' = content \ {deleting[t]}
    /\ deleting' = [deleting EXCEPT ![t] = NoKey]
    /\ wasAbsent' = [u \in Threads |-> u # t /\ (wasAbsent[u] \/ deleting[u] = deleting[t])]

ReturnNotFound(t) ==
    /\ deleting[t] \in Keys
    /\ wasAbsent[t]
    /\ deleting' = [deleting EXCEPT ![t] = NoKey]
    /\ wasAbsent' = [wasAbsent EXCEPT ![t] = FALSE]
    /\ UNCHANGED content

Next ==
    \/ \E k \in Keys : Put(k)
    \/ \E t \in Threads :
          (\E k \in Keys : Call(t, k)) \/ Remove(t) \/ ReturnNotFound(t)

Spec == Init /\ [][Next]_<<content, deleting, wasAbsent>>
=============================================================================
