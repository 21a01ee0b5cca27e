------------------------------ MODULE AppMutex ------------------------------
(***************************************************************************)
(* What packages/queue/src/index.ts promises its callers (lines 18-24):    *)
(* work for one key never executes twice at once, and a caller that does   *)
(* not get the key is turned away rather than blocked.  Nothing is said of *)
(* Redis, tokens or leases: AppLock is the detailed specification that     *)
(* implements this one.                                                    *)
(***************************************************************************)
CONSTANTS Job,       \* the jobs that ask for a key
          Key        \* the lock keys (one per application under test)

VARIABLE inside      \* inside[k]: the jobs executing their work under key k

Init == inside = [k \in Key |-> {}]

(* A job starts its work under k: nobody else may be doing so. *)
Enter(j, k) ==
    /\ inside[k] = {}
    /\ inside' = [inside EXCEPT ![k] = {j}]

(* Jobs stop: one ends its work, or several die with their process. *)
Leave(S) == inside' = [k \in Key |-> inside[k] \ S]

Next ==
    \/ \E j \in Job, k \in Key : Enter(j, k)
    \/ \E S \in SUBSET Job : Leave(S)

Spec == Init /\ [][Next]_inside
=============================================================================
