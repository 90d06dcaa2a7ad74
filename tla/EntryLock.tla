----------------------------- MODULE EntryLock -----------------------------
(***************************************************************************)
(* What the table of open cache entries promises its users: a shared or    *)
(* exclusive lock on each cache key.  A request that meets a conflicting   *)
(* holder queues; when a key is let go by its last holder, every queued    *)
(* request of the key is told to try again.  Nobody leaves the queue in    *)
(* any other way, except by ceasing to exist.                              *)
(***************************************************************************)
EXTENDS Naturals

CONSTANTS Requests, Keys, Key

VARIABLES
    grant,      \* "free", "shared" or "exclusive", for each request
    queue,      \* requests that wait for their key
    retry       \* requests that have been told to try again

vars == <<grant, queue, retry>>

Init ==
    /\ grant = [r \in Requests |-> "free"]
    /\ queue = {}
    /\ retry = {}

Holders(k) == {r \in Requests : grant[r] # "free" /\ Key[r] = k}

\* The requests that queue for a key all of whose holders are in R.
Freed(R) == {q \in queue : Holders(Key[q]) # {} /\ Holders(Key[q]) \subseteq R}

\* r gets the lock; requests created in the same step on its behalf queue behind it.
Acquire(r, mode, behind) ==
    /\ grant[r] = "free"
    /\ \A q \in Holders(Key[r]) : mode = "shared" /\ grant[q] = "shared"
    /\ \A b \in behind : grant[b] = "free" /\ Key[b] = Key[r]
    /\ grant' = [grant EXCEPT ![r] = mode]
    /\ queue' = queue \cup behind
    /\ UNCHANGED retry

\* r meets a holder and queues.
Enqueue(r) ==
    /\ grant[r] = "free"
    /\ Holders(Key[r]) # {}
    /\ queue' = queue \cup {r}
    /\ UNCHANGED <<grant, retry>>

\* The requests in R let go of their locks; those in gone cease to exist, and
\* an exclusive lock one of them does not let go of becomes a shared one.
Release(R, gone) ==
    /\ \A r \in R : grant[r] # "free"
    /\ grant' = [r \in Requests |-> IF r \in R THEN "free"
                                    ELSE IF r \in gone /\ grant[r] # "free" THEN "shared"
                                    ELSE grant[r]]
    /\ queue' = queue \ (Freed(R) \cup gone)
    /\ retry' = (retry \cup Freed(R)) \ gone

\* r lets go of the lock and takes it again at once, exclusively.
Renew(r) ==
    /\ Holders(Key[r]) = {r}
    /\ grant' = [grant EXCEPT ![r] = "exclusive"]
    /\ queue' = queue \ Freed({r})
    /\ retry' = retry \cup Freed({r})

Retry(r) ==
    /\ r \in retry
    /\ retry' = retry \ {r}
    /\ UNCHANGED <<grant, queue>>

\* Nothing of the lock survives a restart.
Restart ==
    /\ grant' = [r \in Requests |-> "free"]
    /\ queue' = {}
    /\ retry' = {}

Next ==
    \/ \E r \in Requests, behind \in SUBSET Requests :
          Acquire(r, "shared", behind) \/ Acquire(r, "exclusive", behind)
    \/ \E r \in Requests : Enqueue(r) \/ Renew(r) \/ Retry(r)
    \/ \E R, gone \in SUBSET Requests : Release(R, gone)
    \/ Restart

\* Every step that changes the lock is one of the above.  (The premise spares the
\* checker a search for a step that changes nothing.)
Spec == Init /\ [][vars' # vars => Next]_vars
=============================================================================
