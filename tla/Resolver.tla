------------------------------ MODULE Resolver ------------------------------
(***************************************************************************)
(* The DNS resolver of the request server: a cache of lookup results,      *)
(* queries to a configured server with a repeat timer each, and, where     *)
(* there is no connection to a server, two worker threads that call the    *)
(* system resolver.  Callers look up both address types of a name and      *)
(* register handlers on the promise they get.  A promise has room for one  *)
(* handler: registering another replaces it.                               *)
(*                                                                         *)
(* Everything here runs on the main thread, the workers apart.  DNSSEC     *)
(* validation is left out.  A query id chosen at random is taken to be one *)
(* that was never used, and 0, the id of a result no query was sent for,   *)
(* is never chosen.                                                        *)
(***************************************************************************)
EXTENDS Naturals, Sequences, FiniteSets, SequencesExt

CONSTANTS
    Call,       \* calls of lookup(); each may construct a promise of its own
    Name,       \* names looked up
    Local,      \* address literals and localhost among them
    MaxRepeats, \* times a query is repeated before it times out (5)
    MaxQueries, \* bound on the query ids used
    None

Type == {"A", "AAAA"}

\* A LookupResult, a PendingLookup, a PendingSystemResolution and a promise.
Results ==
    [records : SUBSET Type, expired : SUBSET Type, valid : BOOLEAN, done : BOOLEAN,
     id : 0..MaxQueries]
Lookups == [name : Name \ Local, result : BOOLEAN, promise : Call, repeated : 0..MaxRepeats]
Resolutions ==
    [records : SUBSET Type, completed : SUBSET Type, finalized : BOOLEAN, grace : BOOLEAN,
     waiting : Seq(Call)]
Promises == [settled : {"no", "resolved", "rejected"}, handler : Call \cup {None}]

ASSUME ResolverAssumption ==
    /\ Local \subseteq Name
    /\ MaxRepeats \in Nat /\ MaxQueries \in Nat
    /\ None \notin Call \cup Results \cup Lookups \cup Resolutions

VARIABLES
    cache,      \* m_cache
    pending,    \* m_pending_lookups
    timers,     \* queries whose repeat timer runs, in the order they will fire
    system,     \* m_pending_system_resolutions
    socket,     \* there is an open socket
    wire,       \* ids of queries that are on their way, or their answers
    ids,        \* query ids used so far
    promise,    \* the promise each call constructs: its state and its handler
    returned,   \* the promise each call got
    heard       \* how often the handler of each call has run

lookups == <<cache, pending, timers, system, ids>>
network == <<socket, wire>>
callers == <<promise, returned, heard>>
vars == <<lookups, network, callers>>

Id == 1..MaxQueries

\* A LookupResult as it is constructed.
NewResult(i) == [records |-> {}, expired |-> {}, valid |-> FALSE, done |-> FALSE, id |-> i]

Init ==
    /\ cache = [n \in Name |-> None]
    /\ pending = [i \in Id \cup {0} |-> None]
    /\ timers = <<>>
    /\ system = [n \in Name |-> None]
    /\ socket = FALSE
    /\ wire = {}
    /\ ids = 0
    /\ promise = [c \in Call |-> [settled |-> "no", handler |-> None]]
    /\ returned = [c \in Call |-> None]
    /\ heard = [c \in Call |-> 0]

-----------------------------------------------------------------------------
(* Promises.                                                                 *)

Settled(S, how) ==
    [p \in Call |-> IF \E i \in 1..Len(S) : S[i] = p THEN [promise[p] EXCEPT !.settled = how] ELSE promise[p]]

\* The promises in S are settled, and their handlers run.
Settle(S, how) ==
    /\ promise' = Settled(S, how)
    /\ heard' = [c \in Call |-> heard[c] + Cardinality({i \in 1..Len(S) : promise[S[i]].handler = c})]
    /\ UNCHANGED returned

\* Call c gets promise p, as P has it, and registers its handlers.
Return(c, p, P) ==
    /\ promise' = [P EXCEPT ![p].handler = c]
    /\ heard' = [heard EXCEPT ![c] = IF P[p].settled = "no" THEN @ ELSE @ + 1]
    /\ returned' = [returned EXCEPT ![c] = p]

-----------------------------------------------------------------------------
(* lookup().  It is called by a caller, with i = 0 and a promise of its own, *)
(* or by the repeat timer of query i, with the promise of that query.        *)

\* Mutant: a query is repeated once too often.
MayLookUpOnceMore(n, p, i) ==
    IF i = 0
    THEN returned[p] = None
    ELSE /\ timers # <<>> /\ Head(timers) = i
         /\ pending[i].name = n /\ pending[i].promise = p
         /\ pending[i].repeated <= MaxRepeats

MayLookUp(n, p, i) ==
    IF i = 0
    THEN returned[p] = None
    ELSE /\ timers # <<>> /\ Head(timers) = i
         /\ pending[i].name = n /\ pending[i].promise = p
         /\ pending[i].repeated < MaxRepeats

\* The promises in S are settled; a caller gets promise q.
Finish(p, i, S, how, q) == IF i = 0 THEN Return(p, q, Settled(S, how)) ELSE Settle(S, how)

\* A timer is single-shot, and all have the same interval.
Unfired(i) == IF i = 0 THEN timers ELSE Tail(timers)

\* flush_cache(): check_expiration() on every entry, and out with the invalid.
Flushed ==
    [n \in Name |->
        IF cache[n] = None THEN None
        ELSE LET r == cache[n]
                 kept == IF r.valid THEN r.records \ r.expired ELSE r.records
                 valid == r.valid /\ ~(kept = {} /\ r.done)
             IN IF ~valid /\ r.done THEN None
                ELSE [r EXCEPT !.records = kept, !.expired = @ \cap kept, !.valid = valid]]

\* lookup_in_cache(): both types were asked for, so a finished result is a hit.
Hit(n) == Flushed[n] # None /\ Flushed[n].done

LookupLocal(n, c) ==
    /\ MayLookUp(n, c, 0)
    /\ n \in Local
    /\ cache' = Flushed
    /\ Return(c, c, Settled(<<c>>, "resolved"))
    /\ UNCHANGED <<pending, timers, system, ids, network>>

LookupCached(n, p, i) ==
    /\ MayLookUp(n, p, i)
    /\ n \notin Local /\ Hit(n)
    /\ cache' = Flushed
    /\ timers' = Unfired(i)
    /\ Finish(p, i, <<p>>, "resolved", p)
    /\ UNCHANGED <<pending, system, ids, network>>

\* Mutant: the resolution under way is replaced, with the promises that wait.
LookupSystemAfresh(n, p, i) ==
    /\ MayLookUp(n, p, i)
    /\ n \notin Local /\ ~Hit(n)
    /\ ~socket
    /\ cache' = Flushed
    /\ timers' = Unfired(i)
    /\ system' = [system EXCEPT ![n] =
           [records |-> {}, completed |-> {}, finalized |-> FALSE, grace |-> FALSE, waiting |-> <<p>>]]
    /\ Finish(p, i, <<>>, "no", p)
    /\ UNCHANGED <<pending, ids, network>>

\* has_connection() fails to create a socket: join the resolution of n that is
\* under way or already finalized, or start one.
LookupSystem(n, p, i) ==
    /\ MayLookUp(n, p, i)
    /\ n \notin Local /\ ~Hit(n)
    /\ ~socket
    /\ cache' = Flushed
    /\ timers' = Unfired(i)
    /\ IF system[n] = None
       THEN /\ system' = [system EXCEPT ![n] =
                   [records |-> {}, completed |-> {}, finalized |-> FALSE, grace |-> FALSE, waiting |-> <<p>>]]
            /\ Finish(p, i, <<>>, "no", p)
       ELSE IF ~system[n].finalized
       THEN system' = [system EXCEPT ![n].waiting = Append(@, p)] /\ Finish(p, i, <<>>, "no", p)
       ELSE /\ Finish(p, i, <<p>>, IF system[n].records = {} THEN "rejected" ELSE "resolved", p)
            /\ UNCHANGED system
    /\ UNCHANGED <<pending, ids, network>>

\* The result of n is in the cache, unfinished, and so is its query: the caller
\* gets the promise of that query.
LookupPending(n, p, i) ==
    /\ MayLookUp(n, p, i)
    /\ n \notin Local /\ ~Hit(n)
    /\ Flushed[n] # None /\ pending[Flushed[n].id] # None
    /\ socket' = TRUE
    /\ cache' = Flushed
    /\ timers' = Unfired(i)
    /\ Finish(p, i, <<>>, "no", pending[Flushed[n].id].promise)
    /\ UNCHANGED <<pending, system, ids, wire>>

\* A query is sent, new or again; written tells whether the socket took it.
\* A timer that finds an unfinished result whose query is gone would start the
\* timer of a lookup that does not exist: EntryFound says that it finds none.
LookupQuery(n, p, i, written) ==
    LET cached == Flushed[n] # None
        id == IF cached THEN Flushed[n].id ELSE IF i # 0 THEN i ELSE ids + 1
    IN
    /\ MayLookUp(n, p, i)
    /\ n \notin Local /\ ~Hit(n)
    /\ cached => i = 0 /\ pending[id] = None
    /\ id <= MaxQueries
    /\ socket' = TRUE
    /\ ids' = IF cached \/ i # 0 THEN ids ELSE id
    /\ cache' = [Flushed EXCEPT ![n] = IF cached THEN @ ELSE NewResult(id)]
    /\ pending' = IF i = 0
                  THEN [pending EXCEPT ![id] = [name |-> n, result |-> TRUE, promise |-> p, repeated |-> 0]]
                  ELSE [pending EXCEPT ![i].repeated = @ + 1]
    /\ timers' = IF written THEN Append(Unfired(i), id) ELSE Unfired(i)
    /\ wire' = IF written THEN wire \cup {id} ELSE wire
    /\ Finish(p, i, IF written THEN <<>> ELSE <<p>>, IF written THEN "no" ELSE "rejected", p)
    /\ UNCHANGED system

\* Mutant: the lookup is dropped and nobody is told.
RepeatTimedOutSilently(i) ==
    /\ timers # <<>> /\ Head(timers) = i
    /\ pending[i].repeated >= MaxRepeats
    /\ timers' = Tail(timers)
    /\ cache' = Flushed
    /\ pending' = [pending EXCEPT ![i] = None]
    /\ UNCHANGED <<system, ids, network, callers>>

\* The repeat timer finds that its query has been repeated often enough.
RepeatTimedOut(i) ==
    /\ timers # <<>> /\ Head(timers) = i
    /\ pending[i].repeated >= MaxRepeats
    /\ timers' = Tail(timers)
    /\ cache' = Flushed
    /\ Settle(<<pending[i].promise>>, "rejected")
    /\ pending' = [pending EXCEPT ![i] = None]
    /\ UNCHANGED <<system, ids, network>>

LookUp(n, p, i) ==
    \/ LookupCached(n, p, i)
    \/ LookupSystem(n, p, i)
    \/ LookupPending(n, p, i)
    \/ \E written \in BOOLEAN : LookupQuery(n, p, i, written)

RepeatTimeout(i) ==
    \/ RepeatTimedOut(i)
    \/ \E n \in Name, p \in Call : LookUp(n, p, i)

-----------------------------------------------------------------------------
(* Answers.                                                                  *)

\* Mutant: the query that was answered stays, and its timer runs on.
ReceiveKeepingLookup(i, T) ==
    /\ socket /\ i \in wire
    /\ wire' = wire \ {i}
    /\ LET n == pending[i].name IN
       IF pending[i] = None \/ ~pending[i].result
       THEN UNCHANGED <<cache, callers>>
       ELSE /\ cache' = [cache EXCEPT ![n].records = @ \cup T, ![n].valid = @ \/ T # {}, ![n].done = TRUE]
            /\ Settle(<<pending[i].promise>>, "resolved")
    /\ UNCHANGED <<pending, timers, system, ids, socket>>

\* The timer of query i is stopped, if it runs: each query has one at most.
Stopped(i) ==
    IF Contains(timers, i) THEN RemoveAt(timers, CHOOSE k \in 1..Len(timers) : timers[k] = i) ELSE timers

\* process_incoming_messages(): the answer to query i, with records of types T.
Receive(i, T) ==
    /\ socket /\ i \in wire
    /\ wire' = wire \ {i}
    /\ LET n == pending[i].name IN
       IF pending[i] = None \/ ~pending[i].result
       THEN UNCHANGED <<cache, pending, timers, callers>>   \* no lookup, or its result was purged
       ELSE /\ cache' = [cache EXCEPT ![n].records = @ \cup T, ![n].valid = @ \/ T # {}, ![n].done = TRUE]
            /\ Settle(<<pending[i].promise>>, "resolved")
            /\ pending' = [pending EXCEPT ![i] = None]
            /\ timers' = Stopped(i)
    /\ UNCHANGED <<system, ids, socket>>

\* Mutant: nobody is told that there is no address.
FinalizeResolved(s) ==
    IF s.finalized \/ s.records = {} THEN UNCHANGED callers
    ELSE Settle(s.waiting, "resolved")

\* try_finalize_pending_system_resolution(), given the resolution s.
Finalize(s) ==
    IF s.finalized THEN UNCHANGED callers
    ELSE Settle(s.waiting, IF s.records = {} THEN "rejected" ELSE "resolved")

\* The result of n in the cache is replaced.  A pending lookup only has a weak
\* pointer to it.
Purged(n) ==
    [i \in DOMAIN pending |-> IF pending[i] # None /\ pending[i].name = n
                              THEN [pending[i] EXCEPT !.result = FALSE] ELSE pending[i]]

\* Mutant: the result goes into the cache unfinished.
WorkerCompletesUnfinished(n, t, found) ==
    LET s == [system[n] EXCEPT !.completed = @ \cup {t}, !.records = IF found THEN @ \cup {t} ELSE @]
    IN
    /\ system[n] # None /\ t \notin system[n].completed
    /\ IF s.completed = Type
       THEN /\ cache' = [cache EXCEPT ![n] =
                   [NewResult(0) EXCEPT !.records = s.records, !.valid = s.records # {}]]
            /\ pending' = Purged(n)
            /\ system' = [system EXCEPT ![n] = None]
            /\ Finalize(s)
       ELSE /\ system' = [system EXCEPT ![n] = [s EXCEPT !.grace = found]]
            /\ UNCHANGED <<cache, pending, callers>>
    /\ UNCHANGED <<timers, ids, network>>

\* handle_system_resolver_completion(): the worker for type t is done and has
\* found an address or none.
WorkerCompletes(n, t, found) ==
    LET s == [system[n] EXCEPT !.completed = @ \cup {t}, !.records = IF found THEN @ \cup {t} ELSE @]
    IN
    /\ system[n] # None /\ t \notin system[n].completed
    /\ IF s.completed = Type
       THEN /\ cache' = [cache EXCEPT ![n] =
                   [NewResult(0) EXCEPT !.records = s.records, !.valid = s.records # {}, !.done = TRUE]]
            /\ pending' = Purged(n)
            /\ system' = [system EXCEPT ![n] = None]
            /\ Finalize(s)
       ELSE /\ system' = [system EXCEPT ![n] = [s EXCEPT !.grace = found]]
            /\ UNCHANGED <<cache, pending, callers>>
    /\ UNCHANGED <<timers, ids, network>>

\* The 50 ms the second address type is given have passed.
GraceTimeout(n) ==
    /\ system[n] # None /\ system[n].grace
    /\ Finalize(system[n])
    /\ system' = [system EXCEPT ![n].grace = FALSE, ![n].finalized = TRUE, ![n].waiting = <<>>]
    /\ UNCHANGED <<cache, pending, timers, ids, network>>

-----------------------------------------------------------------------------
(* Time and the network.                                                     *)

\* The records of one type have outlived their time.
Expire(n, t) ==
    /\ cache[n] # None /\ t \in cache[n].records \ cache[n].expired
    /\ cache' = [cache EXCEPT ![n].expired = @ \cup {t}]
    /\ UNCHANGED <<pending, timers, system, ids, network, callers>>

\* A query or its answer is lost.
Lose(i) ==
    /\ i \in wire
    /\ wire' = wire \ {i}
    /\ UNCHANGED <<lookups, socket, callers>>

\* reset_connection(), or the socket is found closed.
Disconnect ==
    /\ socket
    /\ socket' = FALSE
    /\ wire' = {}
    /\ UNCHANGED <<lookups, callers>>

-----------------------------------------------------------------------------
Next ==
    \/ \E c \in Call, n \in Name : LookupLocal(n, c) \/ LookUp(n, c, 0)
    \/ \E i \in Id : RepeatTimeout(i) \/ Lose(i)
    \/ \E i \in Id, T \in SUBSET Type : Receive(i, T)
    \/ \E n \in Name, t \in Type : Expire(n, t) \/ \E found \in BOOLEAN : WorkerCompletes(n, t, found)
    \/ \E n \in Name : GraceTimeout(n)
    \/ Disconnect

Spec == Init /\ [][Next]_vars

\* Timers fire and workers finish; an answer may get lost.
FairSpec ==
    /\ Spec
    /\ \A i \in Id : WF_vars(RepeatTimeout(i))
    /\ \A n \in Name : WF_vars(GraceTimeout(n))
    /\ \A n \in Name, t \in Type : WF_vars(\E found \in BOOLEAN : WorkerCompletes(n, t, found))

-----------------------------------------------------------------------------
\* The cache, the lookups and the resolutions hold what their types allow; a
\* query is repeated MaxRepeats times at most.
TypeOK ==
    /\ cache \in [Name -> Results \cup {None}]
    /\ pending \in [Id \cup {0} -> Lookups \cup {None}]
    /\ timers \in Seq(Id)
    /\ system \in [Name -> Resolutions \cup {None}]
    /\ \A n \in Name : system[n] # None => system[n].records \subseteq system[n].completed
    /\ socket \in BOOLEAN /\ wire \subseteq Id /\ ids \in 0..MaxQueries
    /\ promise \in [Call -> Promises]
    /\ returned \in [Call -> Call \cup {None}]
    /\ heard \in [Call -> Nat]

\* A caller that was given addresses hears nothing more: no late answer, repeat
\* timer, second worker or grace timer settles its promise again
\* (process_incoming_messages(), try_finalize_pending_system_resolution()).
ResolvedOnce ==
    [][\A p \in Call : promise[p].settled = "resolved" =>
           /\ promise'[p].settled = "resolved"
           /\ promise[p].handler # None => heard'[promise[p].handler] = heard[promise[p].handler]]_vars

\* When a repeat timer fires and the name's result is in the cache unfinished,
\* the query of that result is pending.  lookup() uses the pending entry it
\* searches for last without asking whether there is one.
EntryFound ==
    timers # <<>> =>
        LET r == cache[pending[Head(timers)].name] IN
        r # None /\ ~r.done => pending[r.id] # None

\* No caller is forgotten: a promise that a caller holds is settled, or some
\* query or some system resolution still has it.
NoneForgotten ==
    \A c \in Call : returned[c] # None =>
        LET p == returned[c] IN
        \/ promise[p].settled # "no"
        \/ \E i \in Id : pending[i] # None /\ pending[i].promise = p
        \/ \E n \in Name : system[n] # None /\ Contains(system[n].waiting, p)

\* A promise that joined a system resolution is settled in the end, whether a
\* worker finds an address or none does, and whoever comes first of the second
\* worker and the grace timer.
JoinedSettle ==
    \A p \in Call :
        (\E n \in Name : system[n] # None /\ Contains(system[n].waiting, p)) ~> (promise[p].settled # "no")

\* "Each caller MUST get their own Promise": when a promise is settled, every
\* caller that got it hears.  A caller that joins a pending query gets the
\* promise of that query, and its handlers replace those of the caller before.
EachCallerHears ==
    \A c \in Call : returned[c] # None /\ promise[returned[c]].settled # "no" => heard[c] > 0

\* Another caller has replaced the handlers of c (see EachCallerHears), or its
\* query is pending with no timer to repeat it, which is how lookup() leaves it
\* when the timer fires and finds the unfinished result in the cache.
Abandoned(c) ==
    LET p == returned[c] IN
    /\ p # None
    /\ \/ promise[p].handler # c
       \/ \E i \in Id : pending[i] # None /\ pending[i].promise = p /\ ~Contains(timers, i)

\* Every caller hears in the end, of addresses, of a failure or of a timeout,
\* unless it is abandoned (repeat_timer, try_finalize_pending_system_resolution()):
\* of a query whose answer is simply lost nothing is promised.
LookupEnds == \A c \in Call : (returned[c] # None) ~> (heard[c] > 0 \/ Abandoned(c))
=============================================================================
