--------------------- MODULE RequestServerTransferProof ---------------------
(***************************************************************************)
(* Proofs about the transfers of RequestServer: the handlers find what     *)
(* they need, a request reported as successful has been given its body,    *)
(* and its client is told so once.                                         *)
(***************************************************************************)
EXTENDS RequestServerProof

(***************************************************************************)
(* The strengthening that makes DeliveredWhole and part of                 *)
(* HandlersPrepared inductive, request by request.                         *)
(***************************************************************************)

\* The states a request is in while it has no entry, and before its transfer.
Searching == {"unused", "Init", "WaitForCache", "FailedCacheOnly", "ServeSubstitution"}
BeforeTransfer == {"unused", "Init", "WaitForCache", "FailedCacheOnly", "ReadCache", "DNSLookup",
                   "RetrieveCookie"}

NothingFetched(r) == ver[r] = 0 /\ got[r] = 0 /\ out[r] = 0

\* Nothing is known of the response before the transfer, and a substituted
\* resource is only ever read once.
QuietBefore(r) ==
    /\ state[r] \in Searching => held[r] = "none"
    /\ state[r] = "ReadCache" => held[r] # "writer"
    /\ state[r] \in BeforeTransfer => NothingFetched(r) /\ curl[r] = "none"
    /\ state[r] = "ServeSubstitution" => ver[r] = 0 /\ ~multi[r]
    /\ state[r] = "ServeSubstitution" /\ running = r => got[r] = 0 /\ out[r] = 0

\* A transfer belongs to the fetch state and has no result yet; a refused chunk
\* ends it in the same turn, and only the failure of a revalidation to reach the
\* client makes it outlive that state.
TransferInFetch(r) ==
    /\ multi[r] => curl[r] = "none"
    /\ multi[r] => state[r] = "Fetch" \/ (state[r] = "Error" /\ aborted[r] /\ NothingFetched(r))
    /\ multi[r] /\ aborted[r] => running = r
    /\ running = r /\ state[r] = "Fetch" /\ ~aborted[r]
          => curl[r] = "none" /\ ~multi[r] /\ NothingFetched(r)

\* No more goes out than came in, and the write notifier is enabled only while
\* bytes are queued.
QueueBounded(r) ==
    /\ out[r] <= got[r]
    /\ blocked[r] => out[r] < got[r] /\ state[r] \in {"Fetch", "ServeSubstitution"}

\* What a reader opened for revalidation, a result code and the complete state
\* say of the body.
BodyKnown(r) ==
    /\ r \in Fetches /\ held[r] = "must" => NothingFetched(r)
    /\ held[r] = "writer" /\ ver[r] = 0 => got[r] = 0
    /\ curl[r] = "OK" /\ ver[r] # 0 => got[r] = Size[ver[r]]
    /\ curl[r] = "Recv" => "recv" \in Faults
    /\ state[r] = "Complete" => out[r] = got[r]
    /\ state[r] = "Complete" /\ r \in Fetches => curl[r] # "none"
    /\ r \in finishing => state[r] \in {"Complete", "Error"}
    /\ r \in finishing /\ state[r] = "Complete" /\ r \in Fetches => curl[r] \in {"OK", "Recv"} \/ ver[r] = 0

\* The client's pipe is there before any byte of the body is.
PipeReady(r) ==
    /\ got[r] > 0 /\ r \in Fetches => pipe[r]
    /\ multi[r] /\ r \in Fetches /\ held[r] # "must" => pipe[r] \/ aborted[r]
    /\ held[r] = "writer" /\ r \in Revals => sentHeaders[r]

TransferOK(r) == QuietBefore(r) /\ TransferInFetch(r) /\ QueueBounded(r) /\ BodyKnown(r) /\ PipeReady(r)

TransferInv == \A r \in Requests : TransferOK(r)

(***************************************************************************)
(* A step of one request leaves what the invariant says of the others.     *)
(***************************************************************************)

Untouched(q) ==
    /\ state'[q] = state[q] /\ held'[q] = held[q] /\ curl'[q] = curl[q]
    /\ ver'[q] = ver[q] /\ got'[q] = got[q] /\ out'[q] = out[q]
    /\ multi'[q] = multi[q] /\ aborted'[q] = aborted[q] /\ blocked'[q] = blocked[q]
    /\ pipe'[q] = pipe[q] /\ sentHeaders'[q] = sentHeaders[q]
    /\ q \in finishing' <=> q \in finishing

OnlyTouches(r) ==
    /\ running \in {r, Idle} /\ running' \in {r, Idle}
    /\ \A q \in Requests : q # r => Untouched(q)

LEMMA UntouchedKept ==
    ASSUME NEW q \in Requests, TransferOK(q), Untouched(q), running' = q <=> running = q
    PROVE  TransferOK(q)'
BY DEF TransferOK, Untouched, QuietBefore, TransferInFetch, QueueBounded, BodyKnown, PipeReady, NothingFetched

LEMMA OneRequestStep ==
    ASSUME TransferInv, NEW r \in Requests, OnlyTouches(r), TransferOK(r)'
    PROVE  TransferInv'
<1> SUFFICES ASSUME NEW q \in Requests PROVE TransferOK(q)'
  BY DEF TransferInv
<1>1. CASE q = r
  BY <1>1
<1>2. CASE q # r
  <2>1. TransferOK(q) /\ Untouched(q)
    BY <1>2 DEF TransferInv, OnlyTouches
  <2>2. running' # q /\ running # q
    BY <1>2, RequestServerAssumption DEF OnlyTouches
  <2> QED BY <2>1, <2>2, UntouchedKept
<1> QED BY <1>1, <1>2

(***************************************************************************)
(* Each action keeps it.                                                   *)
(***************************************************************************)

\* A request in a state before its transfer moves to another such state, or to
\* the states that do without one; only a fetch opens a writer there.
LEMMA QuietMove ==
    ASSUME TypeOK, LockInv, TransferInv, NEW r \in Requests, state[r] \in BeforeTransfer,
           UNCHANGED <<transferVars, finishing>>,
           running \in {r, Idle}, running' \in {r, Idle},
           NEW s, state' = [state EXCEPT ![r] = s],
           s \in BeforeTransfer \cup {"ServeSubstitution", "Fetch", "Error"}
             \/ (s = "Complete" /\ r \in Revals),
           \A q \in Requests : q # r => held'[q] = held[q],
           s \in Searching => held'[r] = "none",
           s = "ReadCache" => held'[r] # "writer",
           held'[r] = "writer" => held[r] = "writer" \/ r \in Fetches
    PROVE  TransferInv'
<1> USE DEF TypeOK, CacheTypeOK, transferVars
<1>1. TransferOK(r) /\ ~multi[r] /\ ~blocked[r] /\ r \notin finishing /\ NothingFetched(r) /\ curl[r] = "none"
  BY DEF TransferInv, TransferOK, LockInv, TransfersPastWait, PastWait, BeforeTransfer, BodyKnown, QuietBefore
<1>2. OnlyTouches(r)
  BY DEF OnlyTouches, Untouched
<1>3. state'[r] = s
  OBVIOUS
<1>4. QuietBefore(r)'
  BY <1>1, <1>3 DEF QuietBefore, NothingFetched
<1>5. TransferInFetch(r)'
  BY <1>1, <1>3 DEF TransferInFetch, NothingFetched
<1>6. QueueBounded(r)'
  BY <1>1, <1>3 DEF QueueBounded, NothingFetched
<1>7. BodyKnown(r)'
  BY <1>1, <1>3, DiskCacheAssumption DEF BodyKnown, NothingFetched, BeforeTransfer
<1>8. PipeReady(r)'
  BY <1>1, <1>3, DiskCacheAssumption DEF PipeReady, NothingFetched, TransferOK
<1> QED BY <1>2, <1>4, <1>5, <1>6, <1>7, <1>8, OneRequestStep DEF TransferOK

\* What opening, closing and waiting do to the entries of the other requests.
LEMMA EntryOfOthers ==
    ASSUME TypeOK, NEW r \in Requests
    PROVE  /\ \A e, c : SetEntry(r, e, c) => held' = [held EXCEPT ![r] = e] /\ held'[r] = e
           /\ \A e : OpenAs(r, e) => held'[r] = e /\ \A q \in Requests : q # r => held'[q] = held[q]
           /\ CacheEntryClosed(r) => held'[r] = "none" /\ \A q \in Requests : q # r => held'[q] = held[q]
           /\ UNCHANGED lockVars => held' = held
           /\ WaitForKey(r) => held' = held
BY DEF SetEntry, OpenAs, CacheEntryClosed, WaitForKey, lockVars, TypeOK, CacheTypeOK

LEMMA AfterMissTransfer ==
    ASSUME TypeOK, LockInv, TransferInv, NEW r \in Requests, Handling(r, "Init"), AfterMiss(r),
           UNCHANGED <<transferVars, finishing>>
    PROVE  TransferInv'
<1> USE DEF Handling, TransitionToState, AwaitIn, BeforeTransfer, Searching
<1>1. held[r] = "none" /\ state[r] \in BeforeTransfer
  BY DEF TransferInv, TransferOK, QuietBefore
<1>2. CASE r \in Revals /\ TransitionToState(r, "Complete") /\ UNCHANGED lockVars
  BY <1>1, <1>2, EntryOfOthers, QuietMove
<1>3. CASE TransitionToState(r, "FailedCacheOnly") /\ UNCHANGED lockVars
  BY <1>1, <1>3, EntryOfOthers, QuietMove
<1>4. CASE TransitionToState(r, "DNSLookup") /\ UNCHANGED lockVars
  BY <1>1, <1>4, EntryOfOthers, QuietMove
<1>5. CASE AwaitIn(r, "WaitForCache") /\ WaitForKey(r)
  BY <1>1, <1>5, EntryOfOthers, QuietMove
<1>6. CASE r \in Fetches /\ TransitionToState(r, "DNSLookup") /\ OpenAs(r, "writer")
  BY <1>1, <1>6, EntryOfOthers, QuietMove
<1> QED BY <1>2, <1>3, <1>4, <1>5, <1>6 DEF AfterMiss

LEMMA InitialStateTransfer ==
    ASSUME TypeOK, LockInv, TransferInv, NEW r \in Requests, HandleInitialState(r)
    PROVE  TransferInv'
<1> USE DEF Handling, TransitionToState, AwaitIn, BeforeTransfer, Searching
<1>0. Handling(r, "Init")
  BY DEF HandleInitialState, InitBypass, InitWait, InitMiss, InitUnreadable, InitStale, InitRevalidateWait,
         InitHit, InitHitStaleWhileRevalidate, LookupGives, Lookup, AtInit
<1>1. held[r] = "none" /\ state[r] \in BeforeTransfer /\ running = r
  BY <1>0 DEF TransferInv, TransferOK, QuietBefore
<1>2. CASE InitBypass(r)
  <2>1. held' = held /\ UNCHANGED <<transferVars, finishing>>
    BY <1>2 DEF InitBypass, cacheVars, endVars
  <2>2. CASE TransitionToState(r, "ServeSubstitution")
    BY <1>1, <2>1, <2>2, QuietMove
  <2>3. CASE TransitionToState(r, "DNSLookup")
    BY <1>1, <2>1, <2>3, QuietMove
  <2> QED BY <1>2, <2>2, <2>3 DEF InitBypass
<1>3. CASE InitWait(r) \/ InitRevalidateWait(r)
  <2>1. held' = held /\ UNCHANGED <<transferVars, finishing>> /\ AwaitIn(r, "WaitForCache")
    BY <1>3, EntryOfOthers DEF InitWait, InitRevalidateWait, endVars
  <2> QED BY <1>1, <2>1, QuietMove
<1>4. CASE InitMiss(r) \/ InitUnreadable(r) \/ InitStale(r)
  <2>1. AfterMiss(r) /\ UNCHANGED <<transferVars, finishing>>
    BY <1>4 DEF InitMiss, InitUnreadable, InitStale, endVars
  <2> QED BY <1>0, <2>1, AfterMissTransfer
<1>5. CASE InitHit(r)
  <2>1. UNCHANGED <<transferVars, finishing>>
    BY <1>5 DEF InitHit, OpenReader, endVars
  <2>2. PICK e \in {"reader", "must"} : OpenAs(r, e)
    BY <1>5 DEF InitHit
  <2>3. TransitionToState(r, "DNSLookup") \/ TransitionToState(r, "ReadCache")
    BY <1>5 DEF InitHit
  <2> QED BY <1>1, <2>1, <2>2, <2>3, EntryOfOthers, QuietMove
<1>6. ASSUME NEW b \in Revals, InitHitStaleWhileRevalidate(r, b) PROVE TransferInv'
  <2> USE <1>6 DEF TypeOK, CacheTypeOK, transferVars, endVars, InitHitStaleWhileRevalidate, OpenReader
  <2>1. b \in Requests /\ b # r /\ r \in Fetches
    <3>1. r \in Fetches
      BY LookupLocks
    <3> QED BY <3>1, DiskCacheAssumption DEF Requests
  <2>2. /\ held' = [held EXCEPT ![r] = "swr"]
        /\ state' = [state EXCEPT ![r] = "ReadCache", ![b] = "WaitForCache"]
        /\ UNCHANGED <<transferVars, finishing>> /\ running' = r /\ state[b] = "unused"
    OBVIOUS
  <2> SUFFICES ASSUME NEW q \in Requests PROVE TransferOK(q)'
    BY DEF TransferInv
  <2>3. TransferOK(q)
    BY DEF TransferInv
  <2>4. CASE q # r /\ q # b
    BY <1>1, <2>1, <2>2, <2>3, <2>4, UntouchedKept DEF Untouched
  <2>5. CASE q = r
    <3>1. ~multi[r] /\ ~blocked[r]
      BY <1>1, <1>0 DEF LockInv, TransfersPastWait, PastWait
    <3> QED BY <1>0, <1>1, <2>1, <2>2, <2>3, <2>5, <3>1, DiskCacheAssumption
       DEF TransferOK, QuietBefore, TransferInFetch, QueueBounded, BodyKnown, PipeReady, NothingFetched
  <2>6. CASE q = b
    <3>1. ~multi[b] /\ ~blocked[b] /\ held[b] = "none"
      BY <2>1, <2>2 DEF LockInv, TransfersPastWait, PastWait, UnusedHoldsNothing
    <3> QED BY <1>0, <1>1, <2>1, <2>2, <2>3, <2>6, <3>1, DiskCacheAssumption
       DEF TransferOK, QuietBefore, TransferInFetch, QueueBounded, BodyKnown, PipeReady, NothingFetched
  <2> QED BY <2>4, <2>5, <2>6
<1> QED BY <1>2, <1>3, <1>4, <1>5, <1>6 DEF HandleInitialState

\* A response that comes from the cache, or is made up, ends without a transfer.
LEMMA CachedMove ==
    ASSUME TypeOK, LockInv, TransferInv, NEW r \in Requests, state[r] \in {"ReadCache", "FailedCacheOnly"},
           UNCHANGED <<ver, got, out, multi, aborted, blocked, finishing>>,
           running \in {r, Idle}, running' \in {r, Idle},
           NEW s \in {"ReadCache", "Complete", "Error"}, state' = [state EXCEPT ![r] = s],
           s = "ReadCache" => state[r] = "ReadCache",
           NEW c \in {"OK", "none"}, curl' = [curl EXCEPT ![r] = c], c = "OK" <=> s = "Complete",
           \A q \in Requests : q # r => held'[q] = held[q], held'[r] \in {held[r], "none"},
           \A q \in Requests : q # r => pipe'[q] = pipe[q] /\ sentHeaders'[q] = sentHeaders[q],
           sentHeaders[r] => sentHeaders'[r]
    PROVE  TransferInv'
<1> USE DEF TypeOK, CacheTypeOK
<1>1. TransferOK(r) /\ ~multi[r] /\ ~blocked[r] /\ r \notin finishing /\ NothingFetched(r)
  BY DEF TransferInv, TransferOK, LockInv, TransfersPastWait, PastWait, BeforeTransfer, BodyKnown, QuietBefore
<1>2. OnlyTouches(r)
  BY DEF OnlyTouches, Untouched
<1>3. state'[r] = s /\ curl'[r] = c
  OBVIOUS
<1>4. QuietBefore(r)'
  BY <1>1, <1>3 DEF TransferOK, QuietBefore, NothingFetched, BeforeTransfer, Searching
<1>5. TransferInFetch(r)'
  BY <1>1, <1>3 DEF TransferInFetch, NothingFetched
<1>6. QueueBounded(r)'
  BY <1>1, <1>3 DEF QueueBounded, NothingFetched
<1>7. BodyKnown(r)'
  BY <1>1, <1>3 DEF BodyKnown, NothingFetched
<1>8. PipeReady(r)'
  BY <1>1, <1>3 DEF PipeReady, NothingFetched, TransferOK
<1> QED BY <1>2, <1>4, <1>5, <1>6, <1>7, <1>8, OneRequestStep DEF TransferOK

LEMMA ReadCacheTransfer ==
    ASSUME TypeOK, LockInv, TransferInv, NEW r \in Requests, HandleReadCacheState(r) \/ SendResumes(r)
    PROVE  TransferInv'
<1> USE DEF Handling, Event, TransitionToState, AwaitIn
<1>0. state[r] = "ReadCache" /\ running \in {r, Idle}
  BY DEF HandleReadCacheState, ReadCachePipeFails, ReadCacheSend, ReadCacheTakeBodyFile, SendResumes
<1>1. curl[r] = "none"
  BY <1>0 DEF TransferInv, TransferOK, QuietBefore, BeforeTransfer
<1>2. UNCHANGED <<ver, got, out, multi, aborted, blocked, finishing>>
  BY DEF HandleReadCacheState, ReadCachePipeFails, ReadCacheSend, ReadCacheTakeBodyFile, SendResumes, endVars
<1>3. /\ \A q \in Requests : q # r => pipe'[q] = pipe[q] /\ sentHeaders'[q] = sentHeaders[q]
      /\ sentHeaders[r] => sentHeaders'[r]
  BY DEF HandleReadCacheState, ReadCachePipeFails, ReadCacheSend, ReadCacheTakeBodyFile, SendResumes, TypeOK
<1>4. \/ UNCHANGED <<lockVars, curl>> /\ AwaitIn(r, "ReadCache")
      \/ (UNCHANGED lockVars \/ CacheEntryClosed(r)) /\ UNCHANGED curl /\ TransitionToState(r, "Error")
      \/ CacheEntryClosed(r) /\ curl' = [curl EXCEPT ![r] = "OK"] /\ TransitionToState(r, "Complete")
  BY DEF HandleReadCacheState, ReadCachePipeFails, ReadCacheSend, ReadCacheTakeBodyFile, SendResumes,
         SendWithoutBlocking, SendComplete, SendError, SendBlocked, cacheVars, lockVars
<1>5. /\ \A q \in Requests : q # r => held'[q] = held[q]
      /\ held'[r] \in {held[r], "none"}
  BY <1>4, EntryOfOthers
<1>6. \E s \in {"ReadCache", "Complete", "Error"}, c \in {"OK", "none"} :
         state' = [state EXCEPT ![r] = s] /\ curl' = [curl EXCEPT ![r] = c] /\ (c = "OK" <=> s = "Complete")
  BY <1>1, <1>4 DEF TypeOK
<1>7. running' \in {r, Idle}
  BY <1>4
<1> QED BY <1>0, <1>2, <1>3, <1>5, <1>6, <1>7, CachedMove

LEMMA FailedCacheOnlyTransfer ==
    ASSUME TypeOK, LockInv, TransferInv, NEW r \in Requests, HandleFailedCacheOnlyState(r)
    PROVE  TransferInv'
<1> USE DEF HandleFailedCacheOnlyState, Handling, TransitionToState
<1>0. state[r] = "FailedCacheOnly" /\ running \in {r, Idle} /\ running' = r
  OBVIOUS
<1>1. curl[r] = "none"
  BY <1>0 DEF TransferInv, TransferOK, QuietBefore, BeforeTransfer
<1>2. UNCHANGED <<ver, got, out, multi, aborted, blocked, finishing, held>>
  BY DEF endVars, cacheVars
<1>3. /\ \A q \in Requests : q # r => pipe'[q] = pipe[q] /\ sentHeaders'[q] = sentHeaders[q]
      /\ sentHeaders[r] => sentHeaders'[r]
  BY DEF TypeOK
<1>6. \E s \in {"Complete", "Error"}, c \in {"OK", "none"} :
         state' = [state EXCEPT ![r] = s] /\ curl' = [curl EXCEPT ![r] = c] /\ (c = "OK" <=> s = "Complete")
  BY <1>1 DEF TypeOK
<1> QED BY <1>0, <1>2, <1>3, <1>6, CachedMove

LEMMA ServeSubstitutionTransfer ==
    ASSUME TypeOK, LockInv, TransferInv, NEW r \in Requests, HandleServeSubstitutionState(r)
    PROVE  TransferInv'
<1> USE DEF HandleServeSubstitutionState, Handling, TransitionToState, AwaitIn
<1>0. TransferOK(r) /\ state[r] = "ServeSubstitution" /\ running = r
  BY DEF TransferInv
<1>1. ver[r] = 0 /\ ~multi[r] /\ got[r] = 0 /\ out[r] = 0 /\ ~blocked[r] /\ r \notin finishing /\ held[r] = "none"
  BY <1>0 DEF TransferOK, QuietBefore, QueueBounded, BodyKnown, Searching
<1>2. UNCHANGED <<ver, multi, aborted, finishing, held>> /\ running' \in {r, Idle}
  BY DEF endVars, cacheVars
<1>3. OnlyTouches(r)
  BY <1>0, <1>2 DEF OnlyTouches, Untouched, TypeOK
<1>4. \/ /\ state'[r] = "Error" /\ got'[r] \in {0, 1} /\ out'[r] = 0 /\ ~blocked'[r]
         /\ got'[r] = 1 => pipe'[r]
         /\ curl'[r] \in {curl[r], "OK"}
      \/ state'[r] = "Complete" /\ got'[r] = 1 /\ out'[r] = 1 /\ ~blocked'[r] /\ pipe'[r] /\ curl'[r] = "OK"
      \/ state'[r] = "ServeSubstitution" /\ got'[r] = 1 /\ out'[r] = 0 /\ running' = Idle /\ pipe'[r]
         /\ curl'[r] = "OK"
  BY <1>1 DEF TypeOK
<1>5. TransferOK(r)'
  BY <1>0, <1>1, <1>2, <1>4, RequestServerAssumption
     DEF TransferOK, QuietBefore, TransferInFetch, QueueBounded, BodyKnown, PipeReady, NothingFetched,
         Searching, BeforeTransfer
<1> QED BY <1>3, <1>5, OneRequestStep

LEMMA LookupTransfer ==
    ASSUME TypeOK, LockInv, TransferInv, NEW r \in Requests,
           \/ HandleDnsLookupState(r) \/ DnsLookupEnds(r)
           \/ HandleRetrieveCookieState(r) \/ NotifyRetrievedHttpCookie(r)
    PROVE  TransferInv'
<1> USE DEF HandleDnsLookupState, DnsLookupEnds, HandleRetrieveCookieState, NotifyRetrievedHttpCookie,
            Handling, Event, TransitionToState, AwaitIn
<1>1. /\ state[r] \in {"DNSLookup", "RetrieveCookie"} /\ held' = held
      /\ UNCHANGED <<transferVars, finishing>> /\ running \in {r, Idle} /\ running' \in {r, Idle}
  BY DEF cacheVars, endVars
<1>2. PICK s \in {"DNSLookup", "RetrieveCookie", "Fetch", "Error"} : state' = [state EXCEPT ![r] = s]
  OBVIOUS
<1> QED BY <1>1, <1>2, QuietMove DEF BeforeTransfer, Searching

LEMMA FetchStateTransfer ==
    ASSUME TypeOK, LockInv, TransferInv, NEW r \in Requests, HandleFetchState(r)
    PROVE  TransferInv'
<1> USE DEF HandleFetchState, Handling, TransitionToState, AwaitIn
<1>0. TransferOK(r) /\ state[r] = "Fetch" /\ running = r /\ ~aborted[r] /\ r \in live
  BY DEF TransferInv, LockInv, RunningLives
<1>1. curl[r] = "none" /\ ~multi[r] /\ NothingFetched(r) /\ ~blocked[r] /\ r \notin finishing
  BY <1>0 DEF TransferOK, TransferInFetch, QueueBounded, BodyKnown, NothingFetched, TypeOK
<1>2. UNCHANGED <<ver, got, out, curl, aborted, blocked, sentHeaders, finishing, held>> /\ running' \in {r, Idle}
  BY DEF endVars, cacheVars
<1>3. OnlyTouches(r)
  BY <1>0, <1>2 DEF OnlyTouches, Untouched, TypeOK
<1>4. \/ state'[r] = "Error" /\ ~multi'[r] /\ pipe'[r] = pipe[r]
      \/ /\ state'[r] = "Fetch" /\ multi'[r] /\ running' = Idle
         /\ r \in Fetches /\ held[r] # "must" => pipe'[r]
  <2>1. CASE TransitionToState(r, "Error") /\ UNCHANGED <<pipe, multi>>
    BY <1>1, <2>1 DEF TypeOK
  <2>2. CASE /\ pipe' = [pipe EXCEPT ![r] = @ \/ (r \in Fetches /\ ~IsRevalidationRequest(r))]
             /\ multi' = [multi EXCEPT ![r] = TRUE] /\ AwaitIn(r, "Fetch")
    <3>1. r \in Fetches /\ held[r] # "must" => ~IsRevalidationRequest(r)
      BY DiskCacheAssumption DEF IsRevalidationRequest
    <3>2. r \in Fetches /\ ~IsRevalidationRequest(r) => pipe'[r]
      BY <2>2 DEF TypeOK
    <3> QED BY <2>2, <3>1, <3>2 DEF TypeOK
  <2> QED BY <2>1, <2>2
<1>5. TransferOK(r)'
  BY <1>0, <1>1, <1>2, <1>4, RequestServerAssumption
     DEF TransferOK, QuietBefore, TransferInFetch, QueueBounded, BodyKnown, PipeReady, NothingFetched,
         Searching, BeforeTransfer
<1> QED BY <1>3, <1>5, OneRequestStep

\* A transfer that is handed a chunk, or that ends by itself, has not refused one.
LEMMA TransferringStill ==
    ASSUME TypeOK, TransferInv, NEW r \in Requests, multi[r], running = Idle
    PROVE  /\ TransferOK(r) /\ ~aborted[r] /\ state[r] = "Fetch" /\ curl[r] = "none"
           /\ r \notin finishing
           /\ r \in Fetches /\ held[r] # "must" => pipe[r]
BY RequestServerAssumption DEF TransferInv, TransferOK, TransferInFetch, BodyKnown, PipeReady

LEMMA OnDataTransfer ==
    ASSUME TypeOK, LockInv, TransferInv, NEW r \in Requests, OnDataShielded(r) \/ OnDataPipeFails(r)
    PROVE  TransferInv'
<1> USE DEF Transferring
<1>0. running = Idle /\ r \in live /\ multi[r]
  BY DEF OnDataShielded, OnDataPipeFails
<1>1. TransferOK(r) /\ ~aborted[r] /\ state[r] = "Fetch" /\ curl[r] = "none" /\ r \notin finishing
  BY <1>0, TransferringStill
<1>2. CASE OnDataShielded(r)
  <2>1. OnlyTouches(r)
    BY <1>0, <1>2 DEF OnDataShielded, OnlyTouches, Untouched, cacheVars, endVars, TypeOK
  <2>2. UNCHANGED <<state, held, curl, ver, got, out, multi, blocked, pipe, sentHeaders, finishing>>
        /\ aborted'[r] /\ running' = r
    BY <1>2 DEF OnDataShielded, cacheVars, endVars, TypeOK
  <2>3. TransferOK(r)'
    BY <1>0, <1>1, <2>2
       DEF TransferOK, QuietBefore, TransferInFetch, QueueBounded, BodyKnown, PipeReady, NothingFetched,
           Searching, BeforeTransfer
  <2> QED BY <2>1, <2>3, OneRequestStep
<1>3. CASE OnDataPipeFails(r)
  <2>0. held'[r] = "none" /\ \A q \in Requests : q # r => held'[q] = held[q]
    BY <1>3, EntryOfOthers DEF OnDataPipeFails
  <2>1. OnlyTouches(r)
    BY <1>0, <1>3, <2>0 DEF OnDataPipeFails, OnlyTouches, Untouched, TypeOK
  <2>2. r \in Fetches /\ held[r] = "must" /\ NothingFetched(r)
    <3>1. r \in Fetches /\ held[r] = "must"
      BY <1>3, DiskCacheAssumption DEF OnDataPipeFails, IsRevalidationRequest
    <3> QED BY <1>1, <3>1 DEF TransferOK, BodyKnown
  <2>3. UNCHANGED <<curl, ver, got, out, multi, blocked, pipe, sentHeaders>>
        /\ state'[r] = "Error" /\ aborted'[r] /\ running' = r
    BY <1>3 DEF OnDataPipeFails, TypeOK
  <2>4. TransferOK(r)'
    BY <1>0, <1>1, <2>0, <2>2, <2>3, DiskCacheAssumption
       DEF TransferOK, QuietBefore, TransferInFetch, QueueBounded, BodyKnown, PipeReady, NothingFetched,
           Searching, BeforeTransfer
  <2> QED BY <2>1, <2>4, OneRequestStep
<1> QED BY <1>2, <1>3

LEMMA OnDataReceivedTransfer ==
    ASSUME TypeOK, LockInv, TransferInv, NEW r \in Requests,
           NEW accepted \in BOOLEAN, NEW tracker \in BOOLEAN, NEW broken \in BOOLEAN, NEW diskOK \in BOOLEAN,
           NEW n \in 0 .. (got[r] + 1), OnDataReceived(r, accepted, tracker, n, broken, diskOK)
    PROVE  TransferInv'
<1> DEFINE reval   == IsRevalidationRequest(r)
           deleted == ~reval /\ marked[r]
           writer0 == reval \/ held[r] = "writer"
           writer1 == writer0 /\ (sentHeaders[r] \/ (accepted /\ ~deleted))
           writer2 == writer1 /\ (n > 0 => diskOK /\ ~deleted)
           e       == IF writer2 THEN "writer" ELSE IF writer0 THEN "none" ELSE held[r]
           closes  == reval \/ (writer0 /\ ~writer2)
           full    == got[r] + 1 - out[r]
<1>0. running = Idle /\ r \in live /\ multi[r]
  BY DEF OnDataReceived, Transferring
<1>1. /\ TransferOK(r) /\ ~aborted[r] /\ state[r] = "Fetch" /\ curl[r] = "none" /\ r \notin finishing
      /\ r \in Fetches /\ held[r] # "must" => pipe[r]
  BY <1>0, TransferringStill
<1>2. SetEntry(r, e, closes)
  BY DEF OnDataReceived
<1>3. held' = [held EXCEPT ![r] = e] /\ held'[r] = e
  <2> HIDE DEF e, closes
  <2> QED BY <1>2, EntryOfOthers
<1>4. r \in Fetches => e # "must" /\ (held[r] = "must" => reval)
  BY <1>0 DEF IsRevalidationRequest
<1> HIDE DEF e, closes, reval
<1>5. /\ UNCHANGED <<state, curl, multi, finishing>> /\ sentHeaders'[r]
      /\ running' = IF tracker \/ broken THEN r ELSE Idle
  BY DEF OnDataReceived, endVars, TypeOK
<1>6. OnlyTouches(r)
  BY <1>0, <1>3, <1>5 DEF OnDataReceived, OnlyTouches, Untouched, TypeOK, CacheTypeOK
<1>7. aborted'[r] <=> tracker \/ broken
  BY DEF OnDataReceived, TypeOK
<1>8. /\ out'[r] = out[r] + n /\ got'[r] = IF tracker THEN got[r] ELSE got[r] + 1
      /\ n <= full /\ (tracker => n = 0 /\ ~broken) /\ (broken => n < full)
  BY DEF OnDataReceived, TypeOK
<1>9. blocked'[r] => (IF tracker \/ broken THEN blocked[r] ELSE n < full)
  <2> HIDE DEF full
  <2>1. blocked' = [blocked EXCEPT ![r] = IF tracker \/ broken THEN @ ELSE n < full]
    BY DEF OnDataReceived, full
  <2> QED BY <2>1 DEF TypeOK
<1>10. r \in Fetches => pipe'[r]
  <2>1. pipe' = [pipe EXCEPT ![r] = @ \/ (reval /\ r \in Fetches)]
    BY DEF OnDataReceived, reval
  <2>2. r \in Fetches => pipe[r] \/ reval
    BY <1>1, <1>4
  <2> QED BY <2>1, <2>2 DEF TypeOK
<1>11. QueueBounded(r)'
  <2>1. out[r] \in Nat /\ got[r] \in Nat /\ n \in Nat /\ out[r] <= got[r] /\ (blocked[r] => out[r] < got[r])
    BY <1>1 DEF TransferOK, QueueBounded, TypeOK
  <2> QED BY <1>1, <1>5, <1>8, <1>9, <2>1 DEF QueueBounded
<1>12. QuietBefore(r)' /\ TransferInFetch(r)'
  BY <1>0, <1>1, <1>5, <1>7, RequestServerAssumption
     DEF QuietBefore, TransferInFetch, Searching, BeforeTransfer
<1>13. ver'[r] # 0
  BY StoresTyped DEF OnDataReceived, Version, TypeOK
<1>14. BodyKnown(r)' /\ PipeReady(r)'
  BY <1>1, <1>3, <1>4, <1>5, <1>10, <1>13 DEF BodyKnown, PipeReady
<1> QED BY <1>6, <1>11, <1>12, <1>14, OneRequestStep DEF TransferOK

LEMMA FetchEndsTransfer ==
    ASSUME TypeOK, LockInv, TransferInv, NEW r \in Requests, NEW code \in CurlCodes,
           FetchRetried(r) \/ FetchNotModified(r) \/ FetchPipeFails(r, code) \/ FetchComplete(r, code)
    PROVE  TransferInv'
<1> USE DEF TransitionToState
<1>0. /\ multi[r] /\ r \in live /\ running \in {r, Idle} /\ TransferOK(r) /\ curl[r] = "none"
      /\ state[r] = "Fetch" \/ (state[r] = "Error" /\ aborted[r] /\ NothingFetched(r))
      /\ state[r] = "Fetch" => r \notin finishing
      /\ multi' = [multi EXCEPT ![r] = FALSE] /\ ~multi'[r]
  BY DEF FetchRetried, FetchNotModified, FetchPipeFails, FetchComplete, FetchEnds, TypeOK, TransferInv,
         TransferOK, TransferInFetch, BodyKnown
<1>1. UNCHANGED <<got, out, blocked, finishing>>
  BY DEF FetchRetried, FetchNotModified, FetchPipeFails, FetchComplete, endVars, transferVars
<1> USE DEF TransferOK, NothingFetched, Searching, BeforeTransfer
<1>2. CASE FetchRetried(r)
  <2>1. /\ running = Idle /\ ~aborted[r] /\ state[r] = "Fetch" /\ got[r] = 0 /\ ver[r] = 0 /\ out[r] = 0
        /\ UNCHANGED <<held, sentHeaders, pipe, aborted, curl, ver>> /\ running' = r
        /\ state' = [state EXCEPT ![r] = "Fetch"]
    BY <1>0, <1>2 DEF FetchRetried, FetchEnds, cacheVars
  <2>2. OnlyTouches(r) /\ state'[r] = "Fetch"
    BY <1>0, <1>1, <2>1 DEF OnlyTouches, Untouched, TypeOK
  <2>3. TransferOK(r)'
    BY <1>0, <1>1, <2>1, <2>2 DEF QuietBefore, TransferInFetch, QueueBounded, BodyKnown, PipeReady
  <2> QED BY <2>2, <2>3, OneRequestStep
<1>3. CASE FetchNotModified(r)
  <2>1. /\ running = Idle /\ ~aborted[r] /\ state[r] = "Fetch" /\ got[r] = 0 /\ out[r] = 0
        /\ UNCHANGED <<sentHeaders, pipe, aborted, curl, ver>> /\ running' = r
        /\ IsRevalidationRequest(r)
    BY <1>0, <1>3 DEF FetchNotModified, FetchEnds, NotModified, QueueBounded, TypeOK
  <2>2. /\ state' = [state EXCEPT ![r] = IF r \in Fetches THEN "ReadCache" ELSE "Complete"]
        /\ held'[r] = IF r \in Fetches THEN held[r] ELSE "none"
        /\ \A q \in Requests : q # r => held'[q] = held[q]
    BY <1>3, EntryOfOthers DEF FetchNotModified
  <2>3. r \in Fetches => held[r] = "must" /\ ver[r] = 0
    BY <1>0, <2>1, DiskCacheAssumption DEF IsRevalidationRequest, BodyKnown
  <2>4. OnlyTouches(r) /\ state'[r] = (IF r \in Fetches THEN "ReadCache" ELSE "Complete")
    BY <1>0, <1>1, <2>1, <2>2 DEF OnlyTouches, Untouched, TypeOK
  <2>5. TransferOK(r)'
    BY <1>0, <1>1, <2>1, <2>2, <2>3, <2>4 DEF QuietBefore, TransferInFetch, QueueBounded, BodyKnown, PipeReady
  <2> QED BY <2>4, <2>5, OneRequestStep
<1>4. CASE FetchPipeFails(r, code)
  <2>1. /\ UNCHANGED <<sentHeaders, pipe, curl, ver>> /\ running' = r
        /\ state' = [state EXCEPT ![r] = "Error"] /\ aborted' = [aborted EXCEPT ![r] = FALSE]
        /\ IsRevalidationRequest(r) /\ r \in Fetches
    BY <1>4 DEF FetchPipeFails
  <2>2. held[r] = "must" /\ got[r] = 0 /\ out[r] = 0 /\ ver[r] = 0
    BY <1>0, <2>1, DiskCacheAssumption DEF IsRevalidationRequest, BodyKnown
  <2>3. held'[r] = "none" /\ \A q \in Requests : q # r => held'[q] = held[q]
    BY <1>4, EntryOfOthers DEF FetchPipeFails
  <2>4. OnlyTouches(r) /\ state'[r] = "Error"
    BY <1>0, <1>1, <2>1, <2>3 DEF OnlyTouches, Untouched, TypeOK
  <2>5. TransferOK(r)'
    BY <1>0, <1>1, <2>1, <2>2, <2>3, <2>4 DEF QuietBefore, TransferInFetch, QueueBounded, BodyKnown, PipeReady
  <2> QED BY <2>4, <2>5, OneRequestStep
<1>5. CASE FetchComplete(r, code)
  <2>1. /\ aborted' = [aborted EXCEPT ![r] = FALSE]
        /\ curl' = [curl EXCEPT ![r] = code] /\ curl'[r] = code /\ code \in CurlCodes
        /\ code = "OK" => ver'[r] = Answer(r) /\ got[r] = Size[Answer(r)]
        /\ code # "OK" => ver'[r] = ver[r]
        /\ code = "Recv" => "recv" \in Faults
        /\ code = "OK" => running = Idle /\ ~aborted[r]
        /\ \A q \in Requests : q # r => ver'[q] = ver[q] /\ pipe'[q] = pipe[q] /\ sentHeaders'[q] = sentHeaders[q]
        /\ pipe[r] => pipe'[r]
        /\ sentHeaders[r] => sentHeaders'[r]
    BY <1>5 DEF FetchComplete, FetchEnds, TypeOK
  <2>2. /\ \A q \in Requests : q # r => held'[q] = held[q]
        /\ held'[r] \in {held[r], "none"}
        /\ r \in Fetches => held'[r] # "must"
    BY <1>0, <1>5, EntryOfOthers DEF FetchComplete, IsRevalidationRequest
  <2>3. \/ got[r] = out[r] /\ state' = [state EXCEPT ![r] = "Complete"] /\ running' = r
        \/ got[r] # out[r] /\ state' = state /\ running' = Idle
    BY <1>5 DEF FetchComplete
  <2>4. OnlyTouches(r) /\ (got[r] = out[r] => state'[r] = "Complete")
    BY <1>0, <1>1, <2>1, <2>2, <2>3 DEF OnlyTouches, Untouched, TypeOK
  <2>5. QuietBefore(r)' /\ TransferInFetch(r)'
    BY <1>0, <1>1, <2>1, <2>2, <2>3, <2>4, RequestServerAssumption DEF QuietBefore, TransferInFetch
  <2>6. QueueBounded(r)' /\ PipeReady(r)'
    BY <1>0, <1>1, <2>1, <2>2, <2>3, <2>4 DEF QueueBounded, PipeReady, TypeOK
  <2>7. Answer(r) # 0
    BY StoresTyped DEF Version
  <2>8. BodyKnown(r)'
    BY <1>0, <1>1, <2>1, <2>2, <2>3, <2>4, <2>7 DEF BodyKnown, CurlCodes
  <2> QED BY <2>4, <2>5, <2>6, <2>8, OneRequestStep
<1> QED BY <1>2, <1>3, <1>4, <1>5

LEMMA WriterNotifierTransfer ==
    ASSUME TypeOK, LockInv, TransferInv, NEW r \in Requests,
           NEW n \in 0 .. got[r], NEW broken \in BOOLEAN, NEW diskOK \in BOOLEAN,
           WriteQueuedBytes(r, n, broken, diskOK)
    PROVE  TransferInv'
<1> DEFINE full == got[r] - out[r]
<1>0. /\ running = Idle /\ r \in live /\ blocked[r] /\ TransferOK(r) /\ out[r] < got[r]
      /\ state[r] \in {"Fetch", "ServeSubstitution"} /\ r \notin finishing
  BY DEF WriteQueuedBytes, TransferInv, TransferOK, QueueBounded, BodyKnown
<1>1. /\ UNCHANGED <<sentHeaders, pipe, multi, aborted, curl, ver, got, finishing>>
      /\ out' = [out EXCEPT ![r] = @ + n] /\ out'[r] = out[r] + n /\ n <= full
      /\ blocked' = [blocked EXCEPT ![r] = ~broken /\ n < full]
  BY DEF WriteQueuedBytes, endVars, TypeOK
<1>2. \/ n = full /\ curl[r] # "none" /\ state' = [state EXCEPT ![r] = "Complete"] /\ running' = r
      \/ ~(n = full /\ curl[r] # "none") /\ UNCHANGED <<state, running>>
  BY DEF WriteQueuedBytes, TransitionToState
<1>3. \A q \in Requests : q # r => held'[q] = held[q]
  BY EntryOfOthers DEF WriteQueuedBytes
<1>4. held'[r] \in {held[r], "none"} /\ (held[r] = "must" => held'[r] = "must")
  BY EntryOfOthers DEF WriteQueuedBytes
<1>5. out[r] \in Nat /\ got[r] \in Nat /\ n \in Nat
  BY DEF TypeOK
<1>6. OnlyTouches(r)
  BY <1>0, <1>1, <1>2, <1>3 DEF OnlyTouches, Untouched, TypeOK
<1>7. blocked'[r] => n < full
  <2> HIDE DEF full
  <2> QED BY <1>1 DEF TypeOK
<1>8. \/ n = full /\ curl[r] # "none" /\ state'[r] = "Complete"
      \/ ~(n = full /\ curl[r] # "none") /\ state'[r] = state[r] /\ running' = Idle
  BY <1>0, <1>2 DEF TypeOK
<1>9. QueueBounded(r)'
  BY <1>0, <1>1, <1>5, <1>7, <1>8 DEF QueueBounded, TransferOK
<1>10. QuietBefore(r)' /\ TransferInFetch(r)'
  BY <1>0, <1>1, <1>4, <1>8, RequestServerAssumption
     DEF QuietBefore, TransferInFetch, TransferOK, Searching, BeforeTransfer
<1>11. BodyKnown(r)' /\ PipeReady(r)'
  BY <1>0, <1>1, <1>4, <1>5, <1>8 DEF BodyKnown, PipeReady, TransferOK, NothingFetched
<1> QED BY <1>6, <1>9, <1>10, <1>11, OneRequestStep DEF TransferOK

LEMMA CompleteTransfer ==
    ASSUME TypeOK, LockInv, TransferInv, NEW r \in Requests, HandleCompleteState(r) \/ HandleErrorState(r)
    PROVE  TransferInv'
<1> USE DEF HandleCompleteState, CompleteFails, CompleteWithoutFlush, CompleteWithFlush, HandleErrorState,
            Handling, TransitionToState, RequestComplete
<1>0. running = r /\ state[r] \in {"Complete", "Error"} /\ TransferOK(r) /\ ~multi[r] /\ ~blocked[r]
  BY DEF TransferInv, TransferOK, TransferInFetch, QueueBounded
<1>1. UNCHANGED <<pipe, multi, aborted, curl, ver, got, out, blocked>> /\ running' \in {r, Idle}
  BY DEF transferVars
<1>2. /\ \A q \in Requests : q # r => sentHeaders'[q] = sentHeaders[q]
      /\ sentHeaders[r] => sentHeaders'[r]
  BY DEF transferVars, TypeOK
<1>3. /\ \A q \in Requests : q # r => held'[q] = held[q]
      /\ held'[r] \in {held[r], "none"}
  <2>1. held' = held \/ CacheEntryClosed(r)
    BY DEF cacheVars, lockVars, Flush
  <2> QED BY <2>1, EntryOfOthers
<1>4. \/ state' = state /\ finishing' = finishing \cup {r}
         /\ (state[r] = "Complete" /\ r \in Fetches => EffectiveCode(r) = "OK")
      \/ state' = [state EXCEPT ![r] = "Error"] /\ UNCHANGED finishing
  BY DEF endVars
<1>5. OnlyTouches(r)
  BY <1>0, <1>1, <1>2, <1>3, <1>4 DEF OnlyTouches, Untouched, TypeOK
<1>6. \/ state'[r] = state[r] /\ (state[r] = "Complete" /\ r \in Fetches => curl[r] \in {"OK", "Recv"})
      \/ state'[r] = "Error"
  BY <1>4 DEF EffectiveCode, TypeOK
<1>7. QuietBefore(r)' /\ TransferInFetch(r)' /\ QueueBounded(r)'
  BY <1>0, <1>1, <1>6 DEF QuietBefore, TransferInFetch, QueueBounded, TransferOK, Searching, BeforeTransfer
<1>8. BodyKnown(r)' /\ PipeReady(r)'
  BY <1>0, <1>1, <1>2, <1>3, <1>6 DEF BodyKnown, PipeReady, TransferOK, NothingFetched
<1> QED BY <1>5, <1>7, <1>8, OneRequestStep DEF TransferOK

LEMMA DestroyTransfer ==
    ASSUME TypeOK, LockInv, TransferInv, NEW S \in SUBSET Requests, DestroyRequests(S)
    PROVE  TransferInv'
<1> SUFFICES ASSUME NEW q \in Requests PROVE TransferOK(q)'
  BY DEF TransferInv
<1>1. TransferOK(q)
  BY DEF TransferInv
<1>2. /\ UNCHANGED <<running, state, sentHeaders, pipe, aborted, curl, ver, got, out>>
      /\ held'[q] \in {held[q], "none"} /\ (held[q] = "must" => held'[q] = "must")
      /\ multi'[q] => multi[q]
      /\ blocked'[q] => blocked[q]
      /\ q \in finishing' => q \in finishing
  BY DEF DestroyRequests, TypeOK, CacheTypeOK
<1>3. QuietBefore(q)' /\ TransferInFetch(q)'
  BY <1>1, <1>2 DEF TransferOK, QuietBefore, TransferInFetch, NothingFetched
<1>4. QueueBounded(q)' /\ BodyKnown(q)' /\ PipeReady(q)'
  BY <1>1, <1>2 DEF TransferOK, QueueBounded, BodyKnown, PipeReady, NothingFetched
<1> QED BY <1>3, <1>4 DEF TransferOK

\* Every step keeps the invariant.
LEMMA TransferInvStep == TypeOK /\ LockInv /\ TransferInv /\ [Next]_vars => TransferInv'
<1> SUFFICES ASSUME TypeOK, LockInv, TransferInv, [Next]_vars PROVE TransferInv'
  OBVIOUS
<1>1. ASSUME NEW r \in Fetches, NEW m \in Modes, StartRequest(r, m) PROVE TransferInv'
  <2>1. r \in Requests /\ held[r] = "none"
    BY <1>1 DEF Requests, StartRequest, LockInv, UnusedHoldsNothing
  <2> QED BY <1>1, <2>1, QuietMove
          DEF StartRequest, TransitionToState, BeforeTransfer, lockVars, endVars
<1>2. ASSUME NEW r \in Requests, NotifyRequestUnblocked(r) PROVE TransferInv'
  <2>1. state[r] = "WaitForCache"
    BY <1>2 DEF NotifyRequestUnblocked, LockInv, NoLostWakeup
  <2>2. held[r] = "none"
    BY <2>1 DEF TransferInv, TransferOK, QuietBefore, Searching
  <2> QED BY <1>2, <2>1, <2>2, QuietMove
          DEF NotifyRequestUnblocked, TransitionToState, BeforeTransfer, endVars
<1>3. ASSUME NEW r \in Requests, SendOrphaned(r) PROVE TransferInv'
  <2>0. state[r] = "ReadCache" /\ state \in [Requests -> States]
    BY <1>3 DEF SendOrphaned, TypeOK
  <2>1. state' = [state EXCEPT ![r] = "ReadCache"] /\ UNCHANGED <<transferVars, finishing>>
        /\ running = Idle /\ running' = Idle
    BY <1>3, <2>0 DEF SendOrphaned, endVars
  <2>2. held'[r] = "none" /\ \A q \in Requests : q # r => held'[q] = held[q]
    BY <1>3, EntryOfOthers DEF SendOrphaned
  <2> QED BY <2>0, <2>1, <2>2, QuietMove DEF BeforeTransfer
<1>4. ASSUME NEW r \in Requests, RequestRemoved(r) \/ StopRequest(r) PROVE TransferInv'
  BY <1>4, DestroyTransfer DEF RequestRemoved, StopRequest
<1>5. ASSUME NEW c \in Clients, ClientDisconnects(c) PROVE TransferInv'
  BY <1>5, DestroyTransfer DEF ClientDisconnects, TypeOK, CacheTypeOK
<1>6. CASE \/ \E ks \in SUBSET RowKeys : RemoveEntriesAccessedSince(ks)
           \/ \E k \in Keys : OriginChanges(k)
           \/ UNCHANGED vars
  <2>1. UNCHANGED <<running, state, held, transferVars, finishing>>
    BY <1>6 DEF RemoveEntriesAccessedSince, OriginChanges, vars, lockVars, cacheVars, endVars
  <2>2. \A q \in Requests : Untouched(q)
    BY <2>1 DEF Untouched, transferVars
  <2> QED BY <2>1, <2>2, UntouchedKept DEF TransferInv
<1>7. CASE Crash
  <2> SUFFICES ASSUME NEW q \in Requests PROVE TransferOK(q)'
    BY DEF TransferInv
  <2>1. TransferOK(q)
    BY DEF TransferInv
  <2>2. /\ UNCHANGED <<state, sentHeaders, pipe, aborted, curl, ver, got, out>>
        /\ running' # q /\ held'[q] = "none" /\ ~multi'[q] /\ ~blocked'[q] /\ q \notin finishing'
    BY <1>7, RequestServerAssumption DEF Crash
  <2> QED BY <2>1, <2>2 DEF TransferOK, QuietBefore, TransferInFetch, QueueBounded, BodyKnown, PipeReady,
                            NothingFetched
<1>8. ASSUME NEW r \in Requests, OnData(r) \/ NotifyFetchComplete(r) PROVE TransferInv'
  BY <1>8, OnDataTransfer, OnDataReceivedTransfer, FetchEndsTransfer
     DEF OnData, NotifyFetchComplete, CurlCodes
<1>9. ASSUME NEW r \in Requests, WriterNotifier(r) PROVE TransferInv'
  BY <1>9, WriterNotifierTransfer DEF WriterNotifier
<1> QED
  BY <1>1, <1>2, <1>3, <1>4, <1>5, <1>6, <1>7, <1>8, <1>9, InitialStateTransfer, ReadCacheTransfer,
     FailedCacheOnlyTransfer, ServeSubstitutionTransfer, LookupTransfer, FetchStateTransfer, CompleteTransfer
     DEF Next, Process, Answered

LEMMA InitTransferInv == Init => TransferInv
BY RequestServerAssumption
   DEF Init, CacheInit, TransferInv, TransferOK, QuietBefore, TransferInFetch, QueueBounded, BodyKnown,
       PipeReady, NothingFetched, Searching, BeforeTransfer

\* The invariants of the lock and of the transfers hold together.
LEMMA RequestsInvariant == Spec => [](TypeOK /\ LockInv /\ TransferInv)
BY InitLockInv, LockStep, InitTransferInv, TransferInvStep, TypeCorrect, PTL DEF Spec

(***************************************************************************)
(* What the handlers find.                                                 *)
(***************************************************************************)

Connecting == {"DNSLookup", "RetrieveCookie", "Fetch"}

\* Of the reader and of the transfer, what a step of r must leave behind for the
\* handlers of r that run later.  A reader is given up only by a turn that also
\* leaves the states that use it, or sends the headers that replace them; a
\* background request never skips the cache, and has no bytes to write before it
\* has headers; a destroyed request may lose its reader at any time.
Ready(r) ==
    /\ r \in Revals => mode[r] = "Default"
    /\ got[r] > 0 => sentHeaders[r]
    /\ aborted[r] => multi[r] /\ running = r
    /\ r \in live /\ state[r] = "ReadCache" => held[r] \in Reader
    /\ r \in live /\ r \in Revals /\ state[r] \in Connecting /\ ~sentHeaders[r] => held[r] \in Reader
    /\ r \in live /\ state[r] = "Fetch" /\ running # r /\ ~multi[r] => curl[r] # "none"

ReadyInv == \A r \in Requests : Ready(r)

\* What Ready says of a request, left as it was.
LeftReady(q) ==
    /\ state'[q] = state[q] /\ held'[q] = held[q] /\ curl'[q] = curl[q] /\ mode'[q] = mode[q]
    /\ got'[q] = got[q] /\ multi'[q] = multi[q] /\ aborted'[q] = aborted[q]
    /\ sentHeaders'[q] = sentHeaders[q]

OnlyReadies(r) ==
    /\ running \in {r, Idle} /\ running' \in {r, Idle}
    /\ live' \subseteq live \cup {r}
    /\ \A q \in Requests : q # r => LeftReady(q)

LEMMA OneRequestReady ==
    ASSUME ReadyInv, NEW r \in Requests, OnlyReadies(r), Ready(r)'
    PROVE  ReadyInv'
<1> SUFFICES ASSUME NEW q \in Requests PROVE Ready(q)'
  BY DEF ReadyInv
<1>1. CASE q = r
  BY <1>1
<1>2. CASE q # r
  <2>1. Ready(q) /\ LeftReady(q) /\ (q \in live' => q \in live)
    BY <1>2 DEF ReadyInv, OnlyReadies
  <2>2. running' # q /\ running # q
    BY <1>2, RequestServerAssumption DEF OnlyReadies
  <2> QED BY <2>1, <2>2 DEF Ready, LeftReady
<1> QED BY <1>1, <1>2

\* A turn of r that neither takes data nor ends a transfer: it moves r to s.
LEMMA ReadyMove ==
    ASSUME TypeOK, ReadyInv, NEW r \in Requests, ~aborted[r],
           UNCHANGED <<live, mode, aborted>>, running \in {r, Idle}, running' \in {r, Idle},
           NEW s, state' = [state EXCEPT ![r] = s],
           \A q \in Requests : q # r => /\ held'[q] = held[q] /\ curl'[q] = curl[q] /\ got'[q] = got[q]
                                        /\ multi'[q] = multi[q] /\ sentHeaders'[q] = sentHeaders[q],
           got'[r] > 0 => sentHeaders'[r],
           s = "ReadCache" /\ r \in live => held'[r] \in Reader,
           r \in Revals /\ s \in Connecting /\ ~sentHeaders'[r] => held'[r] \in Reader,
           s = "Fetch" => running' = r \/ multi'[r] \/ curl'[r] # "none"
    PROVE  ReadyInv'
<1>1. state'[r] = s /\ \A q \in Requests : q # r => state'[q] = state[q]
  BY DEF TypeOK
<1>2. OnlyReadies(r)
  BY <1>1 DEF OnlyReadies, LeftReady
<1>3. Ready(r)
  BY DEF ReadyInv
<1>4. Ready(r)'
  BY <1>1, <1>3 DEF Ready
<1> QED BY <1>2, <1>4, OneRequestReady

LEMMA AfterMissReady ==
    ASSUME TypeOK, LockInv, TransferInv, ReadyInv, NEW r \in Requests, Handling(r, "Init"), AfterMiss(r),
           UNCHANGED <<live, mode, transferVars>>
    PROVE  ReadyInv'
<1> USE DEF Handling, TransitionToState, AwaitIn, transferVars
<1>1. Ready(r) /\ running = r /\ ~aborted[r]
  BY DEF ReadyInv
<1>2. CASE TransitionToState(r, "Complete") /\ UNCHANGED lockVars
  BY <1>1, <1>2, EntryOfOthers, ReadyMove DEF Connecting, Ready
<1>3. CASE TransitionToState(r, "FailedCacheOnly") /\ UNCHANGED lockVars
  BY <1>1, <1>3, EntryOfOthers, ReadyMove DEF Connecting, Ready
<1>4. CASE r \in Fetches /\ TransitionToState(r, "DNSLookup") /\ (UNCHANGED lockVars \/ OpenAs(r, "writer"))
  <2>1. r \notin Revals
    BY <1>4, DiskCacheAssumption
  <2>2. \A q \in Requests : q # r => held'[q] = held[q]
    BY <1>4, EntryOfOthers
  <2> QED BY <1>1, <1>4, <2>1, <2>2, ReadyMove DEF Ready
<1>5. CASE AwaitIn(r, "WaitForCache") /\ WaitForKey(r)
  BY <1>1, <1>5, EntryOfOthers, ReadyMove DEF Connecting, Ready
<1> QED BY <1>2, <1>3, <1>4, <1>5 DEF AfterMiss

LEMMA InitialStateReady ==
    ASSUME TypeOK, LockInv, TransferInv, ReadyInv, NEW r \in Requests, HandleInitialState(r)
    PROVE  ReadyInv'
<1> USE DEF Handling, TransitionToState, AwaitIn
<1>0. Handling(r, "Init")
  BY DEF HandleInitialState, InitBypass, InitWait, InitMiss, InitUnreadable, InitStale, InitRevalidateWait,
         InitHit, InitHitStaleWhileRevalidate, LookupGives, Lookup, AtInit
<1>1. Ready(r) /\ running = r /\ ~aborted[r]
  BY <1>0 DEF ReadyInv
<1>2. CASE InitBypass(r)
  <2>1. UNCHANGED <<live, mode, held, transferVars>>
    BY <1>2 DEF InitBypass, cacheVars
  <2>2. CASE TransitionToState(r, "ServeSubstitution")
    BY <1>1, <2>1, <2>2, ReadyMove DEF Connecting, Ready, transferVars
  <2>3. CASE TransitionToState(r, "DNSLookup") /\ mode[r] = "NoStore"
    BY <1>1, <2>1, <2>3, ReadyMove DEF Ready, transferVars
  <2> QED BY <1>2, <2>2, <2>3 DEF InitBypass
<1>3. CASE InitWait(r) \/ InitRevalidateWait(r)
  <2>1. held' = held /\ UNCHANGED <<live, mode, transferVars>> /\ AwaitIn(r, "WaitForCache")
    BY <1>3, EntryOfOthers DEF InitWait, InitRevalidateWait
  <2> QED BY <1>1, <2>1, ReadyMove DEF Connecting, Ready, transferVars
<1>4. CASE InitMiss(r) \/ InitUnreadable(r) \/ InitStale(r)
  <2>1. AfterMiss(r) /\ UNCHANGED <<live, mode, transferVars>>
    BY <1>4 DEF InitMiss, InitUnreadable, InitStale
  <2> QED BY <1>0, <2>1, AfterMissReady
<1>5. CASE InitHit(r)
  <2>1. UNCHANGED <<live, mode, transferVars>>
    BY <1>5 DEF InitHit, OpenReader
  <2>2. held'[r] \in Reader /\ \A q \in Requests : q # r => held'[q] = held[q]
    BY <1>5, EntryOfOthers DEF InitHit, Reader
  <2>3. PICK s \in {"DNSLookup", "ReadCache"} : TransitionToState(r, s)
    BY <1>5 DEF InitHit
  <2> QED BY <1>1, <2>1, <2>2, <2>3, ReadyMove DEF Ready, transferVars
<1>6. ASSUME NEW b \in Revals, InitHitStaleWhileRevalidate(r, b) PROVE ReadyInv'
  <2>1. b \in Requests /\ b # r /\ state[b] = "unused" /\ UNCHANGED <<mode, transferVars>> /\ running' = r
        /\ live' = live \cup {b}
        /\ held' = [held EXCEPT ![r] = "swr"]
        /\ state' = [state EXCEPT ![r] = "ReadCache", ![b] = "WaitForCache"]
    <3>1. r \in Fetches
      BY <1>6, LookupLocks DEF InitHitStaleWhileRevalidate
    <3> QED BY <1>6, <3>1, DiskCacheAssumption DEF InitHitStaleWhileRevalidate, OpenReader, Requests
  <2> SUFFICES ASSUME NEW q \in Requests PROVE Ready(q)'
    BY DEF ReadyInv
  <2>2. Ready(q)
    BY DEF ReadyInv
  <2>3. CASE q # r /\ q # b
    BY <1>1, <2>1, <2>2, <2>3 DEF Ready, transferVars, TypeOK, CacheTypeOK
  <2>4. CASE q = r
    BY <1>1, <2>1, <2>2, <2>4, DiskCacheAssumption
       DEF Ready, Connecting, Reader, transferVars, TypeOK, CacheTypeOK
  <2>5. CASE q = b
    BY <1>1, <2>1, <2>2, <2>5 DEF Ready, Connecting, transferVars, TypeOK, CacheTypeOK
  <2> QED BY <2>3, <2>4, <2>5
<1> QED BY <1>2, <1>3, <1>4, <1>5, <1>6 DEF HandleInitialState

LEMMA ReadCacheReady ==
    ASSUME TypeOK, LockInv, TransferInv, ReadyInv, NEW r \in Requests,
           HandleReadCacheState(r) \/ SendResumes(r)
    PROVE  ReadyInv'
<1> USE DEF Handling, Event, TransitionToState, AwaitIn
<1>0. state[r] = "ReadCache" /\ running \in {r, Idle} /\ r \in live /\ Ready(r)
  BY DEF HandleReadCacheState, ReadCachePipeFails, ReadCacheSend, ReadCacheTakeBodyFile, SendResumes,
         LockInv, RunningLives, ReadyInv
<1>1. ~aborted[r]
  BY <1>0, RequestServerAssumption
     DEF HandleReadCacheState, ReadCachePipeFails, ReadCacheSend, ReadCacheTakeBodyFile, SendResumes, Ready
<1>2. UNCHANGED <<live, mode, got, multi, aborted>>
  BY DEF HandleReadCacheState, ReadCachePipeFails, ReadCacheSend, ReadCacheTakeBodyFile, SendResumes, cacheVars
<1>3. /\ \A q \in Requests : q # r => sentHeaders'[q] = sentHeaders[q]
      /\ sentHeaders[r] => sentHeaders'[r]
  BY DEF HandleReadCacheState, ReadCachePipeFails, ReadCacheSend, ReadCacheTakeBodyFile, SendResumes, TypeOK
<1>4. \/ UNCHANGED <<lockVars, curl>> /\ AwaitIn(r, "ReadCache")
      \/ (UNCHANGED lockVars \/ CacheEntryClosed(r)) /\ UNCHANGED curl /\ TransitionToState(r, "Error")
      \/ CacheEntryClosed(r) /\ curl' = [curl EXCEPT ![r] = "OK"] /\ TransitionToState(r, "Complete")
  BY DEF HandleReadCacheState, ReadCachePipeFails, ReadCacheSend, ReadCacheTakeBodyFile, SendResumes,
         SendWithoutBlocking, SendComplete, SendError, SendBlocked, cacheVars, lockVars
<1>5. \A q \in Requests : q # r => held'[q] = held[q] /\ curl'[q] = curl[q]
  BY <1>4, EntryOfOthers DEF TypeOK
<1>6. PICK s \in {"ReadCache", "Complete", "Error"} :
         state' = [state EXCEPT ![r] = s] /\ (s = "ReadCache" => held' = held)
  BY <1>4, EntryOfOthers
<1>7. running' \in {r, Idle}
  BY <1>4
<1> QED BY <1>0, <1>1, <1>2, <1>3, <1>5, <1>6, <1>7, ReadyMove DEF Ready, Connecting

LEMMA CachelessReady ==
    ASSUME TypeOK, LockInv, TransferInv, ReadyInv, NEW r \in Requests,
           HandleFailedCacheOnlyState(r) \/ HandleServeSubstitutionState(r)
    PROVE  ReadyInv'
<1> USE DEF HandleFailedCacheOnlyState, HandleServeSubstitutionState, Handling, TransitionToState, AwaitIn
<1>1. UNCHANGED <<live, mode, held, multi, aborted>> /\ running = r /\ ~aborted[r] /\ running' \in {r, Idle}
  BY DEF cacheVars
<1>2. PICK s \in {"ServeSubstitution", "Complete", "Error"} : state' = [state EXCEPT ![r] = s]
  OBVIOUS
<1>3. \A q \in Requests : q # r => curl'[q] = curl[q] /\ got'[q] = got[q] /\ sentHeaders'[q] = sentHeaders[q]
  BY DEF TypeOK
<1>4. got'[r] > 0 => sentHeaders'[r]
  BY DEF ReadyInv, Ready, TypeOK
<1> QED BY <1>1, <1>2, <1>3, <1>4, ReadyMove DEF Connecting

LEMMA LookupReady ==
    ASSUME TypeOK, LockInv, TransferInv, ReadyInv, NEW r \in Requests,
           \/ HandleDnsLookupState(r) \/ DnsLookupEnds(r)
           \/ HandleRetrieveCookieState(r) \/ NotifyRetrievedHttpCookie(r)
    PROVE  ReadyInv'
<1> USE DEF HandleDnsLookupState, DnsLookupEnds, HandleRetrieveCookieState, NotifyRetrievedHttpCookie,
            Handling, Event, TransitionToState, AwaitIn
<1>1. /\ state[r] \in {"DNSLookup", "RetrieveCookie"} /\ r \in live /\ Ready(r)
      /\ UNCHANGED <<live, mode, held, transferVars>> /\ running \in {r, Idle} /\ running' \in {r, Idle}
  BY DEF cacheVars, LockInv, RunningLives, ReadyInv
<1>2. ~aborted[r]
  BY <1>1, RequestServerAssumption DEF Ready
<1>3. PICK s \in {"DNSLookup", "RetrieveCookie", "Fetch", "Error"} :
         state' = [state EXCEPT ![r] = s] /\ (s = "Fetch" => running' = r)
  OBVIOUS
<1> QED BY <1>1, <1>2, <1>3, ReadyMove DEF Ready, Connecting, transferVars

LEMMA FetchStateReady ==
    ASSUME TypeOK, LockInv, TransferInv, ReadyInv, NEW r \in Requests, HandleFetchState(r)
    PROVE  ReadyInv'
<1> USE DEF HandleFetchState, Handling, TransitionToState, AwaitIn
<1>0. state[r] = "Fetch" /\ running = r /\ ~aborted[r] /\ r \in live /\ Ready(r)
  BY DEF LockInv, RunningLives, ReadyInv
<1>1. UNCHANGED <<live, mode, held, got, curl, aborted, sentHeaders>> /\ running' \in {r, Idle}
  BY DEF cacheVars
<1>2. \A q \in Requests : q # r => multi'[q] = multi[q]
  BY DEF TypeOK
<1>3. PICK s \in {"Fetch", "Error"} : state' = [state EXCEPT ![r] = s] /\ (s = "Fetch" => multi'[r])
  BY DEF TypeOK
<1> QED BY <1>0, <1>1, <1>2, <1>3, ReadyMove DEF Ready, Connecting

LEMMA OnDataReady ==
    ASSUME TypeOK, LockInv, TransferInv, ReadyInv, NEW r \in Requests, OnData(r)
    PROVE  ReadyInv'
<1> USE DEF Transferring
<1>0. running = Idle /\ r \in live /\ multi[r] /\ Ready(r)
  BY DEF OnData, OnDataShielded, OnDataPipeFails, OnDataReceived, ReadyInv
<1>1. CASE OnDataShielded(r)
  <2>1. OnlyReadies(r)
    BY <1>0, <1>1 DEF OnDataShielded, OnlyReadies, LeftReady, cacheVars, TypeOK
  <2>2. Ready(r)'
    BY <1>0, <1>1, RequestServerAssumption DEF OnDataShielded, Ready, cacheVars, TypeOK
  <2> QED BY <2>1, <2>2, OneRequestReady
<1>2. CASE OnDataPipeFails(r)
  <2>1. \A q \in Requests : q # r => held'[q] = held[q]
    BY <1>2, EntryOfOthers DEF OnDataPipeFails
  <2>2. OnlyReadies(r)
    BY <1>0, <1>2, <2>1 DEF OnDataPipeFails, OnlyReadies, LeftReady, TypeOK
  <2>3. UNCHANGED <<live, mode, got, sentHeaders, multi>> /\ running' = r /\ state'[r] = "Error"
    BY <1>2 DEF OnDataPipeFails, TypeOK
  <2>4. Ready(r)'
    BY <1>0, <2>3 DEF Ready, Connecting
  <2> QED BY <2>2, <2>4, OneRequestReady
<1>3. ASSUME NEW accepted \in BOOLEAN, NEW tracker \in BOOLEAN, NEW broken \in BOOLEAN, NEW diskOK \in BOOLEAN,
             NEW n \in 0 .. (got[r] + 1), OnDataReceived(r, accepted, tracker, n, broken, diskOK)
      PROVE  ReadyInv'
  <2>1. PICK e, c : SetEntry(r, e, c)
    BY <1>3 DEF OnDataReceived
  <2>2. \A q \in Requests : q # r => held'[q] = held[q]
    BY <2>1, EntryOfOthers DEF TypeOK, CacheTypeOK
  <2>3. /\ UNCHANGED <<live, mode, state, multi, curl>> /\ sentHeaders'[r] /\ running' \in {r, Idle}
        /\ aborted'[r] => running' = r
        /\ \A q \in Requests : q # r => aborted'[q] = aborted[q] /\ got'[q] = got[q]
                                        /\ sentHeaders'[q] = sentHeaders[q]
    BY <1>3 DEF OnDataReceived, TypeOK
  <2>4. OnlyReadies(r)
    BY <1>0, <2>2, <2>3 DEF OnlyReadies, LeftReady
  <2>5. state[r] = "Fetch"
    BY <1>0, TransferringStill
  <2>6. Ready(r)'
    BY <1>0, <2>3, <2>5 DEF Ready
  <2> QED BY <2>4, <2>6, OneRequestReady
<1> QED BY <1>1, <1>2, <1>3 DEF OnData

LEMMA FetchEndsReady ==
    ASSUME TypeOK, LockInv, TransferInv, ReadyInv, NEW r \in Requests, NotifyFetchComplete(r)
    PROVE  ReadyInv'
<1> USE DEF TransitionToState
<1>0. /\ multi[r] /\ r \in live /\ running \in {r, Idle} /\ TransferOK(r) /\ Ready(r)
      /\ UNCHANGED <<live, mode, got>> /\ running' \in {r, Idle}
      /\ multi' = [multi EXCEPT ![r] = FALSE]
  BY DEF NotifyFetchComplete, FetchRetried, FetchNotModified, FetchPipeFails, FetchComplete, FetchEnds,
         TransferInv, ReadyInv, cacheVars
<1>1. CASE FetchRetried(r)
  <2>1. /\ ~aborted[r] /\ UNCHANGED <<held, sentHeaders, aborted, curl>> /\ running' = r
        /\ state' = [state EXCEPT ![r] = "Fetch"]
    BY <1>0, <1>1 DEF FetchRetried, FetchEnds, cacheVars
  <2>2. state[r] = "Fetch"
    BY <1>0, <1>1, TransferringStill DEF FetchRetried, FetchEnds
  <2> QED BY <1>0, <2>1, <2>2, ReadyMove DEF Ready, Connecting, TypeOK
<1>2. CASE FetchNotModified(r)
  <2>1. ~aborted[r] /\ UNCHANGED <<sentHeaders, aborted, curl>> /\ running' = r /\ IsRevalidationRequest(r)
    BY <1>0, <1>2 DEF FetchNotModified, FetchEnds, NotModified
  <2>2. \/ r \in Fetches /\ state' = [state EXCEPT ![r] = "ReadCache"] /\ held' = held
        \/ state' = [state EXCEPT ![r] = "Complete"] /\ \A q \in Requests : q # r => held'[q] = held[q]
    BY <1>2, EntryOfOthers DEF FetchNotModified
  <2>3. r \in Fetches => held[r] \in Reader
    BY <2>1, DiskCacheAssumption DEF IsRevalidationRequest, Reader
  <2>4. \A q \in Requests : q # r => multi'[q] = multi[q]
    BY <1>0 DEF TypeOK
  <2>5. CASE r \in Fetches /\ state' = [state EXCEPT ![r] = "ReadCache"] /\ held' = held
    BY <1>0, <2>1, <2>3, <2>4, <2>5, DiskCacheAssumption, ReadyMove DEF Ready, Connecting
  <2>6. CASE state' = [state EXCEPT ![r] = "Complete"] /\ \A q \in Requests : q # r => held'[q] = held[q]
    BY <1>0, <2>1, <2>4, <2>6, ReadyMove DEF Ready, Connecting
  <2> QED BY <2>2, <2>5, <2>6
<1>3. ASSUME NEW code \in CurlCodes, FetchPipeFails(r, code) PROVE ReadyInv'
  <2>1. \A q \in Requests : q # r => held'[q] = held[q]
    BY <1>3, EntryOfOthers DEF FetchPipeFails
  <2>2. OnlyReadies(r)
    BY <1>0, <1>3, <2>1 DEF FetchPipeFails, OnlyReadies, LeftReady, TypeOK
  <2>3. state'[r] = "Error" /\ ~aborted'[r] /\ UNCHANGED sentHeaders
    BY <1>3 DEF FetchPipeFails, TypeOK
  <2>4. Ready(r)'
    BY <1>0, <2>3 DEF Ready, Connecting
  <2> QED BY <2>2, <2>4, OneRequestReady
<1>4. ASSUME NEW code \in CurlCodes, FetchComplete(r, code) PROVE ReadyInv'
  <2>1. /\ \A q \in Requests : q # r => held'[q] = held[q]
        /\ held'[r] \in {held[r], "none"}
    BY <1>4, EntryOfOthers DEF FetchComplete
  <2>2. /\ \A q \in Requests : q # r => /\ state'[q] = state[q] /\ curl'[q] = curl[q] /\ aborted'[q] = aborted[q]
                                        /\ sentHeaders'[q] = sentHeaders[q]
        /\ ~aborted'[r] /\ curl'[r] = code /\ (sentHeaders[r] => sentHeaders'[r])
        /\ got[r] = out[r] => state'[r] = "Complete"
        /\ got[r] # out[r] => UNCHANGED state
    BY <1>4 DEF FetchComplete, TypeOK
  <2>3. OnlyReadies(r)
    BY <1>0, <2>1, <2>2 DEF OnlyReadies, LeftReady, TypeOK
  <2>4. got[r] # out[r] => sentHeaders[r] /\ state[r] # "ReadCache"
    <3>1. got[r] # out[r] => got[r] > 0
      BY <1>0 DEF TransferOK, QueueBounded, TypeOK
    <3>2. state[r] = "Fetch" \/ state[r] = "Error"
      BY <1>0 DEF TransferOK, TransferInFetch
    <3> QED BY <1>0, <3>1, <3>2 DEF Ready
  <2>5. code # "none"
    BY DEF CurlCodes
  <2>6. Ready(r)'
    BY <1>0, <2>2, <2>4, <2>5 DEF Ready, Connecting
  <2> QED BY <2>3, <2>6, OneRequestReady
<1> QED BY <1>1, <1>2, <1>3, <1>4 DEF NotifyFetchComplete

LEMMA WriterNotifierReady ==
    ASSUME TypeOK, LockInv, TransferInv, ReadyInv, NEW r \in Requests, WriterNotifier(r)
    PROVE  ReadyInv'
<1>0. PICK broken \in BOOLEAN, diskOK \in BOOLEAN, n \in 0 .. got[r] : WriteQueuedBytes(r, n, broken, diskOK)
  BY DEF WriterNotifier
<1>1. /\ running = Idle /\ r \in live /\ TransferOK(r) /\ Ready(r)
      /\ state[r] \in {"Fetch", "ServeSubstitution"} /\ got[r] > 0
  <2>1. running = Idle /\ r \in live /\ blocked[r] /\ TransferOK(r) /\ Ready(r)
    BY <1>0 DEF WriteQueuedBytes, TransferInv, ReadyInv
  <2> QED BY <2>1 DEF TransferOK, QueueBounded, TypeOK
<1>2. ~aborted[r] /\ sentHeaders[r]
  BY <1>1, RequestServerAssumption DEF Ready
<1>3. UNCHANGED <<live, mode, got, multi, aborted, curl, sentHeaders>>
  BY <1>0 DEF WriteQueuedBytes
<1>4. \A q \in Requests : q # r => held'[q] = held[q]
  BY <1>0, EntryOfOthers DEF WriteQueuedBytes
<1>5. \/ state' = [state EXCEPT ![r] = "Complete"] /\ running' = r
      \/ state' = state /\ running' = Idle
  BY <1>0, <1>1 DEF WriteQueuedBytes, TransitionToState
<1>6. PICK s \in {"Complete", "Fetch", "ServeSubstitution"} :
         state' = [state EXCEPT ![r] = s] /\ running' \in {r, Idle} /\ (s = "Fetch" => state[r] = "Fetch")
  BY <1>1, <1>5 DEF TypeOK
<1> QED BY <1>1, <1>2, <1>3, <1>4, <1>6, RequestServerAssumption, ReadyMove DEF Ready

LEMMA CompleteReady ==
    ASSUME TypeOK, LockInv, TransferInv, ReadyInv, NEW r \in Requests,
           HandleCompleteState(r) \/ HandleErrorState(r)
    PROVE  ReadyInv'
<1> USE DEF HandleCompleteState, CompleteFails, CompleteWithoutFlush, CompleteWithFlush, HandleErrorState,
            Handling, TransitionToState, RequestComplete, cacheVars, transferVars
<1>1. /\ UNCHANGED <<live, mode, got, multi, aborted, curl>> /\ running = r /\ ~aborted[r] /\ Ready(r)
      /\ running' \in {r, Idle}
      /\ sentHeaders[r] => sentHeaders'[r]
      /\ \A q \in Requests : q # r => sentHeaders'[q] = sentHeaders[q]
  BY DEF TypeOK, ReadyInv
<1>2. \A q \in Requests : q # r => held'[q] = held[q]
  BY EntryOfOthers DEF Flush
<1>3. PICK s \in {"Complete", "Error"} : state' = [state EXCEPT ![r] = s]
  BY DEF TypeOK
<1> QED BY <1>1, <1>2, <1>3, ReadyMove DEF Ready, Connecting

\* ~Request closes writers only, and whoever dies has no handler to run.
LEMMA DestroyReady ==
    ASSUME TypeOK, LockInv, TransferInv, ReadyInv, running = Idle,
           NEW S \in SUBSET Requests, DestroyRequests(S)
    PROVE  ReadyInv'
<1> SUFFICES ASSUME NEW q \in Requests PROVE Ready(q)'
  BY DEF ReadyInv
<1>1. Ready(q) /\ running # q
  BY RequestServerAssumption DEF ReadyInv
<1>2. /\ UNCHANGED <<running, state, mode, sentHeaders, aborted, curl, got>>
      /\ held[q] \in Reader => held'[q] = held[q]
      /\ q \in live' => q \in live /\ multi'[q] = multi[q]
  BY DEF DestroyRequests, TypeOK, CacheTypeOK, Reader
<1> QED BY <1>1, <1>2 DEF Ready

LEMMA ReadyStep == TypeOK /\ LockInv /\ TransferInv /\ ReadyInv /\ [Next]_vars => ReadyInv'
<1> SUFFICES ASSUME TypeOK, LockInv, TransferInv, ReadyInv, [Next]_vars PROVE ReadyInv'
  OBVIOUS
<1>1. ASSUME NEW r \in Fetches, NEW m \in Modes, StartRequest(r, m) PROVE ReadyInv'
  <2>1. r \in Requests /\ r \notin Revals /\ running = Idle /\ running' = r /\ live' = live \cup {r}
        /\ UNCHANGED <<held, transferVars>> /\ Ready(r)
        /\ mode' = [mode EXCEPT ![r] = m] /\ state' = [state EXCEPT ![r] = "Init"]
    BY <1>1, DiskCacheAssumption DEF StartRequest, TransitionToState, Requests, lockVars, ReadyInv
  <2>2. OnlyReadies(r) /\ state'[r] = "Init"
    BY <2>1 DEF OnlyReadies, LeftReady, transferVars, TypeOK
  <2>3. Ready(r)'
    BY <2>1, <2>2, RequestServerAssumption DEF Ready, Connecting, transferVars
  <2> QED BY <2>1, <2>2, <2>3, OneRequestReady
<1>2. ASSUME NEW r \in Requests, NotifyRequestUnblocked(r) PROVE ReadyInv'
  <2>1. running = Idle /\ running' = r /\ Ready(r) /\ UNCHANGED <<live, mode, held, transferVars>>
        /\ state' = [state EXCEPT ![r] = "Init"]
    BY <1>2 DEF NotifyRequestUnblocked, TransitionToState, ReadyInv
  <2> QED BY <2>1, RequestServerAssumption, ReadyMove DEF Ready, Connecting, transferVars
<1>3. ASSUME NEW r \in Requests, SendOrphaned(r) PROVE ReadyInv'
  <2>1. running = Idle /\ running' = Idle /\ Ready(r) /\ UNCHANGED <<live, mode, transferVars>>
        /\ state' = [state EXCEPT ![r] = "ReadCache"] /\ r \notin live
    BY <1>3 DEF SendOrphaned, ReadyInv, TypeOK
  <2>2. \A q \in Requests : q # r => held'[q] = held[q]
    BY <1>3, EntryOfOthers DEF SendOrphaned
  <2> QED BY <2>1, <2>2, RequestServerAssumption, ReadyMove DEF Ready, Connecting, transferVars
<1>4. ASSUME NEW r \in Requests, RequestRemoved(r) \/ StopRequest(r) PROVE ReadyInv'
  BY <1>4, DestroyReady DEF RequestRemoved, StopRequest
<1>5. ASSUME NEW c \in Clients, ClientDisconnects(c) PROVE ReadyInv'
  BY <1>5, DestroyReady DEF ClientDisconnects, TypeOK, CacheTypeOK
<1>6. CASE \/ \E ks \in SUBSET RowKeys : RemoveEntriesAccessedSince(ks)
           \/ \E k \in Keys : OriginChanges(k)
           \/ UNCHANGED vars
  <2>1. UNCHANGED <<live, running, state, mode, held, transferVars>>
    BY <1>6 DEF RemoveEntriesAccessedSince, OriginChanges, vars, lockVars, cacheVars
  <2> QED BY <2>1 DEF ReadyInv, Ready, transferVars
<1>7. CASE Crash
  <2> SUFFICES ASSUME NEW q \in Requests PROVE Ready(q)'
    BY DEF ReadyInv
  <2>1. Ready(q) /\ live' = {} /\ UNCHANGED <<mode, got, sentHeaders, aborted>>
    BY <1>7 DEF Crash, ReadyInv
  <2>2. ~aborted[q]
    BY <1>7, <2>1, RequestServerAssumption DEF Crash, Handling, Ready
  <2> QED BY <2>1, <2>2 DEF Ready
<1> QED
  BY <1>1, <1>2, <1>3, <1>4, <1>5, <1>6, <1>7, InitialStateReady, ReadCacheReady, CachelessReady, LookupReady,
     FetchStateReady, OnDataReady, FetchEndsReady, WriterNotifierReady, CompleteReady
     DEF Next, Process, Answered

\* Whatever the requests, keys, clients and faults: the handlers of a live
\* request find the reader they send from or revalidate, the transfer they talk
\* to, the pipe they write to and the result they report.
THEOREM HandlersArePrepared == Spec => []HandlersPrepared
<1>1. Init => ReadyInv
  BY DEF Init, CacheInit, ReadyInv, Ready, Connecting
<1>2. TypeOK /\ LockInv /\ TransferInv /\ ReadyInv => HandlersPrepared
  <2> SUFFICES ASSUME TypeOK, LockInv, TransferInv, ReadyInv, NEW r \in live
               PROVE  EntryPrepared(r) /\ TransferPrepared(r) /\ ResultPrepared(r)
    BY DEF HandlersPrepared
  <2>1. TransferOK(r) /\ Ready(r)
    BY DEF TypeOK, CacheTypeOK, TransferInv, ReadyInv
  <2>2. EntryPrepared(r)
    BY <2>1 DEF EntryPrepared, Ready, Connecting, TransferOK, PipeReady
  <2>3. TransferPrepared(r)
    BY <2>1 DEF TransferPrepared, Ready, TransferOK, TransferInFetch
  <2>4. ResultPrepared(r)
    BY <2>1 DEF ResultPrepared, TransferOK, BodyKnown, PipeReady
  <2> QED BY <2>2, <2>3, <2>4
<1> QED BY <1>1, <1>2, ReadyStep, RequestsInvariant, PTL DEF Spec

\* Whatever the requests, keys, clients and faults: a request that is reported
\* as successful has been given all that came from the network, and that is the
\* whole body of the version the server answered with.
THEOREM SuccessIsWhole == Spec => []DeliveredWhole
<1>1. TypeOK /\ TransferInv => DeliveredWhole
  <2> SUFFICES ASSUME TypeOK, TransferInv, NEW r \in Fetches, state[r] = "Complete", r \in finishing
               PROVE  out[r] = got[r] /\ (ver[r] # 0 /\ curl[r] # "Recv" => got[r] = Size[ver[r]])
    BY DEF DeliveredWhole
  <2>1. BodyKnown(r)
    BY DEF TransferInv, TransferOK, Requests
  <2> QED BY <2>1 DEF BodyKnown
<1> QED BY <1>1, RequestsInvariant, PTL

(***************************************************************************)
(* The client is told once.                                                *)
(***************************************************************************)

\* A live request whose client has been told waits for its removal, and its
\* handlers do not run again.
Told(r) ==
    /\ finished[r] <= 1
    /\ state[r] = "unused" => finished[r] = 0
    /\ r \in live /\ finished[r] # 0 => r \in finishing /\ running # r

ToldInv == \A r \in Requests : Told(r)

LEMMA NotYetTold ==
    ASSUME LockInv, TransferInv, ToldInv, NEW r \in Requests,
           running = r \/ (r \in live /\ state[r] \notin {"Complete", "Error"})
    PROVE  finished[r] = 0
BY DEF LockInv, RunningLives, ToldInv, Told, TransferInv, TransferOK, BodyKnown

\* A turn of r that does not tell its client.
LEMMA SilentStep ==
    ASSUME TypeOK, LockInv, TransferInv, ToldInv, NEW r \in Requests,
           running = r \/ (r \in live /\ state[r] \notin {"Complete", "Error"}),
           UNCHANGED <<finished, finishing, live>>, running' \in {r, Idle},
           \A q \in Requests : q # r => state'[q] = state[q]
    PROVE  ToldInv'
<1>1. finished[r] = 0
  BY NotYetTold
<1> QED BY <1>1, RequestServerAssumption DEF ToldInv, Told, TypeOK

LEMMA ToldStep ==
    ASSUME "pipe" \notin Faults, TypeOK, LockInv, TransferInv, ToldInv, [Next]_vars
    PROVE  ToldInv'
<1> USE DEF endVars, cacheVars, TransitionToState, AwaitIn, Handling, Event
<1>1. ASSUME NEW r \in Fetches, NEW m \in Modes, StartRequest(r, m) PROVE ToldInv'
  BY <1>1, RequestServerAssumption DEF StartRequest, ToldInv, Told, TypeOK, Requests
<1>2. ASSUME NEW r \in Requests, NotifyRequestUnblocked(r) PROVE ToldInv'
  <2>1. r \in live /\ state[r] = "WaitForCache"
    BY <1>2 DEF NotifyRequestUnblocked, LockInv, NoLostWakeup
  <2>2. UNCHANGED <<finished, finishing, live>> /\ running' = r
        /\ \A q \in Requests : q # r => state'[q] = state[q]
    BY <1>2 DEF NotifyRequestUnblocked, TypeOK
  <2> QED BY <2>1, <2>2, SilentStep
<1>3. ASSUME NEW r \in Requests, HandleInitialState(r), ~ \E b \in Revals : InitHitStaleWhileRevalidate(r, b)
      PROVE  ToldInv'
  <2>1. running = r /\ UNCHANGED <<finished, finishing, live>>
    BY <1>3 DEF HandleInitialState, InitBypass, InitWait, InitMiss, InitUnreadable, InitStale,
                InitRevalidateWait, InitHit, OpenReader, LookupGives, Lookup, AtInit
  <2>2. running' \in {r, Idle} /\ \A q \in Requests : q # r => state'[q] = state[q]
    BY <1>3 DEF HandleInitialState, InitBypass, InitWait, InitMiss, InitUnreadable, InitStale,
                InitRevalidateWait, InitHit, AfterMiss, TypeOK
  <2> QED BY <2>1, <2>2, SilentStep
<1>4. ASSUME NEW r \in Requests, NEW b \in Revals, InitHitStaleWhileRevalidate(r, b) PROVE ToldInv'
  <2>1. b \in Requests /\ running = r /\ running' = r /\ UNCHANGED <<finished, finishing>> /\ live' = live \cup {b}
        /\ state[b] = "unused" /\ state' = [state EXCEPT ![r] = "ReadCache", ![b] = "WaitForCache"]
    BY <1>4 DEF InitHitStaleWhileRevalidate, OpenReader, LookupGives, Lookup, AtInit, Requests
  <2>2. finished[r] = 0 /\ finished[b] = 0
    BY <2>1, NotYetTold DEF ToldInv, Told
  <2> QED BY <2>1, <2>2 DEF ToldInv, Told, TypeOK
<1>5. ASSUME NEW r \in Requests, HandleReadCacheState(r) \/ SendResumes(r) PROVE ToldInv'
  <2>1. /\ running = r \/ (r \in live /\ state[r] = "ReadCache")
        /\ UNCHANGED <<finished, finishing, live>> /\ running' \in {r, Idle}
        /\ \A q \in Requests : q # r => state'[q] = state[q]
    BY <1>5 DEF HandleReadCacheState, ReadCachePipeFails, ReadCacheSend, ReadCacheTakeBodyFile, SendResumes,
                SendWithoutBlocking, SendComplete, SendError, SendBlocked, TypeOK
  <2> QED BY <2>1, SilentStep
<1>6. ASSUME NEW r \in Requests,
             \/ HandleFailedCacheOnlyState(r) \/ HandleServeSubstitutionState(r)
             \/ HandleDnsLookupState(r) \/ HandleRetrieveCookieState(r) \/ HandleFetchState(r)
             \/ DnsLookupEnds(r) \/ NotifyRetrievedHttpCookie(r) \/ CompleteFails(r)
      PROVE  ToldInv'
  <2>1. /\ running = r \/ (r \in live /\ state[r] \in {"DNSLookup", "RetrieveCookie"})
        /\ UNCHANGED <<finished, finishing, live>>
    BY <1>6 DEF HandleFailedCacheOnlyState, HandleServeSubstitutionState, HandleDnsLookupState,
                HandleRetrieveCookieState, HandleFetchState, DnsLookupEnds, NotifyRetrievedHttpCookie,
                CompleteFails
  <2>2. running' \in {r, Idle} /\ \A q \in Requests : q # r => state'[q] = state[q]
    BY <1>6 DEF HandleFailedCacheOnlyState, HandleServeSubstitutionState, HandleDnsLookupState,
                HandleRetrieveCookieState, HandleFetchState, DnsLookupEnds, NotifyRetrievedHttpCookie,
                CompleteFails, TypeOK
  <2> QED BY <2>1, <2>2, SilentStep
<1>7. ASSUME NEW r \in Requests, OnData(r) PROVE ToldInv'
  <2>1. running = Idle /\ r \in live /\ multi[r]
    BY <1>7 DEF OnData, OnDataShielded, OnDataPipeFails, OnDataReceived, Transferring
  <2>2. state[r] = "Fetch"
    BY <2>1, TransferringStill
  <2>3. UNCHANGED <<finished, finishing, live, state>> /\ running' \in {r, Idle}
    BY <1>7 DEF OnData, OnDataShielded, OnDataPipeFails, OnDataReceived
  <2> QED BY <2>1, <2>2, <2>3, SilentStep
<1>8. ASSUME NEW r \in Requests, NotifyFetchComplete(r) PROVE ToldInv'
  <2>1. /\ multi[r] /\ r \in live /\ running \in {r, Idle}
        /\ UNCHANGED <<finished, finishing, live>> /\ running' \in {r, Idle}
        /\ \A q \in Requests : q # r => state'[q] = state[q]
    BY <1>8 DEF NotifyFetchComplete, FetchRetried, FetchNotModified, FetchPipeFails, FetchComplete, FetchEnds,
                TypeOK
  <2>2. running = Idle => state[r] = "Fetch"
    BY <2>1, TransferringStill
  <2> QED BY <2>1, <2>2, SilentStep
<1>9. ASSUME NEW r \in Requests, WriterNotifier(r) PROVE ToldInv'
  <2>1. /\ r \in live /\ blocked[r] /\ running = Idle /\ running' \in {r, Idle}
        /\ UNCHANGED <<finished, finishing, live>>
        /\ \A q \in Requests : q # r => state'[q] = state[q]
    BY <1>9 DEF WriterNotifier, WriteQueuedBytes, TypeOK
  <2>2. state[r] \in {"Fetch", "ServeSubstitution"}
    BY <2>1 DEF TransferInv, TransferOK, QueueBounded
  <2> QED BY <2>1, <2>2, SilentStep
<1>10. ASSUME NEW r \in Requests, CompleteWithoutFlush(r) \/ CompleteWithFlush(r) \/ HandleErrorState(r)
       PROVE  ToldInv'
  <2>1. running = r /\ running' = Idle /\ UNCHANGED <<state, live>> /\ finishing' = finishing \cup {r}
        /\ finished' = [finished EXCEPT ![r] = IF r \in Fetches THEN @ + 1 ELSE @]
        /\ state[r] \in {"Complete", "Error"}
    BY <1>10 DEF CompleteWithoutFlush, CompleteWithFlush, HandleErrorState, RequestComplete
  <2>2. finished[r] = 0
    BY <2>1, NotYetTold
  <2>3. finished'[r] \in {0, 1} /\ \A q \in Requests : q # r => finished'[q] = finished[q]
    BY <2>1, <2>2 DEF TypeOK
  <2> QED BY <2>1, <2>3, RequestServerAssumption DEF ToldInv, Told
<1>11. ASSUME NEW S \in SUBSET Requests, DestroyRequests(S) PROVE ToldInv'
  BY <1>11 DEF DestroyRequests, ToldInv, Told
<1>12. ASSUME NEW r \in Requests, RequestRemoved(r) \/ StopRequest(r) PROVE ToldInv'
  BY <1>11, <1>12 DEF RequestRemoved, StopRequest
<1>13. ASSUME NEW c \in Clients, ClientDisconnects(c) PROVE ToldInv'
  BY <1>11, <1>13 DEF ClientDisconnects, TypeOK, CacheTypeOK
<1>14. CASE \/ \E r \in Requests : SendOrphaned(r)
            \/ \E ks \in SUBSET RowKeys : RemoveEntriesAccessedSince(ks)
            \/ \E k \in Keys : OriginChanges(k)
            \/ UNCHANGED vars
  <2>1. UNCHANGED <<running, state, live, finishing, finished>>
    BY <1>14 DEF SendOrphaned, RemoveEntriesAccessedSince, OriginChanges, vars
  <2> QED BY <2>1 DEF ToldInv, Told
<1>15. CASE Crash
  BY <1>15 DEF Crash, ToldInv, Told
<1> HIDE DEF endVars, cacheVars, TransitionToState, AwaitIn, Handling, Event
<1> QED
  BY <1>1, <1>2, <1>3, <1>4, <1>5, <1>6, <1>7, <1>8, <1>9, <1>10, <1>12, <1>13, <1>14, <1>15
     DEF Next, Process, Answered, HandleCompleteState

\* When the client's pipe can always be created, whatever else goes wrong: the
\* client is told once that its request is over.  (When it cannot, on_data_received
\* of a revalidation reports the error and the transfer that it then refuses
\* reports it again.)
THEOREM ClientToldOnce == ASSUME "pipe" \notin Faults PROVE Spec => []FinishedOnce
<1>1. Init => ToldInv
  BY DEF Init, CacheInit, ToldInv, Told
<1>2. TypeOK /\ LockInv /\ TransferInv /\ ToldInv /\ [Next]_vars => ToldInv'
  BY ToldStep
<1>3. ToldInv => FinishedOnce
  BY DEF ToldInv, Told, FinishedOnce
<1> QED BY <1>1, <1>2, <1>3, RequestsInvariant, PTL DEF Spec
=============================================================================
