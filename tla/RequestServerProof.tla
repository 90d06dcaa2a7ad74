------------------------- MODULE RequestServerProof -------------------------
(* Proofs about RequestServer. *)
EXTENDS RequestServer, TLAPS

(***************************************************************************)
(* Type correctness.                                                       *)
(***************************************************************************)

LEMMA AbsentTyped == Absent \in Content /\ [row |-> Absent, file |-> Absent] \in Snapshot
BY DiskCacheAssumption DEF Absent, Content, Snapshot

\* The operators on the two stores keep their types.
LEMMA StoresTyped ==
    ASSUME TypeOK
    PROVE  /\ \A ks : Without(row, ks) \in [Keys -> Content] /\ Without(file, ks) \in [Keys -> Content]
           /\ \A r \in Requests : Written(r) \in Content
           /\ \A r \in Requests : Key[r] \in Keys
           /\ \A r \in Requests : Answer(r) \in Version /\ Answer(r) \in 0 .. MaxVersion
<1>1. Absent \in Content
  BY AbsentTyped
<1>2. \A ks : Without(row, ks) \in [Keys -> Content] /\ Without(file, ks) \in [Keys -> Content]
  BY <1>1 DEF Without, TypeOK, CacheTypeOK
<1>3. \A r \in Requests : Written(r) \in Content
  BY DEF Written, Content, TypeOK
<1>4. \A r \in Requests : Key[r] \in Keys
  BY DiskCacheAssumption
<1>5. \A r \in Requests : Answer(r) \in Version /\ Answer(r) \in 0 .. MaxVersion
  BY <1>4, DiskCacheAssumption DEF Answer, TypeOK, Version
<1> QED BY <1>2, <1>3, <1>4, <1>5

\* The operators on the lock keep its types.
LEMMA SetEntryTyped ==
    ASSUME TypeOK, NEW r \in Requests, NEW e \in Entry, NEW closes \in BOOLEAN, SetEntry(r, e, closes)
    PROVE  held' \in [Requests -> Entry] /\ waiting' \subseteq Requests /\ wake' \subseteq Requests
BY DEF SetEntry, TypeOK, CacheTypeOK, Waiters

LEMMA ClosedTyped ==
    ASSUME TypeOK, NEW r \in Requests, CacheEntryClosed(r)
    PROVE  held' \in [Requests -> Entry] /\ waiting' \subseteq Requests /\ wake' \subseteq Requests
<1>1. "none" \in Entry /\ (held[r] # "none") \in BOOLEAN
  BY DEF Entry
<1> QED BY <1>1, SetEntryTyped DEF CacheEntryClosed

LEMMA AfterMissTyped ==
    ASSUME TypeOK, NEW r \in Requests, AfterMiss(r)
    PROVE  /\ held' \in [Requests -> Entry] /\ waiting' \subseteq Requests /\ wake' \subseteq Requests
           /\ marked' \in [Requests -> BOOLEAN]
           /\ state' \in [Requests -> States]
           /\ running' \in Requests \cup {Idle}
<1> USE DEF TypeOK, CacheTypeOK, lockVars, TransitionToState, AwaitIn, States
<1>1. CASE OpenAs(r, "writer")
  BY <1>1, SetEntryTyped DEF AfterMiss, OpenAs, Entry, WaitForKey
<1>2. CASE ~OpenAs(r, "writer")
  BY <1>2 DEF AfterMiss, WaitForKey
<1> QED BY <1>1, <1>2

LEMMA FlushTyped ==
    ASSUME TypeOK, NEW r \in Requests, Flush(r)
    PROVE  row' \in [Keys -> Content] /\ file' \in [Keys -> Content] /\ marked' \in [Requests -> BOOLEAN]
<1>1. Written(r) \in Content /\ Absent \in Content /\ Key[r] \in Keys
  BY StoresTyped, AbsentTyped
<1> USE DEF TypeOK, CacheTypeOK
<1>2. ASSUME NEW ks, FlushStores(r, Written(r), ks)
      PROVE  row' \in [Keys -> Content] /\ file' \in [Keys -> Content] /\ marked' \in [Requests -> BOOLEAN]
  BY <1>1, <1>2 DEF FlushStores, Without, MarkForDeletion
<1>3. CASE FlushFails(r) \/ FlushLosesRow(r, Written(r)) \/ FlushRefused(r)
  BY <1>1, <1>3, StoresTyped DEF FlushFails, FlushLosesRow, FlushRefused, RemoveEntry
<1> QED BY <1>2, <1>3 DEF Flush

\* Every step keeps the types, one step of the proof for each action.
LEMMA TypeStep == TypeOK /\ [Next]_vars => TypeOK'
<1> SUFFICES ASSUME TypeOK, [Next]_vars PROVE TypeOK'
  OBVIOUS
<1> USE StoresTyped, AbsentTyped, DiskCacheAssumption, RequestServerAssumption
<1> USE DEF TypeOK, CacheTypeOK, lockVars, storeVars, cacheVars, transferVars, endVars,
            TransitionToState, AwaitIn, States, CurlCodes, Handling, Event
<1>1. ASSUME NEW r \in Fetches, NEW m \in Modes, StartRequest(r, m) PROVE TypeOK'
  BY <1>1 DEF StartRequest, Requests
<1>2. ASSUME NEW r \in Requests, NotifyRequestUnblocked(r) PROVE TypeOK'
  BY <1>2 DEF NotifyRequestUnblocked
<1>3. ASSUME NEW r \in Requests, HandleInitialState(r) PROVE TypeOK'
  <2>1. CASE InitBypass(r)
    BY <2>1 DEF InitBypass
  <2>2. CASE InitWait(r)
    BY <2>2 DEF InitWait, WaitForKey
  <2>4. CASE InitMiss(r)
    BY AfterMissTyped, <2>4 DEF InitMiss
  <2>5. CASE InitUnreadable(r)
    BY AfterMissTyped, <2>5 DEF InitUnreadable
  <2>6. CASE InitStale(r)
    BY AfterMissTyped, <2>6 DEF InitStale, RemoveEntry
  <2>7. CASE InitRevalidateWait(r)
    BY <2>7 DEF InitRevalidateWait, WaitForKey
  <2>8. ASSUME OpenReader(r)
        PROVE  marked' \in [Requests -> BOOLEAN] /\ snap' \in [Requests -> Snapshot]
    BY <2>8 DEF OpenReader, Snapshot
  <2>9. CASE InitHit(r)
    BY <2>8, <2>9, SetEntryTyped DEF InitHit, OpenReader, OpenAs, Entry, Reader
  <2>10. ASSUME NEW b \in Revals, InitHitStaleWhileRevalidate(r, b) PROVE TypeOK'
    BY <2>8, <2>10 DEF InitHitStaleWhileRevalidate, OpenReader, Entry, Reader, Requests
  <2> QED
    BY <1>3, <2>1, <2>2, <2>4, <2>5, <2>6, <2>7, <2>9, <2>10 DEF HandleInitialState
<1>6. ASSUME NEW r \in Requests, HandleReadCacheState(r) PROVE TypeOK'
  <2>1. CASE ReadCachePipeFails(r)
    BY <2>1 DEF ReadCachePipeFails
  <2>2. CASE ReadCacheSend(r)
    <3>1. CASE SendComplete(r)
      BY <2>2, <3>1, ClosedTyped DEF ReadCacheSend, SendComplete
    <3>2. CASE SendError(r)
      BY <2>2, <3>2, ClosedTyped DEF ReadCacheSend, SendError, RemoveEntry
    <3>3. CASE SendBlocked(r)
      BY <2>2, <3>3 DEF ReadCacheSend, SendBlocked
    <3> QED BY <2>2, <3>1, <3>2, <3>3 DEF ReadCacheSend, SendWithoutBlocking
  <2>3. CASE ReadCacheTakeBodyFile(r)
    <3>1. held' \in [Requests -> Entry] /\ waiting' \subseteq Requests /\ wake' \subseteq Requests
      BY <2>3, ClosedTyped DEF ReadCacheTakeBodyFile
    <3>2. row' \in [Keys -> Content] /\ file' \in [Keys -> Content]
      BY <2>3 DEF ReadCacheTakeBodyFile, RemoveEntry
    <3>3. curl' \in [Requests -> CurlCodes \cup {"none"}] /\ served' \in [Requests -> Snapshot]
      BY <2>3 DEF ReadCacheTakeBodyFile
    <3>4. state' \in [Requests -> States] /\ running' \in Requests \cup {Idle}
      BY <2>3 DEF ReadCacheTakeBodyFile
    <3> QED BY <2>3, <3>1, <3>2, <3>3, <3>4 DEF ReadCacheTakeBodyFile
  <2> QED BY <1>6, <2>1, <2>2, <2>3 DEF HandleReadCacheState
<1>7. ASSUME NEW r \in Requests, SendResumes(r) PROVE TypeOK'
  <2>1. CASE SendComplete(r)
    BY <1>7, <2>1, ClosedTyped DEF SendResumes, SendComplete
  <2>2. CASE SendError(r)
    BY <1>7, <2>2, ClosedTyped DEF SendResumes, SendError, RemoveEntry
  <2>3. CASE SendBlocked(r)
    BY <1>7, <2>3 DEF SendResumes, SendBlocked
  <2> QED BY <1>7, <2>1, <2>2, <2>3 DEF SendResumes, SendWithoutBlocking
<1>8. ASSUME NEW r \in Requests, SendOrphaned(r) PROVE TypeOK'
  BY <1>8, ClosedTyped DEF SendOrphaned, RemoveEntry
<1>9. ASSUME NEW r \in Requests, HandleFailedCacheOnlyState(r) PROVE TypeOK'
  BY <1>9 DEF HandleFailedCacheOnlyState
<1>10. ASSUME NEW r \in Requests, HandleServeSubstitutionState(r) PROVE TypeOK'
  <2>1. sentHeaders' \in [Requests -> BOOLEAN] /\ pipe' \in [Requests -> BOOLEAN]
    BY <1>10 DEF HandleServeSubstitutionState
  <2>2. curl' \in [Requests -> CurlCodes \cup {"none"}]
    BY <1>10 DEF HandleServeSubstitutionState
  <2>3. blocked' \in [Requests -> BOOLEAN]
    BY <1>10 DEF HandleServeSubstitutionState
  <2>5. got' \in [Requests -> Nat]
    BY <1>10 DEF HandleServeSubstitutionState
  <2>6. out' \in [Requests -> Nat]
    BY <1>10 DEF HandleServeSubstitutionState
  <2>4. state' \in [Requests -> States] /\ running' \in Requests \cup {Idle}
    BY <1>10 DEF HandleServeSubstitutionState
  <2> QED BY <1>10, <2>1, <2>2, <2>3, <2>4, <2>5, <2>6 DEF HandleServeSubstitutionState
<1>11. ASSUME NEW r \in Requests,
              \/ HandleDnsLookupState(r) \/ DnsLookupEnds(r)
              \/ HandleRetrieveCookieState(r) \/ NotifyRetrievedHttpCookie(r)
       PROVE TypeOK'
  BY <1>11 DEF HandleDnsLookupState, DnsLookupEnds, HandleRetrieveCookieState, NotifyRetrievedHttpCookie
<1>12. ASSUME NEW r \in Requests, HandleFetchState(r) PROVE TypeOK'
  BY <1>12 DEF HandleFetchState
<1>13. ASSUME NEW r \in Requests, OnDataShielded(r) PROVE TypeOK'
  BY <1>13 DEF OnDataShielded
<1>14. ASSUME NEW r \in Requests, OnDataPipeFails(r) PROVE TypeOK'
  BY <1>14, ClosedTyped DEF OnDataPipeFails, RemoveEntry
<1>15. ASSUME NEW r \in Requests, NEW accepted \in BOOLEAN, NEW tracker \in BOOLEAN, NEW n \in 0 .. (got[r] + 1),
              NEW broken \in BOOLEAN, NEW diskOK \in BOOLEAN,
              OnDataReceived(r, accepted, tracker, n, broken, diskOK)
       PROVE TypeOK'
  <2>1. held' \in [Requests -> Entry] /\ waiting' \subseteq Requests /\ wake' \subseteq Requests
    BY <1>15 DEF OnDataReceived, SetEntry, Entry, Waiters
  <2>2. row' \in [Keys -> Content] /\ file' \in [Keys -> Content]
    BY <1>15 DEF OnDataReceived, RemoveEntry
  <2>3. marked' \in [Requests -> BOOLEAN] /\ aborted' \in [Requests -> BOOLEAN]
    BY <1>15 DEF OnDataReceived
  <2>4. got' \in [Requests -> Nat] /\ out' \in [Requests -> Nat] /\ blocked' \in [Requests -> BOOLEAN]
    BY <1>15 DEF OnDataReceived
  <2>5. ver' \in [Requests -> 0 .. MaxVersion] /\ running' \in Requests \cup {Idle}
    BY <1>15 DEF OnDataReceived
  <2>6. sentHeaders' \in [Requests -> BOOLEAN] /\ pipe' \in [Requests -> BOOLEAN]
    BY <1>15 DEF OnDataReceived
  <2> QED BY <1>15, <2>1, <2>2, <2>3, <2>4, <2>5, <2>6 DEF OnDataReceived
<1>16. ASSUME NEW r \in Requests, FetchRetried(r) PROVE TypeOK'
  BY <1>16 DEF FetchRetried
<1>17. ASSUME NEW r \in Requests, FetchNotModified(r) PROVE TypeOK'
  BY <1>17, ClosedTyped DEF FetchNotModified
<1>18. ASSUME NEW r \in Requests, NEW code \in CurlCodes, FetchPipeFails(r, code) PROVE TypeOK'
  BY <1>18, ClosedTyped DEF FetchPipeFails, RemoveEntry
<1>19. ASSUME NEW r \in Requests, NEW code \in CurlCodes, FetchComplete(r, code) PROVE TypeOK'
  BY <1>19, ClosedTyped DEF FetchComplete, RemoveEntry
<1>20. ASSUME NEW r \in Requests, NEW n \in 0 .. got[r], NEW broken \in BOOLEAN, NEW diskOK \in BOOLEAN,
              WriteQueuedBytes(r, n, broken, diskOK)
       PROVE TypeOK'
  BY <1>20, ClosedTyped DEF WriteQueuedBytes
<1>21. ASSUME NEW r \in Requests, HandleCompleteState(r) PROVE TypeOK'
  <2>1. CASE CompleteFails(r)
    BY <2>1 DEF CompleteFails
  <2>2. CASE CompleteWithoutFlush(r)
    BY <2>2, ClosedTyped DEF CompleteWithoutFlush, RequestComplete
  <2>3. CASE CompleteWithFlush(r)
    <3>1. CacheEntryClosed(r)
      BY <2>3 DEF CompleteWithFlush, Flush
    <3>2. row' \in [Keys -> Content] /\ file' \in [Keys -> Content] /\ marked' \in [Requests -> BOOLEAN]
      BY <2>3, FlushTyped DEF CompleteWithFlush
    <3>3. held' \in [Requests -> Entry] /\ waiting' \subseteq Requests /\ wake' \subseteq Requests
      BY <3>1, ClosedTyped
    <3>4. finished' \in [Requests -> Nat] /\ finishing' \subseteq Requests /\ running' \in Requests \cup {Idle}
      BY <2>3 DEF CompleteWithFlush, RequestComplete
    <3>5. sentHeaders' \in [Requests -> BOOLEAN]
      BY <2>3 DEF CompleteWithFlush
    <3> QED BY <2>3, <3>2, <3>3, <3>4, <3>5 DEF CompleteWithFlush
  <2> QED BY <1>21, <2>1, <2>2, <2>3 DEF HandleCompleteState
<1>22. ASSUME NEW r \in Requests, HandleErrorState(r) PROVE TypeOK'
  BY <1>22 DEF HandleErrorState, RequestComplete
<1>23. ASSUME NEW S \in SUBSET Requests, DestroyRequests(S) PROVE TypeOK'
  BY <1>23 DEF DestroyRequests, Entry
<1>24. ASSUME NEW r \in Requests, RequestRemoved(r) \/ StopRequest(r) PROVE TypeOK'
  BY <1>23, <1>24 DEF RequestRemoved, StopRequest
<1>25. ASSUME NEW c \in Clients, ClientDisconnects(c) PROVE TypeOK'
  BY <1>23, <1>25 DEF ClientDisconnects
<1>26. ASSUME NEW ks \in SUBSET RowKeys, RemoveEntriesAccessedSince(ks) PROVE TypeOK'
  BY <1>26 DEF RemoveEntriesAccessedSince, DeleteEntries, MarkForDeletion
<1>27. ASSUME NEW k \in Keys, OriginChanges(k) PROVE TypeOK'
  BY <1>27 DEF OriginChanges, Version
<1>28. CASE Crash
  BY <1>28, SMTT(30) DEF Crash, Entry
<1>29. CASE UNCHANGED vars
  BY <1>29 DEF vars
<1> HIDE StoresTyped, AbsentTyped, DiskCacheAssumption, RequestServerAssumption
<1> HIDE DEF TypeOK, CacheTypeOK, lockVars, storeVars, cacheVars, transferVars, endVars,
             TransitionToState, AwaitIn, States, CurlCodes, Handling, Event
<1> QED
  BY <1>1, <1>2, <1>3, <1>6, <1>7, <1>8, <1>9, <1>10, <1>11, <1>12, <1>13, <1>14, <1>15, <1>16, <1>17,
     <1>18, <1>19, <1>20, <1>21, <1>22, <1>24, <1>25, <1>26, <1>27, <1>28, <1>29
     DEF Next, Process, Answered, OnData, NotifyFetchComplete, WriterNotifier

\* The variables have their types: TypeOK is an invariant of RequestServer.
THEOREM TypeCorrect == Spec => []TypeOK
<1>1. 1 \in Version /\ [ver |-> 1, len |-> Size[1]] \in Content
  BY DiskCacheAssumption, SMTT(30) DEF Content, Version
<1>2. Init => row \in [Keys -> Content] /\ file \in [Keys -> Content]
  BY <1>1, AbsentTyped DEF Init, CacheInit
<1>3. Init => TypeOK
  BY <1>1, <1>2, AbsentTyped, DiskCacheAssumption, RequestServerAssumption
     DEF Init, CacheInit, TypeOK, CacheTypeOK, Entry, States, CacheModes
<1> QED BY <1>3, TypeStep, PTL DEF Spec

(***************************************************************************)
(* The lock.                                                               *)
(***************************************************************************)

\* What a step on the table of open entries leaves of the list and the pending
\* wake-ups: nobody is lost, and who stays on the list still has a holder.
QueueKept ==
    /\ waiting' \cup wake' = waiting \cup wake
    /\ waiting' \cap wake' = {}
    /\ \A q \in waiting' : Holders(Key[q])' # {}

LEMMA SetEntryKeepsQueue ==
    ASSUME TypeOK, LockInv, NEW r \in Requests, NEW e, NEW closes \in BOOLEAN,
           SetEntry(r, e, closes), e = "none" /\ held[r] # "none" => closes
    PROVE  QueueKept /\ held' = [held EXCEPT ![r] = e]
<1> USE DEF TypeOK, CacheTypeOK
<1>1. waiting' \cup wake' = waiting \cup wake
  BY DEF SetEntry, Waiters
<1>2. waiting' \cap wake' = {}
  BY DEF SetEntry, Waiters, LockInv
<1>3. ASSUME NEW q \in waiting' PROVE Holders(Key[q])' # {}
  <2>1. q \in waiting /\ Holders(Key[q]) # {}
    BY <1>3 DEF SetEntry, LockInv, NoLostWakeup
  <2>2. PICK h \in Requests : held[h] # "none" /\ Key[h] = Key[q]
    BY <2>1 DEF Holders
  <2>3. CASE h # r
    BY <2>2, <2>3 DEF SetEntry, Holders
  <2>4. CASE h = r /\ e # "none"
    BY <2>2, <2>4 DEF SetEntry, Holders
  <2>5. CASE h = r /\ e = "none"
    <3>1. ~(Holders(Key[r]) \subseteq {r})
      BY <1>3, <2>1, <2>2, <2>5 DEF SetEntry, Waiters
    <3>2. PICK g \in Requests : held[g] # "none" /\ Key[g] = Key[r] /\ g # r
      BY <3>1 DEF Holders
    <3> QED BY <2>2, <2>5, <3>2 DEF SetEntry, Holders
  <2> QED BY <2>3, <2>4, <2>5
<1>4. held' = [held EXCEPT ![r] = e]
  BY DEF SetEntry
<1> QED BY <1>1, <1>2, <1>3, <1>4 DEF QueueKept

LEMMA ClosedKeepsQueue ==
    ASSUME TypeOK, LockInv, NEW r \in Requests, CacheEntryClosed(r)
    PROVE  QueueKept /\ held' = [held EXCEPT ![r] = "none"]
<1>1. (held[r] # "none") \in BOOLEAN
  OBVIOUS
<1> QED BY <1>1, SetEntryKeepsQueue DEF CacheEntryClosed

LEMMA UnchangedKeepsQueue ==
    ASSUME TypeOK, LockInv, UNCHANGED lockVars
    PROVE  QueueKept /\ \A r \in Requests : held' = [held EXCEPT ![r] = held[r]]
BY DEF QueueKept, lockVars, LockInv, NoLostWakeup, Holders, TypeOK, CacheTypeOK

\* A step of one existing request r that neither starts nor ends a wait keeps
\* the invariant, provided the entry r has afterwards is compatible with the
\* others and r is past its wait when it has a transfer or a pending write.
Compatible(r) ==
    \A q \in Requests : q # r /\ Key[q] = Key[r] /\ held'[r] # "none"
        => held[q] = "none" \/ (~Exclusive(q) /\ ~Exclusive(r)')

StepOf(r) ==
    /\ r \in live /\ live' = live
    /\ state[r] # "WaitForCache"
    /\ \A q \in Requests : q # r =>
          /\ state'[q] = state[q] /\ held'[q] = held[q]
          /\ multi'[q] = multi[q] /\ blocked'[q] = blocked[q] /\ got'[q] = got[q]
    /\ state'[r] \notin {"WaitForCache", "unused"}
    /\ running' \in {r, Idle}
    /\ multi'[r] \/ blocked'[r] => PastWait(r)'
    /\ blocked'[r] => got'[r] # 0

LEMMA StepOfKeepsLockInv ==
    ASSUME TypeOK, LockInv, NEW r \in Requests, StepOf(r), QueueKept, Compatible(r)
    PROVE  LockInv'
<1> USE DEF StepOf
<1>1. ExclusiveEntry'
  <2> SUFFICES ASSUME NEW p \in Requests, NEW q \in Requests, p # q, Key[p] = Key[q], Exclusive(p)'
               PROVE  held'[q] = "none"
    BY DEF ExclusiveEntry
  <2>1. CASE p # r /\ q # r
    BY <2>1 DEF LockInv, ExclusiveEntry, Exclusive, IsRevalidationRequest
  <2>2. CASE p = r
    BY <2>2 DEF Compatible, Exclusive, IsRevalidationRequest, Reader
  <2>3. CASE q = r
    BY <2>3 DEF Compatible, Exclusive, IsRevalidationRequest, Reader
  <2> QED BY <2>1, <2>2, <2>3
<1>2. NoLostWakeup'
  <2>1. live \subseteq Requests /\ waiting \cup wake \subseteq Requests
    BY DEF TypeOK, CacheTypeOK
  <2>2. r \notin waiting \cup wake
    BY DEF LockInv, NoLostWakeup
  <2>3. ASSUME NEW q \in live' PROVE state'[q] = "WaitForCache" => q \in waiting' \cup wake'
    BY <2>1, <2>3 DEF LockInv, NoLostWakeup, QueueKept
  <2>4. ASSUME NEW q \in waiting' \cup wake' PROVE q \in live' /\ state'[q] = "WaitForCache"
    BY <2>1, <2>2, <2>4 DEF LockInv, NoLostWakeup, QueueKept
  <2> QED BY <2>3, <2>4 DEF NoLostWakeup, QueueKept
<1>3. UnusedHoldsNothing'
  BY DEF LockInv, UnusedHoldsNothing
<1>4. RunningLives'
  BY RequestServerAssumption DEF LockInv, RunningLives
<1>5. TransfersPastWait' /\ WritesPending'
  BY DEF LockInv, TransfersPastWait, WritesPending, PastWait
<1> QED BY <1>1, <1>2, <1>3, <1>4, <1>5 DEF LockInv, QueueKept

\* An entry that is kept, closed, or turned from an exclusive one into a writer
\* is compatible with the others.
LEMMA KeptEntryCompatible ==
    ASSUME TypeOK, LockInv, NEW r \in Requests, live' = live, NEW e,
           held' = [held EXCEPT ![r] = e],
           e \in {held[r], "none"} \/ Exclusive(r)
    PROVE  Compatible(r)
BY DEF Compatible, LockInv, ExclusiveEntry, Exclusive, IsRevalidationRequest, TypeOK, CacheTypeOK, Reader

\* Steps of a request that exists, with the entry kept or closed.
LEMMA OrdinaryStep ==
    ASSUME TypeOK, LockInv, NEW r \in Requests, StepOf(r),
           UNCHANGED lockVars \/ CacheEntryClosed(r)
    PROVE  LockInv'
<1>1. CASE UNCHANGED lockVars
  <2>1. QueueKept /\ held' = [held EXCEPT ![r] = held[r]]
    BY <1>1, UnchangedKeepsQueue
  <2> QED BY <2>1, StepOfKeepsLockInv, KeptEntryCompatible DEF StepOf
<1>2. CASE CacheEntryClosed(r)
  <2>1. QueueKept /\ held' = [held EXCEPT ![r] = "none"]
    BY <1>2, ClosedKeepsQueue
  <2> QED BY <2>1, StepOfKeepsLockInv, KeptEntryCompatible DEF StepOf
<1> QED BY <1>1, <1>2

\* A request at Init opens an entry that is compatible with the others.
LEMMA OpeningStep ==
    ASSUME TypeOK, LockInv, NEW r \in Requests, StepOf(r), NEW e \in Entry \ {"none"}, OpenAs(r, e),
           \/ ~HasOpenEntry(r, TRUE)
           \/ ~HasOpenEntry(r, FALSE) /\ r \in Fetches /\ e \in {"reader", "swr"}
    PROVE  LockInv'
<1>1. QueueKept /\ held' = [held EXCEPT ![r] = e]
  BY SetEntryKeepsQueue DEF OpenAs
<1>2. held'[r] = e
  BY <1>1 DEF TypeOK, CacheTypeOK
<1>3. Compatible(r)
  <2> SUFFICES ASSUME NEW q \in Requests, q # r, Key[q] = Key[r], held[q] # "none"
               PROVE  ~Exclusive(q) /\ ~Exclusive(r)'
    BY DEF Compatible
  <2>1. q \in Holders(Key[r])
    BY DEF Holders
  <2>2. ~HasOpenEntry(r, FALSE) /\ r \in Fetches /\ e \in {"reader", "swr"}
    BY <2>1 DEF HasOpenEntry
  <2>3. ~Exclusive(q)
    BY <2>1, <2>2 DEF HasOpenEntry, Exclusive
  <2>4. ~Exclusive(r)'
    BY <1>2, <2>2, DiskCacheAssumption DEF Exclusive, IsRevalidationRequest
  <2> QED BY <2>3, <2>4
<1> QED BY <1>1, <1>3, StepOfKeepsLockInv

\* A request at Init finds the key locked and waits.
LEMMA WaitingStep ==
    ASSUME TypeOK, LockInv, NEW r \in Requests, Handling(r, "Init"),
           WaitForKey(r), AwaitIn(r, "WaitForCache"), Holders(Key[r]) # {},
           UNCHANGED <<live, multi, blocked, got>>
    PROVE  LockInv'
<1> USE DEF Handling, AwaitIn, WaitForKey
<1>1. r \in live /\ r \notin wake
  BY DEF LockInv, RunningLives, NoLostWakeup
<1>2. ExclusiveEntry'
  BY DEF LockInv, ExclusiveEntry, Exclusive, IsRevalidationRequest
<1>3. NoLostWakeup'
  <2>1. Holders(Key[r])' = Holders(Key[r]) /\ \A q \in waiting : Holders(Key[q])' = Holders(Key[q])
    BY DEF Holders
  <2> QED BY <1>1, <2>1 DEF LockInv, NoLostWakeup, TypeOK, CacheTypeOK
<1>4. UnusedHoldsNothing'
  BY DEF LockInv, UnusedHoldsNothing, TypeOK
<1>5. RunningLives'
  BY RequestServerAssumption DEF RunningLives
<1>6. TransfersPastWait' /\ WritesPending'
  BY DEF LockInv, TransfersPastWait, WritesPending, PastWait, TypeOK
<1>7. waiting' \cap wake' = {}
  BY <1>1 DEF LockInv
<1> QED BY <1>2, <1>3, <1>4, <1>5, <1>6, <1>7 DEF LockInv

\* Requests are destroyed: their writers are closed, and whoever waits only for
\* those is woken.
LEMMA DestroyingStep ==
    ASSUME TypeOK, LockInv, NEW S \in SUBSET Requests, DestroyRequests(S), running = Idle
    PROVE  LockInv'
<1> DEFINE closed == {r \in S : held[r] = "writer"}
<1> USE DEF TypeOK, CacheTypeOK
<1>1. ExclusiveEntry'
  <2> SUFFICES ASSUME NEW p \in Requests, NEW q \in Requests, p # q, Key[p] = Key[q], Exclusive(p)'
               PROVE  held'[q] = "none"
    BY DEF ExclusiveEntry
  <2>1. Exclusive(p)
    BY DEF Exclusive, IsRevalidationRequest, DestroyRequests, Reader
  <2>2. held[q] = "none"
    BY <2>1 DEF LockInv, ExclusiveEntry
  <2> QED BY <2>2 DEF DestroyRequests
<1>2. NoLostWakeup'
  <2>1. ASSUME NEW q \in live' PROVE state'[q] = "WaitForCache" => q \in waiting' \cup wake'
    BY <2>1 DEF LockInv, NoLostWakeup, DestroyRequests
  <2>2. ASSUME NEW q \in waiting' \cup wake' PROVE q \in live' /\ state'[q] = "WaitForCache"
    BY <2>2 DEF LockInv, NoLostWakeup, DestroyRequests
  <2>3. ASSUME NEW q \in waiting' PROVE Holders(Key[q])' # {}
    <3>1. q \in waiting /\ Holders(Key[q]) # {} /\ ~(Holders(Key[q]) \subseteq closed)
      BY <2>3 DEF LockInv, NoLostWakeup, DestroyRequests
    <3>2. PICK h \in Requests : held[h] # "none" /\ Key[h] = Key[q] /\ h \notin closed
      BY <3>1 DEF Holders
    <3>3. held'[h] # "none"
      BY <3>2 DEF DestroyRequests
    <3> QED BY <3>2, <3>3 DEF Holders
  <2> QED BY <2>1, <2>2, <2>3 DEF NoLostWakeup
<1>3. UnusedHoldsNothing'
  BY DEF LockInv, UnusedHoldsNothing, DestroyRequests
<1>4. RunningLives'
  BY RequestServerAssumption DEF RunningLives, DestroyRequests
<1>5. TransfersPastWait' /\ WritesPending'
  BY DEF LockInv, TransfersPastWait, WritesPending, PastWait, DestroyRequests
<1>6. waiting' \cap wake' = {}
  BY DEF LockInv, DestroyRequests
<1> QED BY <1>1, <1>2, <1>3, <1>4, <1>5, <1>6 DEF LockInv

\* open_entry answers "wait" only when the key is locked, and opens a reader for
\* revalidation only when nobody else has an entry of the key open.
LEMMA OpenResultLocks ==
    ASSUME NEW r \in Requests, NEW m,
           NEW status \in {"Fresh", "Expired", "MustRevalidate", "StaleWhileRevalidate"}
    PROVE  /\ OpenResult(r, m, status) = "wait" => HasOpenEntry(r, TRUE)
           /\ OpenResult(r, m, status) = "must" => ~HasOpenEntry(r, TRUE)
           /\ OpenResult(r, m, status) = "swr" => r \in Fetches
<1>1. CASE status = "Fresh"
  BY <1>1 DEF OpenResult
<1>2. CASE status = "Expired"
  BY <1>2 DEF OpenResult
<1>3. CASE status = "MustRevalidate"
  BY <1>3 DEF OpenResult
<1>4. CASE status = "StaleWhileRevalidate"
  BY <1>4 DEF OpenResult
<1> QED BY <1>1, <1>2, <1>3, <1>4

LEMMA LookupLocks ==
    ASSUME NEW r \in Requests
    PROVE  /\ LookupGives(r, "wait") => HasOpenEntry(r, TRUE)
           /\ LookupGives(r, "must") => ~HasOpenEntry(r, TRUE)
           /\ LookupGives(r, "swr") => r \in Fetches /\ ~HasOpenEntry(r, FALSE)
           /\ LookupGives(r, "reader") =>
                 ~HasOpenEntry(r, TRUE) \/ (r \in Fetches /\ ~HasOpenEntry(r, FALSE))
<1>1. \A v : LifetimeStatuses(v) \subseteq {"Fresh", "Expired", "MustRevalidate", "StaleWhileRevalidate"}
  BY DEF LifetimeStatuses
<1>2. ASSUME NEW result, LookupGives(r, result)
      PROVE  \E status \in {"Fresh", "Expired", "MustRevalidate", "StaleWhileRevalidate"} :
                OpenResult(r, mode[r], status) = result
  BY <1>1, <1>2 DEF LookupGives
<1>3. ASSUME NEW result, LookupGives(r, result) PROVE ~HasOpenEntry(r, r \in Revals)
  BY <1>3 DEF LookupGives, Lookup
<1>4. r \in Fetches => (r \in Revals) = FALSE
  BY DiskCacheAssumption
<1>5. r \notin Fetches => (r \in Revals) = TRUE
  BY DEF Requests
<1> QED BY <1>2, <1>3, <1>4, <1>5, OpenResultLocks

\* A stale entry is opened, and the request that revalidates it starts to wait.
LEMMA StaleWhileRevalidateStep ==
    ASSUME TypeOK, LockInv, NEW r \in Requests, NEW b \in Revals, InitHitStaleWhileRevalidate(r, b)
    PROVE  LockInv'
<1> USE DEF InitHitStaleWhileRevalidate, OpenReader, transferVars, TypeOK, CacheTypeOK
<1>1. r \in Fetches /\ b \in Requests /\ r # b /\ ~HasOpenEntry(r, FALSE) /\ Key[b] = Key[r]
  BY LookupLocks, DiskCacheAssumption DEF Requests
<1>2. running = r /\ state[r] = "Init" /\ r \in live
  BY DEF LookupGives, Lookup, AtInit, Handling, LockInv, RunningLives
<1>3. held[b] = "none" /\ b \notin live /\ b \notin waiting \cup wake /\ r \notin waiting \cup wake
  BY <1>1, <1>2 DEF LockInv, UnusedHoldsNothing, NoLostWakeup
<1>4. held' = [held EXCEPT ![r] = "swr"] /\ ~Exclusive(r)' /\ ~Exclusive(b)'
  BY <1>1, <1>3, DiskCacheAssumption DEF Exclusive, IsRevalidationRequest, Reader
<1>5. ExclusiveEntry'
  <2> SUFFICES ASSUME NEW p \in Requests, NEW q \in Requests, p # q, Key[p] = Key[q], Exclusive(p)'
               PROVE  held'[q] = "none"
    BY DEF ExclusiveEntry
  <2>1. p # r /\ p # b /\ Exclusive(p)
    BY <1>4 DEF Exclusive, IsRevalidationRequest
  <2>2. held[q] = "none"
    BY <2>1 DEF LockInv, ExclusiveEntry
  <2>3. q # r
    BY <2>1, <1>1 DEF HasOpenEntry, Holders, Exclusive, IsRevalidationRequest, Reader
  <2> QED BY <2>2, <2>3
<1>6. NoLostWakeup'
  <2>1. ASSUME NEW q \in live' PROVE state'[q] = "WaitForCache" => q \in waiting' \cup wake'
    BY <1>1, <2>1 DEF LockInv, NoLostWakeup
  <2>2. ASSUME NEW q \in waiting' \cup wake' PROVE q \in live' /\ state'[q] = "WaitForCache"
    BY <1>1, <1>3, <2>2 DEF LockInv, NoLostWakeup
  <2>3. \A k : Holders(k) \subseteq Holders(k)'
    BY DEF Holders
  <2>4. r \in Holders(Key[b])'
    BY <1>1, <1>4 DEF Holders
  <2>5. ASSUME NEW q \in waiting' PROVE Holders(Key[q])' # {}
    BY <2>3, <2>4, <2>5 DEF LockInv, NoLostWakeup
  <2> QED BY <2>1, <2>2, <2>5 DEF NoLostWakeup
<1>7. UnusedHoldsNothing'
  BY <1>1, <1>2 DEF LockInv, UnusedHoldsNothing
<1>8. RunningLives'
  BY <1>2 DEF LockInv, RunningLives
<1>9. TransfersPastWait' /\ WritesPending'
  BY <1>1, <1>2 DEF LockInv, TransfersPastWait, WritesPending, PastWait
<1>10. waiting' \cap wake' = {}
  BY <1>3 DEF LockInv
<1> QED BY <1>5, <1>6, <1>7, <1>8, <1>9, <1>10 DEF LockInv

\* Handlers of the initial state.
LEMMA InitialStateStep ==
    ASSUME TypeOK, LockInv, NEW r \in Requests, HandleInitialState(r)
    PROVE  LockInv'
<1> USE DEF lockVars, cacheVars, transferVars
<1>1. Handling(r, "Init") /\ r \in live /\ ~multi[r] /\ ~blocked[r]
  BY DEF HandleInitialState, InitBypass, InitWait, InitMiss, InitUnreadable, InitStale, InitRevalidateWait,
         InitHit, InitHitStaleWhileRevalidate, LookupGives, Lookup, AtInit, Handling,
         LockInv, RunningLives, TransfersPastWait, PastWait
<1>2. ASSUME NEW s \in States \ {"WaitForCache", "unused"}, TransitionToState(r, s),
             UNCHANGED <<live, multi, blocked, got>>,
             \A q \in Requests : q # r => held'[q] = held[q]
      PROVE  StepOf(r)
  BY <1>1, <1>2 DEF StepOf, TransitionToState, Handling, TypeOK, States
<1>3. ASSUME NEW e, OpenAs(r, e) PROVE \A q \in Requests : q # r => held'[q] = held[q]
  BY <1>3 DEF OpenAs, SetEntry, TypeOK, CacheTypeOK
<1>4. ASSUME NEW flag, HasOpenEntry(r, flag) PROVE Holders(Key[r]) # {}
  BY <1>4 DEF HasOpenEntry
<1>5. ASSUME AfterMiss(r), UNCHANGED <<live, multi, blocked, got>> PROVE LockInv'
  <2>1. CASE ~OpenAs(r, "writer") /\ ~WaitForKey(r)
    <3>1. UNCHANGED lockVars /\ \E s \in States \ {"WaitForCache", "unused"} : TransitionToState(r, s)
      BY <1>5, <2>1 DEF AfterMiss, States
    <3> QED BY <1>2, <1>5, <3>1, OrdinaryStep
  <2>2. CASE WaitForKey(r) /\ AwaitIn(r, "WaitForCache") /\ HasOpenEntry(r, TRUE)
    BY <1>1, <1>4, <1>5, <2>2, WaitingStep
  <2>3. CASE OpenAs(r, "writer") /\ TransitionToState(r, "DNSLookup") /\ ~HasOpenEntry(r, TRUE)
    <3>1. StepOf(r)
      BY <1>2, <1>3, <1>5, <2>3 DEF States
    <3> QED BY <2>3, <3>1, OpeningStep DEF Entry
  <2>4. CASE UNCHANGED lockVars /\ \E s \in {"Complete", "FailedCacheOnly", "DNSLookup"} : TransitionToState(r, s)
    BY <1>2, <1>5, <2>4, OrdinaryStep DEF States
  <2> QED BY <1>5, <2>2, <2>3, <2>4 DEF AfterMiss
<1>6. CASE InitBypass(r)
  <2>1. UNCHANGED <<live, multi, blocked, got>> /\ UNCHANGED lockVars
    BY <1>6 DEF InitBypass
  <2>2. TransitionToState(r, "ServeSubstitution") \/ TransitionToState(r, "DNSLookup")
    BY <1>6 DEF InitBypass
  <2> QED BY <1>2, <2>1, <2>2, OrdinaryStep DEF States
<1>7. CASE InitWait(r)
  BY <1>1, <1>4, <1>7, WaitingStep DEF InitWait
<1>8. CASE InitMiss(r) \/ InitUnreadable(r) \/ InitStale(r)
  BY <1>5, <1>8 DEF InitMiss, InitUnreadable, InitStale
<1>9. CASE InitRevalidateWait(r)
  <2>1. HasOpenEntry(r, TRUE)
    BY <1>9, LookupLocks DEF InitRevalidateWait
  <2> QED BY <1>1, <1>4, <1>9, <2>1, WaitingStep DEF InitRevalidateWait
<1>10. CASE InitHit(r)
  <2>1. UNCHANGED <<live, multi, blocked, got>>
    BY <1>10 DEF InitHit, OpenReader
  <2>2. CASE LookupGives(r, "reader") /\ OpenAs(r, "reader")
             /\ TransitionToState(r, IF r \in Revals THEN "DNSLookup" ELSE "ReadCache")
    <3>1. StepOf(r)
      BY <1>2, <1>3, <2>1, <2>2 DEF States
    <3> QED BY <2>2, <3>1, OpeningStep, LookupLocks DEF Entry, Reader
  <2>3. CASE LookupGives(r, "must") /\ OpenAs(r, "must") /\ TransitionToState(r, "DNSLookup")
    <3>1. StepOf(r)
      BY <1>2, <1>3, <2>1, <2>3 DEF States
    <3> QED BY <2>3, <3>1, OpeningStep, LookupLocks DEF Entry, Reader
  <2> QED BY <1>10, <2>2, <2>3 DEF InitHit
<1>11. ASSUME NEW b \in Revals, InitHitStaleWhileRevalidate(r, b) PROVE LockInv'
  BY <1>11, StaleWhileRevalidateStep
<1> QED BY <1>6, <1>7, <1>8, <1>9, <1>10, <1>11 DEF HandleInitialState

\* The handlers that run after the initial one, and the events of a request.
LEMMA HandlerStep ==
    ASSUME TypeOK, LockInv, NEW r \in Requests,
           \/ HandleReadCacheState(r) \/ SendResumes(r)
           \/ HandleFailedCacheOnlyState(r) \/ HandleServeSubstitutionState(r)
           \/ HandleDnsLookupState(r) \/ DnsLookupEnds(r)
           \/ HandleRetrieveCookieState(r) \/ NotifyRetrievedHttpCookie(r)
           \/ HandleFetchState(r) \/ HandleCompleteState(r) \/ HandleErrorState(r)
    PROVE  LockInv'
<1> USE DEF lockVars, cacheVars, transferVars, TransitionToState, AwaitIn, Handling, Event, PastWait
<1>0. ASSUME NEW s \in States, Handling(r, s) \/ Event(r, s)
      PROVE  r \in live /\ state[r] = s /\ (s = "ReadCache" => ~multi[r] /\ ~blocked[r])
             /\ (blocked[r] => got[r] # 0) /\ (multi[r] \/ blocked[r] => PastWait(r))
  BY <1>0 DEF LockInv, RunningLives, TransfersPastWait, WritesPending, PastWait
<1> USE <1>0 DEF StepOf, TypeOK, CacheTypeOK, States
<1>1. CASE HandleReadCacheState(r) \/ SendResumes(r)
  <2>1. UNCHANGED lockVars \/ CacheEntryClosed(r)
    BY <1>1 DEF HandleReadCacheState, ReadCachePipeFails, ReadCacheSend, ReadCacheTakeBodyFile, SendResumes,
                SendWithoutBlocking, SendComplete, SendError, SendBlocked
  <2>2. \A q \in Requests : q # r => held'[q] = held[q]
    BY <2>1 DEF CacheEntryClosed, SetEntry
  <2>3. UNCHANGED <<live, multi, blocked, got>> /\ state[r] = "ReadCache" /\ running' \in {r, Idle}
        /\ \E s \in {"ReadCache", "Complete", "Error"} : state' = [state EXCEPT ![r] = s]
    BY <1>1 DEF HandleReadCacheState, ReadCachePipeFails, ReadCacheSend, ReadCacheTakeBodyFile, SendResumes,
                SendWithoutBlocking, SendComplete, SendError, SendBlocked
  <2>4. r \in live /\ ~multi[r] /\ ~blocked[r]
    BY <1>1 DEF HandleReadCacheState, ReadCachePipeFails, ReadCacheSend, ReadCacheTakeBodyFile, SendResumes
  <2>5. StepOf(r)
    BY <2>2, <2>3, <2>4
  <2> QED BY <2>1, <2>5, OrdinaryStep
<1>2. CASE HandleFailedCacheOnlyState(r)
  <2>1. StepOf(r) /\ UNCHANGED lockVars
    BY <1>2 DEF HandleFailedCacheOnlyState
  <2> QED BY <2>1, OrdinaryStep
<1>3. CASE HandleServeSubstitutionState(r)
  <2>1. UNCHANGED <<lockVars, live, multi>> /\ r \in live /\ state[r] = "ServeSubstitution"
        /\ running' \in {r, Idle}
        /\ \E s \in {"ServeSubstitution", "Complete", "Error"} : state' = [state EXCEPT ![r] = s]
    BY <1>3 DEF HandleServeSubstitutionState
  <2>2. \E g \in {got[r], 1}, w \in {blocked[r], TRUE} :
           /\ got' = [got EXCEPT ![r] = g] /\ blocked' = [blocked EXCEPT ![r] = w]
           /\ w # blocked[r] => g = 1
    <3> DEFINE Sets(g, w) == /\ got' = [got EXCEPT ![r] = g] /\ blocked' = [blocked EXCEPT ![r] = w]
    <3>1. Sets(got[r], blocked[r]) \/ Sets(1, blocked[r]) \/ Sets(1, TRUE)
      BY <1>3 DEF HandleServeSubstitutionState
    <3> QED BY <3>1
  <2>3. blocked[r] => got[r] # 0
    BY <1>3 DEF HandleServeSubstitutionState
  <2>4. StepOf(r)
    BY <2>1, <2>2, <2>3
  <2> QED BY <2>1, <2>4, OrdinaryStep
<1>4. CASE \/ HandleDnsLookupState(r) \/ DnsLookupEnds(r)
           \/ HandleRetrieveCookieState(r) \/ NotifyRetrievedHttpCookie(r)
  <2>1. StepOf(r) /\ UNCHANGED lockVars
    BY <1>4 DEF HandleDnsLookupState, DnsLookupEnds, HandleRetrieveCookieState, NotifyRetrievedHttpCookie
  <2> QED BY <2>1, OrdinaryStep
<1>5. CASE HandleFetchState(r)
  <2>1. StepOf(r) /\ UNCHANGED lockVars
    BY <1>5 DEF HandleFetchState
  <2> QED BY <2>1, OrdinaryStep
<1>6. CASE HandleCompleteState(r)
  <2>1. UNCHANGED lockVars \/ CacheEntryClosed(r)
    BY <1>6 DEF HandleCompleteState, CompleteFails, CompleteWithoutFlush, CompleteWithFlush, Flush
  <2>2. \A q \in Requests : q # r => held'[q] = held[q]
    BY <2>1 DEF CacheEntryClosed, SetEntry
  <2>3. UNCHANGED <<live, multi, blocked, got>> /\ r \in live /\ running' \in {r, Idle}
        /\ state[r] = "Complete" /\ \E s \in {"Complete", "Error"} : state' = [state EXCEPT ![r] = s]
    BY <1>6 DEF HandleCompleteState, CompleteFails, CompleteWithoutFlush, CompleteWithFlush, RequestComplete
  <2>4. StepOf(r)
    BY <1>6, <2>2, <2>3 DEF LockInv, WritesPending
  <2> QED BY <2>1, <2>4, OrdinaryStep
<1>7. CASE HandleErrorState(r)
  <2>1. StepOf(r) /\ UNCHANGED lockVars
    BY <1>7 DEF HandleErrorState, RequestComplete
  <2> QED BY <2>1, OrdinaryStep
<1> QED BY <1>1, <1>2, <1>3, <1>4, <1>5, <1>6, <1>7

\* The events of a transfer and of the client's pipe.
LEMMA TransferStep ==
    ASSUME TypeOK, LockInv, NEW r \in Requests, OnData(r) \/ NotifyFetchComplete(r) \/ WriterNotifier(r)
    PROVE  LockInv'
<1> USE DEF lockVars, cacheVars, transferVars, TransitionToState, PastWait, Transferring, FetchEnds
<1>0. /\ multi[r] \/ blocked[r] => PastWait(r) /\ state[r] \notin {"WaitForCache", "unused"}
      /\ blocked[r] => got[r] # 0
  BY DEF LockInv, TransfersPastWait, WritesPending
<1> USE <1>0 DEF StepOf, TypeOK, CacheTypeOK, States
<1>1. CASE OnDataShielded(r)
  <2>1. StepOf(r) /\ UNCHANGED lockVars
    BY <1>1 DEF OnDataShielded
  <2> QED BY <2>1, OrdinaryStep
<1>2. CASE OnDataPipeFails(r)
  <2>1. StepOf(r) /\ CacheEntryClosed(r)
    BY <1>2 DEF OnDataPipeFails, CacheEntryClosed, SetEntry
  <2> QED BY <2>1, OrdinaryStep
<1>3. ASSUME NEW accepted \in BOOLEAN, NEW tracker \in BOOLEAN, NEW broken \in BOOLEAN, NEW diskOK \in BOOLEAN,
             NEW n \in 0 .. (got[r] + 1), OnDataReceived(r, accepted, tracker, n, broken, diskOK)
      PROVE  LockInv'
  <2> DEFINE reval   == IsRevalidationRequest(r)
             deleted == ~reval /\ marked[r]
             writer0 == reval \/ held[r] = "writer"
             writer1 == writer0 /\ (sentHeaders[r] \/ (accepted /\ ~deleted))
             writer2 == writer1 /\ (n > 0 => diskOK /\ ~deleted)
             e       == IF writer2 THEN "writer" ELSE IF writer0 THEN "none" ELSE held[r]
             closes  == reval \/ (writer0 /\ ~writer2)
  <2>0. SetEntry(r, e, closes)
    BY <1>3 DEF OnDataReceived
  <2>1. /\ closes \in BOOLEAN
        /\ e = "none" /\ held[r] # "none" => closes
        /\ e \in {held[r], "none"} \/ Exclusive(r)
    BY DEF Exclusive
  <2> HIDE DEF e, closes
  <2>2. QueueKept /\ held' = [held EXCEPT ![r] = e]
    BY <2>0, <2>1, SetEntryKeepsQueue
  <2>3. StepOf(r)
    <3>1. UNCHANGED <<live, state, multi>> /\ r \in live /\ multi[r] /\ running' \in {r, Idle}
      BY <1>3 DEF OnDataReceived
    <3>2. \E g \in Nat, w \in BOOLEAN :
             /\ got' = [got EXCEPT ![r] = g] /\ blocked' = [blocked EXCEPT ![r] = w]
             /\ w => (blocked[r] /\ g = got[r]) \/ g # 0
      <4>1. CASE tracker
        BY <1>3, <4>1 DEF OnDataReceived
      <4>2. CASE ~tracker
        <5>1. got' = [got EXCEPT ![r] = got[r] + 1] /\ got[r] + 1 \in Nat /\ got[r] + 1 # 0
          BY <1>3, <4>2 DEF OnDataReceived
        <5> DEFINE full == got[r] + 1 - out[r]
        <5>2. blocked' = [blocked EXCEPT ![r] = IF tracker \/ broken THEN @ ELSE n < full]
          BY <1>3 DEF OnDataReceived
        <5>3. CASE broken
          <6>1. blocked' = [blocked EXCEPT ![r] = blocked[r]]
            BY <5>2, <5>3
          <6> QED BY <5>1, <6>1
        <5>4. CASE ~broken
          <6> HIDE DEF full
          <6>1. blocked' = [blocked EXCEPT ![r] = (n < full)]
            BY <4>2, <5>2, <5>4, Zenon
          <6>2. (n < full) \in BOOLEAN
            OBVIOUS
          <6> QED BY <5>1, <6>1, <6>2
        <5> QED BY <5>3, <5>4
      <4> QED BY <4>1, <4>2
    <3> QED BY <2>2, <3>1, <3>2
  <2>4. Compatible(r)
    BY <2>1, <2>2, <2>3, KeptEntryCompatible
  <2> QED BY <2>2, <2>3, <2>4, StepOfKeepsLockInv
<1>4. CASE FetchRetried(r)
  <2>1. StepOf(r) /\ UNCHANGED lockVars
    BY <1>4 DEF FetchRetried
  <2> QED BY <2>1, OrdinaryStep
<1>5. CASE FetchNotModified(r)
  <2>1. UNCHANGED lockVars \/ CacheEntryClosed(r)
    BY <1>5 DEF FetchNotModified
  <2>2. \A q \in Requests : q # r => held'[q] = held[q]
    BY <2>1 DEF CacheEntryClosed, SetEntry
  <2>3. /\ r \in live /\ multi[r] /\ ~blocked[r] /\ UNCHANGED <<live, blocked, got>>
        /\ multi' = [multi EXCEPT ![r] = FALSE] /\ running' = r
        /\ \E s \in {"ReadCache", "Complete"} : state' = [state EXCEPT ![r] = s]
    BY <1>5 DEF FetchNotModified, NotModified
  <2>4. StepOf(r)
    BY <2>2, <2>3
  <2> QED BY <2>1, <2>4, OrdinaryStep
<1>6. ASSUME NEW code \in CurlCodes, FetchPipeFails(r, code) PROVE LockInv'
  <2>1. StepOf(r) /\ CacheEntryClosed(r)
    BY <1>6 DEF FetchPipeFails, CacheEntryClosed, SetEntry
  <2> QED BY <2>1, OrdinaryStep
<1>7. ASSUME NEW code \in CurlCodes, FetchComplete(r, code) PROVE LockInv'
  <2>1. UNCHANGED lockVars \/ CacheEntryClosed(r)
    BY <1>7 DEF FetchComplete
  <2>2. \A q \in Requests : q # r => held'[q] = held[q]
    BY <2>1 DEF CacheEntryClosed, SetEntry
  <2>3. /\ r \in live /\ multi[r] /\ UNCHANGED <<live, blocked, got>>
        /\ multi' = [multi EXCEPT ![r] = FALSE] /\ running' \in {r, Idle}
        /\ \E s \in {state[r], "Complete"} : state' = [state EXCEPT ![r] = s]
    BY <1>7 DEF FetchComplete
  <2>4. StepOf(r)
    BY <2>2, <2>3
  <2> QED BY <2>1, <2>4, OrdinaryStep
<1>8. ASSUME NEW n \in 0 .. got[r], NEW broken \in BOOLEAN, NEW diskOK \in BOOLEAN,
             WriteQueuedBytes(r, n, broken, diskOK)
      PROVE  LockInv'
  <2>1. UNCHANGED lockVars \/ CacheEntryClosed(r)
    BY <1>8 DEF WriteQueuedBytes
  <2>2. \A q \in Requests : q # r => held'[q] = held[q]
    BY <2>1 DEF CacheEntryClosed, SetEntry
  <2>3. /\ r \in live /\ blocked[r] /\ UNCHANGED <<live, multi, got>>
        /\ running' \in {r, Idle}
        /\ \E s \in {state[r], "Complete"} : state' = [state EXCEPT ![r] = s]
        /\ \E w \in BOOLEAN : blocked' = [blocked EXCEPT ![r] = w]
    BY <1>8 DEF WriteQueuedBytes
  <2>4. StepOf(r)
    BY <2>2, <2>3
  <2> QED BY <2>1, <2>4, OrdinaryStep
<1> QED
  BY <1>1, <1>2, <1>3, <1>4, <1>5, <1>6, <1>7, <1>8 DEF OnData, NotifyFetchComplete, WriterNotifier

\* Steps that touch no request's turn: only marks, stores or the origin change.
LEMMA QuietStep ==
    ASSUME LockInv, UNCHANGED <<live, lockVars, running, state, multi, blocked, got>>
    PROVE  LockInv'
BY DEF LockInv, lockVars, ExclusiveEntry, Exclusive, IsRevalidationRequest, NoLostWakeup, Holders,
       UnusedHoldsNothing, RunningLives, TransfersPastWait, WritesPending, PastWait

LEMMA LockStep == TypeOK /\ LockInv /\ [Next]_vars => LockInv'
<1> SUFFICES ASSUME TypeOK, LockInv, [Next]_vars PROVE LockInv'
  OBVIOUS
<1>1. ASSUME NEW r \in Fetches, NEW m \in Modes, StartRequest(r, m) PROVE LockInv'
  <2> USE <1>1 DEF StartRequest, TransitionToState, lockVars, transferVars, TypeOK, CacheTypeOK
  <2>0. r \in Requests /\ held[r] = "none" /\ r \notin waiting \cup wake
    BY DEF Requests, LockInv, UnusedHoldsNothing, NoLostWakeup
  <2>1. ExclusiveEntry'
    BY <2>0 DEF LockInv, ExclusiveEntry, Exclusive, IsRevalidationRequest, Reader
  <2>2. NoLostWakeup'
    BY <2>0 DEF LockInv, NoLostWakeup, Holders
  <2>3. UnusedHoldsNothing' /\ RunningLives'
    BY <2>0 DEF LockInv, UnusedHoldsNothing, RunningLives
  <2>4. TransfersPastWait' /\ WritesPending'
    BY <2>0 DEF LockInv, TransfersPastWait, WritesPending, PastWait
  <2> QED BY <2>1, <2>2, <2>3, <2>4 DEF LockInv
<1>2. ASSUME NEW r \in Requests, NotifyRequestUnblocked(r) PROVE LockInv'
  <2> USE <1>2 DEF NotifyRequestUnblocked, TransitionToState, transferVars, TypeOK, CacheTypeOK
  <2>0. r \in live /\ state[r] = "WaitForCache" /\ r \notin waiting
    BY DEF LockInv, NoLostWakeup
  <2>1. ExclusiveEntry'
    BY DEF LockInv, ExclusiveEntry, Exclusive, IsRevalidationRequest
  <2>2. NoLostWakeup'
    BY <2>0 DEF LockInv, NoLostWakeup, Holders
  <2>3. UnusedHoldsNothing' /\ RunningLives'
    BY <2>0 DEF LockInv, UnusedHoldsNothing, RunningLives
  <2>4. TransfersPastWait' /\ WritesPending'
    BY <2>0 DEF LockInv, TransfersPastWait, WritesPending, PastWait
  <2> QED BY <2>1, <2>2, <2>3, <2>4 DEF LockInv
<1>3. ASSUME NEW r \in Requests, SendOrphaned(r) PROVE LockInv'
  <2> USE <1>3 DEF SendOrphaned, transferVars
  <2>0. QueueKept /\ held' = [held EXCEPT ![r] = "none"]
    BY ClosedKeepsQueue
  <2> USE DEF TypeOK, CacheTypeOK
  <2>1. ExclusiveEntry'
    BY <2>0 DEF LockInv, ExclusiveEntry, Exclusive, IsRevalidationRequest, Reader
  <2>2. NoLostWakeup'
    BY <2>0 DEF LockInv, NoLostWakeup, QueueKept
  <2>3. UnusedHoldsNothing' /\ RunningLives'
    BY <2>0 DEF LockInv, UnusedHoldsNothing, RunningLives
  <2>4. TransfersPastWait' /\ WritesPending'
    BY DEF LockInv, TransfersPastWait, WritesPending, PastWait
  <2> QED BY <2>0, <2>1, <2>2, <2>3, <2>4 DEF LockInv, QueueKept
<1>4. ASSUME NEW r \in Requests, RequestRemoved(r) \/ StopRequest(r) PROVE LockInv'
  BY <1>4, DestroyingStep DEF RequestRemoved, StopRequest
<1>5. ASSUME NEW c \in Clients, ClientDisconnects(c) PROVE LockInv'
  BY <1>5, DestroyingStep DEF ClientDisconnects, TypeOK, CacheTypeOK
<1>6. ASSUME NEW ks, RemoveEntriesAccessedSince(ks) PROVE LockInv'
  BY <1>6, QuietStep DEF RemoveEntriesAccessedSince, transferVars
<1>7. ASSUME NEW k \in Keys, OriginChanges(k) PROVE LockInv'
  BY <1>7, QuietStep DEF OriginChanges, cacheVars, lockVars, transferVars
<1>8. CASE Crash
  BY <1>8, RequestServerAssumption
     DEF Crash, LockInv, ExclusiveEntry, Exclusive, IsRevalidationRequest, NoLostWakeup, Reader,
         UnusedHoldsNothing, RunningLives, TransfersPastWait, WritesPending
<1>9. CASE UNCHANGED vars
  BY <1>9, QuietStep DEF vars, cacheVars, lockVars, transferVars
<1> QED
  BY <1>1, <1>2, <1>3, <1>4, <1>5, <1>6, <1>7, <1>8, <1>9, InitialStateStep, HandlerStep, TransferStep
     DEF Next, Process, Answered

LEMMA InitLockInv == Init => LockInv
BY RequestServerAssumption
   DEF Init, CacheInit, LockInv, ExclusiveEntry, Exclusive, IsRevalidationRequest, NoLostWakeup, Reader,
       UnusedHoldsNothing, RunningLives, TransfersPastWait, WritesPending

\* Whatever the requests, keys, clients and faults: two entries of a cache key
\* are open together only if both are plain readers, so the create_entry of
\* on_data_received never meets an open entry.
THEOREM EntriesAreExclusive == Spec => []ExclusiveEntry
<1>1. LockInv => ExclusiveEntry
  BY DEF LockInv
<1> QED BY <1>1, InitLockInv, LockStep, TypeCorrect, PTL DEF Spec

\* Whatever the requests, keys, clients and faults: a request in WaitForCache is
\* on the list of a key that some entry still keeps open, or is about to be woken.
THEOREM WakeupsAreNotLost == Spec => []NoLostWakeup
<1>1. LockInv => NoLostWakeup
  BY DEF LockInv
<1> QED BY <1>1, InitLockInv, LockStep, TypeCorrect, PTL DEF Spec
=============================================================================
