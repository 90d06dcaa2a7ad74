----------------------- MODULE RequestServerStoreProof -----------------------
(***************************************************************************)
(* Proofs about the disk cache: what a step may do to the entry files and  *)
(* the index rows, what they hold, and that the table of open entries is   *)
(* the lock of EntryLock.                                                  *)
(***************************************************************************)
EXTENDS RequestServerTransferProof

(***************************************************************************)
(* The stores.                                                             *)
(***************************************************************************)

\* Entries disappear, and a row never stays behind a file that goes.
Shrinks(k) ==
    /\ file'[k] \in {file[k], Absent} /\ row'[k] \in {row[k], Absent}
    /\ file'[k] # file[k] => row'[k] = Absent

StoresShrink == \A k \in Keys : Shrinks(k)

LEMMA RemovalShrinks ==
    ASSUME TypeOK
    PROVE  /\ \A k : RemoveEntry(k) => StoresShrink
           /\ \A ks : row' = Without(row, ks) /\ file' = Without(file, ks) => StoresShrink
           /\ \A ks : row' = Without(row, ks) /\ file' = file => StoresShrink
           /\ UNCHANGED storeVars => StoresShrink
<1> USE DEF StoresShrink, Shrinks, Without, storeVars
<1>1. \A ks : row' = Without(row, ks) /\ file' = Without(file, ks) => StoresShrink
  OBVIOUS
<1>2. \A ks : row' = Without(row, ks) /\ file' = file => StoresShrink
  OBVIOUS
<1> QED BY <1>1, <1>2 DEF RemoveEntry

\* Only a writer that is flushed, or a process that dies in the middle of that,
\* puts anything into the stores.
LEMMA StoresStep ==
    ASSUME TypeOK, [Next]_vars, ~Crash, ~ \E r \in Requests : CompleteWithFlush(r)
    PROVE  StoresShrink
<1> USE RemovalShrinks DEF storeVars, cacheVars
<1>1. ASSUME NEW r \in Requests, HandleInitialState(r) PROVE StoresShrink
  <2>1. CASE InitUnreadable(r)
    BY <2>1 DEF InitUnreadable
  <2>2. CASE InitStale(r)
    BY <2>2 DEF InitStale
  <2>3. CASE InitHit(r) \/ \E b \in Revals : InitHitStaleWhileRevalidate(r, b)
    BY <2>3 DEF InitHit, InitHitStaleWhileRevalidate, OpenReader
  <2>4. CASE InitBypass(r) \/ InitWait(r) \/ InitMiss(r) \/ InitRevalidateWait(r)
    BY <2>4 DEF InitBypass, InitWait, InitMiss, InitRevalidateWait
  <2> QED BY <1>1, <2>1, <2>2, <2>3, <2>4 DEF HandleInitialState
<1>2. ASSUME NEW r \in Requests, HandleReadCacheState(r) \/ SendResumes(r) \/ SendOrphaned(r) PROVE StoresShrink
  BY <1>2 DEF HandleReadCacheState, ReadCachePipeFails, ReadCacheSend, ReadCacheTakeBodyFile, SendResumes,
              SendWithoutBlocking, SendComplete, SendError, SendBlocked, SendOrphaned
<1>3. ASSUME NEW r \in Requests, OnData(r) \/ NotifyFetchComplete(r) \/ WriterNotifier(r) PROVE StoresShrink
  <2>1. CASE OnData(r)
    BY <2>1 DEF OnData, OnDataShielded, OnDataPipeFails, OnDataReceived
  <2>2. CASE NotifyFetchComplete(r)
    BY <2>2 DEF NotifyFetchComplete, FetchRetried, FetchNotModified, FetchPipeFails, FetchComplete
  <2>3. CASE WriterNotifier(r)
    BY <2>3 DEF WriterNotifier, WriteQueuedBytes
  <2> QED BY <1>3, <2>1, <2>2, <2>3
<1>4. ASSUME NEW r \in Requests,
             \/ HandleFailedCacheOnlyState(r) \/ HandleServeSubstitutionState(r) \/ HandleDnsLookupState(r)
             \/ HandleRetrieveCookieState(r) \/ HandleFetchState(r) \/ HandleErrorState(r)
             \/ DnsLookupEnds(r) \/ NotifyRetrievedHttpCookie(r) \/ HandleCompleteState(r)
      PROVE  StoresShrink
  BY <1>4 DEF HandleFailedCacheOnlyState, HandleServeSubstitutionState, HandleDnsLookupState,
              HandleRetrieveCookieState, HandleFetchState, HandleErrorState, DnsLookupEnds,
              NotifyRetrievedHttpCookie, HandleCompleteState, CompleteFails, CompleteWithoutFlush
<1>5. ASSUME NEW r \in Requests, NotifyRequestUnblocked(r) \/ RequestRemoved(r) \/ StopRequest(r)
      PROVE  StoresShrink
  BY <1>5 DEF NotifyRequestUnblocked, RequestRemoved, StopRequest, DestroyRequests
<1>6. ASSUME NEW r \in Fetches, NEW m \in Modes, StartRequest(r, m) PROVE StoresShrink
  BY <1>6 DEF StartRequest
<1>7. ASSUME NEW c \in Clients, ClientDisconnects(c) PROVE StoresShrink
  BY <1>7 DEF ClientDisconnects, DestroyRequests
<1>8. ASSUME NEW ks \in SUBSET RowKeys, RemoveEntriesAccessedSince(ks) PROVE StoresShrink
  BY <1>8 DEF RemoveEntriesAccessedSince, DeleteEntries
<1>9. ASSUME NEW k \in Keys, OriginChanges(k) PROVE StoresShrink
  BY <1>9 DEF OriginChanges
<1>10. CASE UNCHANGED vars
  BY <1>10 DEF vars
<1> HIDE RemovalShrinks DEF storeVars, cacheVars
<1> QED
  BY <1>1, <1>2, <1>3, <1>4, <1>5, <1>6, <1>7, <1>8, <1>9, <1>10 DEF Next, Process, Answered

\* What a flush makes of the stores.
LEMMA FlushStep ==
    ASSUME TypeOK, NEW r \in Requests, Flush(r)
    PROVE  /\ \A k \in Keys : k # Key[r] => Shrinks(k)
           /\ \/ Shrinks(Key[r])
              \/ ~marked[r] /\ row'[Key[r]] = Written(r) /\ file'[Key[r]] = Written(r)
              \/ ~marked[r] /\ "reopen" \in Faults /\ row'[Key[r]] = row[Key[r]] /\ file'[Key[r]] = Written(r)
<1>0. Key[r] \in Keys
  BY StoresTyped
<1> USE <1>0 DEF TypeOK, CacheTypeOK, Shrinks
<1>1. CASE FlushFails(r)
  BY <1>1 DEF FlushFails
<1>2. CASE ~marked[r] /\ "reopen" \in Faults /\ FlushLosesRow(r, Written(r))
  BY <1>2 DEF FlushLosesRow
<1>3. CASE FlushRefused(r)
  BY <1>3 DEF FlushRefused, RemoveEntry, Without
<1>4. ASSUME NEW ks, ~marked[r], FlushStores(r, Written(r), ks)
      PROVE  /\ \A k \in Keys : k # Key[r] => Shrinks(k)
             /\ \/ Shrinks(Key[r])
                \/ ~marked[r] /\ row'[Key[r]] = Written(r) /\ file'[Key[r]] = Written(r)
  <2>1. \A k \in Keys : k # Key[r] => Shrinks(k)
    BY <1>4 DEF FlushStores, Without
  <2>2. CASE Key[r] \in ks
    BY <1>4, <2>2 DEF FlushStores, Without
  <2>3. CASE Key[r] \notin ks
    BY <1>4, <2>3 DEF FlushStores, Without
  <2> QED BY <1>4, <2>1, <2>2, <2>3
<1> QED BY <1>1, <1>2, <1>3, <1>4 DEF Flush

(***************************************************************************)
(* Versions.                                                               *)
(***************************************************************************)

\* A response that is being stored is no older than the one on disk, and
\* nothing is newer than what the origin serves.
VersionInv ==
    /\ \A k \in Keys : file[k].ver <= origin[k]
    /\ \A r \in Requests : ver[r] <= origin[Key[r]]
    /\ \A r \in Requests : held[r] = "writer" => ver[r] = 0 \/ file[Key[r]].ver <= ver[r]

\* The stored response of k, if there is one after the step, is no older than
\* the one before.
NoOlder(k) == file'[k].ver # 0 => file'[k].ver >= file[k].ver

\* A step that only removes files.
LEMMA ShrinkingVersions ==
    ASSUME TypeOK, TypeOK', VersionInv, StoresShrink,
           \A k \in Keys : origin[k] <= origin'[k],
           \A q \in Requests : ver'[q] = ver[q] \/ (ver[q] = 0 /\ ver'[q] = origin[Key[q]]),
           \A q \in Requests : held'[q] = "writer"
              => held[q] = "writer" \/ ver'[q] = 0 \/ file'[Key[q]] = Absent
    PROVE  VersionInv' /\ \A k \in Keys : NoOlder(k)
<1> USE DEF TypeOK, CacheTypeOK, Content, Version
<1>1. ASSUME NEW k \in Keys PROVE file'[k].ver <= origin'[k] /\ NoOlder(k) /\ file'[k].ver \in {0, file[k].ver}
  BY DEF VersionInv, StoresShrink, Shrinks, Absent, NoOlder
<1>0. ASSUME NEW q \in Requests
      PROVE  /\ Key[q] \in Keys /\ origin[Key[q]] \in Nat /\ origin'[Key[q]] \in Nat
             /\ ver[q] \in Nat /\ ver'[q] \in Nat /\ ver[q] <= origin[Key[q]] /\ origin[Key[q]] <= origin'[Key[q]]
             /\ file[Key[q]].ver \in Nat /\ file'[Key[q]].ver \in Nat /\ file[Key[q]].ver <= origin[Key[q]]
             /\ held[q] = "writer" => ver[q] = 0 \/ file[Key[q]].ver <= ver[q]
  <2>1. Key[q] \in Keys
    BY DiskCacheAssumption
  <2>2. MaxVersion \in Nat
    BY DiskCacheAssumption
  <2>3. origin[Key[q]] \in Nat /\ origin'[Key[q]] \in Nat
    BY <2>1, <2>2
  <2>4. ver[q] \in Nat /\ ver'[q] \in Nat
    BY <2>2
  <2>5. file[Key[q]].ver \in Nat /\ file'[Key[q]].ver \in Nat
    BY <2>1, <2>2
  <2> QED BY <2>1, <2>3, <2>4, <2>5 DEF VersionInv
<1> HIDE DEF TypeOK, CacheTypeOK, Content, Version
<1>2. ASSUME NEW q \in Requests PROVE ver'[q] <= origin'[Key[q]]
  <2>1. ver'[q] = ver[q] \/ ver'[q] = origin[Key[q]]
    OBVIOUS
  <2> QED BY <1>0, <2>1
<1>3. ASSUME NEW q \in Requests, held'[q] = "writer" PROVE ver'[q] = 0 \/ file'[Key[q]].ver <= ver'[q]
  <2>1. Key[q] \in Keys
    BY DiskCacheAssumption
  <2>2. CASE file'[Key[q]] = Absent
    BY <1>0, <2>2 DEF Absent
  <2>3. CASE held[q] = "writer"
    <3>1. file'[Key[q]].ver = 0 \/ file'[Key[q]].ver = file[Key[q]].ver
      BY <1>1, <2>1
    <3> QED BY <1>0, <2>3, <3>1
  <2> QED BY <1>3, <2>2, <2>3
<1> QED BY <1>1, <1>2, <1>3 DEF VersionInv

\* A step in which the writer r may store what it has written, and lets go.
LEMMA WritingVersions ==
    ASSUME TypeOK, TypeOK', VersionInv, LockInv, NEW r \in Requests, held[r] = "writer", held'[r] = "none",
           \A k \in Keys : k # Key[r] => file'[k] \in {file[k], Absent},
           file'[Key[r]] \in {file[Key[r]], Absent, Written(r)},
           UNCHANGED <<ver, origin>>,
           \A q \in Requests : held'[q] = "writer" => held[q] = "writer"
    PROVE  VersionInv' /\ \A k \in Keys : NoOlder(k)
<1> USE DEF TypeOK, CacheTypeOK, Content, Version
<1>0. Key[r] \in Keys /\ Written(r).ver = ver[r]
  BY DiskCacheAssumption DEF Written
<1>1. ASSUME NEW k \in Keys PROVE file'[k].ver <= origin'[k] /\ NoOlder(k)
  <2>1. CASE file'[k] \in {file[k], Absent}
    BY <2>1 DEF VersionInv, Absent, NoOlder
  <2>2. CASE k = Key[r] /\ file'[k] = Written(r)
    BY <1>0, <2>2 DEF VersionInv, NoOlder
  <2> QED BY <2>1, <2>2
<1>2. ASSUME NEW q \in Requests PROVE ver'[q] <= origin'[Key[q]]
  BY DEF VersionInv
<1>3. ASSUME NEW q \in Requests, held'[q] = "writer" PROVE ver'[q] = 0 \/ file'[Key[q]].ver <= ver'[q]
  <2>1. Key[q] \in Keys /\ held[q] = "writer" /\ q # r
    BY <1>3, DiskCacheAssumption
  <2>2. Key[q] # Key[r]
    BY <2>1 DEF LockInv, ExclusiveEntry, Exclusive
  <2>3. file'[Key[q]].ver \in {0, file[Key[q]].ver}
    BY <2>1, <2>2 DEF Absent
  <2> QED BY <2>1, <2>3 DEF VersionInv
<1> QED BY <1>1, <1>2, <1>3 DEF VersionInv

\* What the other steps do to versions and writers: the origin moves forward, a
\* request learns its version once and from the origin, and a writer is opened
\* before the response is known or in place of an entry that was removed.
VersionsMove ==
    /\ \A k \in Keys : origin[k] <= origin'[k]
    /\ \A q \in Requests : ver'[q] = ver[q] \/ (ver[q] = 0 /\ ver'[q] = origin[Key[q]])
    /\ \A q \in Requests : held'[q] = "writer"
          => held[q] = "writer" \/ ver'[q] = 0 \/ file'[Key[q]] = Absent

LEMMA QuietVersions ==
    ASSUME TypeOK, UNCHANGED <<ver, origin>>, \A q \in Requests : held'[q] = "writer" => held[q] = "writer"
    PROVE  VersionsMove
BY DEF VersionsMove, TypeOK, Version

LEMMA VersionsStep ==
    ASSUME TypeOK, LockInv, TransferInv, [Next]_vars, ~Crash, ~ \E r \in Requests : CompleteWithFlush(r)
    PROVE  VersionsMove
<1> USE DEF cacheVars, lockVars, transferVars
<1>1. ASSUME NEW r \in Requests, HandleInitialState(r) PROVE VersionsMove
  <2>1. UNCHANGED <<ver, origin>> /\ Handling(r, "Init")
    BY <1>1 DEF HandleInitialState, InitBypass, InitWait, InitMiss, InitUnreadable, InitStale,
                InitRevalidateWait, InitHit, InitHitStaleWhileRevalidate, OpenReader, LookupGives, Lookup, AtInit
  <2>2. ver'[r] = 0
    BY <2>1 DEF Handling, TransferInv, TransferOK, QuietBefore, BeforeTransfer, NothingFetched
  <2>3. \A q \in Requests : q # r => held'[q] = held[q]
    <3>1. ASSUME AfterMiss(r) PROVE \A q \in Requests : q # r => held'[q] = held[q]
      BY <3>1, EntryOfOthers DEF AfterMiss
    <3>2. CASE InitHit(r)
      BY <3>2, EntryOfOthers DEF InitHit
    <3>3. CASE \E b \in Revals : InitHitStaleWhileRevalidate(r, b)
      BY <3>3 DEF InitHitStaleWhileRevalidate, TypeOK, CacheTypeOK
    <3> QED BY <1>1, <3>1, <3>2, <3>3, EntryOfOthers
            DEF HandleInitialState, InitBypass, InitWait, InitMiss, InitUnreadable, InitStale, InitRevalidateWait
  <2>4. \A k \in Keys : origin[k] <= origin'[k]
    BY <2>1 DEF TypeOK, Version
  <2> QED BY <2>1, <2>2, <2>3, <2>4 DEF VersionsMove
<1>2. ASSUME NEW r \in Requests,
             \/ HandleReadCacheState(r) \/ SendResumes(r) \/ SendOrphaned(r)
             \/ HandleFailedCacheOnlyState(r) \/ HandleServeSubstitutionState(r) \/ HandleDnsLookupState(r)
             \/ HandleRetrieveCookieState(r) \/ HandleFetchState(r) \/ HandleErrorState(r)
             \/ DnsLookupEnds(r) \/ NotifyRetrievedHttpCookie(r) \/ HandleCompleteState(r)
             \/ NotifyRequestUnblocked(r)
      PROVE  VersionsMove
  <2>1. UNCHANGED lockVars \/ CacheEntryClosed(r) \/ UNCHANGED held
    BY <1>2 DEF HandleReadCacheState, ReadCachePipeFails, ReadCacheSend, ReadCacheTakeBodyFile, SendResumes,
                SendWithoutBlocking, SendComplete, SendError, SendBlocked, SendOrphaned,
                HandleFailedCacheOnlyState, HandleServeSubstitutionState, HandleDnsLookupState,
                HandleRetrieveCookieState, HandleFetchState, HandleErrorState, DnsLookupEnds,
                NotifyRetrievedHttpCookie, HandleCompleteState, CompleteFails, CompleteWithoutFlush,
                NotifyRequestUnblocked
  <2>2. \A q \in Requests : held'[q] = "writer" => held[q] = "writer"
    BY <2>1, EntryOfOthers
  <2>3. UNCHANGED <<ver, origin>>
    BY <1>2 DEF HandleReadCacheState, ReadCachePipeFails, ReadCacheSend, ReadCacheTakeBodyFile, SendResumes,
                SendOrphaned, HandleFailedCacheOnlyState, HandleServeSubstitutionState, HandleDnsLookupState,
                HandleRetrieveCookieState, HandleFetchState, HandleErrorState, DnsLookupEnds,
                NotifyRetrievedHttpCookie, HandleCompleteState, CompleteFails, CompleteWithoutFlush,
                NotifyRequestUnblocked
  <2> QED BY <2>2, <2>3, QuietVersions
<1>3. ASSUME NEW r \in Requests, OnDataShielded(r) \/ OnDataPipeFails(r) PROVE VersionsMove
  <2>1. \A q \in Requests : held'[q] = "writer" => held[q] = "writer"
    BY <1>3, EntryOfOthers DEF OnDataShielded, OnDataPipeFails
  <2> QED BY <1>3, <2>1, QuietVersions DEF OnDataShielded, OnDataPipeFails
<1>4. ASSUME NEW r \in Requests, NEW accepted \in BOOLEAN, NEW tracker \in BOOLEAN, NEW broken \in BOOLEAN,
             NEW diskOK \in BOOLEAN, NEW n \in 0 .. (got[r] + 1),
             OnDataReceived(r, accepted, tracker, n, broken, diskOK)
      PROVE  VersionsMove
  <2> DEFINE reval   == IsRevalidationRequest(r)
             deleted == ~reval /\ marked[r]
             writer0 == reval \/ held[r] = "writer"
             writer1 == writer0 /\ (sentHeaders[r] \/ (accepted /\ ~deleted))
             writer2 == writer1 /\ (n > 0 => diskOK /\ ~deleted)
             e       == IF writer2 THEN "writer" ELSE IF writer0 THEN "none" ELSE held[r]
             closes  == reval \/ (writer0 /\ ~writer2)
  <2>1. SetEntry(r, e, closes) /\ (e = "writer" => reval \/ held[r] = "writer")
    BY <1>4 DEF OnDataReceived
  <2> HIDE DEF e, closes
  <2>2. held' = [held EXCEPT ![r] = e] /\ held'[r] = e
    BY <2>1, EntryOfOthers
  <2>3. reval => file'[Key[r]] = Absent
    <3>1. Key[r] \in Keys
      BY StoresTyped
    <3> QED BY <1>4, <3>1 DEF OnDataReceived, RemoveEntry, Without
  <2>4. UNCHANGED origin /\ ver' = [ver EXCEPT ![r] = Answer(r)]
    BY <1>4 DEF OnDataReceived
  <2>5. \A q \in Requests : held'[q] = "writer" => held[q] = "writer" \/ file'[Key[q]] = Absent
    BY <2>1, <2>2, <2>3 DEF TypeOK, CacheTypeOK
  <2>6. \A q \in Requests : ver'[q] = ver[q] \/ (ver[q] = 0 /\ ver'[q] = origin[Key[q]])
    BY <2>4 DEF Answer, TypeOK
  <2>7. \A k \in Keys : origin[k] <= origin'[k]
    BY <2>4 DEF TypeOK, Version
  <2> QED BY <2>5, <2>6, <2>7 DEF VersionsMove
<1>5. ASSUME NEW r \in Requests, NotifyFetchComplete(r) \/ WriterNotifier(r) PROVE VersionsMove
  <2>1. UNCHANGED held \/ UNCHANGED lockVars \/ CacheEntryClosed(r)
    BY <1>5 DEF NotifyFetchComplete, FetchRetried, FetchNotModified, FetchPipeFails, FetchComplete,
                WriterNotifier, WriteQueuedBytes
  <2>2. \A q \in Requests : held'[q] = "writer" => held[q] = "writer"
    BY <2>1, EntryOfOthers
  <2>3. UNCHANGED origin /\ \E v \in {ver[r], Answer(r)} : ver' = [ver EXCEPT ![r] = v]
    BY <1>5 DEF NotifyFetchComplete, FetchRetried, FetchNotModified, FetchPipeFails, FetchComplete,
                WriterNotifier, WriteQueuedBytes, TypeOK
  <2>4. \A q \in Requests : ver'[q] = ver[q] \/ (ver[q] = 0 /\ ver'[q] = origin[Key[q]])
    BY <2>3 DEF Answer, TypeOK
  <2>5. \A k \in Keys : origin[k] <= origin'[k]
    BY <2>3 DEF TypeOK, Version
  <2> QED BY <2>2, <2>4, <2>5 DEF VersionsMove
<1>6. ASSUME NEW S \in SUBSET Requests, DestroyRequests(S) PROVE VersionsMove
  BY <1>6, QuietVersions DEF DestroyRequests
<1>7. ASSUME NEW r \in Requests, RequestRemoved(r) \/ StopRequest(r) PROVE VersionsMove
  BY <1>6, <1>7 DEF RequestRemoved, StopRequest
<1>8. ASSUME NEW c \in Clients, ClientDisconnects(c) PROVE VersionsMove
  BY <1>6, <1>8 DEF ClientDisconnects, TypeOK, CacheTypeOK
<1>9. ASSUME NEW r \in Fetches, NEW m \in Modes, StartRequest(r, m) PROVE VersionsMove
  BY <1>9, QuietVersions DEF StartRequest
<1>10. ASSUME NEW ks \in SUBSET RowKeys, RemoveEntriesAccessedSince(ks) PROVE VersionsMove
  BY <1>10, QuietVersions DEF RemoveEntriesAccessedSince
<1>11. ASSUME NEW k \in Keys, OriginChanges(k) PROVE VersionsMove
  BY <1>11 DEF OriginChanges, VersionsMove, TypeOK, Version
<1>12. CASE UNCHANGED vars
  BY <1>12, QuietVersions DEF vars
<1> QED
  BY <1>1, <1>2, <1>3, <1>4, <1>5, <1>7, <1>8, <1>9, <1>10, <1>11, <1>12
     DEF Next, Process, Answered, OnData

LEMMA VersionStep ==
    TypeOK /\ TypeOK' /\ LockInv /\ TransferInv /\ VersionInv /\ [Next]_vars
        => VersionInv' /\ \A k \in Keys : NoOlder(k)
<1> SUFFICES ASSUME TypeOK, TypeOK', LockInv, TransferInv, VersionInv, [Next]_vars
             PROVE  VersionInv' /\ \A k \in Keys : NoOlder(k)
  OBVIOUS
<1>1. CASE ~Crash /\ ~ \E r \in Requests : CompleteWithFlush(r)
  BY <1>1, StoresStep, VersionsStep, ShrinkingVersions DEF VersionsMove
<1>2. ASSUME NEW r \in Requests, CompleteWithFlush(r) PROVE VersionInv' /\ \A k \in Keys : NoOlder(k)
  <2>1. held[r] = "writer" /\ Flush(r) /\ CacheEntryClosed(r) /\ UNCHANGED <<ver, origin>>
    BY <1>2 DEF CompleteWithFlush, Flush
  <2>2. held'[r] = "none" /\ \A q \in Requests : held'[q] = "writer" => held[q] = "writer"
    BY <2>1, EntryOfOthers
  <2>3. /\ \A k \in Keys : k # Key[r] => file'[k] \in {file[k], Absent}
        /\ file'[Key[r]] \in {file[Key[r]], Absent, Written(r)}
    BY <2>1, FlushStep DEF Shrinks
  <2> QED BY <2>1, <2>2, <2>3, WritingVersions
<1>3. CASE Crash
  <2>1. UNCHANGED <<ver, origin, row>> /\ \A q \in Requests : held'[q] = "none"
    BY <1>3 DEF Crash
  <2>2. CASE file' = file
    <3>1. StoresShrink
      BY <2>1, <2>2 DEF StoresShrink, Shrinks
    <3>2. VersionsMove
      BY <2>1, QuietVersions
    <3> QED BY <3>1, <3>2, ShrinkingVersions DEF VersionsMove
  <2>3. ASSUME NEW r \in Requests, held[r] = "writer", file' = [file EXCEPT ![Key[r]] = Written(r)]
        PROVE  VersionInv' /\ \A k \in Keys : NoOlder(k)
    <3>1. /\ \A k \in Keys : k # Key[r] => file'[k] \in {file[k], Absent}
          /\ file'[Key[r]] \in {file[Key[r]], Absent, Written(r)}
      BY <2>3, StoresTyped DEF TypeOK, CacheTypeOK
    <3> QED BY <2>1, <2>3, <3>1, WritingVersions
  <2> QED BY <1>3, <2>2, <2>3 DEF Crash
<1> QED BY <1>1, <1>2, <1>3

LEMMA InitVersionInv == Init => VersionInv
<1> SUFFICES ASSUME Init PROVE VersionInv
  OBVIOUS
<1>1. ASSUME NEW k \in Keys PROVE file[k].ver <= origin[k]
  BY DEF Init, CacheInit, Absent
<1>2. ASSUME NEW r \in Requests PROVE ver[r] = 0 /\ ver[r] <= origin[Key[r]]
  BY DiskCacheAssumption DEF Init
<1> QED BY <1>1, <1>2 DEF VersionInv

\* Whatever the requests, keys, clients and faults, a crash between the rename
\* and the row included: no step replaces a stored response by an older one.
THEOREM StoreNeverRegresses == Spec => NoRegression
<1>1. TypeOK /\ TypeOK' /\ LockInv /\ TransferInv /\ VersionInv /\ [Next]_vars
        => [\A k \in Keys : file'[k].ver # 0 => file'[k].ver >= file[k].ver]_vars
  BY VersionStep DEF NoOlder
<1>2. Spec => []VersionInv
  BY InitVersionInv, VersionStep, RequestsInvariant, PTL DEF Spec
<1> QED BY <1>1, <1>2, RequestsInvariant, PTL DEF Spec, NoRegression

(***************************************************************************)
(* Deletion.                                                               *)
(***************************************************************************)

\* A writer whose entry was deleted stores nothing when it lets go, and nobody
\* else touches the entry in that step.
DeletedStays(r) ==
    held[r] = "writer" /\ marked[r] /\ held'[r] = "none"
        => row'[Key[r]] = row[Key[r]] /\ file'[Key[r]] = file[Key[r]]

LEMMA DeletionStep ==
    ASSUME TypeOK, LockInv, TransferInv, [Next]_vars, NEW r \in Requests
    PROVE  DeletedStays(r)
<1> SUFFICES ASSUME held[r] = "writer", marked[r], held'[r] = "none"
             PROVE  row'[Key[r]] = row[Key[r]] /\ file'[Key[r]] = file[Key[r]]
  BY DEF DeletedStays
<1> DEFINE Kept == row'[Key[r]] = row[Key[r]] /\ file'[Key[r]] = file[Key[r]]
<1>0. ~IsRevalidationRequest(r) /\ held[r] \notin Reader /\ TransferOK(r)
  BY DiskCacheAssumption DEF IsRevalidationRequest, Reader, TransferInv
<1> USE DEF lockVars, cacheVars, storeVars
<1>1. ASSUME UNCHANGED storeVars PROVE Kept
  BY <1>1
<1>2. ASSUME UNCHANGED held PROVE FALSE
  BY <1>2
<1>3. ASSUME NEW q \in Requests, UNCHANGED held \/ UNCHANGED lockVars \/ CacheEntryClosed(q) \/ WaitForKey(q)
      PROVE  q = r
  BY <1>3, EntryOfOthers
<1>4. ASSUME NEW q \in Requests, HandleInitialState(q) PROVE FALSE
  <2>1. state[q] = "Init" /\ held[q] = "none"
    BY <1>4 DEF HandleInitialState, InitBypass, InitWait, InitMiss, InitUnreadable, InitStale,
                InitRevalidateWait, InitHit, InitHitStaleWhileRevalidate, LookupGives, Lookup, AtInit,
                Handling, TransferInv, TransferOK, QuietBefore, Searching
  <2>2. held'[r] = held[r]
    <3>1. CASE AfterMiss(q)
      BY <2>1, <3>1, EntryOfOthers DEF AfterMiss
    <3>2. CASE InitHit(q)
      BY <2>1, <3>2, EntryOfOthers DEF InitHit
    <3>3. CASE \E b \in Revals : InitHitStaleWhileRevalidate(q, b)
      BY <2>1, <3>3 DEF InitHitStaleWhileRevalidate, TypeOK, CacheTypeOK
    <3> QED BY <1>4, <3>1, <3>2, <3>3, EntryOfOthers
            DEF HandleInitialState, InitBypass, InitWait, InitMiss, InitUnreadable, InitStale, InitRevalidateWait
  <2> QED BY <2>2
<1>5. ASSUME NEW q \in Requests, HandleReadCacheState(q) \/ SendResumes(q) \/ SendOrphaned(q) PROVE FALSE
  <2>1. UNCHANGED held \/ UNCHANGED lockVars \/ CacheEntryClosed(q)
    BY <1>5 DEF HandleReadCacheState, ReadCachePipeFails, ReadCacheSend, ReadCacheTakeBodyFile, SendResumes,
                SendWithoutBlocking, SendComplete, SendError, SendBlocked, SendOrphaned
  <2>2. state[q] = "ReadCache"
    BY <1>5 DEF HandleReadCacheState, ReadCachePipeFails, ReadCacheSend, ReadCacheTakeBodyFile, SendResumes,
                SendOrphaned, Handling, Event
  <2> QED BY <1>0, <1>3, <2>1, <2>2 DEF TransferOK, QuietBefore
<1>6. ASSUME NEW q \in Requests, OnDataShielded(q) \/ OnDataPipeFails(q) PROVE Kept
  BY <1>0, <1>1, <1>3, <1>6 DEF OnDataShielded, OnDataPipeFails
<1>7. ASSUME NEW q \in Requests, NEW accepted \in BOOLEAN, NEW tracker \in BOOLEAN, NEW broken \in BOOLEAN,
             NEW diskOK \in BOOLEAN, NEW n \in 0 .. (got[q] + 1),
             OnDataReceived(q, accepted, tracker, n, broken, diskOK)
      PROVE  Kept
  <2>1. \E e, c : SetEntry(q, e, c)
    BY <1>7 DEF OnDataReceived
  <2>2. q = r
    BY <2>1, EntryOfOthers DEF TypeOK, CacheTypeOK
  <2> QED BY <1>0, <1>1, <1>7, <2>2 DEF OnDataReceived
<1>8. ASSUME NEW q \in Requests, NotifyFetchComplete(q) PROVE Kept
  <2>1. UNCHANGED held \/ UNCHANGED lockVars \/ CacheEntryClosed(q)
    BY <1>8 DEF NotifyFetchComplete, FetchRetried, FetchNotModified, FetchPipeFails, FetchComplete
  <2>2. q = r
    BY <1>3, <2>1
  <2> QED BY <1>0, <1>1, <1>2, <1>8, <2>2
          DEF NotifyFetchComplete, FetchRetried, FetchNotModified, FetchPipeFails, FetchComplete
<1>9. ASSUME NEW q \in Requests, CompleteWithFlush(q) PROVE Kept
  <2>1. CacheEntryClosed(q) /\ Flush(q)
    BY <1>9 DEF CompleteWithFlush, Flush
  <2>2. q = r
    BY <1>3, <2>1
  <2> QED BY <2>1, <2>2 DEF Flush, FlushFails
<1>10. CASE Crash
  <2>1. CASE file' = file
    BY <1>10, <2>1 DEF Crash
  <2>2. ASSUME NEW q \in Requests, held[q] = "writer", ~marked[q], file' = [file EXCEPT ![Key[q]] = Written(q)]
        PROVE  Kept
    <3>1. Key[q] # Key[r]
      BY <2>2 DEF LockInv, ExclusiveEntry, Exclusive
    <3>2. Key[q] \in Keys /\ Key[r] \in Keys
      BY StoresTyped
    <3> QED BY <1>10, <2>2, <3>1, <3>2 DEF Crash, TypeOK, CacheTypeOK
  <2> QED BY <1>10, <2>1, <2>2 DEF Crash
<1>11. CASE \/ \E q \in Requests :
                 \/ WriterNotifier(q) \/ CompleteFails(q) \/ CompleteWithoutFlush(q) \/ HandleErrorState(q)
                 \/ HandleFailedCacheOnlyState(q) \/ HandleServeSubstitutionState(q) \/ HandleDnsLookupState(q)
                 \/ HandleRetrieveCookieState(q) \/ HandleFetchState(q) \/ DnsLookupEnds(q)
                 \/ NotifyRetrievedHttpCookie(q) \/ NotifyRequestUnblocked(q)
                 \/ RequestRemoved(q) \/ StopRequest(q)
            \/ \E c \in Clients : ClientDisconnects(c)
            \/ \E q \in Fetches, m \in Modes : StartRequest(q, m)
            \/ \E k \in Keys : OriginChanges(k)
            \/ UNCHANGED vars
  <2>1. UNCHANGED storeVars
    BY <1>11 DEF WriterNotifier, WriteQueuedBytes, CompleteFails, CompleteWithoutFlush, HandleErrorState,
                 HandleFailedCacheOnlyState, HandleServeSubstitutionState, HandleDnsLookupState,
                 HandleRetrieveCookieState, HandleFetchState, DnsLookupEnds, NotifyRetrievedHttpCookie,
                 NotifyRequestUnblocked, RequestRemoved, StopRequest, DestroyRequests, ClientDisconnects,
                 StartRequest, OriginChanges, vars
  <2> QED BY <1>1, <2>1
<1>12. ASSUME NEW ks \in SUBSET RowKeys, RemoveEntriesAccessedSince(ks) PROVE FALSE
  BY <1>2, <1>12 DEF RemoveEntriesAccessedSince
<1> HIDE DEF lockVars, cacheVars, storeVars
<1>13. ASSUME NEW q \in Requests, Process(q) PROVE Kept
  BY <1>4, <1>5, <1>9, <1>11, <1>13 DEF Process, HandleCompleteState
<1>14. ASSUME NEW q \in Requests, OnData(q) PROVE Kept
  BY <1>6, <1>7, <1>14 DEF OnData
<1>15. ASSUME NEW q \in Requests, Answered(q) PROVE Kept
  BY <1>5, <1>8, <1>11, <1>14, <1>15 DEF Answered
<1>16. Kept
  BY <1>5, <1>10, <1>11, <1>12, <1>13, <1>15 DEF Next
<1> QED BY <1>16

\* Whatever the requests, keys, clients and faults: an entry that was deleted
\* while it was being written is not stored, neither by its writer nor in the
\* step in which the writer lets go.
THEOREM DeletedEntriesStayDeleted == Spec => DeletionIsFinal
<1>1. TypeOK /\ LockInv /\ TransferInv /\ [Next]_vars => [\A r \in Requests : DeletedStays(r)]_vars
  BY DeletionStep
<1>2. (\A r \in Requests : DeletedStays(r))
        <=> \A r \in Requests : held[r] = "writer" /\ marked[r] /\ held'[r] = "none"
              => row'[Key[r]] = row[Key[r]] /\ file'[Key[r]] = file[Key[r]]
  BY DEF DeletedStays
<1> QED BY <1>1, <1>2, RequestsInvariant, PTL DEF Spec, DeletionIsFinal

(***************************************************************************)
(* What is served.                                                         *)
(***************************************************************************)

\* As long as a flush never stops between the file and the row, a row and the
\* file beside it are of one version, and so is all that is opened and served.
StoresAgree == \A k \in RowKeys : file[k] = Absent \/ file[k].ver = row[k].ver
SnapsAgree == \A r \in Requests : snap[r].row.ver = snap[r].file.ver
ServingInv == StoresAgree /\ SnapsAgree /\ ServedIntact

\* A snapshot is taken of a row and a file that are both there; what is served
\* is a snapshot.
SnapMoves ==
    \/ UNCHANGED snap
    \/ \E r \in Requests :
          /\ row[Key[r]] # Absent /\ file[Key[r]] # Absent
          /\ snap' = [snap EXCEPT ![r] = [row |-> row[Key[r]], file |-> file[Key[r]]]]

ServedMoves == UNCHANGED served \/ \E r \in Requests : served' = [served EXCEPT ![r] = snap[r]]

LEMMA SnapStep ==
    ASSUME TypeOK, [Next]_vars
    PROVE  SnapMoves /\ ServedMoves
<1> USE DEF SnapMoves, ServedMoves, cacheVars, endVars
<1>1. ASSUME NEW r \in Requests, HandleInitialState(r) PROVE SnapMoves /\ ServedMoves
  <2>1. UNCHANGED served
    BY <1>1 DEF HandleInitialState, InitBypass, InitWait, InitMiss, InitUnreadable, InitStale,
                InitRevalidateWait, InitHit, InitHitStaleWhileRevalidate, OpenReader
  <2>2. CASE InitHit(r) \/ \E b \in Revals : InitHitStaleWhileRevalidate(r, b)
    <3>1. OpenReader(r) /\ \E result : LookupGives(r, result)
      BY <2>2 DEF InitHit, InitHitStaleWhileRevalidate
    <3>2. row[Key[r]] # Absent /\ file[Key[r]] # Absent
      BY <3>1 DEF LookupGives, Lookup
    <3> QED BY <2>1, <3>1, <3>2 DEF OpenReader
  <2>3. CASE \/ InitBypass(r) \/ InitWait(r) \/ InitMiss(r) \/ InitUnreadable(r) \/ InitStale(r)
             \/ InitRevalidateWait(r)
    BY <2>1, <2>3 DEF InitBypass, InitWait, InitMiss, InitUnreadable, InitStale, InitRevalidateWait
  <2> QED BY <1>1, <2>2, <2>3 DEF HandleInitialState
<1>2. ASSUME NEW r \in Requests, HandleReadCacheState(r) \/ SendResumes(r) \/ SendOrphaned(r)
      PROVE  SnapMoves /\ ServedMoves
  BY <1>2 DEF HandleReadCacheState, ReadCachePipeFails, ReadCacheSend, ReadCacheTakeBodyFile, SendResumes,
              SendWithoutBlocking, SendComplete, SendError, SendBlocked, SendOrphaned
<1>3. ASSUME NEW r \in Requests, OnData(r) PROVE SnapMoves /\ ServedMoves
  BY <1>3 DEF OnData, OnDataShielded, OnDataPipeFails, OnDataReceived
<1>4. ASSUME NEW r \in Requests, NotifyFetchComplete(r) \/ WriterNotifier(r) PROVE SnapMoves /\ ServedMoves
  BY <1>4 DEF NotifyFetchComplete, FetchRetried, FetchNotModified, FetchPipeFails, FetchComplete,
              WriterNotifier, WriteQueuedBytes
<1>5. ASSUME NEW r \in Requests,
             \/ HandleFailedCacheOnlyState(r) \/ HandleServeSubstitutionState(r) \/ HandleDnsLookupState(r)
             \/ HandleRetrieveCookieState(r) \/ HandleFetchState(r) \/ HandleErrorState(r)
             \/ DnsLookupEnds(r) \/ NotifyRetrievedHttpCookie(r) \/ HandleCompleteState(r)
             \/ NotifyRequestUnblocked(r) \/ RequestRemoved(r) \/ StopRequest(r)
      PROVE  SnapMoves /\ ServedMoves
  BY <1>5 DEF HandleFailedCacheOnlyState, HandleServeSubstitutionState, HandleDnsLookupState,
              HandleRetrieveCookieState, HandleFetchState, HandleErrorState, DnsLookupEnds,
              NotifyRetrievedHttpCookie, HandleCompleteState, CompleteFails, CompleteWithoutFlush,
              CompleteWithFlush, NotifyRequestUnblocked, RequestRemoved, StopRequest, DestroyRequests
<1>6. CASE \/ \E r \in Fetches, m \in Modes : StartRequest(r, m)
           \/ \E c \in Clients : ClientDisconnects(c)
           \/ \E ks \in SUBSET RowKeys : RemoveEntriesAccessedSince(ks)
           \/ \E k \in Keys : OriginChanges(k)
           \/ Crash \/ UNCHANGED vars
  BY <1>6 DEF StartRequest, ClientDisconnects, DestroyRequests, RemoveEntriesAccessedSince, OriginChanges,
              Crash, vars
<1> HIDE DEF SnapMoves, ServedMoves, cacheVars, endVars
<1>7. ASSUME NEW r \in Requests, Process(r) \/ Answered(r) PROVE SnapMoves /\ ServedMoves
  BY <1>1, <1>2, <1>3, <1>4, <1>5, <1>7 DEF Process, Answered
<1> QED BY <1>2, <1>5, <1>6, <1>7 DEF Next

LEMMA ServingStep ==
    ASSUME Faults \cap {"reopen", "crash"} = {}, TypeOK, TypeOK', ServingInv, [Next]_vars
    PROVE  ServingInv'
<1>1. ASSUME NEW k \in Keys, Shrinks(k), row'[k] # Absent
      PROVE  file'[k] = Absent \/ file'[k].ver = row'[k].ver
  BY <1>1 DEF Shrinks, ServingInv, StoresAgree, RowKeys
<1>2. StoresAgree'
  <2> SUFFICES ASSUME NEW k \in Keys, row'[k] # Absent PROVE file'[k] = Absent \/ file'[k].ver = row'[k].ver
    BY DEF StoresAgree, RowKeys
  <2>1. ~Crash
    BY DEF Crash
  <2>2. CASE ~ \E r \in Requests : CompleteWithFlush(r)
    BY <1>1, <2>1, <2>2, StoresStep DEF StoresShrink
  <2>3. ASSUME NEW r \in Requests, CompleteWithFlush(r)
        PROVE  file'[k] = Absent \/ file'[k].ver = row'[k].ver
    <3>1. Flush(r)
      BY <2>3 DEF CompleteWithFlush
    <3>2. Shrinks(k) \/ (row'[k] = Written(r) /\ file'[k] = Written(r))
      BY <3>1, FlushStep
    <3> QED BY <1>1, <3>2
  <2> QED BY <2>2, <2>3
<1>3. SnapsAgree'
  <2>1. \A r \in Requests : row[Key[r]] # Absent /\ file[Key[r]] # Absent
                              => row[Key[r]].ver = file[Key[r]].ver
    BY StoresTyped DEF ServingInv, StoresAgree, RowKeys
  <2>2. CASE UNCHANGED snap
    BY <2>2 DEF ServingInv, SnapsAgree
  <2>3. ASSUME NEW r \in Requests, row[Key[r]] # Absent, file[Key[r]] # Absent,
               snap' = [snap EXCEPT ![r] = [row |-> row[Key[r]], file |-> file[Key[r]]]]
        PROVE  SnapsAgree'
    <3> SUFFICES ASSUME NEW q \in Requests PROVE snap'[q].row.ver = snap'[q].file.ver
      BY DEF SnapsAgree
    <3>1. snap \in [Requests -> Snapshot]
      BY DEF TypeOK, CacheTypeOK
    <3>2. CASE q = r
      BY <2>1, <2>3, <3>1, <3>2
    <3>3. CASE q # r
      BY <2>3, <3>1, <3>3 DEF ServingInv, SnapsAgree
    <3> QED BY <3>2, <3>3
  <2> QED BY <2>2, <2>3, SnapStep DEF SnapMoves
<1>4. ServedIntact'
  BY SnapStep, SMTT(30) DEF ServedMoves, ServingInv, SnapsAgree, ServedIntact, TypeOK
<1> QED BY <1>2, <1>3, <1>4 DEF ServingInv

\* When no flush stops between the rename of the file and the creation of the
\* row (the process does not die there and the new file can be opened), whatever
\* else goes wrong: the headers and the body a client is served from the cache
\* are of one version.  Otherwise a row may describe an older file, and the
\* footer, which holds a length and a hash of the file's own header, need not
\* show it.
THEOREM ServedResponsesAreWhole ==
    ASSUME Faults \cap {"reopen", "crash"} = {}
    PROVE  Spec => []ServedIntact
<1>1. Init => ServingInv
  BY DEF Init, CacheInit, ServingInv, StoresAgree, SnapsAgree, ServedIntact, RowKeys
<1>2. TypeOK /\ TypeOK' /\ ServingInv /\ [Next]_vars => ServingInv'
  BY ServingStep
<1>3. ServingInv => ServedIntact
  BY DEF ServingInv
<1> QED BY <1>1, <1>2, <1>3, TypeCorrect, PTL DEF Spec

(***************************************************************************)
(* What is stored.                                                         *)
(***************************************************************************)

\* A flush of a fetch, where nothing cuts a response short unnoticed, stores the
\* whole body of one version in both stores, or nothing.
LEMMA WholeFlush ==
    ASSUME Faults \cap {"recv", "reopen"} = {}, TypeOK, TransferInv, NEW r \in Fetches, CompleteWithFlush(r)
    PROVE  Written(r) = Absent \/ Written(r).len = Size[Written(r).ver]
<1>1. /\ r \in Requests /\ state[r] = "Complete" /\ held[r] = "writer" /\ EffectiveCode(r) = "OK"
  BY DEF CompleteWithFlush, Handling, Requests
<1>2. curl[r] = "OK" /\ out[r] = got[r]
  BY <1>1 DEF TransferInv, TransferOK, BodyKnown, EffectiveCode
<1>3. ver[r] = 0 => got[r] = 0
  BY <1>1 DEF TransferInv, TransferOK, BodyKnown
<1>4. ver[r] # 0 => got[r] = Size[ver[r]]
  BY <1>1, <1>2 DEF TransferInv, TransferOK, BodyKnown
<1> QED BY <1>2, <1>3, <1>4 DEF Written, Absent

LEMMA RowsStep ==
    ASSUME Revals = {}, Faults \cap {"recv", "reopen", "crash"} = {},
           TypeOK, TransferInv, RowsComplete, [Next]_vars
    PROVE  RowsComplete'
<1> SUFFICES ASSUME NEW k \in Keys, row'[k] # Absent
             PROVE  file'[k] = row'[k] /\ row'[k].len = Size[row'[k].ver]
  BY DEF RowsComplete, RowKeys
<1>1. ASSUME Shrinks(k) PROVE file'[k] = row'[k] /\ row'[k].len = Size[row'[k].ver]
  BY <1>1 DEF Shrinks, RowsComplete, RowKeys
<1>2. CASE ~ \E r \in Requests : CompleteWithFlush(r)
  <2>1. ~Crash
    BY DEF Crash
  <2> QED BY <1>1, <1>2, <2>1, StoresStep DEF StoresShrink
<1>3. ASSUME NEW r \in Requests, CompleteWithFlush(r)
      PROVE  file'[k] = row'[k] /\ row'[k].len = Size[row'[k].ver]
  <2>1. r \in Fetches /\ Flush(r)
    BY <1>3 DEF Requests, CompleteWithFlush
  <2>2. Shrinks(k) \/ (row'[k] = Written(r) /\ file'[k] = Written(r))
    BY <2>1, <1>3, FlushStep
  <2>3. Written(r) = Absent \/ Written(r).len = Size[Written(r).ver]
    BY <1>3, <2>1, WholeFlush
  <2> QED BY <1>1, <2>2, <2>3
<1> QED BY <1>2, <1>3

\* Without background revalidations, which are flushed whatever their result,
\* without receive errors, which pass for the end of a body, and when no flush
\* stops between the file and the row: every row of the index describes the file
\* on disk, and that is the whole body of one version.  Evictions, deletions,
\* unreadable files and all other failures included.
THEOREM RowsDescribeWholeFiles ==
    ASSUME Revals = {}, Faults \cap {"recv", "reopen", "crash"} = {}
    PROVE  Spec => []RowsComplete
<1>1. Init => RowsComplete
  BY DEF Init, CacheInit, RowsComplete, RowKeys
<1>2. TypeOK /\ TransferInv /\ RowsComplete /\ [Next]_vars => RowsComplete'
  BY RowsStep
<1> QED BY <1>1, <1>2, RequestsInvariant, PTL DEF Spec

-----------------------------------------------------------------------------
(***************************************************************************)
(* The table of open cache entries implements the lock of EntryLock: every *)
(* step of RequestServer is a step of the lock, or leaves it alone.        *)
(***************************************************************************)

GrantOf(r) == IF Exclusive(r) THEN "exclusive" ELSE IF held[r] = "none" THEN "free" ELSE "shared"

LEMMA GrantValue ==
    /\ Grant = [r \in Requests |-> GrantOf(r)]
    /\ \A r \in Requests : Grant[r] = GrantOf(r)
    /\ \A r \in Requests : Grant[r] = "free" <=> held[r] = "none"
    /\ \A r \in Requests : Grant[r] = "exclusive" <=> Exclusive(r)
BY DEF Grant, GrantOf, Exclusive, IsRevalidationRequest, Reader

LEMMA GrantValueNext ==
    /\ Grant' = [r \in Requests |-> GrantOf(r)']
    /\ \A r \in Requests : Grant'[r] = GrantOf(r)'
    /\ \A r \in Requests : Grant'[r] = "free" <=> held'[r] = "none"
    /\ \A r \in Requests : Grant'[r] = "exclusive" <=> Exclusive(r)'
BY DEF Grant, GrantOf, Exclusive, IsRevalidationRequest, Reader

Grants == {"free", "shared", "exclusive"}

LEMMA GrantTyped == Grant \in [Requests -> Grants] /\ Grant' \in [Requests -> Grants]
BY DEF Grant, Grants

\* The holders of a key, as the lock and as the table see them.
LEMMA SameHolders == \A k : Lock!Holders(k) = Holders(k)
BY GrantValue DEF Lock!Holders, Holders

\* Whom the end of the entry of r frees.
LEMMA FreedByOne ==
    ASSUME TypeOK, NEW r \in Requests, held[r] # "none"
    PROVE  Lock!Freed({r}) = IF Holders(Key[r]) \subseteq {r} THEN Waiters(Key[r]) ELSE {}
<1>1. r \in Holders(Key[r]) /\ \A q \in Requests : q \in Holders(Key[r]) => Key[q] = Key[r]
  BY DEF Holders
<1>2. ASSUME NEW q \in waiting
      PROVE  Holders(Key[q]) # {} /\ Holders(Key[q]) \subseteq {r}
                <=> Key[q] = Key[r] /\ Holders(Key[r]) \subseteq {r}
  BY <1>1, <1>2 DEF Holders
<1> QED BY <1>2, SameHolders DEF Lock!Freed, Waiters

\* The grants of the others do not change when only the entry of r does.
LEMMA GrantOfOthers ==
    ASSUME TypeOK, NEW r \in Requests, live' = live, NEW e, held' = [held EXCEPT ![r] = e]
    PROVE  /\ \A q \in Requests : q # r => Grant'[q] = Grant[q]
           /\ \A g : GrantOf(r)' = g => Grant' = [Grant EXCEPT ![r] = g]
<1>1. ASSUME NEW q \in Requests, q # r PROVE GrantOf(q)' = GrantOf(q)
  BY <1>1 DEF GrantOf, Exclusive, IsRevalidationRequest, TypeOK, CacheTypeOK
<1>2. \A q \in Requests : q # r => Grant'[q] = Grant[q]
  BY <1>1, GrantValue, GrantValueNext
<1>3. Grant \in [Requests -> Grants] /\ Grant' \in [Requests -> Grants] /\ Grant'[r] = GrantOf(r)'
  BY GrantTyped, GrantValueNext
<1>4. ASSUME NEW g, Grant'[r] = g PROVE Grant' = [Grant EXCEPT ![r] = g]
  BY <1>2, <1>3, <1>4
<1> QED BY <1>2, <1>3, <1>4

(***************************************************************************)
(* What each operation on the table is to the lock.                        *)
(***************************************************************************)

StepOfLock == Lock!Next \/ UNCHANGED Lock!vars

\* The lock does not see a step that leaves the table and the lists alone.
LEMMA LockIdle ==
    ASSUME UNCHANGED lockVars, live' = live
    PROVE  StepOfLock
<1>1. Grant' = Grant
  BY DEF Grant, Exclusive, IsRevalidationRequest, lockVars
<1> QED BY <1>1 DEF StepOfLock, Lock!vars, lockVars

\* The entry of r is closed: r lets go of the lock.
LEMMA LockLetGo ==
    ASSUME TypeOK, NEW r \in Requests, live' = live, held[r] # "none", SetEntry(r, "none", TRUE)
    PROVE  StepOfLock
<1>1. held' = [held EXCEPT ![r] = "none"] /\ held'[r] = "none"
  BY EntryOfOthers
<1>2. GrantOf(r)' = "free"
  BY <1>1 DEF GrantOf, Exclusive, IsRevalidationRequest, Reader
<1>3. Grant' = [Grant EXCEPT ![r] = "free"] /\ Grant \in [Requests -> Grants] /\ Grant[r] # "free"
  BY <1>1, <1>2, GrantOfOthers, GrantTyped, GrantValue, ZenonT(30)
<1>4. waiting' = waiting \ Lock!Freed({r}) /\ wake' = wake \cup Lock!Freed({r})
  BY FreedByOne DEF SetEntry
<1>5. Lock!Release({r}, {})
  BY <1>3, <1>4 DEF Lock!Release
<1> QED BY <1>5 DEF StepOfLock, Lock!Next

LEMMA LockClosed ==
    ASSUME TypeOK, NEW r \in Requests, live' = live, CacheEntryClosed(r)
    PROVE  StepOfLock
<1>1. CASE held[r] # "none"
  <2>1. SetEntry(r, "none", TRUE)
    BY <1>1 DEF CacheEntryClosed, SetEntry
  <2> QED BY <1>1, <2>1, LockLetGo
<1>2. CASE held[r] = "none"
  <2>1. UNCHANGED lockVars
    BY <1>2 DEF CacheEntryClosed, SetEntry, lockVars, TypeOK, CacheTypeOK
  <2> QED BY <2>1, LockIdle
<1> QED BY <1>1, <1>2

\* r opens an entry: it gets the lock.
LEMMA LockOpened ==
    ASSUME TypeOK, NEW r \in Requests, live' = live, held[r] = "none", NEW e, OpenAs(r, e),
           NEW m \in {"shared", "exclusive"}, GrantOf(r)' = m,
           \A q \in Holders(Key[r]) : m = "shared" /\ ~Exclusive(q)
    PROVE  StepOfLock
<1>1. held' = [held EXCEPT ![r] = e]
  BY EntryOfOthers DEF OpenAs
<1>2. Grant' = [Grant EXCEPT ![r] = m] /\ Grant[r] = "free"
  BY <1>1, GrantOfOthers, GrantValue
<1>3. \A q \in Lock!Holders(Key[r]) : m = "shared" /\ Grant[q] = "shared"
  BY SameHolders, GrantValue DEF Holders, GrantOf
<1>4. waiting' = waiting /\ wake' = wake
  BY DEF OpenAs, SetEntry
<1>5. Lock!Acquire(r, m, {})
  BY <1>2, <1>3, <1>4 DEF Lock!Acquire
<1> QED BY <1>5 DEF StepOfLock, Lock!Next

\* r finds the key locked: it queues.
LEMMA LockQueued ==
    ASSUME TypeOK, NEW r \in Requests, live' = live, held[r] = "none", WaitForKey(r), Holders(Key[r]) # {}
    PROVE  StepOfLock
<1>1. Grant' = Grant /\ Grant[r] = "free"
  BY GrantValue DEF WaitForKey, Grant, Exclusive, IsRevalidationRequest
<1>2. Lock!Enqueue(r)
  BY <1>1, SameHolders DEF Lock!Enqueue, WaitForKey
<1> QED BY <1>2 DEF StepOfLock, Lock!Next

(***************************************************************************)
(* Each action is a step of the lock, or leaves it alone.                  *)
(***************************************************************************)

\* What check_if_cache_has_open_entry says of the holders.
LEMMA OpenEntryHolders ==
    ASSUME NEW r \in Requests
    PROVE  /\ HasOpenEntry(r, TRUE) <=> Holders(Key[r]) # {}
           /\ ~HasOpenEntry(r, FALSE) => \A q \in Holders(Key[r]) : ~Exclusive(q)
           /\ \A flag : HasOpenEntry(r, flag) => Holders(Key[r]) # {}
BY DEF HasOpenEntry, Exclusive

LEMMA WriterLocks ==
    ASSUME TypeOK, NEW r \in Requests, live' = live, held[r] = "none",
           ~HasOpenEntry(r, TRUE), OpenAs(r, "writer")
    PROVE  StepOfLock
<1>1. GrantOf(r)' = "exclusive"
  BY EntryOfOthers DEF GrantOf, Exclusive
<1> QED BY <1>1, OpenEntryHolders, LockOpened

LEMMA ReaderLocks ==
    ASSUME TypeOK, NEW r \in live, live' = live, r \in Requests, held[r] = "none",
           NEW e \in {"reader", "must"}, OpenAs(r, e), LookupGives(r, e)
    PROVE  StepOfLock
<1>1. held'[r] = e
  BY EntryOfOthers
<1>2. CASE ~HasOpenEntry(r, TRUE)
  <2>1. GrantOf(r)' \in {"shared", "exclusive"}
    BY <1>1 DEF GrantOf
  <2> QED BY <1>2, <2>1, OpenEntryHolders, LockOpened
<1>3. CASE HasOpenEntry(r, TRUE)
  <2>1. e = "reader" /\ r \in Fetches /\ r \notin Revals /\ ~HasOpenEntry(r, FALSE)
    BY <1>3, LookupLocks, DiskCacheAssumption
  <2>2. GrantOf(r)' = "shared"
    BY <1>1, <2>1 DEF GrantOf, Exclusive, IsRevalidationRequest, Reader
  <2> QED BY <2>1, <2>2, OpenEntryHolders, LockOpened
<1> QED BY <1>2, <1>3

\* The background request queues behind the reader it was created for.
LEMMA StaleWhileRevalidateLocks ==
    ASSUME TypeOK, LockInv, NEW r \in Requests, NEW b \in Revals, held[r] = "none",
           InitHitStaleWhileRevalidate(r, b)
    PROVE  StepOfLock
<1>1. r \in Fetches /\ b \in Requests /\ r # b /\ ~HasOpenEntry(r, FALSE) /\ Key[b] = Key[r] /\ r \notin Revals
  BY LookupLocks, DiskCacheAssumption DEF Requests, InitHitStaleWhileRevalidate
<1>2. held[b] = "none" /\ held' = [held EXCEPT ![r] = "swr"] /\ live' = live \cup {b} /\ held'[r] = "swr"
  BY <1>1 DEF InitHitStaleWhileRevalidate, LockInv, UnusedHoldsNothing, TypeOK, CacheTypeOK
<1>3. GrantOf(r)' = "shared"
  BY <1>1, <1>2 DEF GrantOf, Exclusive, IsRevalidationRequest, Reader
<1>4. ASSUME NEW q \in Requests, q # r PROVE GrantOf(q)' = GrantOf(q)
  <2>1. held'[q] = held[q]
    BY <1>2, <1>4 DEF TypeOK, CacheTypeOK
  <2>2. CASE q # b
    BY <1>2, <2>1, <2>2 DEF GrantOf, Exclusive, IsRevalidationRequest
  <2>3. CASE q = b
    BY <1>2, <2>1, <2>3 DEF GrantOf, Exclusive, IsRevalidationRequest, Reader
  <2> QED BY <2>2, <2>3
<1>5. Grant' = [Grant EXCEPT ![r] = "shared"]
  <2>1. \A q \in Requests : Grant'[q] = IF q = r THEN "shared" ELSE Grant[q]
    BY <1>3, <1>4, GrantValue, GrantValueNext
  <2> QED BY <2>1, GrantTyped
<1>6. Grant[r] = "free" /\ Grant[b] = "free"
  BY <1>1, <1>2, GrantValue
<1>7. \A q \in Lock!Holders(Key[r]) : Grant[q] = "shared"
  BY <1>1, OpenEntryHolders, SameHolders, GrantValue DEF Holders, GrantOf
<1>8. Lock!Acquire(r, "shared", {b})
  BY <1>1, <1>5, <1>6, <1>7 DEF Lock!Acquire, InitHitStaleWhileRevalidate
<1> QED BY <1>1, <1>8 DEF StepOfLock, Lock!Next

LEMMA InitialStateLocks ==
    ASSUME TypeOK, LockInv, TransferInv, NEW r \in Requests, HandleInitialState(r)
    PROVE  StepOfLock
<1>1. Handling(r, "Init")
  BY DEF HandleInitialState, InitBypass, InitWait, InitMiss, InitUnreadable, InitStale, InitRevalidateWait,
         InitHit, InitHitStaleWhileRevalidate, LookupGives, Lookup, AtInit
<1>2. r \in live /\ held[r] = "none"
  BY <1>1 DEF Handling, LockInv, RunningLives, TransferInv, TransferOK, QuietBefore, Searching
<1>3. ASSUME AfterMiss(r), live' = live PROVE StepOfLock
  <2>1. CASE UNCHANGED lockVars
    BY <1>3, <2>1, LockIdle
  <2>2. CASE WaitForKey(r) /\ HasOpenEntry(r, TRUE)
    BY <1>2, <1>3, <2>2, OpenEntryHolders, LockQueued
  <2>3. CASE OpenAs(r, "writer") /\ ~HasOpenEntry(r, TRUE)
    BY <1>2, <1>3, <2>3, WriterLocks
  <2> QED BY <1>3, <2>1, <2>2, <2>3 DEF AfterMiss
<1>4. CASE InitBypass(r)
  BY <1>4, LockIdle DEF InitBypass, cacheVars, lockVars
<1>5. CASE InitWait(r)
  BY <1>2, <1>5, OpenEntryHolders, LockQueued DEF InitWait
<1>6. CASE InitMiss(r) \/ InitUnreadable(r) \/ InitStale(r)
  BY <1>3, <1>6 DEF InitMiss, InitUnreadable, InitStale
<1>7. CASE InitRevalidateWait(r)
  BY <1>2, <1>7, OpenEntryHolders, LookupLocks, LockQueued DEF InitRevalidateWait
<1>8. CASE InitHit(r)
  BY <1>2, <1>8, ReaderLocks DEF InitHit
<1> QED BY <1>2, <1>4, <1>5, <1>6, <1>7, <1>8, StaleWhileRevalidateLocks DEF HandleInitialState

\* Data for a revalidation: its reader is closed and its writer opened at once.
LEMMA LockRenewed ==
    ASSUME TypeOK, LockInv, NEW r \in Requests, live' = live, IsRevalidationRequest(r),
           SetEntry(r, "writer", TRUE)
    PROVE  StepOfLock
<1>1. held' = [held EXCEPT ![r] = "writer"] /\ held'[r] = "writer"
  BY EntryOfOthers
<1>2. GrantOf(r)' = "exclusive"
  BY <1>1 DEF GrantOf, Exclusive
<1>3. Grant' = [Grant EXCEPT ![r] = "exclusive"]
  BY <1>1, <1>2, GrantOfOthers
<1>4. held[r] # "none" /\ Holders(Key[r]) = {r}
  BY DEF LockInv, ExclusiveEntry, Exclusive, Holders, IsRevalidationRequest, Reader
<1>5. waiting' = waiting \ Lock!Freed({r}) /\ wake' = wake \cup Lock!Freed({r})
  BY <1>4, FreedByOne DEF SetEntry
<1>6. Lock!Renew(r)
  BY <1>3, <1>4, <1>5, SameHolders DEF Lock!Renew
<1> QED BY <1>6 DEF StepOfLock, Lock!Next

LEMMA OnDataReceivedLocks ==
    ASSUME TypeOK, LockInv, NEW r \in Requests, NEW accepted \in BOOLEAN, NEW tracker \in BOOLEAN,
           NEW broken \in BOOLEAN, NEW diskOK \in BOOLEAN, NEW n \in 0 .. (got[r] + 1),
           OnDataReceived(r, accepted, tracker, n, broken, diskOK)
    PROVE  StepOfLock
<1> DEFINE reval   == IsRevalidationRequest(r)
           deleted == ~reval /\ marked[r]
           writer0 == reval \/ held[r] = "writer"
           writer1 == writer0 /\ (sentHeaders[r] \/ (accepted /\ ~deleted))
           writer2 == writer1 /\ (n > 0 => diskOK /\ ~deleted)
           e       == IF writer2 THEN "writer" ELSE IF writer0 THEN "none" ELSE held[r]
           closes  == reval \/ (writer0 /\ ~writer2)
<1>1. SetEntry(r, e, closes) /\ live' = live
  BY DEF OnDataReceived
<1>2. writer2 => writer0
  OBVIOUS
<1> HIDE DEF writer2
<1>3. CASE reval /\ writer2
  <2>1. SetEntry(r, "writer", TRUE)
    BY <1>1, <1>3 DEF SetEntry
  <2> QED BY <1>1, <1>3, <2>1, LockRenewed
<1>4. CASE writer0 /\ ~writer2
  <2>1. SetEntry(r, "none", TRUE) /\ held[r] # "none"
    BY <1>1, <1>4 DEF SetEntry, IsRevalidationRequest, Reader
  <2> QED BY <1>1, <2>1, LockLetGo
<1>5. CASE ~reval /\ ~(writer0 /\ ~writer2)
  <2>1. e = held[r] /\ ~closes
    BY <1>2, <1>5
  <2>2. UNCHANGED lockVars
    BY <1>1, <2>1 DEF SetEntry, lockVars, TypeOK, CacheTypeOK
  <2> QED BY <1>1, <2>2, LockIdle
<1> QED BY <1>3, <1>4, <1>5

\* The handlers that run after the initial one, and the events of a request.
LEMMA HandlerLocks ==
    ASSUME TypeOK, LockInv, NEW r \in Requests,
           \/ HandleReadCacheState(r) \/ SendResumes(r) \/ SendOrphaned(r)
           \/ HandleFailedCacheOnlyState(r) \/ HandleServeSubstitutionState(r)
           \/ HandleDnsLookupState(r) \/ DnsLookupEnds(r)
           \/ HandleRetrieveCookieState(r) \/ NotifyRetrievedHttpCookie(r)
           \/ HandleFetchState(r) \/ HandleCompleteState(r) \/ HandleErrorState(r)
           \/ OnDataShielded(r) \/ OnDataPipeFails(r) \/ NotifyFetchComplete(r) \/ WriterNotifier(r)
    PROVE  StepOfLock
<1> USE DEF cacheVars, lockVars
<1>1. CASE HandleReadCacheState(r) \/ SendResumes(r) \/ SendOrphaned(r)
  BY <1>1, LockClosed, LockIdle
     DEF HandleReadCacheState, ReadCachePipeFails, ReadCacheSend, ReadCacheTakeBodyFile, SendResumes,
         SendOrphaned, SendWithoutBlocking, SendComplete, SendError, SendBlocked
<1>2. CASE HandleFailedCacheOnlyState(r) \/ HandleServeSubstitutionState(r) \/ HandleFetchState(r)
           \/ HandleErrorState(r) \/ OnDataShielded(r)
  BY <1>2, LockIdle DEF HandleFailedCacheOnlyState, HandleServeSubstitutionState, HandleFetchState,
                        HandleErrorState, OnDataShielded
<1>3. CASE \/ HandleDnsLookupState(r) \/ DnsLookupEnds(r)
           \/ HandleRetrieveCookieState(r) \/ NotifyRetrievedHttpCookie(r)
  BY <1>3, LockIdle
     DEF HandleDnsLookupState, DnsLookupEnds, HandleRetrieveCookieState, NotifyRetrievedHttpCookie
<1>4. CASE HandleCompleteState(r)
  BY <1>4, LockClosed, LockIdle
     DEF HandleCompleteState, CompleteFails, CompleteWithoutFlush, CompleteWithFlush, Flush
<1>5. CASE OnDataPipeFails(r) \/ NotifyFetchComplete(r)
  BY <1>5, LockClosed, LockIdle
     DEF OnDataPipeFails, NotifyFetchComplete, FetchRetried, FetchNotModified, FetchPipeFails, FetchComplete
<1>6. CASE WriterNotifier(r)
  BY <1>6, LockClosed, LockIdle DEF WriterNotifier, WriteQueuedBytes
<1> QED BY <1>1, <1>2, <1>3, <1>4, <1>5, <1>6

\* ~Request closes the writers of the destroyed requests; the readers they leave
\* behind no longer count as open for revalidation.
LEMMA DestroyLocks ==
    ASSUME TypeOK, NEW S \in SUBSET Requests, DestroyRequests(S)
    PROVE  StepOfLock
<1> DEFINE closed == {r \in S : held[r] = "writer"}
           freed  == {r \in waiting : Holders(Key[r]) # {} /\ Holders(Key[r]) \subseteq closed}
<1>1. /\ live' = live \ S
      /\ held' = [r \in Requests |-> IF r \in closed THEN "none" ELSE held[r]]
      /\ waiting' = waiting \ (freed \cup S)
      /\ wake' = (wake \cup freed) \ S
  BY DEF DestroyRequests
<1>2. Lock!Freed(closed) = freed
  BY SameHolders DEF Lock!Freed
<1>3. closed \in SUBSET Requests /\ \A r \in closed : Grant[r] # "free"
  BY GrantValue
<1>4. ASSUME NEW r \in Requests
      PROVE  Grant'[r] = IF r \in closed THEN "free"
                         ELSE IF r \in S /\ Grant[r] # "free" THEN "shared" ELSE Grant[r]
  <2>1. CASE r \in closed
    <3>1. held'[r] = "none"
      BY <1>1, <2>1
    <3> QED BY <2>1, <3>1, GrantValueNext
  <2>2. CASE r \notin closed
    <3>1. held'[r] = held[r]
      BY <1>1, <2>2
    <3>2. CASE r \in S
      <4>1. ~Exclusive(r)'
        BY <1>1, <2>2, <3>1, <3>2 DEF Exclusive, IsRevalidationRequest
      <4> QED BY <2>2, <3>1, <3>2, <4>1, GrantValue, GrantValueNext DEF GrantOf
    <3>3. CASE r \notin S
      <4>1. Exclusive(r)' <=> Exclusive(r)
        BY <1>1, <3>1, <3>3 DEF Exclusive, IsRevalidationRequest
      <4> QED BY <2>2, <3>1, <3>3, <4>1, GrantValue, GrantValueNext DEF GrantOf
    <3> QED BY <3>2, <3>3
  <2> QED BY <2>1, <2>2
<1> HIDE DEF closed, freed
<1>5. Grant' = [r \in Requests |-> IF r \in closed THEN "free"
                                  ELSE IF r \in S /\ Grant[r] # "free" THEN "shared" ELSE Grant[r]]
  BY <1>4, GrantTyped
<1>6. Lock!Release(closed, S)
  BY <1>1, <1>2, <1>3, <1>5 DEF Lock!Release
<1> QED BY <1>3, <1>6 DEF StepOfLock, Lock!Next

LEMMA EveryStepLocks == TypeOK /\ LockInv /\ TransferInv /\ [Next]_vars => StepOfLock
<1> SUFFICES ASSUME TypeOK, LockInv, TransferInv, [Next]_vars PROVE StepOfLock
  OBVIOUS
<1>1. ASSUME NEW r \in Fetches, NEW m \in Modes, StartRequest(r, m) PROVE StepOfLock
  <2>1. r \in Requests /\ held[r] = "none" /\ live' = live \cup {r} /\ UNCHANGED lockVars
    BY <1>1 DEF Requests, StartRequest, LockInv, UnusedHoldsNothing
  <2>2. \A q \in Requests : Exclusive(q)' <=> Exclusive(q)
    BY <2>1 DEF Exclusive, IsRevalidationRequest, Reader, lockVars
  <2>3. Grant' = Grant
    BY <2>1, <2>2 DEF Grant, lockVars
  <2> QED BY <2>1, <2>3 DEF StepOfLock, Lock!vars, lockVars
<1>2. ASSUME NEW r \in Requests, NotifyRequestUnblocked(r) PROVE StepOfLock
  <2>1. Grant' = Grant
    BY <1>2 DEF Grant, Exclusive, IsRevalidationRequest, NotifyRequestUnblocked
  <2>2. Lock!Retry(r)
    BY <1>2, <2>1 DEF NotifyRequestUnblocked, Lock!Retry
  <2> QED BY <2>2 DEF StepOfLock, Lock!Next
<1>3. ASSUME NEW r \in Requests, Process(r) PROVE StepOfLock
  BY <1>3, InitialStateLocks, HandlerLocks DEF Process
<1>4. ASSUME NEW r \in Requests, Answered(r) PROVE StepOfLock
  <2>1. CASE OnData(r)
    BY <2>1, HandlerLocks, OnDataReceivedLocks DEF OnData
  <2> QED BY <1>4, <2>1, HandlerLocks DEF Answered
<1>5. ASSUME NEW r \in Requests, SendOrphaned(r) PROVE StepOfLock
  BY <1>5, HandlerLocks
<1>6. ASSUME NEW r \in Requests, RequestRemoved(r) \/ StopRequest(r) PROVE StepOfLock
  BY <1>6, DestroyLocks DEF RequestRemoved, StopRequest
<1>7. ASSUME NEW c \in Clients, ClientDisconnects(c) PROVE StepOfLock
  BY <1>7, DestroyLocks DEF ClientDisconnects, TypeOK, CacheTypeOK
<1>8. ASSUME NEW ks, RemoveEntriesAccessedSince(ks) PROVE StepOfLock
  BY <1>8, LockIdle DEF RemoveEntriesAccessedSince
<1>9. ASSUME NEW k \in Keys, OriginChanges(k) PROVE StepOfLock
  BY <1>9, LockIdle DEF OriginChanges, cacheVars, lockVars
<1>10. CASE Crash
  <2>1. \A r \in Requests : held'[r] = "none"
    BY <1>10 DEF Crash
  <2>2. Grant' = [r \in Requests |-> "free"]
    BY <2>1, GrantValueNext, GrantTyped
  <2>3. Lock!Restart
    BY <1>10, <2>2 DEF Crash, Lock!Restart
  <2> QED BY <2>3 DEF StepOfLock, Lock!Next
<1>11. CASE UNCHANGED vars
  BY <1>11, LockIdle DEF vars, cacheVars, lockVars
<1> QED
  BY <1>1, <1>2, <1>3, <1>4, <1>5, <1>6, <1>7, <1>8, <1>9, <1>10, <1>11 DEF Next

LEMMA InitLocks == Init => Lock!Init
<1>1. ASSUME Init PROVE Lock!Init
  <2>1. \A r \in Requests : held[r] = "none" /\ Grant[r] = "free"
    BY <1>1, GrantValue DEF Init, CacheInit
  <2>2. Grant = [r \in Requests |-> "free"]
    BY <2>1, GrantTyped
  <2> QED BY <1>1, <2>2 DEF Init, CacheInit, Lock!Init
<1> QED BY <1>1

\* The table of open cache entries, the list of waiting requests and the
\* deferred wake-ups (check_if_cache_has_open_entry, cache_entry_closed,
\* ~Request) implement the shared/exclusive lock of EntryLock: every behaviour
\* of RequestServer is, seen through Grant, one of the lock.
THEOREM TableImplementsLock == Spec => LockSpec
<1>1. TypeOK /\ LockInv /\ TransferInv /\ [Next]_vars => [Lock!Next]_(Lock!vars)
  BY EveryStepLocks DEF StepOfLock
<1> QED BY <1>1, InitLocks, RequestsInvariant, PTL DEF Spec, LockSpec, Lock!Spec
=============================================================================
