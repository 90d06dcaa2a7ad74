----------------------------- MODULE DiskCache -----------------------------
(***************************************************************************)
(* HTTP::DiskCache and its cache entries (Libraries/LibHTTP/Cache), as the *)
(* RequestServer process uses them: the table of open entries that serves  *)
(* as a lock on a cache key, the list of requests that wait for that lock, *)
(* the wake-ups deferred to the event loop, and the two stores that must   *)
(* agree, the entry file and the index row.                                *)
(*                                                                         *)
(* A CacheRequest owns at most one open entry at a time, so the table      *)
(* m_open_cache_entries is kept as a function of the request that opened   *)
(* the entry.  The entry is owned by the cache, not by the request: it     *)
(* stays in the table until it is closed, also when the request is gone.   *)
(***************************************************************************)
EXTENDS Naturals, FiniteSets

CONSTANTS
    Fetches,        \* requests a client starts (RequestType::Fetch)
    Revals,         \* background revalidations (bounds how many can start)
    Keys,           \* cache keys: URL and method, see create_cache_key
    Key,            \* the key each request is for
    MaxVersion,     \* bound on the versions the origin server serves
    Size,           \* body length of each version, in chunks
    Validated,      \* versions whose headers hold an ETag or Last-Modified
    PageSize        \* PAGE_SIZE, in chunks: larger bodies are passed as a file

Requests == Fetches \cup Revals
Version == 1 .. MaxVersion

ASSUME DiskCacheAssumption ==
    /\ Fetches \cap Revals = {}
    /\ Key \in [Requests -> Keys]
    /\ MaxVersion \in Nat \ {0}
    /\ Size \in [Version -> Nat]
    /\ Validated \subseteq Version
    /\ PageSize \in Nat

VARIABLES
    live,       \* CacheRequest objects that exist (targets of the weak pointers)
    held,       \* the open entry of each request; "must" and "swr" are readers
                \* with RevalidationType MustRevalidate / StaleWhileRevalidate
    marked,     \* m_marked_for_deletion of the open entry
    waiting,    \* m_requests_waiting_completion, over all keys
    wake,       \* requests whose notify_request_unblocked has been deferred
    row,        \* the index row of each key, Absent when there is none
    file,       \* the entry file of each key, Absent when there is none
    snap        \* row and file a reader was opened on

lockVars  == <<held, waiting, wake>>
storeVars == <<row, file>>
cacheVars == <<live, held, marked, waiting, wake, row, file, snap>>

Absent   == [ver |-> 0, len |-> 0]
Content  == [ver : 0 .. MaxVersion, len : Nat]
Snapshot == [row : Content, file : Content]
Reader   == {"reader", "must", "swr"}
Entry    == Reader \cup {"none", "writer"}

CacheTypeOK ==
    /\ live \subseteq Requests
    /\ held \in [Requests -> Entry]
    /\ marked \in [Requests -> BOOLEAN]
    /\ waiting \subseteq Requests
    /\ wake \subseteq Requests
    /\ row \in [Keys -> Content]
    /\ file \in [Keys -> Content]
    /\ snap \in [Requests -> Snapshot]

\* The cache a previous run of the process left: empty, or with whole entries.
CacheInit ==
    /\ live = {}
    /\ held = [r \in Requests |-> "none"]
    /\ marked = [r \in Requests |-> FALSE]
    /\ waiting = {}
    /\ wake = {}
    /\ row \in [Keys -> {Absent, [ver |-> 1, len |-> Size[1]]}]
    /\ file = row
    /\ snap = [r \in Requests |-> [row |-> Absent, file |-> Absent]]

-----------------------------------------------------------------------------
(* The lock on a key. *)

Holders(k) == {r \in Requests : held[r] # "none" /\ Key[r] = k}
Waiters(k) == {r \in waiting : Key[r] = k}

\* A weak pointer to a destroyed request is null, so an entry whose request is
\* gone never counts as open for revalidation.
IsRevalidationRequest(r) ==
    /\ r \in live
    /\ \/ r \in Fetches /\ held[r] = "must"
       \/ r \in Revals /\ held[r] \in Reader

\* Mutant: the check for readers is forgotten.
HasOpenEntryIgnoringReaders(r, checkReaderEntries) ==
    \E q \in Holders(Key[r]) : held[q] = "writer"

HasOpenEntry(r, checkReaderEntries) ==
    \E q \in Holders(Key[r]) :
        held[q] = "writer" \/ checkReaderEntries \/ IsRevalidationRequest(q)

\* Mutant: closing an entry forgets the requests that wait for it.
SetEntryWithoutWakeup(r, e, closes) ==
    /\ held' = [held EXCEPT ![r] = e]
    /\ UNCHANGED <<waiting, wake>>

\* What open_entry, create_entry and close leave behind when the entry of r
\* becomes e.  When an entry is closed and no other is open for the key, every
\* waiting request of the key is taken off the list and its wake-up deferred.
SetEntry(r, e, closes) ==
    LET woken == IF closes /\ Holders(Key[r]) \subseteq {r}
                 THEN Waiters(Key[r]) ELSE {}
    IN  /\ held' = [held EXCEPT ![r] = e]
        /\ waiting' = waiting \ woken
        /\ wake' = wake \cup woken

OpenAs(r, e) == SetEntry(r, e, FALSE)
CacheEntryClosed(r) == SetEntry(r, "none", held[r] # "none")

\* A request that finds the key locked joins the list.
WaitForKey(r) ==
    /\ waiting' = waiting \cup {r}
    /\ UNCHANGED <<held, wake>>

-----------------------------------------------------------------------------
(* Looking an entry up. *)

CacheModes == {"Default", "NoStore", "Reload", "NoCache", "ForceCache", "OnlyIfCached",
               "Uncacheable",      \* Default, but the method or headers are not cacheable
               "OnlyIfCachedDirective"}  \* Default, with Cache-Control: only-if-cached

PermitsStale(mode) == mode \in {"ForceCache", "OnlyIfCached"}

\* The statuses cache_lifetime_status can give to a stored response: without a
\* validator a response that would have to be revalidated is Expired.
LifetimeStatuses(version) ==
    {"Fresh", "Expired"} \cup
        (IF version \in Validated THEN {"MustRevalidate", "StaleWhileRevalidate"} ELSE {})

\* What open_entry does with a readable entry: the kind of reader it opens,
\* "none" for a miss, "remove" for a miss that first deletes the entry, "wait".
OpenResult(r, mode, status) ==
    LET revalidate == IF HasOpenEntry(r, TRUE) THEN "wait" ELSE "must"
        forReading == r \in Fetches
    IN  CASE status = "Fresh" /\ mode = "NoCache" -> revalidate
          [] status = "Fresh" /\ mode # "NoCache" -> IF forReading THEN "reader" ELSE "none"
          [] status # "Fresh" /\ PermitsStale(mode) -> "reader"
          [] status = "Expired" /\ ~PermitsStale(mode) -> "remove"
          [] status = "MustRevalidate" /\ ~PermitsStale(mode) ->
                IF forReading THEN revalidate ELSE "reader"
          [] status = "StaleWhileRevalidate" /\ ~PermitsStale(mode) ->
                IF forReading THEN "swr" ELSE "reader"

-----------------------------------------------------------------------------
(* The two stores. *)

\* Mutant: the slot of a removed entry is dropped instead of emptied.
WithoutSlot(store, ks) == [k \in Keys \ ks |-> store[k]]

Without(store, ks) == [k \in Keys |-> IF k \in ks THEN Absent ELSE store[k]]

\* CacheEntry::remove: the file and the row go together.
RemoveEntry(k) ==
    /\ row' = Without(row, {k})
    /\ file' = Without(file, {k})

\* CacheIndex drops the rows of the keys in ks (all of them have one); for each,
\* DiskCache::delete_entry marks every open entry of the key, whatever its
\* request, and deletes the file.
MarkForDeletion(ks) ==
    marked' = [r \in Requests |-> marked[r] \/ (held[r] # "none" /\ Key[r] \in ks)]

RowKeys == {k \in Keys : row[k] # Absent}

DeleteEntries(ks) ==
    /\ row' = Without(row, ks)
    /\ file' = Without(file, ks)
    /\ MarkForDeletion(ks)

\* send_complete and take_body_file accept a body only if the footer at the
\* offset the row gives holds the size the row gives.
FooterValid(r) == snap[r].file.len = snap[r].row.len

\* flush_impl up to the rename fails or finds the entry marked: nothing is stored.
FlushFails(r) == UNCHANGED <<row, file, marked>>

\* The rename succeeded but the new file could not be opened for the client
\* (only when the body is passed as a file): the row is left as it was.
FlushLosesRow(r, content) ==
    /\ file' = [file EXCEPT ![Key[r]] = content]
    /\ UNCHANGED <<row, marked>>

\* The rename succeeded but create_entry refused the row (too large): remove().
FlushRefused(r) ==
    /\ RemoveEntry(Key[r])
    /\ UNCHANGED marked

\* Mutant: a row that exists already is not replaced.
FlushStoresKeepingRow(r, content, ks) ==
    LET k == Key[r]
    IN  /\ row' = IF row[k] = Absent THEN [row EXCEPT ![k] = content] ELSE row
        /\ file' = [file EXCEPT ![k] = content]
        /\ UNCHANGED marked

\* The entry is stored; the index then evicts the rows in ks to get under its
\* limit, which may include the new one.
FlushStores(r, content, ks) ==
    LET k == Key[r]
    IN  /\ row' = Without([row EXCEPT ![k] = content], ks)
        /\ file' = Without([file EXCEPT ![k] = content], ks)
        /\ MarkForDeletion(ks)
=============================================================================
