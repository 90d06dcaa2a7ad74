----------------------------- MODULE CacheIndex -----------------------------
(***************************************************************************)
(* HTTP::CacheIndex: the rows of the disk cache in an SQLite table, the    *)
(* rows of the cache keys seen so far in memory, and the estimate of the   *)
(* cache's size that decides what is evicted.                              *)
(*                                                                         *)
(* A response is stored under a cache key and a vary key; a variant is     *)
(* such a pair.  The actions are the operations of DiskCache and its       *)
(* entries that reach the index, each with all the calls it makes on it.   *)
(***************************************************************************)
EXTENDS Integers, FiniteSetsExt

CONSTANTS
    Variants,       \* pairs <<cache key, vary key>>
    Synthetic,      \* cache keys of synthetic entries, which have no body
    BodySizes,      \* sizes of a body with its request headers
    HeaderSizes,    \* sizes of serialized response headers
    ExtraSizes,     \* sizes of the associated data of an entry
    Limits,         \* maximum sizes the settings may ask for
    DefaultLimit,   \* the maximum size a process starts with
    DiskShare,      \* the share of the free disk space the cache may use
    EntryFraction,  \* an entry may use 1/EntryFraction of the maximum size
    MaxEntrySize,   \* MAXIMUM_DISK_CACHE_ENTRY_SIZE
    MaxTotal,       \* the largest estimate that can be represented
    MaxTime         \* bound on the clock

CacheKeys == {p[1] : p \in Variants}

Row == [body : BodySizes \cup {0}, head : HeaderSizes \cup {0}, extra : ExtraSizes \cup {0},
        time : 0 .. MaxTime]
NoRow == [body |-> 0, head |-> 0, extra |-> 0, time |-> -1]

\* The table, as a function that gives each variant its row.
Table == [Variants -> Row \cup {NoRow}]

Rows(d) == {p \in Variants : d[p] # NoRow}

EstimatedSize(x) == x.body + x.head + x.extra
TotalSize(d, P) == MapThenSumSet(LAMBDA p : EstimatedSize(d[p]), P)

\* The sum of the sizes of all rows.
TableSize(d) == TotalSize(d, Rows(d))

ASSUME CacheIndexAssumption ==
    /\ IsFiniteSet(Variants)
    /\ \A p \in Variants : p = <<p[1], p[2]>>
    /\ Synthetic \subseteq CacheKeys
    /\ BodySizes \subseteq Nat /\ HeaderSizes \subseteq Nat /\ ExtraSizes \subseteq Nat
    /\ Limits \subseteq Nat /\ DefaultLimit \in Nat /\ DiskShare \in Nat
    /\ EntryFraction \in Nat \ {0} /\ MaxEntrySize \in Nat
    /\ MaxTotal \in Nat /\ MaxTime \in Nat

\* The estimate is an i64, which holds far more than any disk: a table it could not
\* represent is out of the question.
ASSUME TotalFits == \A d \in Table : TableSize(d) <= MaxTotal

VARIABLES
    db,         \* the table: the row of each variant, NoRow if it has none
    mem,        \* the rows in m_entries
    loaded,     \* the keys m_entries has a list for, empty or not
    total,      \* m_total_estimated_size
    maximum,    \* m_limits.maximum_disk_cache_size
    now         \* UnixDateTime::now()

indexVars == <<db, mem, loaded, total>>
vars == <<db, mem, loaded, total, maximum, now>>

TypeOK ==
    /\ db \in Table
    /\ mem \in Table
    /\ loaded \subseteq CacheKeys
    /\ total \in 0 .. MaxTotal
    /\ maximum \in Nat
    /\ now \in 0 .. MaxTime

-----------------------------------------------------------------------------
(* Limits and the estimate. *)

Smaller(a, b) == IF a < b THEN a ELSE b

ComputeMaximumDiskCacheSize(limit) == Smaller(limit, DiskShare)

\* Mutant: an entry may be larger than the whole cache.
ComputeMaximumDiskCacheEntrySizeUnbounded(max) == MaxEntrySize

ComputeMaximumDiskCacheEntrySize(max) == Smaller(max \div EntryFraction, MaxEntrySize)

TooLarge(x) == EstimatedSize(x) > ComputeMaximumDiskCacheEntrySize(maximum)

\* adjust_total_estimated_size: the estimate saturates at both ends.
AdjustTotal(t, delta) ==
    IF t + delta < 0 THEN 0 ELSE Smaller(t + delta, MaxTotal)

-----------------------------------------------------------------------------
(* The index as a value, for operations that make several calls on it. *)

Index == [db |-> db, mem |-> mem, loaded |-> loaded, total |-> total]

Become(s) == db' = s.db /\ mem' = s.mem /\ loaded' = s.loaded /\ total' = s.total

\* Mutant: the slot of a removed row is dropped instead of emptied.
WithoutSlots(d, P) == [p \in Variants \ P |-> d[p]]

WithoutRows(d, P) == [p \in Variants |-> IF p \in P THEN NoRow ELSE d[p]]

\* Rows are deleted from the table, which returns their sizes, and for each
\* delete_entry drops the row in memory, and the key's list if that leaves it empty.
Removed(s, P) ==
    LET kept == WithoutRows(s.mem, P)
    IN  [db |-> WithoutRows(s.db, P),
         mem |-> kept,
         loaded |-> {k \in s.loaded : (\A p \in P : p[1] # k)
                                       \/ (\E p \in Rows(kept) : p[1] = k)},
         total |-> AdjustTotal(s.total, 0 - TotalSize(s.db, P \cap Rows(s.db)))]

\* Mutant: the size of the row that is replaced is not subtracted.
CreatedOnTop(s, p, x) ==
    [db |-> [s.db EXCEPT ![p] = x], mem |-> [s.mem EXCEPT ![p] = x],
     loaded |-> s.loaded \cup {p[1]}, total |-> AdjustTotal(s.total, EstimatedSize(x))]

\* create_entry for an entry that is small enough: the old row is deleted, the
\* new one inserted.  The key's list is created empty if there is none: other
\* variants of the key that are only in the table are not loaded.
Created(s, p, x) ==
    LET old == TotalSize(s.db, {p} \cap Rows(s.db))
    IN  [db |-> [s.db EXCEPT ![p] = x],
         mem |-> [s.mem EXCEPT ![p] = x],
         loaded |-> s.loaded \cup {p[1]},
         total |-> AdjustTotal(AdjustTotal(s.total, 0 - old), EstimatedSize(x))]

\* find_entry loads the rows of a key it has no list for.
Loaded(s, k) ==
    IF k \in s.loaded THEN s
    ELSE [db |-> s.db,
          mem |-> [p \in Variants |-> IF p[1] = k THEN s.db[p] ELSE s.mem[p]],
          loaded |-> s.loaded \cup {k},
          total |-> s.total]

\* update_associated_data_size, for a row that is in memory.
Enlarged(s, p, extra) ==
    [db |-> IF s.db[p] = NoRow THEN s.db ELSE [s.db EXCEPT ![p].extra = extra],
     mem |-> [s.mem EXCEPT ![p].extra = extra],
     loaded |-> s.loaded,
     total |-> AdjustTotal(AdjustTotal(s.total, 0 - s.mem[p].extra), extra)]

\* Mutant: the least recent entries come first.
ExceedingNewest(s) ==
    {p \in Rows(s.db) :
        TotalSize(s.db, {q \in Rows(s.db) : s.db[q].time <= s.db[p].time}) > maximum}

\* Mutant: a row is compared with what was accessed after it only.
ExceedingWithoutItself(s) ==
    {p \in Rows(s.db) :
        TotalSize(s.db, {q \in Rows(s.db) : s.db[q].time > s.db[p].time}) > maximum}

\* The rows whose cumulative size, most recently accessed first, is over the
\* maximum.  Rows with equal times are peers in the window and share their sum.
Exceeding(s) ==
    {p \in Rows(s.db) :
        TotalSize(s.db, {q \in Rows(s.db) : s.db[q].time >= s.db[p].time}) > maximum}

\* remove_entries_exceeding_cache_limit
Trimmed(s) == IF s.total <= maximum THEN s ELSE Removed(s, Exceeding(s))

-----------------------------------------------------------------------------
Init ==
    /\ db = [p \in Variants |-> NoRow]
    /\ mem = [p \in Variants |-> NoRow]
    /\ loaded = {}
    /\ total = 0
    /\ maximum = ComputeMaximumDiskCacheSize(DefaultLimit)
    /\ now = 0

NewRow(body, head) == [body |-> body, head |-> head, extra |-> 0, time |-> now]

\* CacheEntryWriter::flush_impl, once the entry file is in place: the row is
\* created and the cache trimmed, or the entry is too large and removed.
Flush(p, body, head) ==
    /\ p[1] \notin Synthetic
    /\ LET x == NewRow(body, head)
       IN  \/ TooLarge(x) /\ Become(Removed(Index, {p}))
           \/ ~TooLarge(x) /\ Become(Trimmed(Created(Index, p, x)))
    /\ UNCHANGED <<maximum, now>>

\* DiskCache::create_synthetic_entry: empty headers, no body, vary key 0.
CreateSyntheticEntry(p) ==
    /\ p[1] \in Synthetic
    /\ mem[p] = NoRow
    /\ Become(Created(Index, p, NewRow(0, 0)))
    /\ UNCHANGED <<maximum, now>>

\* DiskCache::open_entry and retrieve_associated_data look a key up.
FindEntry(k) ==
    /\ k \notin loaded
    /\ Become(Loaded(Index, k))
    /\ UNCHANGED <<maximum, now>>

\* CacheEntry::remove, and open_entry for an entry it cannot read.
RemoveEntry(p) ==
    /\ Become(Removed(Index, {p}))
    /\ UNCHANGED <<maximum, now>>

\* Mutant: the refreshed headers do not reach the table.
RevalidationSucceededInMemory(p, head) ==
    /\ mem[p] # NoRow
    /\ mem' = [mem EXCEPT ![p].head = head]
    /\ total' = AdjustTotal(AdjustTotal(total, 0 - mem[p].head), head)
    /\ UNCHANGED <<db, loaded, maximum, now>>

\* update_response_headers, for a row that is in memory.
RevalidationSucceeded(p, head) ==
    /\ mem[p] # NoRow
    /\ db' = IF db[p] = NoRow THEN db ELSE [db EXCEPT ![p].head = head]
    /\ mem' = [mem EXCEPT ![p].head = head]
    /\ total' = AdjustTotal(AdjustTotal(total, 0 - mem[p].head), head)
    /\ UNCHANGED <<loaded, maximum, now>>

\* DiskCache::store_associated_data: without a vary key from the client the key
\* is looked up; the row, if it is in memory, takes the new size and the cache
\* is trimmed.
StoreAssociatedData(p, extra, lookup) ==
    LET s == IF lookup THEN Loaded(Index, p[1]) ELSE Index
    IN  /\ s.mem[p] # NoRow
        /\ Become(Trimmed(Enlarged(s, p, extra)))
        /\ UNCHANGED <<maximum, now>>

\* update_last_access_time, when a body has been sent or its file handed over.
UpdateLastAccessTime(p) ==
    /\ mem[p] # NoRow
    /\ db' = IF db[p] = NoRow THEN db ELSE [db EXCEPT ![p].time = now]
    /\ mem' = [mem EXCEPT ![p].time = now]
    /\ UNCHANGED <<loaded, total, maximum, now>>

\* The user clears what was accessed since some time.
RemoveEntriesAccessedSince(since) ==
    /\ Become(Removed(Index, {p \in Rows(db) : db[p].time >= since}))
    /\ UNCHANGED <<maximum, now>>

\* The settings change; nothing is evicted yet.
SetMaximumDiskCacheSize(limit) ==
    /\ maximum' = ComputeMaximumDiskCacheSize(limit)
    /\ UNCHANGED <<indexVars, now>>

\* The process ends, perhaps inside create_entry between the deletion of the old
\* row and the insertion of the new one, and CacheIndex::create starts again.
Restart(lost) ==
    /\ db' = WithoutRows(db, lost)
    /\ mem' = [p \in Variants |-> NoRow]
    /\ loaded' = {}
    /\ total' = TableSize(db')
    /\ maximum' = ComputeMaximumDiskCacheSize(DefaultLimit)
    /\ UNCHANGED now

Tick ==
    /\ now < MaxTime
    /\ now' = now + 1
    /\ UNCHANGED <<indexVars, maximum>>

Next ==
    \/ \E p \in Variants :
          \/ \E body \in BodySizes, head \in HeaderSizes : Flush(p, body, head)
          \/ CreateSyntheticEntry(p)
          \/ RemoveEntry(p)
          \/ \E head \in HeaderSizes : RevalidationSucceeded(p, head)
          \/ \E extra \in ExtraSizes, lookup \in BOOLEAN : StoreAssociatedData(p, extra, lookup)
          \/ UpdateLastAccessTime(p)
    \/ \E k \in CacheKeys : FindEntry(k)
    \/ \E since \in 0 .. MaxTime : RemoveEntriesAccessedSince(since)
    \/ \E limit \in Limits : SetMaximumDiskCacheSize(limit)
    \/ Restart({})
    \/ \E p \in Variants : Restart({p})
    \/ Tick

Spec == Init /\ [][Next]_vars

-----------------------------------------------------------------------------
(* Properties. *)

\* The estimate is the size of the table.  Deltas are applied from three places
\* (sizes the table returns, sizes in memory, sizes of new rows), so it is right
\* only if all of them agree; a drift would evict too much or nothing at all.
TotalIsSum == total = TableSize(db)

\* What is in memory is in the table, alike.  update_response_headers,
\* update_associated_data_size and has_entry trust the row in memory.
MemoryAgrees ==
    \A p \in Variants : mem[p] # NoRow => mem[p] = db[p] /\ p[1] \in loaded

\* The operations that trim the cache when they are done.
Stores(p) ==
    \/ \E body \in BodySizes, head \in HeaderSizes :
          ~TooLarge(NewRow(body, head)) /\ Flush(p, body, head)
    \/ \E extra \in ExtraSizes, lookup \in BOOLEAN : StoreAssociatedData(p, extra, lookup)

\* Whoever stores a body or associated data leaves the cache within its limit,
\* even if the limit was lowered or headers grew before.
LimitRestored ==
    [][TableSize(db') > maximum => \A p \in Variants : ~Stores(p)]_vars

\* remove_entries_exceeding_cache_limit takes the least recently used rows: each
\* row that stays was accessed after every row that went.
EvictsLeastRecent ==
    [][\A e \in Rows(db) \ Rows(db'), q \in Rows(db') :
         db'[q].time <= db[e].time => \A p \in Variants \ {e} : ~Stores(p)]_vars

\* An entry that was just stored is not evicted by its own flush, unless other
\* rows were accessed at the same moment: the limit on one entry is far below
\* the limit on all.
FlushedSurvives ==
    [][\A p \in Variants \ Rows(db') :
         (\A q \in Rows(db) \ {p} : db[q].time < now)
         => ~\E body \in BodySizes, head \in HeaderSizes :
                 ~TooLarge(NewRow(body, head)) /\ Flush(p, body, head)]_vars
=============================================================================
