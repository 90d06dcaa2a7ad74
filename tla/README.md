# TLA+ models of The Browser

The Browser (Aetheris) is a fork of Ladybird: a UI process, one WebContent
process per site, and helper processes (RequestServer, ImageDecoder, Compositor,
WebDriver, WasmCompiler) that talk over LibIPC, plus a small self-contained
engine and shell of its own under `src/`. This directory holds TLA+ models of the
parts where state is shared, persistent or reached in many orders: the network
service, its HTTP cache with the cache's index, the DNS resolver it asks, the
connections between the processes, and the shell with its tabs and histories. Paths below are relative to the repository root.

## 1. Inventory

### Components worth a model

| Component | State | Operations | Interacts with |
|---|---|---|---|
| **Request** (`Services/RequestServer/Request.cpp`) | `m_state`, the cache reader or writer it holds, the curl handle, the pipe and its buffered bytes, the result code | `fetch`, one `handle_*_state` per state, curl callbacks (`on_header_received`, `on_data_received`, `notify_fetch_complete`), the pipe's write notifier, `notify_request_unblocked`, `notify_retrieved_http_cookie`, `~Request` | DiskCache (calls both ways), ConnectionFromClient, curl, Resolver |
| **ConnectionFromClient** (`Services/RequestServer/ConnectionFromClient.cpp`) | active requests, background revalidations, requests kept for transfer, web sockets | `start_request`, `stop_request`, `request_complete` (deferred removal), `start_revalidation_request`, `die`, `release_request_for_transfer`, `adopt_request`, `remove_cache_entries_accessed_since`, `websocket_*` | clients over IPC, curl multi |
| **DiskCache** (`Libraries/LibHTTP/Cache/DiskCache.cpp`) | `m_open_cache_entries`, `m_requests_waiting_completion`, the index | `open_entry`, `create_entry`, `check_if_cache_has_open_entry`, `cache_entry_closed`, `delete_entry`, `remove_entries_accessed_since` | every Request of every client, CacheIndex, the file system |
| **CacheEntryReader / CacheEntryWriter** (`CacheEntry.cpp`) | the entry file, its header and footer, `m_marked_for_deletion` | `write_status_and_reason`, `write_data`, `flush`, `flush_and_take_body_file`, `send_to`, `take_body_file`, `revalidation_succeeded/failed`, `remove` | DiskCache, CacheIndex |
| **CacheIndex** (`CacheIndex.cpp`) | the SQLite rows, the rows loaded in memory, the total estimated size and its limits | `create_entry`, `remove_entry`, `remove_entries_exceeding_cache_limit`, `remove_entries_accessed_since`, `update_*`, `find_entry` | DiskCache |
| **MemoryCache** (`MemoryCache.cpp`) | pending and complete entries in a client process | `open_entry`, `create_entry`, `finalize_entry` | LibWeb's Fetch |
| **Freshness** (`Utilities.cpp`) | none | `cache_lifetime_status`, `calculate_freshness_lifetime`, `calculate_age`, `is_cacheable` | DiskCache, MemoryCache |
| **Resolver** (`Libraries/LibDNS/Resolver.h`, `RequestServer/Resolver.cpp`) | DNS cache, pending lookups with their timers, resolutions by the system, the connection | `lookup`, `process_incoming_messages`, the repeat timer, completion of a worker, the grace timer | Request, through a promise |
| **TransportSocket** (`Libraries/LibIPC/TransportSocket.cpp`) | send queue, descriptors retained for the peer, unprocessed bytes and descriptors, incoming messages, the state of the IO thread | `post_message`, `io_thread_loop`, `read_incoming_messages`, `transfer_data`, `wait_until_readable`, `close`, `close_after_sending_all_pending_messages` | any thread that posts, the owner of the connection, the peer process |
| **ConnectionBase** (`Libraries/LibIPC/Connection.cpp`) | unprocessed messages, deferred calls | `post_message`, `drain_messages_from_peer`, `handle_messages`, the synchronous wait, `shutdown` | TransportSocket, the stubs of every service |
| **LibRequests** | the client's requests and their buffered data | `start_request`, `request_finished`, `did_finish`, stream handling | RequestServer over IPC |
| **Aetheris shell** (`src/rendering/browser_*.cpp`, `navigation.cpp`, `viewport.cpp`, `form_runtime.cpp`) | tabs, session history, viewport, form values | navigate, back, forward, new/close/switch tab, submit | each other |
| **Ghost cache** (`include/aetheris/cache/ghost_cache.hpp`) | blocks, per-tab entries | `allocate`, `deallocate`, `store_session_data`, `close_tab`, `clear_all` | the Aetheris shell |

### What is hard here

RequestServer is one thread running an event loop, so nothing is preempted; but
each request is suspended between states, all requests share the disk cache, and
handlers, callbacks and deferred calls of different requests interleave freely:

* the open-entry table is a lock with three strengths (read, revalidate, write)
  and a waiting list; who is woken when, and whether anybody is forgotten, depends on
  closing the *last* entry of a key;
* entries are held through weak pointers and raw back references, across turns,
  while the entry may be deleted (the user clears the cache), evicted by another
  writer, or its request destroyed (stopped, client gone);
* the entry file and the index row are two stores updated one after the other;
* a transfer ends, its bytes drain into a pipe, the pipe fills or breaks, and the
  request is removed by a deferred call, in any order;
* revalidation swaps a reader for a writer inside a curl callback.

The index keeps one fact three times: a row in SQLite, the same row in memory, and
the row's share of the estimated size. Each operation updates them one after the
other, from sizes read in different places, and eviction trusts the result.

A connection is where threads really run side by side: posting threads, the IO thread and
the owner share queues under several locks, two pipes and a condition variable; writes are cut
where the socket fills, descriptors travel with the first byte of a write and are closed when
the peer has counted them, and either process may close or die at any of these points.

The resolver has one thread but many actors: callers, repeat timers, answers that come late or
never, two workers and a grace timer. All meet in promises that have room for one handler.

The shell is sequential, but a session keeps its page in four places (controller,
document, current page, history entry), updated in turn by operations that may fail
in between, and holds raw pointers into a document that navigation replaces.

The correctness properties that follow from this are stated in section 4; every
hazard, with its source line and the property that watches it, is in
`PROJECT.json`.

## 2. Modules

| Module | What it is |
|---|---|
| `DiskCache` | open entries, lock, waiting list, index rows and entry files; every operation as an action fragment |
| `RequestServer` | extends `DiskCache` with the request state machine, curl and pipe events, the connection's removal of requests, cache clearing, restarts; properties |
| `EntryLock` | what the open-entry table promises, as an abstract shared/exclusive lock with a waiting list |
| `RequestServerProof` | types, exclusive entries and wake-ups of `RequestServer`, proved |
| `RequestServerTransferProof` | what handlers rely on and what clients are told, proved |
| `RequestServerStoreProof` | what is stored and what is served, and that the open-entry table implements `EntryLock`, proved |
| `CacheIndex` | the index alone: table, rows in memory, estimated size, limits, eviction |
| `CacheIndexProof` | theorems about `CacheIndex` and their proofs |
| `BrowserShell` | the Aetheris shell: tabs, session histories, navigation, viewports, address bar |
| `BrowserShellProof` | theorems about `BrowserShell` and their proofs |
| `Transport` | one IPC connection: posting threads, the two IO threads, the two owners, the socket between them |
| `Channel` | what one direction of a connection promises, as an abstract specification |
| `TransportProof` | types, messages and descriptors of `Transport`, proved |
| `TransportChannelProof` | each direction of a connection implements `Channel`, proved |
| `Resolver` | the DNS resolver with its callers and their promises |
| `ResolverProof` | theorems about `Resolver` and their proofs |
| `MCRequestServer`, `MCCacheIndex`, `MCBrowserShell`, `MCTransport` | small instances for TLC (`Resolver` needs none) |

`RequestServer` abstracts the index to the rows that exist: a flush may evict, be refused
or lose its row. `CacheIndex` says when it does. Neither includes the other: sizes,
variants and times multiply the states of the request machine and no property needs both.

### How the state corresponds

In `RequestServer` and `DiskCache`:

* `live` is the set of requests that exist; the cache's weak pointers are null for
  any other. `held[r]` is the entry request `r` has open: `"writer"`, or a reader
  by its revalidation type (`"reader"`, `"must"`, `"swr"`). A reader whose request is
  destroyed stays in `held`, as it stays in `m_open_cache_entries`.
* `waiting` is `m_requests_waiting_completion`; `wake` the requests
  whose `notify_request_unblocked` has been deferred by `cache_entry_closed`.
* `row` and `file` are the two stores. A response is abstracted to its version
  (which version of the resource the headers or the body belong to) and the number of
  chunks in its body. `snap[r]` is what the reader of `r` was opened on: a file that
  is removed or replaced under an open descriptor remains readable.
* `running` is the request whose handlers are running in this turn.
  `transition_to_state` runs the next handler at once, so a handler that transitions
  sets `running`, and no event of another request is taken before the turn ends.
* `got` and `out` count the chunks curl delivered and the chunks written to the
  client's pipe; their difference is the response buffer.
* `finished` counts the `request_finished` messages; `served` is history: what
  a request was sent from the cache.
* `origin` is the version the origin server has now; it grows.

In `CacheIndex`, `db` is the table and `mem` the rows in `m_entries`, both indexed by
variant, a pair of cache key and vary key; `loaded` is the set of keys `m_entries` has a list
for, which is what `find_entry` tests before it reads the table; `total` is
`m_total_estimated_size`. A row is its three sizes and its last access time.

In `BrowserShell`, `order` and `active` are `m_tabs` and `m_active`, `session` the
`BrowserSession` of each tab, `chrome` the address and the page state. A document is
named by a number, so that pointers into it (`hovered`, `focused`, `forms`) can be told from
pointers into another. Only the vertical direction scrolls.

In `Transport` every variable is a function of the end of the connection, but for `todo` and
`retaining`, which belong to the posting threads. `queue`, `queueFds`, `retained`, `bytes`,
`attached`, `incoming`, `peerEof` and `incomingEof` are the members named beside them. `wire[e]` is what
end `e` has written and its peer not read: units, the first of each write with the descriptors.
A unit is the smallest piece a write may be cut into; a header is never cut, as the parser treats half
a header as it treats half a payload. `io[e]` is the position of the IO thread in its loop,
`main[e]` that of the owner thread. `posted`, `written`, `taken`, `ended`, `handled` and `outcome` are history.

In `Resolver`, `cache`, `pending` and `system` are the three tables. A cached result is the types of
its records, those that have expired, and its flags. `timers` lists the queries whose repeat timer
runs: all timers have the same interval, so they fire in the order they were started. `promise[c]` is the promise that
call `c` constructs, `returned[c]` the one it got, `heard[c]` how often its handlers ran.

### How the actions correspond

One action per outcome of a handler: the actions of `HandleInitialState` are the
early returns of `handle_initial_state` in their order (substitution, no-store,
locked key, miss, unreadable entry, expired, revalidation, hit, hit with background
revalidation). `AfterMiss` is the second half of the handler, which asks for a
writer. A call into the cache is part of the action: closing an entry computes who is
woken (`SetEntry`), flushing stores, evicts and marks (`FlushStores`).

Freshness is an input: `LifetimeStatuses` offers every status
`cache_lifetime_status` can return for a response with or without a validator. curl is
external: it delivers chunks, ends with a result code, and ends with a failure in the
same turn when a callback does not accept its chunk. What can go wrong is the constant
`Faults`; a run enables the faults its question is about.

The actions of `CacheIndex` are the operations of `DiskCache` and its entries that reach the
index, each with all its calls: `Flush` creates the row and trims the cache,
`StoreAssociatedData` looks the entry up, updates its size and trims. `Restart` begins a new
process on the same table; with a variant it stands for a crash between the two statements of
`create_entry`. The two restarts differ only in the row that is gone.

The actions of `BrowserShell` are the calls on `BrowserChrome` and, where the chrome has none,
on `BrowserApplication`. Whether the loader provides the page and everything it needs is a
choice of each navigation; a failure after some resources were loaded leaves the session as an
early failure does.

In `Transport` a step is what one thread does under one lock or between two system calls: the IO
thread peeks, loads the state, polls, receives, parses and publishes, writes; `post_message` retains
descriptors in one step and enqueues in another. `Crash` and a `VERIFY` that fails take the process
and its memory; the operating system closes its socket. Messages are well formed.

In `Resolver` the actions `Lookup...` are the returns of `lookup()` in their order, for a caller or for
a repeat timer. `LookupQuery` is the last part of the function, to a write that succeeds or fails.

### Bounds

`MaxVersion` bounds how often the origin server changes. `Requests` is finite and a
request is used once. Bodies have 0 to 2 chunks: 0 for the path where headers are
only sent on completion, 1 for the pipe path, 2 to break a transfer in the middle or,
with `PageSize = 2`, for the path that passes the body as a file. The cache is empty
at first or holds version 1, as left by an earlier run of the process.

`MaxTime` bounds the clock of `CacheIndex`: three instants order the accesses of three rows,
with ties. Sizes are small but keep the ratios that matter: an entry is at most half the
cache, three entries exceed it, the settings can lower the limit below what is stored, and the
share of the disk is below the default limit. `MaxTotal` is above the size of any table
(`TotalFits`), as the largest i64 is.

`MaxLoads` bounds the documents `BrowserShell` loads, and so the length of histories: four
suffice to go back, forward, and branch off; two to fill both of two tabs. Width 0 is a window
that is not shown.

`Transport` runs one synchronous call, one notice and one reply. The notice is two units long, and notice
and reply have three descriptors together where one write carries two; a write takes three units and
the socket holds three: so messages are cut, joined, held back for their descriptors, and
acknowledged in every way the code allows. The client may crash, the server may close after sending
what is pending. Two threads that post at one end are in an instance of their own (`two_posters`): with
both in `ipc` the run would not end in time. Between `peek` and `discard` other threads only append
to the queue, which commutes with both, so the model writes in one step.

`Resolver` has three calls, the smallest number in which one starts a query or resolution, one joins
it, and one finds what they left. One repeat stands for the five of the code; three query ids
let a name be looked up again after its result expired or was replaced.

## 3. Runs

See `PROJECT.json` for the properties of each run.

| Run | Instance | Question |
|---|---|---|
| `lock` | 2 fetches of 2 clients, 1 background request, one key, two modes, seventeen of nineteen faults | mutual exclusion, wake-ups, what handlers need, regressions, deletion; the table implements `EntryLock` |
| `serving` | 2 fetches, versions of equal size, four modes, eight faults | what is stored and what is delivered |
| `bypass` | a substituted and a shielded resource, all nineteen faults, five modes | requests that bypass the cache |
| `ends` | as `lock`, in the default mode, with fairness and seventeen faults | every request ends, or waits for an answer from outside |
| `index` | 2 variants of a key, 1 synthetic entry, 3 instants | size, memory and table agree; eviction |
| `history` | 1 tab, 4 documents | page, document, history and viewport agree |
| `tabs` | 2 tabs, 2 documents, symmetric | tabs do not affect each other |
| `ipc` | 2 ends, 3 messages, with fairness | each direction implements `Channel`; descriptors; nobody waits for ever |
| `two_posters` | 2 ends, 2 threads that post at one of them | violation, below |
| `dns` | 3 calls, 2 names, with fairness | promises are settled, once, and callers hear of it |

Two fetches and a background request are the smallest set in which the three
strengths of the lock meet on one key and one request waits for two others. Versions
of equal size matter in `serving` because the cache validates an entry by its sizes
alone: with different sizes a mismatch would be caught.

The two faults `lock` leaves out are `encoding`, whose retry multiplies its states, and `brokenpipe`;
`ends` has the retry and leaves out `tracker` and `brokenpipe`; `bypass` has all nineteen.
`HandlersArePrepared` is proved for every set of faults.

Deadlock is not checked in `RequestServer`: requests are finite in number, and when all have
ended the system is idle, as RequestServer is without clients.

### Runs that expect a violation

Each states what the repository says of the code and shows a behaviour of the code
that contradicts it.

* `leaked_reader`: `~Request` closes writers but not readers. A revalidation that
  fails before its transfer ends leaves its reader open, and requests waiting for
  the key are never notified. The run grants the code more than it has, that every lookup and
  transfer ends (`AnsweringSpec`), so that nothing else can be the reason.
* `two_posters`: `post_message` retains descriptors under one lock and enqueues the message under
  another. The pump thread of a `RemoteVideoSink` announces a frame slot with its buffer
  (`RemoteVideoSink.cpp:300`, `VideoPresentationServerConnection.cpp:71-74`) while the owner posts
  `video_edge_ready` with its pages (line 90), on one connection; the weak reference the pump threads go
  through keeps them apart from each other, not from the owner. Retained in one order and sent in the other,
  the second message loses its descriptor to the acknowledgement of the first before it has left:
  `RetainedUntilReceived` fails, against the comment in `TransportSocket.h:135`.
* `dns_shared`: a second caller for a name whose query is pending gets the promise of the first
  and replaces its handlers. When the answer comes the first caller is not told, and its request
  stays in `DNSLookup`.

Other behaviours met while modelling have no run:

* A background request does not look at the result code (`handle_complete_state`), so a transfer
  that breaks off in the body is stored as a complete entry. `RowsComplete` is checked without
  background requests.
* `CacheIndex::create_entry` makes the list of a key that was never loaded, and `find_entry` then
  never reads the key's other variants from the table. `MemoryAgrees` is stated in the one
  direction that holds.
* Going back or forward writes the new page's title and URL into the history entry that is left
  (`BrowserSession::commit`).
* `close_after_sending_all_pending_messages` may leave a message unsent: the IO thread looks for
  something to write before it loads its state, and a message posted in between with the close
  right behind it is not seen. `Channel` therefore lets a writer stop short.
* A close that stores its state while the IO thread stores `Stopped` after a hang-up makes the
  `VERIFY` after the loop fail (`IOVerifyFails`).
* A DNS query that could not be written is rejected, but its pending entry stays, and later callers
  for the name get the rejected promise until the result is replaced.
* The repeat timer of a query finds the query's own unfinished result in the cache, and
  `lookup()` returns the pending promise: the query is neither repeated nor timed out.

Three disagreements with comments or assertions are inputs or faults of the model. The comment of
`on_data_received` says that a chunk with a tracking script is accepted and discarded, but
returning 0 makes curl fail the transfer (the fault `tracker`). A `NoCache` request that
carries a Cache-Control header of its own is opened for revalidation on a fresh entry without
validators, and reaches the `VERIFY` in `handle_fetch_state`; and such a request reads a
stale-while-revalidate entry before it is revalidated.

### Fairness

`Fairness` of `RequestServer` is weak fairness of what the process does by itself: the handlers of the running
turn, the deferred calls (`NotifyRequestUnblocked`, `RequestRemoved`), which the event loop
dispatches, and the end of a transfer whose callback refused a chunk, which libcurl
brings about before it returns. Nothing is assumed of answers, and the code justifies
no such assumption: a DNS query whose repeat timer finds its own unfinished result is neither
repeated nor timed out (`Resolver.h:557-564`, `643-645`), a caller whose handlers were replaced never hears
(`dns_shared`), and of a transfer only the connection has a timeout (`CURLOPT_CONNECTTIMEOUT`,
`Request.cpp:1007`). Nor does anything oblige a client to read its pipe, the UI process to answer for
cookies, or anybody to start or stop requests.

`EveryRequestEnds` is therefore about RequestServer's part: a request ends, unless from some time on
it is `Stalled` for good. Either it awaits an answer (`AwaitsAnswer`: a lookup, cookies, the network,
the reader of its pipe), or it waits for a key of which an entry is open for a request that awaits one, or
that was destroyed with its reader open (`leaked_reader`). What remains is what the code has to give: whoever
lets the key go last wakes those who wait, the wake-up arrives, and no request is left in a state that
nothing ends. `AnsweringSpec` adds weak fairness of every answer (`Answered`). It is stronger than
the code justifies, and only a run that expects a violation uses it.

In `Transport`, threads are scheduled (`IOThread`, `OwnerThread`) and a post that has begun is finished;
nobody has to close, crash, or post. `IOMoves` states the fairness of the IO thread in
terms of its position, which TLC evaluates quickly: an IO thread that can step at all changes its
position, and only a crash also does. In `Resolver`, timers fire and workers finish, as the event loop and
`getaddrinfo` with its own timeout ensure; nothing is assumed of answers.

With a broken pipe, bytes that can no longer be written keep the request, and its lock, until the
client stops it: `ends` has no such fault.

`FinishedOnce` is checked without pipe-creation failures: when the pipe
cannot be created inside `on_data_received`, the error state runs, the callback refuses the
chunk, and the failed transfer runs the error state a second time. The client ignores
the second message (`RequestClient::request_finished`).

## 4. Properties

* `ExclusiveEntry`: a writer, or a reader under revalidation by a live request, is
  the only open entry of its key. `on_data_received` relies on it with
  `VERIFY_NOT_REACHED`.
* `NoLostWakeup`: a request in `WaitForCache` is on the list of a key that is really
  held, or its wake-up is pending, and nobody else is ever sent back to `Init`.
* `LockSpec`: both, as a refinement of `EntryLock`.
* `NoRegression`: a stored response is not replaced by an older one.
* `DeletionIsFinal`: a writer whose entry was deleted meanwhile stores nothing.
* `ServedIntact`: headers and body served from the cache belong together.
* `RowsComplete`: a row describes its file, and the file is a whole response.
* `DeliveredWhole`: success means that every byte went out, and that the body is whole unless curl
  reported a receive error, which the code forgives after some data.
* `FinishedOnce`: the client is told once that its request is over.
* `HandlersPrepared`: what the handlers of a live request use unchecked is there. `EntryPrepared`: the reader a
  read sends from, the reader a background request revalidates until it has headers of its own, the headers
  of a background writer. `TransferPrepared`: a curl handle belongs to a request in the fetch state or to one
  about to end, a refused chunk to a transfer, and a request left in the fetch state without a transfer has its
  result. `ResultPrepared`: the result of a complete request, the pipe once there are bytes.
* `EveryRequestEnds`: unless it stays `Stalled` (section 3).
* `TotalIsSum`, `MemoryAgrees`: the estimate is the sum of the table, and rows in memory are
  rows of the table.
* `LimitRestored`, `EvictsLeastRecent`, `FlushedSurvives`: storing brings the cache under
  its limit, by the least recently used rows, and not by the row just stored. The last
  holds unless other rows were accessed in the same instant: such rows are peers
  of the window function and are kept or evicted together.
* `PageIsCurrentEntry`, `BackEntriesKept`: a session shows the page of its current entry,
  and no navigation changes an entry one can go back to.
* `NodesBelongToDocument`: no pointer outlives its document.
* `ScrollInDocument`, `ViewportFollowsWindow`: viewports fit.
* `ActiveIsOpen`, `TabsAreIndependent`: tabs.
* `ChannelSpec`: each direction of a connection delivers in order, each message once, and reports
  the end only to a reader that has everything the writer got out; a refinement of `Channel`.
* `FdsBeforeBytes`, `OwnAttachments`: descriptors leave with or before their message and arrive with it.
* `RetainedAccounted`: an end keeps open as many descriptors as are being posted, queued, on the wire or
  not yet in a message of its peer, or have an acknowledgement on its way back; never fewer, and no more while
  both sockets exist. So no acknowledgement finds nothing to release, which `read_incoming_messages` would take
  for the end of the peer.
* `RetainedUntilReceived`: they are the same descriptors. It holds where one thread of an end posts
  descriptors and fails where two do (`two_posters`).
* `DispatchedInOrder`: what a synchronous wait drains is dispatched later, in order and once.
* `ComesToRest`: in the end every call and every close has returned, an owner whose peer is gone
  has closed, and what was posted on an open connection has arrived.
* `NoneForgotten`, `ResolvedOnce`: a promise somebody holds is settled or still
  known to whoever will settle it, and is resolved once.
* `EntryFound`: the pending entry a repeat timer relies on exists.
* `JoinedSettle`, `LookupEnds`: callers hear in the end. `LookupEnds` excuses a caller whose handlers
  were replaced (`dns_shared`) and one whose query lost its timer (above). The second is what becomes of
  every query whose first answer is lost: of that case the property says nothing.

## 5. Proofs

Every theorem is proved for every value of the constants that the assumptions of its modules
allow: any number of requests, keys, clients, tabs, rows, names, callers, repeats, versions, messages,
posting threads, units, descriptors.
A further condition stands in the theorem itself, as ASSUME ... PROVE. The fairness of
`Spec` is never used.

| Module | Theorem | Property | Condition |
|---|---|---|---|
| `RequestServerProof` | `TypeCorrect` | `TypeOK` | |
| | `EntriesAreExclusive` | `ExclusiveEntry` | |
| | `WakeupsAreNotLost` | `NoLostWakeup` | |
| `RequestServerTransferProof` | `HandlersArePrepared` | `HandlersPrepared` | |
| | `SuccessIsWhole` | `DeliveredWhole` | |
| | `ClientToldOnce` | `FinishedOnce` | the client's pipe can be created |
| `RequestServerStoreProof` | `StoreNeverRegresses` | `NoRegression` | |
| | `DeletedEntriesStayDeleted` | `DeletionIsFinal` | |
| | `ServedResponsesAreWhole` | `ServedIntact` | no flush stops between file and row |
| | `RowsDescribeWholeFiles` | `RowsComplete` | the same, no background revalidation, no receive error |
| | `TableImplementsLock` | `LockSpec` | |
| `CacheIndexProof` | `IndexTypeCorrect` | `TypeOK` | |
| | `MemoryMatchesTable` | `MemoryAgrees` | |
| | `EstimateIsExact` | `TotalIsSum` | |
| | `StoringRestoresLimit` | `LimitRestored` | |
| | `EvictionIsLeastRecentFirst` | `EvictsLeastRecent` | |
| | `FlushKeepsItsEntry` | `FlushedSurvives` | |
| `BrowserShellProof` | `ShellTypeCorrect` | `TypeOK` | |
| | `PagesMatchHistory` | `PageIsCurrentEntry` | |
| | `NodesAreAlive` | `NodesBelongToDocument` | |
| | `ScrollIsClamped` | `ScrollInDocument` | |
| | `ViewportsFollowWindow` | `ViewportFollowsWindow` | |
| | `ActiveTabExists` | `ActiveIsOpen` | |
| | `BackEntriesAreKept` | `BackEntriesKept` | |
| | `TabsDoNotInterfere` | `TabsAreIndependent` | |
| `ResolverProof` | `ResolverTypeCorrect` | `TypeOK` | |
| | `TimersFindTheirLookup` | `EntryFound` | |
| | `CallersAreKept` | `NoneForgotten` | |
| | `ResolvedPromisesAreFinal` | `ResolvedOnce` | |
| `TransportProof` | `TypeCorrect` | `TypeOK` | |
| | `FdsGoFirst` | `FdsBeforeBytes` | |
| | `MessagesKeepTheirAttachments` | `OwnAttachments` | |
| | `NoMessageIsOvertaken` | `DispatchedInOrder` | |
| | `DescriptorsAreAccountedFor` | `RetainedAccounted` | |
| `TransportChannelProof` | `ConnectionIsTwoChannels` | `ChannelSpec` | one thread of an end posts all messages with descriptors |

The code needs each condition. `FinishedOnce` fails when
`on_data_received` of a revalidation cannot create a pipe, reports the error and is reported
again by the transfer it then refuses. A flush that dies, or cannot reopen its file, between the rename
and the row leaves a row about an older file. A background revalidation is flushed whatever
its result, and a receive error after some data passes for the end of a body. `post_message()`
retains descriptors under one lock and enqueues the message under another: two threads that do so in
opposite orders make an acknowledgement, which lets go of the oldest, close descriptors that are still queued,
and the repository has such threads (`two_posters`). To send one of those fails and ends the IO thread, which reports the end of the stream while the peer goes on
writing: in an instance with two such threads `ChannelSpec` fails too, after 36 steps.

### The assumptions

They say of the constants what the code's types say, and bound nothing but what a bound
constant names. Five deserve a word. `CacheIndexAssumption` has finitely many variants, as a table
has, and `FiniteAssumption` finitely many threads, as a process has: what they retain is counted. `TotalFits` says that an i64 represents the size of any table there can be; without it the
saturating arithmetic of the estimate would make it inexact, and a subtraction after saturation
wrong for good. `ResolverAssumption` and `MessageAssumption` keep `None` apart from what it is the absence of.
`ThreadAssumption` lets only the thread that owns a connection make synchronous calls on it, as
the wait of `send_sync()` drains what that thread alone may drain.

### The arguments

**The lock** (`RequestServerProof`). Neither `ExclusiveEntry` nor `NoLostWakeup` is inductive. A
data callback turns a reader into a writer, and that is exclusive only because a revalidating
reader was; a request can only be taken off the waiting list safely if no callback of its transfer
can run, that is, if transfers and pending writes belong to requests past their wait. `LockInv`
adds: an unused request holds nothing and does not live; the running request lives; transfers and
pending writes belong to requests past the wait; a pending write has bytes; the list and the
pending wake-ups are disjoint. One lemma is about the table (`SetEntryKeepsQueue`: closing or opening
an entry loses nobody), one about the shape most actions share (`OrdinaryStep`: one request changes
its entry and state, the rest follows), and then one step per action.

**The lock as a refinement** (`RequestServerStoreProof`). Seen through `Grant`, every step is one of
`EntryLock` or a stutter. A request changes what it holds in one of a few ways, and each has a lemma
that says which operation of the lock it is; a step that ends a request while others wait is where
`NoLostWakeup` and `TransferInv` are needed.

**Transfers** (`RequestServerTransferProof`). `TransferInv` says of each request what its state
implies for its buffer, pipe, transfer and entry: before the transfer nothing has been fetched; what went out
came in; a result code is there when the handler of the result runs; a complete request has nothing
left to send. It needs `LockInv`, since a handler may only assume a transfer of its own.
`ReadyInv` adds what `HandlersPrepared` says of readers and transfers. That a live request which reads has its reader
is kept by steps of its own only. That a background request which connects has one needs more: that it never
skips the cache (its mode is the default one), and that it has headers once it has bytes, since the
end of a transfer with bytes still to write leaves it in the fetch state with its reader closed. A chunk is
refused only within a turn.
`ToldInv` adds that a client is told once at most, and that a live request whose client was told
waits for its removal and has no handler running.

**Stores** (`RequestServerStoreProof`). `VersionInv`: no stored version is newer than the origin's, and a
writer that knows its version finds no newer file; the second half holds because a key has one
writer. `ServingInv` relates the rows, the files, the snapshots readers hold and
what was served; a snapshot is taken of a row and a file that are both there.

**The index** (`CacheIndexProof`). `IndexInv` is about the index as a value, so that an operation that
makes several calls is a composition of lemmas, one per call: removing, creating, loading, enlarging and
trimming each turn a good index into a good one. An index is good when memory agrees with the
table and the estimate is the sum. Sums over sets of rows are folds; that two folds agree, and
that a sum splits, cannot be shown with the library's induction theorems, so the lemmas take a smallest set on which
they fail (`SmallestSubset`, by the cardinalities in a set of naturals) and remove one element of it.
Eviction then follows from what the window function selects: a prefix in the order of access.

**The shell** (`BrowserShellProof`). `ShellInv` says that every session is good (`Good`: typed, page and
history agree, pointers are into its document, the scroll position fits), that the open tabs are
distinct, and that the active one is among them; distinctness is needed because closing a tab must
not leave its session open elsewhere. Each operation on a session has a lemma. For viewports and
tabs the steps are first sorted by what they may change (`KindsOfStep`, `SessionStep`): a new tab gets the window's size, a
resize goes to all, everything else is about the active tab and keeps its size.

**The resolver** (`ResolverProof`). `QueriesInv`: timers belong to pending lookups, ids in use were
handed out, an unfinished cached result belongs to a query, and the query a cached result belongs to
has its timer after those of older queries for the same name: so the timer that fires first cannot
find the result of a lookup that has gone. `PromisesInv`: a promise has one owner among the queries and
resolutions, and only the owner's answer, timer or worker settles it. `NoneForgotten` is part of it,
as an owner that is removed must settle what it owned.

**The connection** (`TransportProof`). The stream of units is made of the queue, and the descriptors are made of
the stream, by joining what a function makes of each element (`Images`). Flattening is known to the
provers only as a function that satisfies its recursion; that it exists, is unique, and what it does with an
appended element are shown first, by induction on the length of a sequence (`SequencesByAppending`). On these rest
lemmas about what `peek` covers, what `discard` leaves, what a write puts on the wire and what
parsing takes. `TransportInv` has, besides the types,

* `Safe`: a queued message whose bytes have begun to leave has no descriptors left to send, the unsent counts add
  up to the descriptors queued, and the messages written and those whose end is still queued
  are no more than were posted;
* `Ready`: an IO thread that goes to write finds something to write and room for it, or the peer gone;
* `Life`: the threads of a dead end do nothing more, and an end without its socket has no IO thread;
* `Flow`: the descriptors that have arrived, those on the wire and those queued are, in this order, the ones
  announced by the bytes that have arrived, are on the wire and are queued. Of a writer that died
  only this is left: no byte has arrived, or will, before the descriptors it announces;
* `Owned`: what is parsed has its own descriptors. By `Flow`, the first descriptors that have
  arrived are those of the first message that ends in the bytes, and parsing takes both off
  together.

Neither `FdsBeforeBytes` nor `OwnAttachments` says enough to be kept by a step: the one is about a queue
that a write cuts at an arbitrary unit, the other about messages after they were parsed.
For `Flow` the steps are first sorted by what they do to the two sequences
(`FlowSteps`: post, write, receive, parse, hang up, die), with a lemma for each.

`RetainedAccounted` is a matter of counting, which any number of posting threads leaves right: `Counted` says that
the load of an end, what is being posted, queued, on the wire, attached at the peer and about to be acknowledged, is
at most the number it retains, and equal to it while both sockets are up. Retaining adds the same to both sides,
enqueueing, writing and receiving move descriptors from one part of the load to the next (as joined by
`Images`), parsing turns descriptors into an acknowledgement, and parsing the acknowledgement takes the same off
both sides. The load of an end only shrinks by what it loses when a socket goes.

Which descriptors these are is another matter. `RetainedInv` says, where one thread of an end posts descriptors
(`OnePoster`), that what an end retains is, in this order, descriptors its peer has parsed, those that have
arrived there, those on the wire, those queued, and those of the message its poster is about to enqueue
(`Accounted`); and that the acknowledgements under way count no more than the first part. The order is
that of one thread: a second one could enqueue what it retained later first. `Lone` says that the
others post nothing with descriptors, and `Silent` that nothing is on its way to an end that is gone. It is
used for the channel only: `RetainedUntilReceived` follows from it, and is no theorem, as the code
does not keep to one such thread.

**The channel** (`TransportChannelProof`). `ChannelInv` adds two things to `RetainedInv`. `Ends` says when an end of
the stream may be reported: an end that has not closed stops, sees `peerEof` and publishes `incomingEof` only after
its peer's socket is gone, nothing is on the wire any more and no message is left in the bytes. Its steps
need that no write and no acknowledgement fails while the peer is up, which is what `RetainedUntilReceived`
and `Accounted` give, and that what is left when parsing stops ends no message (`NothingLeft`). `Passage` says where the
messages are: those posted are those written and those whose end is queued; those written are, in this
order, the ones taken, the ones that wait to be taken, the ones whose last unit has arrived, the ones on the wire
and, of a reader that hung up, the ones it lost (`Line`). `Moves` sorts the steps by what they do to this line,
for one direction: post, write, receive, parse, take, hang up, or nothing. Each kind keeps the line
(`InLineStays`) and is a step of `Channel`, or none (`MovesOfChannel`).

### What stays with TLC

* `EveryRequestEnds`, `WaitersAreNotified`, `ComesToRest`, `JoinedSettle`, `LookupEnds`: liveness under
  fairness is out of the prover's reach.
* `ChannelSpec` where several threads of an end post descriptors: neither it nor `RetainedUntilReceived` is
  true there.
* What `EntryLock` and `Channel` promise in the long run: the refinements are of their safety parts.

## 6. Not modelled

* The files of associated data (JavaScript bytecode) and synthetic entries; their rows and
  sizes are in `CacheIndex`. CONNECT
  requests (`handle_connect_state`), web sockets, and the hand-over of a request
  between connections (`release_request_for_transfer`, `adopt_request`).
* vary keys in `RequestServer`: `Key` is the pair of cache key and vary key.
* The contents of forms, and the dirty flags of the shell's visual state. Typed text needs a focused
  control, and no call of the shell focuses one.
* In `Transport`: handing a transport to another process (`release_for_transfer`), malformed headers,
  messages that do not parse, the limits on unprocessed data, messages that arrive before the read
  hook is set up, and the transports of other platforms. `die()` of a connection is left to its service.
* In `Resolver`: DNSSEC, sockets that are still connecting, lookups for one address type, the
  read and write locks (all but the workers run on one thread), and a random query id that is
  taken already.
* LibWeb, LibJS, LibGfx, LibMedia and the other libraries, and the other services:
  they are far larger than what a model can be faithful to here, mostly sequential
  transformations of data, and tested by their own suites.
* `sendfile` on a file that is shorter than its row says: `send_without_blocking`
  would call itself for ever; the model has no step there.

## 7. Plan

`RequestServer` with `DiskCache`, then `CacheIndex`, `BrowserShell`, `Transport` and `Resolver` came
first, as the parts with the most to go wrong. Next:

1. `ConnectionFromClient` and LibRequests: transfer and adoption of requests, web sockets, CONNECT
   requests.
2. `MemoryCache` and freshness (`Utilities.cpp`) as operators checked against a reference; the ghost
   cache.
