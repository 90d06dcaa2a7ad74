--------------------------- MODULE RequestServer ---------------------------
(***************************************************************************)
(* RequestServer::Request: the state machine that serves one resource      *)
(* request, from the disk cache or from the network, composed with the     *)
(* DiskCache all requests share.                                           *)
(*                                                                         *)
(* RequestServer is a single-threaded event loop.  A handler that calls    *)
(* transition_to_state runs the next handler in the same turn; running     *)
(* names the request whose handlers are running, and an event (a client    *)
(* message, a curl or pipe callback, a deferred call) is taken only when   *)
(* it is Idle.  All interleavings are therefore interleavings of turns.    *)
(***************************************************************************)
EXTENDS DiskCache

CONSTANTS
    Clients,        \* connections from client processes
    Client,         \* the connection a request belongs to
    Modes,          \* cache modes a client may ask for
    Substituted,    \* keys g_resource_substitution_map replaces by a local file
    Blocked,        \* keys of URLs is_blocked_script_url refuses
    Faults,         \* what may go wrong
    Idle            \* not a request: the event loop is between turns

AllFaults == {"dns", "cookie", "curl", "pipe", "network", "recv", "encoding", "refuse",
              "tracker", "disk", "reopen", "toolarge", "evict", "backpressure",
              "brokenpipe", "clear", "stop", "disconnect", "crash"}

ASSUME RequestServerAssumption ==
    /\ Client \in [Requests -> Clients]
    /\ Modes \subseteq CacheModes
    /\ Substituted \subseteq Keys
    /\ Blocked \subseteq Keys
    /\ Faults \subseteq AllFaults
    /\ Idle \notin Requests

VARIABLES
    running,    \* the request whose handlers are running, or Idle
    state,      \* m_state, "unused" before the request is created
    mode,       \* m_cache_mode
    sentHeaders,\* m_sent_response_headers_to_client
    pipe,       \* m_client_request_pipe exists
    multi,      \* the curl handle is in the multi and its transfer is not over
    aborted,    \* a write callback returned something other than the chunk size
    identity,   \* m_content_decoding_disabled
    curl,       \* m_curl_result_code, "none" before the transfer is over
    ver,        \* the version the server's answer carries, 0 before it is known
    got,        \* chunks taken from curl
    out,        \* chunks written to the pipe, or consumed by a background request
    blocked,    \* m_client_writer_notifier is enabled
    finishing,  \* requests whose removal request_complete has deferred
    finished,   \* request_finished messages sent to the client
    served,     \* what was sent from the cache: row and file, Absent before
    origin      \* the version the origin server has for each key

transferVars == <<sentHeaders, pipe, multi, aborted, identity, curl, ver, got, out, blocked>>
endVars == <<finishing, finished, served>>
vars == <<cacheVars, running, state, mode, transferVars, endVars, origin>>

States == {"unused", "Init", "ReadCache", "WaitForCache", "FailedCacheOnly",
           "ServeSubstitution", "DNSLookup", "RetrieveCookie", "Fetch", "Complete", "Error"}
CurlCodes == {"OK", "Recv", "BadEncoding", "Fail"}

TypeOK ==
    /\ CacheTypeOK
    /\ running \in Requests \cup {Idle}
    /\ state \in [Requests -> States]
    /\ mode \in [Requests -> CacheModes]
    /\ sentHeaders \in [Requests -> BOOLEAN]
    /\ pipe \in [Requests -> BOOLEAN]
    /\ multi \in [Requests -> BOOLEAN]
    /\ aborted \in [Requests -> BOOLEAN]
    /\ identity \in [Requests -> BOOLEAN]
    /\ curl \in [Requests -> CurlCodes \cup {"none"}]
    /\ ver \in [Requests -> 0 .. MaxVersion]
    /\ got \in [Requests -> Nat]
    /\ out \in [Requests -> Nat]
    /\ blocked \in [Requests -> BOOLEAN]
    /\ finishing \subseteq Requests
    /\ finished \in [Requests -> Nat]
    /\ served \in [Requests -> Snapshot]
    /\ origin \in [Keys -> Version]

Init ==
    /\ CacheInit
    /\ running = Idle
    /\ state = [r \in Requests |-> "unused"]
    /\ mode = [r \in Requests |-> "Default"]
    /\ sentHeaders = [r \in Requests |-> FALSE]
    /\ pipe = [r \in Requests |-> FALSE]
    /\ multi = [r \in Requests |-> FALSE]
    /\ aborted = [r \in Requests |-> FALSE]
    /\ identity = [r \in Requests |-> FALSE]
    /\ curl = [r \in Requests |-> "none"]
    /\ ver = [r \in Requests |-> 0]
    /\ got = [r \in Requests |-> 0]
    /\ out = [r \in Requests |-> 0]
    /\ blocked = [r \in Requests |-> FALSE]
    /\ finishing = {}
    /\ finished = [r \in Requests |-> 0]
    /\ served = [r \in Requests |-> [row |-> Absent, file |-> Absent]]
    /\ origin = [k \in Keys |-> 1]

-----------------------------------------------------------------------------
(* transition_to_state and process: the next handler runs in this turn. *)

TransitionToState(r, s) ==
    /\ state' = [state EXCEPT ![r] = s]
    /\ running' = r

\* The turn ends with the request in state s, waiting for an event.
AwaitIn(r, s) ==
    /\ state' = [state EXCEPT ![r] = s]
    /\ running' = Idle

Handling(r, s) == running = r /\ state[r] = s /\ ~aborted[r]
Event(r, s) == running = Idle /\ r \in live /\ state[r] = s

\* Request::fetch, from ConnectionFromClient::start_request.
StartRequest(r, m) ==
    /\ running = Idle
    /\ r \in Fetches /\ state[r] = "unused"
    /\ live' = live \cup {r}
    /\ mode' = [mode EXCEPT ![r] = m]
    /\ TransitionToState(r, "Init")
    /\ UNCHANGED <<lockVars, marked, storeVars, snap, transferVars, endVars, origin>>

\* The deferred call of cache_entry_closed reaches one request of its list.
NotifyRequestUnblocked(r) ==
    /\ running = Idle
    /\ r \in wake
    /\ wake' = wake \ {r}
    /\ TransitionToState(r, "Init")
    /\ UNCHANGED <<live, held, waiting, marked, storeVars, snap, mode, transferVars, endVars, origin>>

-----------------------------------------------------------------------------
(* handle_initial_state *)

SearchesCache(r) == mode[r] \notin {"Reload", "Uncacheable"}
CacheOnly(r) == mode[r] \in {"OnlyIfCached", "OnlyIfCachedDirective"}

AtInit(r) == Handling(r, "Init") /\ Key[r] \notin Substituted /\ mode[r] # "NoStore"

\* Resource substitution comes first; a no-store request never asks the cache.
InitBypass(r) ==
    /\ Handling(r, "Init")
    /\ \/ Key[r] \in Substituted /\ TransitionToState(r, "ServeSubstitution")
       \/ Key[r] \notin Substituted /\ mode[r] = "NoStore" /\ TransitionToState(r, "DNSLookup")
    /\ UNCHANGED <<cacheVars, mode, transferVars, endVars, origin>>

\* open_entry found the key locked.
InitWait(r) ==
    /\ AtInit(r) /\ SearchesCache(r)
    /\ HasOpenEntry(r, r \in Revals)
    /\ WaitForKey(r)
    /\ AwaitIn(r, "WaitForCache")
    /\ UNCHANGED <<live, marked, storeVars, snap, mode, transferVars, endVars, origin>>

\* Mutant: a writer is opened without asking for the lock.
AfterMissUnlocked(r) ==
    /\ r \in Fetches /\ ~CacheOnly(r) /\ mode[r] # "Uncacheable"
    /\ OpenAs(r, "writer")
    /\ marked' = [marked EXCEPT ![r] = FALSE]
    /\ TransitionToState(r, "DNSLookup")

\* open_entry returned no reader: a cache-only request fails, a background
\* request has nothing to do, any other asks create_entry for a writer.
AfterMiss(r) ==
    \/ /\ r \in Revals
       /\ TransitionToState(r, "Complete")
       /\ UNCHANGED <<lockVars, marked>>
    \/ /\ r \in Fetches /\ CacheOnly(r)
       /\ TransitionToState(r, "FailedCacheOnly")
       /\ UNCHANGED <<lockVars, marked>>
    \/ /\ r \in Fetches /\ mode[r] = "Uncacheable"
       /\ TransitionToState(r, "DNSLookup")
       /\ UNCHANGED <<lockVars, marked>>
    \/ /\ r \in Fetches /\ ~CacheOnly(r) /\ mode[r] # "Uncacheable"
       /\ HasOpenEntry(r, TRUE)
       /\ WaitForKey(r)
       /\ AwaitIn(r, "WaitForCache")
       /\ UNCHANGED marked
    \/ /\ r \in Fetches /\ ~CacheOnly(r) /\ mode[r] # "Uncacheable"
       /\ ~HasOpenEntry(r, TRUE)
       /\ OpenAs(r, "writer")
       /\ marked' = [marked EXCEPT ![r] = FALSE]
       /\ TransitionToState(r, "DNSLookup")

\* The cache is not searched, or has no row for the key.
InitMiss(r) ==
    /\ AtInit(r)
    /\ SearchesCache(r) => ~HasOpenEntry(r, r \in Revals) /\ row[Key[r]] = Absent
    /\ AfterMiss(r)
    /\ UNCHANGED <<live, storeVars, snap, mode, transferVars, endVars, origin>>

Lookup(r) ==
    /\ AtInit(r) /\ SearchesCache(r)
    /\ ~HasOpenEntry(r, r \in Revals)
    /\ row[Key[r]] # Absent

\* CacheEntryReader::create failed: the row goes, and the file if it was read
\* and found invalid.
InitUnreadable(r) ==
    /\ Lookup(r)
    /\ "disk" \in Faults \/ file[Key[r]] = Absent
    /\ row' = Without(row, {Key[r]})
    /\ \/ UNCHANGED file
       \/ file' = Without(file, {Key[r]})
    /\ AfterMiss(r)
    /\ UNCHANGED <<live, snap, mode, transferVars, endVars, origin>>

LookupGives(r, result) ==
    /\ Lookup(r) /\ file[Key[r]] # Absent
    /\ \E status \in LifetimeStatuses(row[Key[r]].ver) : OpenResult(r, mode[r], status) = result

\* The entry expired and is removed, or a background request finds it fresh.
InitStale(r) ==
    /\ \/ LookupGives(r, "remove") /\ RemoveEntry(Key[r])
       \/ LookupGives(r, "none") /\ UNCHANGED storeVars
    /\ AfterMiss(r)
    /\ UNCHANGED <<live, snap, mode, transferVars, endVars, origin>>

\* The entry must be revalidated but another reader is open.
InitRevalidateWait(r) ==
    /\ LookupGives(r, "wait")
    /\ WaitForKey(r)
    /\ AwaitIn(r, "WaitForCache")
    /\ UNCHANGED <<live, marked, storeVars, snap, mode, transferVars, endVars, origin>>

OpenReader(r) ==
    /\ marked' = [marked EXCEPT ![r] = FALSE]
    /\ snap' = [snap EXCEPT ![r] = [row |-> row[Key[r]], file |-> file[Key[r]]]]
    /\ UNCHANGED <<storeVars, mode, transferVars, endVars, origin>>

\* A reader is opened: a revalidation goes to the network, a read to the file.
InitHit(r) ==
    /\ \/ /\ LookupGives(r, "reader")
          /\ OpenAs(r, "reader")
          /\ TransitionToState(r, IF r \in Revals THEN "DNSLookup" ELSE "ReadCache")
       \/ /\ LookupGives(r, "must")
          /\ OpenAs(r, "must")
          /\ TransitionToState(r, "DNSLookup")
    /\ OpenReader(r)
    /\ UNCHANGED live

\* The stale entry is read while a background request b revalidates it.  b is
\* created and processed inside this handler, finds the reader of r open, and
\* waits.
InitHitStaleWhileRevalidate(r, b) ==
    /\ LookupGives(r, "swr")
    /\ b \in Revals /\ state[b] = "unused"
    /\ Key[b] = Key[r] /\ Client[b] = Client[r]
    /\ held' = [held EXCEPT ![r] = "swr"]
    /\ live' = live \cup {b}
    /\ waiting' = waiting \cup {b}
    /\ UNCHANGED wake
    /\ state' = [state EXCEPT ![r] = "ReadCache", ![b] = "WaitForCache"]
    /\ running' = r
    /\ OpenReader(r)

HandleInitialState(r) ==
    \/ InitBypass(r) \/ InitWait(r) \/ InitMiss(r) \/ InitUnreadable(r) \/ InitStale(r)
    \/ InitRevalidateWait(r) \/ InitHit(r)
    \/ \E b \in Revals : InitHitStaleWhileRevalidate(r, b)

-----------------------------------------------------------------------------
(* handle_read_cache_state *)

SmallBody(r) == snap[r].row.len < PageSize

\* inform_client_request_started failed; the reader is not closed.
ReadCachePipeFails(r) ==
    /\ Handling(r, "ReadCache") /\ SmallBody(r)
    /\ "pipe" \in Faults /\ ~pipe[r]
    /\ sentHeaders' = [sentHeaders EXCEPT ![r] = TRUE]
    /\ TransitionToState(r, "Error")
    /\ UNCHANGED <<cacheVars, mode, pipe, multi, aborted, identity, curl, ver, got, out, blocked,
                   endVars, origin>>

\* send_complete: the whole body went through and the footer agrees with the row.
SendComplete(r) ==
    /\ ~marked[r] /\ FooterValid(r)
    /\ curl' = [curl EXCEPT ![r] = "OK"]
    /\ served' = [served EXCEPT ![r] = snap[r]]
    /\ TransitionToState(r, "Complete")
    /\ CacheEntryClosed(r)
    /\ UNCHANGED storeVars

\* send_error, or send_complete with a bad footer: the entry is removed.
\* sendfile returns 0 at the end of a file that is too short, and
\* send_without_blocking then calls itself for ever: such a turn never ends.
SendError(r) ==
    /\ \/ marked[r] \/ "disk" \in Faults
       \/ snap[r].file.len > snap[r].row.len
    /\ RemoveEntry(Key[r])
    /\ TransitionToState(r, "Error")
    /\ CacheEntryClosed(r)
    /\ UNCHANGED <<curl, served>>

\* The pipe is full: the write notifier is enabled.
SendBlocked(r) ==
    /\ ~marked[r] /\ "backpressure" \in Faults
    /\ AwaitIn(r, "ReadCache")
    /\ UNCHANGED <<lockVars, storeVars, curl, served>>

SendWithoutBlocking(r) == SendComplete(r) \/ SendError(r) \/ SendBlocked(r)

ReadCacheSend(r) ==
    /\ Handling(r, "ReadCache") /\ SmallBody(r)
    /\ sentHeaders' = [sentHeaders EXCEPT ![r] = TRUE]
    /\ pipe' = [pipe EXCEPT ![r] = TRUE]
    /\ SendWithoutBlocking(r)
    /\ UNCHANGED <<live, marked, snap, mode, multi, aborted, identity, ver, got, out, blocked,
                   finishing, finished, origin>>

\* m_socket_write_notifier fires.
SendResumes(r) ==
    /\ Event(r, "ReadCache")
    /\ SendWithoutBlocking(r)
    /\ UNCHANGED <<live, marked, snap, mode, sentHeaders, pipe, multi, aborted, identity, ver, got,
                   out, blocked, finishing, finished, origin>>

\* The request, and its pipe, were destroyed while the entry was being sent.  The
\* notifier of the entry still names the closed descriptor: the send fails, or
\* seems to succeed; the weak callbacks reach nobody.
SendOrphaned(r) ==
    /\ running = Idle
    /\ r \notin live /\ state[r] = "ReadCache" /\ held[r] \in Reader
    /\ \/ RemoveEntry(Key[r])
       \/ ~marked[r] /\ FooterValid(r) /\ UNCHANGED storeVars
    /\ CacheEntryClosed(r)
    /\ UNCHANGED <<live, marked, snap, running, state, mode, transferVars, endVars, origin>>

\* take_body_file always closes the entry.
ReadCacheTakeBodyFile(r) ==
    /\ Handling(r, "ReadCache") /\ ~SmallBody(r)
    /\ sentHeaders' = [sentHeaders EXCEPT ![r] = TRUE]
    /\ CacheEntryClosed(r)
    /\ \/ /\ marked[r] \/ "disk" \in Faults
          /\ TransitionToState(r, "Error")
          /\ UNCHANGED <<storeVars, curl, served>>
       \/ /\ ~marked[r] /\ ~FooterValid(r)
          /\ RemoveEntry(Key[r])
          /\ TransitionToState(r, "Error")
          /\ UNCHANGED <<curl, served>>
       \/ /\ ~marked[r] /\ FooterValid(r)
          /\ curl' = [curl EXCEPT ![r] = "OK"]
          /\ served' = [served EXCEPT ![r] = snap[r]]
          /\ TransitionToState(r, "Complete")
          /\ UNCHANGED storeVars
    /\ UNCHANGED <<live, marked, snap, mode, pipe, multi, aborted, identity, ver, got, out, blocked,
                   finishing, finished, origin>>

HandleReadCacheState(r) == ReadCachePipeFails(r) \/ ReadCacheSend(r) \/ ReadCacheTakeBodyFile(r)

-----------------------------------------------------------------------------
(* States without the cache. *)

\* A cache-only request without an entry: a network error for the Fetch API's
\* mode, a 504 response for the Cache-Control directive.
HandleFailedCacheOnlyState(r) ==
    /\ Handling(r, "FailedCacheOnly")
    /\ \/ /\ mode[r] = "OnlyIfCached" \/ "pipe" \in Faults
          /\ TransitionToState(r, "Error")
          /\ UNCHANGED <<sentHeaders, pipe, curl>>
       \/ /\ mode[r] # "OnlyIfCached"
          /\ sentHeaders' = [sentHeaders EXCEPT ![r] = TRUE]
          /\ pipe' = [pipe EXCEPT ![r] = TRUE]
          /\ curl' = [curl EXCEPT ![r] = "OK"]
          /\ TransitionToState(r, "Complete")
    /\ UNCHANGED <<cacheVars, mode, multi, aborted, identity, ver, got, out, blocked, endVars, origin>>

\* Mutant: the request completes while its bytes are still buffered.
HandleServeSubstitutionStateTooEarly(r) ==
    /\ Handling(r, "ServeSubstitution")
    /\ sentHeaders' = [sentHeaders EXCEPT ![r] = TRUE]
    /\ pipe' = [pipe EXCEPT ![r] = TRUE]
    /\ curl' = [curl EXCEPT ![r] = "OK"]
    /\ got' = [got EXCEPT ![r] = 1]
    /\ TransitionToState(r, "Complete")
    /\ UNCHANGED <<cacheVars, mode, multi, aborted, identity, ver, out, blocked, endVars, origin>>

\* The local file, one chunk long, goes through the response buffer.
HandleServeSubstitutionState(r) ==
    /\ Handling(r, "ServeSubstitution")
    /\ \/ /\ "disk" \in Faults \/ "pipe" \in Faults
          /\ TransitionToState(r, "Error")
          /\ UNCHANGED <<sentHeaders, pipe, curl, got, out, blocked>>
       \/ /\ sentHeaders' = [sentHeaders EXCEPT ![r] = TRUE]
          /\ pipe' = [pipe EXCEPT ![r] = TRUE]
          /\ curl' = [curl EXCEPT ![r] = "OK"]
          /\ got' = [got EXCEPT ![r] = 1]
          /\ \/ /\ out' = [out EXCEPT ![r] = 1]
                /\ TransitionToState(r, "Complete")
                /\ UNCHANGED blocked
             \/ /\ "backpressure" \in Faults
                /\ blocked' = [blocked EXCEPT ![r] = TRUE]
                /\ AwaitIn(r, "ServeSubstitution")
                /\ UNCHANGED out
             \/ /\ "brokenpipe" \in Faults
                /\ TransitionToState(r, "Error")
                /\ UNCHANGED <<out, blocked>>
    /\ UNCHANGED <<cacheVars, mode, multi, aborted, identity, ver, endVars, origin>>

\* handle_dns_lookup_state starts the lookup; its answer is an event.
HandleDnsLookupState(r) ==
    /\ Handling(r, "DNSLookup")
    /\ AwaitIn(r, "DNSLookup")
    /\ UNCHANGED <<cacheVars, mode, transferVars, endVars, origin>>

DnsLookupEnds(r) ==
    /\ Event(r, "DNSLookup")
    /\ \/ TransitionToState(r, "RetrieveCookie")
       \/ "dns" \in Faults /\ TransitionToState(r, "Error")
    /\ UNCHANGED <<cacheVars, mode, transferVars, endVars, origin>>

\* Without credentials the fetch starts at once; otherwise the UI process is
\* asked for cookies over the primary connection, if there is one.
HandleRetrieveCookieState(r) ==
    /\ Handling(r, "RetrieveCookie")
    /\ \/ TransitionToState(r, "Fetch")
       \/ AwaitIn(r, "RetrieveCookie")
       \/ "cookie" \in Faults /\ TransitionToState(r, "Error")
    /\ UNCHANGED <<cacheVars, mode, transferVars, endVars, origin>>

NotifyRetrievedHttpCookie(r) ==
    /\ Event(r, "RetrieveCookie")
    /\ TransitionToState(r, "Fetch")
    /\ UNCHANGED <<cacheVars, mode, transferVars, endVars, origin>>

\* handle_fetch_state: a revalidation tells the client nothing before it knows
\* that the cached response cannot be used.
HandleFetchState(r) ==
    /\ Handling(r, "Fetch")
    /\ LET informs == r \in Fetches /\ ~IsRevalidationRequest(r)
       IN  \/ /\ "curl" \in Faults \/ ("pipe" \in Faults /\ informs /\ ~pipe[r])
              /\ TransitionToState(r, "Error")
              /\ UNCHANGED <<pipe, multi>>
           \/ /\ pipe' = [pipe EXCEPT ![r] = @ \/ informs]
              /\ multi' = [multi EXCEPT ![r] = TRUE]
              /\ AwaitIn(r, "Fetch")
    /\ UNCHANGED <<cacheVars, mode, sentHeaders, aborted, identity, curl, ver, got, out, blocked,
                   endVars, origin>>

-----------------------------------------------------------------------------
(* Network events.  libcurl is external: it hands over the body chunk by   *)
(* chunk, and ends the transfer with a result code, with a failure in the  *)
(* same turn if a write callback did not accept its chunk.                 *)

Transferring(r) == running = Idle /\ r \in live /\ multi[r]

\* The version the answer to r carries.
Answer(r) == IF ver[r] = 0 THEN origin[Key[r]] ELSE ver[r]

\* on_data_received for a URL the network shield refuses.
OnDataShielded(r) ==
    /\ Transferring(r) /\ Key[r] \in Blocked
    /\ got[r] < Size[Answer(r)]
    /\ aborted' = [aborted EXCEPT ![r] = TRUE]
    /\ running' = r
    /\ UNCHANGED <<cacheVars, state, mode, sentHeaders, pipe, multi, identity, curl, ver, got, out,
                   blocked, endVars, origin>>

\* Body data for a revalidation, and the client's pipe cannot be created:
\* revalidation_failed runs the error state and the callback refuses the chunk.
OnDataPipeFails(r) ==
    /\ Transferring(r) /\ Key[r] \notin Blocked
    /\ got[r] < Size[Answer(r)]
    /\ IsRevalidationRequest(r) /\ r \in Fetches
    /\ "pipe" \in Faults /\ ~pipe[r]
    /\ RemoveEntry(Key[r])
    /\ CacheEntryClosed(r)
    /\ state' = [state EXCEPT ![r] = "Error"]
    /\ finished' = [finished EXCEPT ![r] = @ + 1]
    /\ finishing' = finishing \cup {r}
    /\ aborted' = [aborted EXCEPT ![r] = TRUE]
    /\ running' = r
    /\ UNCHANGED <<live, marked, snap, mode, sentHeaders, pipe, multi, identity, curl, ver, got, out,
                   blocked, served, origin>>

\* on_data_received.  Data for a revalidation means that the cached response
\* is out of date: its entry is removed and closed and a writer opened in its
\* place.  accepted: write_status_and_reason stored the headers.  tracker: the
\* chunk holds a tracking script and 0 is returned.  n: how many buffered
\* chunks the pipe takes; each goes to the cache after it went to the client.
OnDataReceived(r, accepted, tracker, n, broken, diskOK) ==
    LET reval   == IsRevalidationRequest(r)
        deleted == ~reval /\ marked[r]
        full    == got[r] + 1 - out[r]
        writer0 == reval \/ held[r] = "writer"
        writer1 == writer0 /\ (sentHeaders[r] \/ (accepted /\ ~deleted))
        writer2 == writer1 /\ (n > 0 => diskOK /\ ~deleted)
    IN  /\ Transferring(r) /\ Key[r] \notin Blocked
        /\ got[r] < Size[Answer(r)]
        /\ ~accepted => "refuse" \in Faults /\ writer0 /\ ~sentHeaders[r]
        /\ ~diskOK => "disk" \in Faults /\ writer1 /\ n > 0
        /\ tracker => "tracker" \in Faults /\ n = 0 /\ ~broken
        /\ broken => "brokenpipe" \in Faults /\ n < full
        /\ n < full /\ ~broken /\ ~tracker => "backpressure" \in Faults
        /\ r \in Revals /\ ~tracker => n = full
        /\ n \in 0 .. full
        /\ ver' = [ver EXCEPT ![r] = Answer(r)]
        /\ IF reval THEN RemoveEntry(Key[r]) ELSE UNCHANGED storeVars
        /\ marked' = [marked EXCEPT ![r] = deleted]
        /\ SetEntry(r, IF writer2 THEN "writer" ELSE IF writer0 THEN "none" ELSE held[r],
                    reval \/ (writer0 /\ ~writer2))
        /\ sentHeaders' = [sentHeaders EXCEPT ![r] = TRUE]
        /\ pipe' = [pipe EXCEPT ![r] = @ \/ (reval /\ r \in Fetches)]
        /\ got' = [got EXCEPT ![r] = IF tracker THEN @ ELSE @ + 1]
        /\ out' = [out EXCEPT ![r] = @ + n]
        /\ blocked' = [blocked EXCEPT ![r] = IF tracker \/ broken THEN @ ELSE n < full]
        /\ aborted' = [aborted EXCEPT ![r] = tracker \/ broken]
        /\ running' = IF tracker \/ broken THEN r ELSE Idle
        /\ UNCHANGED <<live, snap, state, mode, multi, identity, curl, endVars, origin>>

\* The transfer of r ends: by itself, or because a callback refused a chunk.
FetchEnds(r, code) ==
    /\ r \in live /\ multi[r]
    /\ \/ running = Idle /\ ~aborted[r]
       \/ running = r /\ aborted[r] /\ code = "Fail"
    /\ code = "Recv" => "recv" \in Faults /\ ver[r] # 0
    /\ code = "Fail" => aborted[r] \/ "network" \in Faults
    /\ code = "BadEncoding" => "encoding" \in Faults /\ got[r] = 0 /\ ver[r] = 0

NotModified(r) == IsRevalidationRequest(r) /\ got[r] = 0 /\ snap[r].row.ver = origin[Key[r]]

\* notify_fetch_complete: an unsupported content coding is retried once with
\* decoding disabled, while nothing has been sent to the client.
FetchRetried(r) ==
    /\ FetchEnds(r, "BadEncoding")
    /\ ~identity[r] /\ ~sentHeaders[r] /\ out[r] = 0
    /\ identity' = [identity EXCEPT ![r] = TRUE]
    /\ multi' = [multi EXCEPT ![r] = FALSE]
    /\ TransitionToState(r, "Fetch")
    /\ UNCHANGED <<cacheVars, mode, sentHeaders, pipe, aborted, curl, ver, got, out, blocked, endVars, origin>>

\* Mutant: a revalidated entry is closed although it is about to be read.
FetchNotModifiedClosing(r) ==
    /\ FetchEnds(r, "OK") /\ NotModified(r)
    /\ multi' = [multi EXCEPT ![r] = FALSE]
    /\ TransitionToState(r, IF r \in Fetches THEN "ReadCache" ELSE "Complete")
    /\ CacheEntryClosed(r)
    /\ UNCHANGED <<live, marked, storeVars, snap, mode, sentHeaders, pipe, aborted, identity, curl, ver,
                   got, out, blocked, endVars, origin>>

\* A 304 answer: the row keeps its version with refreshed headers, and the
\* reader is kept for a read that follows, closed for a background request.
FetchNotModified(r) ==
    /\ FetchEnds(r, "OK") /\ NotModified(r)
    /\ multi' = [multi EXCEPT ![r] = FALSE]
    /\ IF r \in Fetches
       THEN TransitionToState(r, "ReadCache") /\ UNCHANGED lockVars
       ELSE TransitionToState(r, "Complete") /\ CacheEntryClosed(r)
    /\ UNCHANGED <<live, marked, storeVars, snap, mode, sentHeaders, pipe, aborted, identity, curl, ver,
                   got, out, blocked, endVars, origin>>

\* A revalidation ends without a 304 and without data, and the client cannot
\* be told: the error state has run when notify_fetch_complete returns.
FetchPipeFails(r, code) ==
    /\ FetchEnds(r, code) /\ IsRevalidationRequest(r) /\ r \in Fetches
    /\ code = "OK" => Size[Answer(r)] = 0
    /\ code = "BadEncoding" => identity[r]
    /\ "pipe" \in Faults /\ ~pipe[r]
    /\ multi' = [multi EXCEPT ![r] = FALSE]
    /\ aborted' = [aborted EXCEPT ![r] = FALSE]
    /\ RemoveEntry(Key[r])
    /\ CacheEntryClosed(r)
    /\ TransitionToState(r, "Error")
    /\ UNCHANGED <<live, marked, snap, mode, sentHeaders, pipe, identity, curl, ver, got, out, blocked,
                   endVars, origin>>

\* Mutant: the request completes although body bytes are still buffered.
FetchCompleteTooEarly(r, code) ==
    /\ FetchEnds(r, code) /\ ~IsRevalidationRequest(r)
    /\ code = "OK" => got[r] = Size[Answer(r)]
    /\ code = "BadEncoding" => identity[r] \/ sentHeaders[r] \/ out[r] # 0
    /\ multi' = [multi EXCEPT ![r] = FALSE]
    /\ aborted' = [aborted EXCEPT ![r] = FALSE]
    /\ curl' = [curl EXCEPT ![r] = code]
    /\ ver' = [ver EXCEPT ![r] = IF code = "OK" THEN Answer(r) ELSE @]
    /\ TransitionToState(r, "Complete")
    /\ UNCHANGED <<live, marked, storeVars, snap, lockVars, mode, sentHeaders, pipe, identity, got, out,
                   blocked, endVars, origin>>

\* Any other end.  A revalidation that is still open loses its entry; the
\* request completes when everything received has been written out.
FetchComplete(r, code) ==
    LET reval == IsRevalidationRequest(r)
    IN  /\ FetchEnds(r, code)
        /\ code = "OK" => got[r] = Size[Answer(r)]
        /\ code = "BadEncoding" => identity[r] \/ sentHeaders[r] \/ out[r] # 0
        /\ multi' = [multi EXCEPT ![r] = FALSE]
        /\ aborted' = [aborted EXCEPT ![r] = FALSE]
        /\ curl' = [curl EXCEPT ![r] = code]
        /\ ver' = [ver EXCEPT ![r] = IF code = "OK" THEN Answer(r) ELSE @]
        /\ IF reval THEN RemoveEntry(Key[r]) /\ CacheEntryClosed(r)
                    ELSE UNCHANGED <<storeVars, lockVars>>
        /\ pipe' = [pipe EXCEPT ![r] = @ \/ (reval /\ r \in Fetches)]
        /\ sentHeaders' = [sentHeaders EXCEPT ![r] = @ \/ (reval /\ code = "OK")]
        /\ IF got[r] = out[r] THEN TransitionToState(r, "Complete")
                              ELSE running' = Idle /\ UNCHANGED state
        /\ UNCHANGED <<live, marked, snap, mode, identity, got, out, blocked, endVars, origin>>

NotifyFetchComplete(r) ==
    \/ FetchRetried(r) \/ FetchNotModified(r)
    \/ \E code \in CurlCodes : FetchPipeFails(r, code) \/ FetchComplete(r, code)

\* m_client_writer_notifier: the client made room in the pipe, or closed it.
WriteQueuedBytes(r, n, broken, diskOK) ==
    LET full  == got[r] - out[r]
        loses == held[r] = "writer" /\ n > 0 /\ (marked[r] \/ ~diskOK)
    IN  /\ running = Idle /\ r \in live /\ blocked[r]
        /\ n \in 0 .. full
        /\ broken => "brokenpipe" \in Faults /\ n < full
        /\ ~broken => n > 0
        /\ ~diskOK => "disk" \in Faults /\ n > 0 /\ held[r] = "writer"
        /\ out' = [out EXCEPT ![r] = @ + n]
        /\ blocked' = [blocked EXCEPT ![r] = ~broken /\ n < full]
        /\ IF loses THEN CacheEntryClosed(r) ELSE UNCHANGED lockVars
        /\ IF n = full /\ curl[r] # "none" THEN TransitionToState(r, "Complete")
                                           ELSE UNCHANGED <<running, state>>
        /\ UNCHANGED <<live, marked, storeVars, snap, mode, sentHeaders, pipe, multi, aborted, identity,
                       curl, ver, got, endVars, origin>>

-----------------------------------------------------------------------------
(* The end of a request. *)

\* request_complete: the client's connection removes the request in a later turn.
RequestComplete(r) ==
    /\ finishing' = finishing \cup {r}
    /\ finished' = [finished EXCEPT ![r] = IF r \in Fetches THEN @ + 1 ELSE @]
    /\ running' = Idle

\* What the writer of r has stored in its temporary file.
Written(r) == [ver |-> ver[r], len |-> out[r]]

\* Mutant: the writer does not look whether its entry was deleted meanwhile.
FlushIgnoringDeletion(r) ==
    /\ CacheEntryClosed(r)
    /\ \/ "disk" \in Faults /\ FlushFails(r)
       \/ FlushStores(r, Written(r), {})

\* flush and flush_and_take_body_file; the entry is closed whatever happens.
Flush(r) ==
    /\ CacheEntryClosed(r)
    /\ \/ marked[r] /\ FlushFails(r)
       \/ "disk" \in Faults /\ FlushFails(r)
       \/ /\ ~marked[r] /\ "reopen" \in Faults
          /\ r \in Fetches /\ out[r] >= PageSize
          /\ FlushLosesRow(r, Written(r))
       \/ ~marked[r] /\ "toolarge" \in Faults /\ FlushRefused(r)
       \/ ~marked[r] /\ FlushStores(r, Written(r), {})
       \/ /\ ~marked[r] /\ "evict" \in Faults
          /\ \E ks \in SUBSET (RowKeys \cup {Key[r]}) : FlushStores(r, Written(r), ks)

\* Mutant: every error is forgiven once data came through.
EffectiveCodeForgiving(r) == IF out[r] # 0 THEN "OK" ELSE curl[r]

\* A receive error is no error if some data came through and the response did
\* not announce its length.
EffectiveCode(r) == IF curl[r] = "Recv" /\ out[r] # 0 THEN "OK" ELSE curl[r]

CompleteFails(r) ==
    /\ Handling(r, "Complete")
    /\ r \in Fetches /\ EffectiveCode(r) # "OK"
    /\ TransitionToState(r, "Error")
    /\ UNCHANGED <<cacheVars, mode, transferVars, endVars, origin>>

\* Without a body the headers are only sent now, and the writer may refuse them.
CompleteWithoutFlush(r) ==
    /\ Handling(r, "Complete")
    /\ r \in Fetches => EffectiveCode(r) = "OK"
    /\ \/ held[r] # "writer" /\ UNCHANGED lockVars
       \/ /\ held[r] = "writer" /\ r \in Fetches /\ ~sentHeaders[r]
          /\ marked[r] \/ "refuse" \in Faults
          /\ CacheEntryClosed(r)
    /\ sentHeaders' = [sentHeaders EXCEPT ![r] = @ \/ r \in Fetches]
    /\ RequestComplete(r)
    /\ UNCHANGED <<live, marked, storeVars, snap, state, mode, pipe, multi, aborted, identity, curl, ver,
                   got, out, blocked, served, origin>>

CompleteWithFlush(r) ==
    /\ Handling(r, "Complete")
    /\ r \in Fetches => EffectiveCode(r) = "OK"
    /\ held[r] = "writer"
    /\ ~sentHeaders[r] => ~marked[r]
    /\ Flush(r)
    /\ sentHeaders' = [sentHeaders EXCEPT ![r] = @ \/ r \in Fetches]
    /\ RequestComplete(r)
    /\ UNCHANGED <<live, snap, state, mode, pipe, multi, aborted, identity, curl, ver, got, out, blocked,
                   served, origin>>

HandleCompleteState(r) == CompleteFails(r) \/ CompleteWithoutFlush(r) \/ CompleteWithFlush(r)

HandleErrorState(r) ==
    /\ Handling(r, "Error")
    /\ RequestComplete(r)
    /\ UNCHANGED <<cacheVars, state, mode, transferVars, served, origin>>

\* ~Request for every request in S: the transfer is dropped and an unfinished
\* writer closed.  A reader is left open.
DestroyRequests(S) ==
    LET closed == {r \in S : held[r] = "writer"}
        freed  == {r \in waiting : Holders(Key[r]) # {} /\ Holders(Key[r]) \subseteq closed}
    IN  /\ live' = live \ S
        /\ held' = [r \in Requests |-> IF r \in closed THEN "none" ELSE held[r]]
        /\ waiting' = waiting \ (freed \cup S)
        /\ wake' = (wake \cup freed) \ S
        /\ multi' = [r \in Requests |-> multi[r] /\ r \notin S]
        /\ blocked' = [r \in Requests |-> blocked[r] /\ r \notin S]
        /\ finishing' = finishing \ S
        /\ UNCHANGED <<marked, storeVars, snap, running, state, mode, sentHeaders, pipe, aborted, identity,
                       curl, ver, got, out, finished, served, origin>>

\* The removal request_complete deferred.
RequestRemoved(r) ==
    /\ running = Idle /\ r \in finishing
    /\ DestroyRequests({r})

\* The client stops a request it started.
StopRequest(r) ==
    /\ running = Idle /\ "stop" \in Faults
    /\ r \in live \cap Fetches
    /\ DestroyRequests({r})

\* The connection dies with all its requests, background ones included.
ClientDisconnects(c) ==
    /\ running = Idle /\ "disconnect" \in Faults
    /\ \E r \in live : Client[r] = c
    /\ DestroyRequests({r \in live : Client[r] = c})

-----------------------------------------------------------------------------
(* The rest of the world. *)

\* remove_cache_entries_accessed_since, for whatever keys were accessed.
RemoveEntriesAccessedSince(ks) ==
    /\ running = Idle /\ "clear" \in Faults
    /\ ks # {}
    /\ DeleteEntries(ks)
    /\ UNCHANGED <<live, lockVars, snap, running, state, mode, transferVars, endVars, origin>>

\* The process dies between two turns, or between the rename of a new entry
\* file and the index row that describes it, and is started again.  Only the
\* stores survive.
Crash ==
    /\ "crash" \in Faults
    /\ \/ running = Idle /\ UNCHANGED file
       \/ \E r \in Requests :
            /\ Handling(r, "Complete") /\ held[r] = "writer" /\ ~marked[r]
            /\ r \in Fetches => EffectiveCode(r) = "OK"
            /\ file' = [file EXCEPT ![Key[r]] = Written(r)]
    /\ live # {}
    /\ live' = {}
    /\ held' = [r \in Requests |-> "none"]
    /\ waiting' = {} /\ wake' = {} /\ finishing' = {}
    /\ running' = Idle
    /\ multi' = [r \in Requests |-> FALSE]
    /\ blocked' = [r \in Requests |-> FALSE]
    /\ UNCHANGED <<marked, row, snap, state, mode, sentHeaders, pipe, aborted, identity, curl, ver, got,
                   out, finished, served, origin>>

\* The origin server replaces the resource.
OriginChanges(k) ==
    /\ running = Idle
    /\ origin[k] < MaxVersion
    /\ origin' = [origin EXCEPT ![k] = @ + 1]
    /\ UNCHANGED <<cacheVars, running, state, mode, transferVars, endVars>>

-----------------------------------------------------------------------------
OnData(r) ==
    \/ OnDataShielded(r) \/ OnDataPipeFails(r)
    \/ \E accepted, tracker, broken, diskOK \in BOOLEAN, n \in 0 .. (got[r] + 1) :
          OnDataReceived(r, accepted, tracker, n, broken, diskOK)

WriterNotifier(r) ==
    \E broken, diskOK \in BOOLEAN, n \in 0 .. got[r] : WriteQueuedBytes(r, n, broken, diskOK)

\* A handler of the running turn.
Process(r) ==
    \/ HandleInitialState(r) \/ HandleReadCacheState(r) \/ HandleFailedCacheOnlyState(r)
    \/ HandleServeSubstitutionState(r) \/ HandleDnsLookupState(r) \/ HandleRetrieveCookieState(r)
    \/ HandleFetchState(r) \/ HandleCompleteState(r) \/ HandleErrorState(r)

\* Answers the request waits for.
Answered(r) ==
    \/ DnsLookupEnds(r) \/ NotifyRetrievedHttpCookie(r) \/ OnData(r) \/ NotifyFetchComplete(r)
    \/ SendResumes(r) \/ WriterNotifier(r)

Next ==
    \/ \E r \in Fetches, m \in Modes : StartRequest(r, m)
    \/ \E r \in Requests :
          \/ NotifyRequestUnblocked(r) \/ Process(r) \/ Answered(r) \/ SendOrphaned(r)
          \/ RequestRemoved(r) \/ StopRequest(r)
    \/ \E c \in Clients : ClientDisconnects(c)
    \/ \E ks \in SUBSET RowKeys : RemoveEntriesAccessedSince(ks)
    \/ \E k \in Keys : OriginChanges(k)
    \/ Crash

Spec == Init /\ [][Next]_vars

\* The event loop runs a turn to its end, and every deferred call.  libcurl ends
\* a transfer whose callback refused a chunk before it returns.
Fairness ==
    \A r \in Requests :
        /\ WF_vars(Process(r))
        /\ WF_vars(running = r /\ NotifyFetchComplete(r))
        /\ WF_vars(NotifyRequestUnblocked(r))
        /\ WF_vars(RequestRemoved(r))

FairSpec == Spec /\ Fairness

\* An environment better than the code can count on: every lookup, every request
\* for cookies and every transfer ends, and clients read their pipes.  A query
\* whose repeat timer finds its own unfinished result is neither repeated nor
\* timed out, and of a transfer only the connection is given a limit in time.
AnsweringSpec == FairSpec /\ \A r \in Requests : WF_vars(Answered(r))

-----------------------------------------------------------------------------
(* Properties. *)

\* Writers, and readers whose live request revalidates them, are exclusive.
Exclusive(r) == held[r] = "writer" \/ IsRevalidationRequest(r)

\* The table of open entries as a lock.
Grant == [r \in Requests |->
            IF Exclusive(r) THEN "exclusive" ELSE IF held[r] = "none" THEN "free" ELSE "shared"]

Lock == INSTANCE EntryLock WITH grant <- Grant, queue <- waiting, retry <- wake

\* The requests use the table of open entries as a shared/exclusive lock:
\* check_if_cache_has_open_entry keeps conflicting entries apart, and only
\* cache_entry_closed for the last entry of a key takes requests off the list.
LockSpec == Lock!Spec

\* A writer, and a reader whose live request revalidates it, is the only open
\* entry of its key.  on_data_received relies on it (VERIFY_NOT_REACHED,
\* "cache revalidation holds an exclusive lock on the cache entry").
ExclusiveEntry ==
    \A r, q \in Requests : r # q /\ Key[r] = Key[q] /\ Exclusive(r) => held[q] = "none"

\* A request in WaitForCache is on the list of its key or has its wake-up
\* pending, the list is only kept while some entry of the key is open to be
\* closed, and only a request in WaitForCache is ever sent back to Init.
NoLostWakeup ==
    /\ \A r \in live : state[r] = "WaitForCache" => r \in waiting \cup wake
    /\ \A r \in waiting \cup wake : r \in live /\ state[r] = "WaitForCache"
    /\ \A r \in waiting : Holders(Key[r]) # {}

\* The strengthening that makes ExclusiveEntry and NoLostWakeup inductive: a
\* request that does not exist yet has no entry, the running request exists, a
\* transfer or a pending write belongs to a request past its wait, a pending
\* write has bytes to write, and a request is not both on the list and woken.
UnusedHoldsNothing == \A r \in Requests : state[r] = "unused" => held[r] = "none" /\ r \notin live
RunningLives == \A r \in Requests : running = r => r \in live
PastWait(r) == state[r] \in {"Fetch", "ServeSubstitution", "Complete", "Error"}
TransfersPastWait == \A r \in Requests : multi[r] \/ blocked[r] => PastWait(r)
WritesPending == \A r \in Requests : blocked[r] => got[r] # 0

LockInv ==
    /\ ExclusiveEntry
    /\ NoLostWakeup
    /\ UnusedHoldsNothing
    /\ RunningLives
    /\ TransfersPastWait
    /\ WritesPending
    /\ waiting \cap wake = {}

\* What is sent to a client from the cache is one response: the headers of the
\* row and the body of the file it was opened with are of the same version.
ServedIntact == \A r \in Requests : served[r].row.ver = served[r].file.ver

\* An index row describes the file on disk, and the file holds the whole body
\* of one version (CacheIndex.h: a row is created once the entire entry has
\* been written).
RowsComplete ==
    \A k \in RowKeys : file[k] = row[k] /\ row[k].len = Size[row[k].ver]

\* A request that is reported as successful has been given the whole body: all
\* that was taken from curl, and all that the server's answer holds.  A receive
\* error after some data is taken for the end of the body (handle_complete_state).
DeliveredWhole ==
    \A r \in Fetches : state[r] = "Complete" /\ r \in finishing
        => out[r] = got[r] /\ (ver[r] # 0 /\ curl[r] # "Recv" => got[r] = Size[ver[r]])

\* The client is told once that its request is over.
FinishedOnce == \A r \in Requests : finished[r] <= 1

\* What the handlers of r need of the cache: the reader that a read sends from
\* and that a background request revalidates (VERIFY in
\* send_transferred_body_file_to_client, headers in handle_fetch_state), until it
\* becomes the writer.  A writer a background request flushes was given headers.
EntryPrepared(r) ==
    /\ state[r] = "ReadCache" => held[r] \in Reader
    /\ r \in Revals /\ state[r] \in {"DNSLookup", "RetrieveCookie", "Fetch"} /\ ~sentHeaders[r]
        => held[r] \in Reader
    /\ held[r] = "writer" /\ r \in Revals => sentHeaders[r]

\* What they need of the transfer: a handle of libcurl belongs to a request in
\* the fetch state, a refused chunk to a transfer that libcurl is about to end,
\* and a request that is left with bytes to write when its transfer is over has
\* the result the write notifier looks for (write_queued_bytes_without_blocking).
TransferPrepared(r) ==
    /\ multi[r] => state[r] = "Fetch" \/ (aborted[r] /\ running = r)
    /\ aborted[r] => multi[r] /\ running = r
    /\ state[r] = "Fetch" /\ running # r /\ ~multi[r] => curl[r] # "none"

\* And of what goes to the client: the result code once it is complete, the pipe
\* once body bytes are queued.
ResultPrepared(r) ==
    /\ state[r] = "Complete" /\ r \in Fetches => curl[r] # "none"
    /\ got[r] > 0 /\ r \in Fetches => pipe[r]

\* The entry, the transfer, the pipe and the result a handler uses unchecked are
\* there whenever it may run, whatever interleaving of turns led to it.
HandlersPrepared ==
    \A r \in live : EntryPrepared(r) /\ TransferPrepared(r) /\ ResultPrepared(r)

\* A stored response is never replaced by an older one.
NoRegression == [][\A k \in Keys : file'[k].ver # 0 => file'[k].ver >= file[k].ver]_vars

\* An entry that was deleted while it was being written is not stored.
DeletionIsFinal ==
    [][\A r \in Requests : held[r] = "writer" /\ marked[r] /\ held'[r] = "none"
            => row'[Key[r]] = row[Key[r]] /\ file'[Key[r]] = file[Key[r]]]_vars

\* A request whose next step is not RequestServer's: the resolver, the UI
\* process, the server or the reader of its pipe may for ever not take it.
AwaitsAnswer(r) ==
    /\ r \in live /\ running # r
    /\ state[r] \in {"DNSLookup", "RetrieveCookie", "ReadCache"} \/ multi[r] \/ blocked[r]

\* What may keep r for ever: it awaits an answer itself, or an entry of its key
\* is open for a request that does, or for one that was destroyed before its
\* reader was closed (~Request closes writers only).
Stalled(r) ==
    \/ AwaitsAnswer(r)
    \/ r \in waiting /\ \E q \in Holders(Key[r]) : AwaitsAnswer(q) \/ q \notin live

\* Every request ends, unless from some time on it awaits an answer from outside
\* that does not come, or waits for an entry that such a request, or a destroyed
\* one, keeps open.  Nothing else stops a request: a wake-up that was deferred
\* reaches it, and whoever lets its key go last wakes it.
EveryRequestEnds ==
    \A r \in Requests : []<>(r \notin live) \/ <>[]Stalled(r)

\* "Do nothing; we are waiting for the disk cache to notify us to proceed"
\* (process, for WaitForCache): the notification comes.
WaitersAreNotified ==
    \A r \in Requests : r \in waiting ~> r \notin waiting
=============================================================================
