----------------------------- MODULE Transport -----------------------------
(***************************************************************************)
(* An IPC connection between two processes: a TransportSocket with its IO  *)
(* thread at each end of a stream socket, and the ConnectionBase that      *)
(* posts, drains and dispatches on the thread that owns it.  Other threads *)
(* of a process may post as well.                                          *)
(*                                                                         *)
(* Bytes are counted in units: a header with a small payload is one unit,  *)
(* larger payloads are cut into several.  A file descriptor is named by    *)
(* the message it is attached to and its position there.                   *)
(***************************************************************************)
EXTENDS Naturals, Sequences, FiniteSets, SequencesExt

CONSTANTS
    End,            \* the two ends of the connection
    Thread,         \* threads that post
    At,             \* the end a thread belongs to
    Owner,          \* the thread that owns the connection of an end
    Msg,            \* payload messages
    Program,        \* messages each thread posts, in order
    Units,          \* length of a message
    FdCount,        \* attachments of a message
    Reply,          \* the reply to each synchronous request
    Closes,         \* how the owner of an end may close it: "now", "pending"
    MayCrash,       \* ends whose process may die
    PeekUnits,      \* the 4096 bytes one write takes from the queue
    MaxTransferFds, \* LocalSocket::MAX_TRANSFER_FDS
    SocketCapacity  \* units the operating system buffers

Request == DOMAIN Reply
None == "none"

ASSUME EndAssumption == \E a, b \in End : a # b /\ End = {a, b}
ASSUME ThreadAssumption ==
    /\ At \in [Thread -> End]
    /\ Owner \in [End -> Thread]
    /\ \A e \in End : At[Owner[e]] = e
    /\ Program \in [Thread -> Seq(Msg)]
    \* Only the owner may call send_sync().
    /\ \A t \in Thread : (\E e \in End : t = Owner[e])
                          \/ \A i \in 1..Len(Program[t]) : Program[t][i] \notin Request
ASSUME FiniteAssumption == IsFiniteSet(Thread)
ASSUME MessageAssumption ==
    /\ Units \in [Msg -> Nat \ {0}]
    /\ FdCount \in [Msg -> 0..MaxTransferFds]
    /\ Request \subseteq Msg /\ Reply \in [Request -> Msg \ Request]
    /\ None \notin Msg
ASSUME BoundAssumption ==
    /\ PeekUnits \in Nat \ {0}
    /\ MaxTransferFds \in Nat
    /\ SocketCapacity \in Nat \ {0}
    /\ DOMAIN Closes = End /\ \A e \in End : Closes[e] \subseteq {"now", "pending"}
    /\ MayCrash \subseteq End

VARIABLES
    \* posting threads
    todo,       \* messages each thread has still to post
    retaining,  \* the message whose attachments a thread has handed over
    \* TransportSocket
    open,       \* m_socket_is_open
    state,      \* m_io_thread_state
    queue,      \* SendQueue::m_queued_messages
    queueFds,   \* SendQueue::m_fds
    retained,   \* m_fds_retained_until_received_by_peer
    wake,       \* a byte in the wakeup pipe
    bytes,      \* m_unprocessed_bytes
    attached,   \* m_unprocessed_attachments
    peerEof,    \* m_peer_eof
    incoming,   \* m_incoming_messages
    incomingEof,\* m_incoming_eof
    notify,     \* a byte in the notify pipe
    \* IO thread
    io,         \* where it is in io_thread_loop
    want,       \* want_to_write
    revents,    \* what poll reported
    \* ConnectionBase, on the owner thread
    main,       \* what the owner thread is doing
    awaited,    \* the request whose reply it waits for
    unprocessed,\* m_unprocessed_messages
    deferred,   \* deferred_invoke queue
    \* the operating system
    wire,       \* units and descriptors written by an end and not yet read
    up,         \* this end of the socket exists
    \* history
    posted,     \* messages enqueued by an end, in order
    written,    \* how many of them are wholly on the wire
    taken,      \* messages drained by an end, in order
    ended,      \* the end of the stream was reported to the owner
    handled,    \* messages dispatched by an end, in order
    outcome     \* what became of each request

posters == <<todo, retaining>>
sending == <<queue, queueFds, retained>>
receiving == <<bytes, attached, peerEof, incoming, incomingEof, notify>>
ioThread == <<io, want, revents>>
connection == <<main, awaited, unprocessed, deferred>>
os == <<wire, up>>
history == <<posted, written, taken, ended, handled, outcome>>
vars == <<posters, open, state, sending, wake, receiving, ioThread, connection, os, history>>

Peer(e) == CHOOSE p \in End : p # e

\* What f makes of each element of the sequence S, joined; the elements that
\* pass a test; the sum of a sequence of numbers.
Each(S, f(_)) == FlattenSeq([i \in 1..Len(S) |-> f(S[i])])
Those(S, Test(_)) == Each(S, LAMBDA x : IF Test(x) THEN <<x>> ELSE <<>>)
Total(N) == LET sum[i \in 0..Len(N)] == IF i = 0 THEN 0 ELSE sum[i - 1] + N[i] IN sum[Len(N)]

\* Descriptor i of message m; the descriptors of m in order.
Descriptor == Msg \X Nat
Fds(m) == [i \in 1..FdCount[m] |-> <<m, i>>]

\* A frame is what follows one SocketMessageHeader.
Payload(m) == [type |-> "Payload", msg |-> m, fds |-> FdCount[m]]
\* Mutant: an acknowledgement counts one descriptor too many.
AcknowledgementOfOneMore(n) == [type |-> "FileDescriptorAcknowledgement", msg |-> None, fds |-> n + 1]

Acknowledgement(n) == [type |-> "FileDescriptorAcknowledgement", msg |-> None, fds |-> n]
Frame == {f \in [type : {"Payload", "FileDescriptorAcknowledgement"}, msg : Msg \cup {None}, fds : Nat] :
             IF f.type = "Payload" THEN f.msg \in Msg /\ f.fds = FdCount[f.msg] ELSE f.msg = None}
Size(f) == IF f.type = "Payload" THEN Units[f.msg] ELSE 1

Queued(f) == [frame |-> f, offset |-> 0, unsent |-> IF f.type = "Payload" THEN f.fds ELSE 0]

Init ==
    /\ todo = Program
    /\ retaining = [t \in Thread |-> None]
    /\ open = [e \in End |-> TRUE]
    /\ state = [e \in End |-> "Running"]
    /\ queue = [e \in End |-> <<>>]
    /\ queueFds = [e \in End |-> <<>>]
    /\ retained = [e \in End |-> <<>>]
    /\ wake = [e \in End |-> FALSE]
    /\ bytes = [e \in End |-> <<>>]
    /\ attached = [e \in End |-> <<>>]
    /\ peerEof = [e \in End |-> FALSE]
    /\ incoming = [e \in End |-> <<>>]
    /\ incomingEof = [e \in End |-> FALSE]
    /\ notify = [e \in End |-> FALSE]
    /\ io = [e \in End |-> "loop"]
    /\ want = [e \in End |-> FALSE]
    /\ revents = [e \in End |-> {}]
    /\ main = [e \in End |-> "events"]
    /\ awaited = [e \in End |-> None]
    /\ unprocessed = [e \in End |-> <<>>]
    /\ deferred = [e \in End |-> <<>>]
    /\ wire = [e \in End |-> <<>>]
    /\ up = [e \in End |-> TRUE]
    /\ posted = [e \in End |-> <<>>]
    /\ written = [e \in End |-> 0]
    /\ taken = [e \in End |-> <<>>]
    /\ ended = [e \in End |-> FALSE]
    /\ handled = [e \in End |-> <<>>]
    /\ outcome = [m \in Request |-> None]

-----------------------------------------------------------------------------
(* Posting.  post_message() retains the attachments under one lock and      *)
(* enqueues the message under another.                                      *)

\* A thread that is not the owner posts whenever it likes; the owner only
\* between two events.
MayPost(t) == t = Owner[At[t]] => main[At[t]] = "events"

\* ConnectionBase::post_message() refuses on a closed transport.
PostRefused(t) ==
    LET m == Head(todo[t]) IN
    /\ todo[t] # <<>> /\ retaining[t] = None /\ MayPost(t)
    /\ ~open[At[t]]
    /\ todo' = [todo EXCEPT ![t] = Tail(@)]
    /\ outcome' = IF m \in Request THEN [outcome EXCEPT ![m] = "failed"] ELSE outcome
    /\ UNCHANGED <<retaining, open, state, sending, wake, receiving, ioThread, connection, os,
                   posted, written, taken, ended, handled>>

PostRetain(t) ==
    LET e == At[t]
        m == Head(todo[t])
    IN
    /\ todo[t] # <<>> /\ retaining[t] = None /\ MayPost(t)
    /\ open[e]
    /\ todo' = [todo EXCEPT ![t] = Tail(@)]
    /\ retaining' = [retaining EXCEPT ![t] = m]
    /\ retained' = [retained EXCEPT ![e] = @ \o Fds(m)]
    /\ main' = IF t = Owner[e] THEN [main EXCEPT ![e] = "posting"] ELSE main
    /\ UNCHANGED <<open, state, queue, queueFds, wake, receiving, ioThread, awaited, unprocessed,
                   deferred, os, history>>

\* Mutant: the IO thread is not woken.
PostEnqueueSilently(t) ==
    LET e == At[t]
        m == retaining[t]
    IN
    /\ m # None
    /\ retaining' = [retaining EXCEPT ![t] = None]
    /\ queue' = [queue EXCEPT ![e] = Append(@, Queued(Payload(m)))]
    /\ queueFds' = [queueFds EXCEPT ![e] = @ \o Fds(m)]
    /\ posted' = [posted EXCEPT ![e] = Append(@, m)]
    /\ main' = IF t # Owner[e] THEN main
               ELSE [main EXCEPT ![e] = IF m \in Request THEN "match" ELSE "events"]
    /\ awaited' = IF m \in Request THEN [awaited EXCEPT ![e] = m] ELSE awaited
    /\ outcome' = IF m \in Request THEN [outcome EXCEPT ![m] = "waiting"] ELSE outcome
    /\ UNCHANGED <<todo, open, state, retained, wake, receiving, ioThread, unprocessed, deferred, os,
                   written, taken, ended, handled>>

\* send_sync() goes on to wait for the reply.
PostEnqueue(t) ==
    LET e == At[t]
        m == retaining[t]
    IN
    /\ m # None
    /\ retaining' = [retaining EXCEPT ![t] = None]
    /\ queue' = [queue EXCEPT ![e] = Append(@, Queued(Payload(m)))]
    /\ queueFds' = [queueFds EXCEPT ![e] = @ \o Fds(m)]
    /\ wake' = [wake EXCEPT ![e] = TRUE]
    /\ posted' = [posted EXCEPT ![e] = Append(@, m)]
    /\ main' = IF t # Owner[e] THEN main
               ELSE [main EXCEPT ![e] = IF m \in Request THEN "match" ELSE "events"]
    /\ awaited' = IF m \in Request THEN [awaited EXCEPT ![e] = m] ELSE awaited
    /\ outcome' = IF m \in Request THEN [outcome EXCEPT ![m] = "waiting"] ELSE outcome
    /\ UNCHANGED <<todo, open, state, retained, receiving, ioThread, unprocessed, deferred, os,
                   written, taken, ended, handled>>

-----------------------------------------------------------------------------
(* SendQueue.                                                                *)

Remaining(q) == Size(q.frame) - q.offset

\* The queue as a stream of units, each naming its frame and its position.
UnitsOf(q) == [k \in 1..Remaining(q) |-> [frame |-> q.frame, at |-> q.offset + k, fds |-> <<>>]]
Stream(Q) == Each(Q, UnitsOf)

UnitsUpTo(Q, n) == Len(Stream(SubSeq(Q, 1, n)))
UnsentUpTo(Q, n) == Total([i \in 1..n |-> Q[i].unsent])

\* The messages peek() covers: it stops at a message whose descriptors do not
\* fit in one sendmsg(), and after the one that fills the buffer.
Covered(Q) ==
    LET Reached(n) == UnsentUpTo(Q, n) <= MaxTransferFds /\ (n > 0 => UnitsUpTo(Q, n - 1) < PeekUnits)
    IN CHOOSE n \in 0..Len(Q) : Reached(n) /\ (n = Len(Q) \/ ~Reached(n + 1))

\* Mutant: bytes are taken past a message whose descriptors do not fit.
PeekPastLimit(Q) ==
    LET u == UnitsUpTo(Q, Len(Q))
    IN [units |-> IF u < PeekUnits THEN u ELSE PeekUnits, fds |-> UnsentUpTo(Q, Covered(Q))]

\* peek(4096).
Peek(Q) ==
    LET n == Covered(Q)
        u == UnitsUpTo(Q, n)
    IN [units |-> IF u < PeekUnits THEN u ELSE PeekUnits, fds |-> UnsentUpTo(Q, n)]

\* Mutant: the descriptors are discarded and the bytes are not.
DiscardDescriptors(Q, units, fds) ==
    [i \in 1..Len(Q) |-> [Q[i] EXCEPT !.unsent = IF UnsentUpTo(Q, i - 1) < fds THEN 0 ELSE @]]

\* discard().
Discard(Q, units, fds) ==
    LET Without(i) == [Q[i] EXCEPT
            !.unsent = IF UnsentUpTo(Q, i - 1) < fds THEN 0 ELSE @,
            !.offset = LET before == UnitsUpTo(Q, i - 1) IN
                       IF before >= units THEN @
                       ELSE @ + (IF units - before < Remaining(Q[i]) THEN units - before ELSE Remaining(Q[i]))]
    IN Those([i \in 1..Len(Q) |-> Without(i)], LAMBDA q : Remaining(q) > 0)

IsLastUnit(u) == u.at = Size(u.frame)
IsLastOfPayload(u) == IsLastUnit(u) /\ u.frame.type = "Payload"

-----------------------------------------------------------------------------
(* io_thread_loop().                                                         *)

IOPosition == {"loop", "state", "poll", "receive", "parse", "write", "verify", "last receive",
               "last parse", "publish end", "done", "aborted", "crashed"}

\* peek(1): is there anything to write?
IOLoop(e) ==
    /\ io[e] = "loop"
    /\ want' = [want EXCEPT ![e] = queue[e] # <<>>]
    /\ io' = [io EXCEPT ![e] = "state"]
    /\ UNCHANGED <<posters, open, state, sending, wake, receiving, revents, connection, os, history>>

\* Only now is the state loaded.
IOState(e) ==
    /\ io[e] = "state"
    /\ LET stop == state[e] = "SendPendingMessagesAndStop" /\ ~want[e] IN
       /\ state' = IF stop THEN [state EXCEPT ![e] = "Stopped"] ELSE state
       /\ io' = [io EXCEPT ![e] = IF stop \/ state[e] = "Stopped" THEN "verify" ELSE "poll"]
    /\ UNCHANGED <<posters, open, sending, wake, receiving, want, revents, connection, os, history>>

PollEvents(e) ==
    LET p == Peer(e) IN
    (IF wire[p] # <<>> \/ ~up[p] THEN {"POLLIN"} ELSE {})
    \cup (IF ~up[p] THEN {"POLLHUP"} ELSE {})
    \cup (IF want[e] /\ (Len(wire[e]) < SocketCapacity \/ ~up[p]) THEN {"POLLOUT"} ELSE {})

IOPoll(e) ==
    /\ io[e] = "poll"
    /\ wake[e] \/ PollEvents(e) # {}
    /\ wake' = [wake EXCEPT ![e] = FALSE]
    /\ revents' = [revents EXCEPT ![e] = PollEvents(e)]
    /\ want' = [want EXCEPT ![e] = FALSE]   \* not used again in this iteration
    /\ io' = [io EXCEPT ![e] = IF "POLLIN" \in PollEvents(e) THEN "receive"
                              ELSE IF "POLLOUT" \in PollEvents(e) THEN "write"
                              ELSE "loop"]
    /\ UNCHANGED <<posters, open, state, sending, receiving, connection, os, history>>

\* read_incoming_messages(), first half: everything the socket holds, and
\* whether the peer is gone.  The descriptors of a unit arrive with it.
IOReceive(e) ==
    LET p == Peer(e) IN
    /\ io[e] \in {"receive", "last receive"}
    /\ io' = [io EXCEPT ![e] = IF @ = "receive" THEN "parse" ELSE "last parse"]
    /\ bytes' = [bytes EXCEPT ![e] = @ \o [i \in 1..Len(wire[p]) |-> [wire[p][i] EXCEPT !.fds = <<>>]]]
    /\ attached' = [attached EXCEPT ![e] = @ \o Each(wire[p], LAMBDA u : u.fds)]
    /\ wire' = [wire EXCEPT ![p] = <<>>]
    /\ peerEof' = [peerEof EXCEPT ![e] = @ \/ ~up[p]]
    /\ UNCHANGED <<posters, open, state, sending, wake, incoming, incomingEof, notify, want, revents,
                   connection, up, history>>

\* The descriptors that the headers of the messages in U announce.
Announced(U) == Each(U, LAMBDA u : IF IsLastOfPayload(u) THEN Fds(u.frame.msg) ELSE <<>>)

\* How much of the bytes is parsed: whole frames, up to the first whose
\* descriptors are missing.
Parsed(e) ==
    Max({0} \cup {n \in 1..Len(bytes[e]) :
            /\ IsLastUnit(bytes[e][n])
            /\ Len(Announced(SubSeq(bytes[e], 1, n))) <= Len(attached[e])})

\* The number of descriptors that the acknowledgements in U let go of.
Acknowledged(U) == Total([i \in 1..Len(U) |-> IF U[i].frame.type = "Payload" THEN 0 ELSE U[i].frame.fds])

\* Mutant: every message gets the descriptors that arrived first.
BatchFromFirst(P, A) == [i \in 1..Len(P) |-> [msg |-> P[i].frame.msg, fds |-> SubSeq(A, 1, P[i].frame.fds)]]

\* The messages that end with the units P, with the descriptors A in the order
\* of arrival.
Batch(P, A) ==
    [i \in 1..Len(P) |->
        LET before == Len(Announced(SubSeq(P, 1, i - 1)))
        IN [msg |-> P[i].frame.msg, fds |-> SubSeq(A, before + 1, before + P[i].frame.fds)]]

\* m_incoming_cv.broadcast().
Broadcast(e) == main' = IF main[e] = "blocked" THEN [main EXCEPT ![e] = "wait"] ELSE main

\* read_incoming_messages(), second half: parse, let go of acknowledged
\* descriptors, acknowledge received ones, publish batch and end together.
IOParse(e) ==
    LET parsed == SubSeq(bytes[e], 1, Parsed(e))
        payloads == Those(parsed, IsLastOfPayload)
        received == Len(Announced(parsed))
        acknowledged == Acknowledged(parsed)
        eof == peerEof[e] \/ acknowledged > Len(retained[e])
    IN
    /\ io[e] \in {"parse", "last parse"}
    \* A hang-up that poll() reported ends the loop after the read.
    /\ LET hup == "POLLHUP" \in revents[e] IN
       IF io[e] = "parse"
       THEN /\ io' = [io EXCEPT ![e] = IF hup THEN "verify"
                                      ELSE IF "POLLOUT" \in revents[e] THEN "write"
                                      ELSE "loop"]
            /\ state' = IF hup THEN [state EXCEPT ![e] = "Stopped"] ELSE state
            /\ revents' = [revents EXCEPT ![e] = IF hup THEN {} ELSE @ \ {"POLLIN"}]
       ELSE io' = [io EXCEPT ![e] = "publish end"] /\ UNCHANGED <<state, revents>>
    /\ retained' = [retained EXCEPT ![e] = SubSeq(@, acknowledged + 1, Len(@))]
    /\ peerEof' = [peerEof EXCEPT ![e] = eof]
    /\ queue' = IF received = 0 THEN queue
                ELSE [queue EXCEPT ![e] = Append(@, Queued(Acknowledgement(received)))]
    /\ bytes' = [bytes EXCEPT ![e] = SubSeq(@, Parsed(e) + 1, Len(@))]
    /\ attached' = [attached EXCEPT ![e] = SubSeq(@, received + 1, Len(@))]
    /\ incoming' = [incoming EXCEPT ![e] = @ \o Batch(payloads, attached[e])]
    /\ incomingEof' = [incomingEof EXCEPT ![e] = @ \/ eof]
    /\ IF payloads # <<>> \/ eof
       THEN notify' = [notify EXCEPT ![e] = TRUE] /\ Broadcast(e)
       ELSE UNCHANGED <<notify, main>>
    /\ wake' = [wake EXCEPT ![e] = @ \/ received > 0]
    /\ UNCHANGED <<posters, open, queueFds, want, awaited, unprocessed, deferred, os, history>>

\* transfer_data(): as many units as the socket takes, with all descriptors on
\* the first.  A closed peer or a descriptor that is no longer open is an error.
IOWrite(e) ==
    LET p == Peek(queue[e])
        n == IF p.units < SocketCapacity - Len(wire[e]) THEN p.units ELSE SocketCapacity - Len(wire[e])
        fds == SubSeq(queueFds[e], 1, p.fds)
        out == [i \in 1..n |-> IF i = 1 THEN [Stream(queue[e])[1] EXCEPT !.fds = fds] ELSE Stream(queue[e])[i]]
        failed == ~up[Peer(e)] \/ \E i \in 1..Len(fds) : ~Contains(retained[e], fds[i])
    IN
    /\ io[e] = "write"
    /\ io' = [io EXCEPT ![e] = "loop"]
    /\ revents' = [revents EXCEPT ![e] = {}]
    /\ IF failed
       THEN state' = [state EXCEPT ![e] = "Stopped"] /\ UNCHANGED <<queue, queueFds, wire, written>>
       ELSE /\ wire' = [wire EXCEPT ![e] = @ \o out]
            /\ queue' = [queue EXCEPT ![e] = Discard(@, n, p.fds)]
            /\ queueFds' = [queueFds EXCEPT ![e] = SubSeq(@, p.fds + 1, Len(@))]
            /\ written' = [written EXCEPT ![e] = @ + Len(Those(out, IsLastOfPayload))]
            /\ UNCHANGED state
    /\ UNCHANGED <<posters, open, retained, wake, receiving, want, connection, up, posted, taken, ended,
                   handled, outcome>>

\* The process of e dies and takes its memory with it; the operating system
\* closes its socket.  The IO thread is left as now says.
Die(e, now) ==
    /\ main' = [main EXCEPT ![e] = "dead"]
    /\ io' = [io EXCEPT ![e] = now]
    /\ up' = [up EXCEPT ![e] = FALSE]
    /\ wire' = [wire EXCEPT ![Peer(e)] = <<>>]
    /\ todo' = [t \in Thread |-> IF At[t] = e THEN <<>> ELSE todo[t]]
    /\ retaining' = [t \in Thread |-> IF At[t] = e THEN None ELSE retaining[t]]
    /\ open' = [open EXCEPT ![e] = FALSE]
    /\ state' = [state EXCEPT ![e] = "Stopped"]
    /\ queue' = [queue EXCEPT ![e] = <<>>]
    /\ queueFds' = [queueFds EXCEPT ![e] = <<>>]
    /\ retained' = [retained EXCEPT ![e] = <<>>]
    /\ wake' = [wake EXCEPT ![e] = FALSE]
    /\ bytes' = [bytes EXCEPT ![e] = <<>>]
    /\ attached' = [attached EXCEPT ![e] = <<>>]
    /\ peerEof' = [peerEof EXCEPT ![e] = FALSE]
    /\ incoming' = [incoming EXCEPT ![e] = <<>>]
    /\ incomingEof' = [incomingEof EXCEPT ![e] = FALSE]
    /\ notify' = [notify EXCEPT ![e] = FALSE]
    /\ want' = [want EXCEPT ![e] = FALSE]
    /\ revents' = [revents EXCEPT ![e] = {}]
    /\ awaited' = [awaited EXCEPT ![e] = None]
    /\ unprocessed' = [unprocessed EXCEPT ![e] = <<>>]
    /\ deferred' = [deferred EXCEPT ![e] = <<>>]
    /\ outcome' = [m \in Request |-> IF m = awaited[e] THEN "failed" ELSE outcome[m]]
    /\ UNCHANGED <<posted, written, taken, ended, handled>>

\* After the loop: VERIFY(m_io_thread_state == IOThreadState::Stopped).
IOVerify(e) ==
    /\ io[e] = "verify" /\ state[e] = "Stopped"
    /\ io' = [io EXCEPT ![e] = "last receive"]
    /\ UNCHANGED <<posters, open, state, sending, wake, receiving, want, revents, connection, os, history>>

IOVerifyFails(e) ==
    /\ io[e] = "verify" /\ state[e] # "Stopped"
    /\ Die(e, "aborted")

IOPublishEnd(e) ==
    /\ io[e] = "publish end"
    /\ peerEof' = [peerEof EXCEPT ![e] = TRUE]
    /\ incomingEof' = [incomingEof EXCEPT ![e] = TRUE]
    /\ notify' = [notify EXCEPT ![e] = TRUE]
    /\ Broadcast(e)
    /\ io' = [io EXCEPT ![e] = "done"]
    /\ UNCHANGED <<posters, open, state, sending, wake, bytes, attached, incoming, want, revents, awaited,
                   unprocessed, deferred, os, history>>

-----------------------------------------------------------------------------
(* ConnectionBase.                                                           *)

IsReplyTo(m, r) == r \in Request /\ m = Reply[r]
IsReply(m) == \E r \in Request : m = Reply[r]
ForEndpoint(M) == Those(M, LAMBDA m : ~IsReply(m.msg))

\* Mutant: the end is reported as soon as the IO thread has seen it.
DrainToPeerEof(e) ==
    /\ incoming' = [incoming EXCEPT ![e] = <<>>]
    /\ taken' = [taken EXCEPT ![e] = @ \o incoming[e]]
    /\ ended' = [ended EXCEPT ![e] = peerEof[e]]

\* read_as_many_messages_as_possible_without_blocking(), as drain_messages_from_peer()
\* calls it.
Drain(e) ==
    /\ incoming' = [incoming EXCEPT ![e] = <<>>]
    /\ taken' = [taken EXCEPT ![e] = @ \o incoming[e]]
    /\ ended' = [ended EXCEPT ![e] = incomingEof[e]]

\* Mutant: messages that were drained before are forgotten.
DrainedAfresh(e) == incoming[e]

Drained(e) == unprocessed[e] \o incoming[e]

\* What drain_messages_from_peer() leaves for later.  A second handle_messages()
\* right behind a first finds nothing to do; the two count as one, or a wait that
\* spins while the IO thread stops would queue them without end.
Invocations(e) ==
    LET again == deferred[e] # <<>> /\ Last(deferred[e]) = "handle_messages" IN
    deferred[e]
    \o (IF Drained(e) # <<>> /\ ~again THEN <<"handle_messages">> ELSE <<>>)
    \o (IF incomingEof[e] THEN <<"shutdown">> ELSE <<>>)

\* handle_messages() on M: each message is for this endpoint (a reply is not);
\* a request is answered if the connection is still open.
Handle(e, M) ==
    LET mine == ForEndpoint(M)
        requests == Those(mine, LAMBDA m : m.msg \in Request)
        replies == IF open[e] THEN [i \in 1..Len(requests) |-> Reply[requests[i].msg]] ELSE <<>>
    IN
    /\ handled' = [handled EXCEPT ![e] = @ \o mine]
    /\ retained' = [retained EXCEPT ![e] = @ \o Each(replies, Fds)]
    /\ queue' = [queue EXCEPT ![e] = @ \o [i \in 1..Len(replies) |-> Queued(Payload(replies[i]))]]
    /\ queueFds' = [queueFds EXCEPT ![e] = @ \o Each(replies, Fds)]
    /\ posted' = [posted EXCEPT ![e] = @ \o replies]
    /\ wake' = [wake EXCEPT ![e] = @ \/ replies # <<>>]

\* The read hook: drain_messages_from_peer(), then handle_messages().
ReadHook(e) ==
    /\ main[e] = "events" /\ notify[e]
    /\ notify' = [notify EXCEPT ![e] = FALSE]
    /\ Drain(e)
    /\ deferred' = [deferred EXCEPT ![e] = Invocations(e)]
    /\ Handle(e, Drained(e))
    /\ unprocessed' = [unprocessed EXCEPT ![e] = <<>>]
    /\ UNCHANGED <<posters, open, state, bytes, attached, peerEof, incomingEof, ioThread, main, awaited, os, written,
                   outcome>>

DeferredHandle(e) ==
    /\ main[e] = "events" /\ deferred[e] # <<>> /\ Head(deferred[e]) = "handle_messages"
    /\ deferred' = [deferred EXCEPT ![e] = Tail(@)]
    /\ Handle(e, unprocessed[e])
    /\ unprocessed' = [unprocessed EXCEPT ![e] = <<>>]
    /\ UNCHANGED <<posters, open, state, receiving, ioThread, main, awaited, os, written,
                   taken, ended, outcome>>

\* TransportSocket::close() ("now") and close_after_sending_all_pending_messages()
\* ("pending") tell the IO thread to stop and wait for it.
StopIOThread(e, how) ==
    /\ open' = [open EXCEPT ![e] = FALSE]
    /\ state' = [state EXCEPT ![e] = IF how = "now" THEN "Stopped" ELSE "SendPendingMessagesAndStop"]
    /\ wake' = [wake EXCEPT ![e] = TRUE]
    /\ main' = [main EXCEPT ![e] = "joining"]

\* The deferred shutdown().
DeferredShutdown(e) ==
    /\ main[e] = "events" /\ deferred[e] # <<>> /\ Head(deferred[e]) = "shutdown"
    /\ deferred' = [deferred EXCEPT ![e] = Tail(@)]
    /\ StopIOThread(e, "now")
    /\ UNCHANGED <<posters, sending, receiving, ioThread, awaited, unprocessed, os, history>>

\* The owner closes the connection of its own accord.
Close(e, how) ==
    /\ main[e] = "events" /\ open[e]
    /\ how \in Closes[e]
    /\ StopIOThread(e, how)
    /\ UNCHANGED <<posters, sending, receiving, ioThread, awaited, unprocessed, deferred, os, history>>

\* The IO thread has been joined: m_socket->close().
Joined(e) ==
    /\ main[e] = "joining" /\ io[e] = "done"
    /\ up' = [up EXCEPT ![e] = FALSE]
    /\ wire' = [wire EXCEPT ![Peer(e)] = <<>>]
    /\ main' = [main EXCEPT ![e] = "events"]
    /\ UNCHANGED <<posters, open, state, sending, wake, receiving, ioThread, awaited, unprocessed, deferred,
                   history>>

\* The reply to the awaited request in M, if it is there.
Match(e, M) == SelectInSeq(M, LAMBDA m : IsReplyTo(m.msg, awaited[e]))

SyncEnds(e, how) ==
    /\ outcome' = [outcome EXCEPT ![awaited[e]] = how]
    /\ awaited' = [awaited EXCEPT ![e] = None]

\* wait_for_specific_endpoint_message_impl(), top of the loop.
SyncMatch(e) ==
    LET i == Match(e, unprocessed[e]) IN
    /\ main[e] = "match"
    /\ IF i > 0
       THEN /\ unprocessed' = [unprocessed EXCEPT ![e] = RemoveAt(@, i)]
            /\ main' = [main EXCEPT ![e] = "events"]
            /\ SyncEnds(e, "answered")
       ELSE IF ~open[e]
       THEN main' = [main EXCEPT ![e] = "events"] /\ SyncEnds(e, "failed") /\ UNCHANGED unprocessed
       ELSE main' = [main EXCEPT ![e] = "wait"] /\ UNCHANGED <<unprocessed, awaited, outcome>>
    /\ UNCHANGED <<posters, open, state, sending, wake, receiving, ioThread, deferred, os, posted, written,
                   taken, ended, handled>>

\* TransportSocket::wait_until_readable(), under m_incoming_mutex.
SyncWait(e) ==
    /\ main[e] = "wait"
    /\ main' = [main EXCEPT ![e] = IF incoming[e] = <<>> /\ state[e] = "Running" THEN "blocked" ELSE "drain"]
    /\ UNCHANGED <<posters, open, state, sending, wake, receiving, ioThread, awaited, unprocessed, deferred,
                   os, history>>

\* drain_messages_from_peer() in the wait.  A reply that comes with the end of
\* the stream still counts; otherwise the end means shutdown().
SyncDrain(e) ==
    LET i == Match(e, Drained(e)) IN
    /\ main[e] = "drain"
    /\ Drain(e)
    /\ deferred' = [deferred EXCEPT ![e] = Invocations(e)]
    /\ IF ~incomingEof[e]
       THEN /\ main' = [main EXCEPT ![e] = "match"]
            /\ unprocessed' = [unprocessed EXCEPT ![e] = Drained(e)]
            /\ UNCHANGED <<open, state, wake, awaited, outcome>>
       ELSE IF i > 0
       THEN /\ main' = [main EXCEPT ![e] = "events"]
            /\ unprocessed' = [unprocessed EXCEPT ![e] = RemoveAt(Drained(e), i)]
            /\ SyncEnds(e, "answered")
            /\ UNCHANGED <<open, state, wake>>
       ELSE /\ StopIOThread(e, "now")
            /\ unprocessed' = [unprocessed EXCEPT ![e] = Drained(e)]
            /\ SyncEnds(e, "failed")
    /\ UNCHANGED <<posters, sending, bytes, attached, peerEof, incomingEof, notify, ioThread, os, posted,
                   written, handled>>

\* A process may die at any moment.
Crash(e) ==
    /\ e \in MayCrash /\ main[e] # "dead"
    /\ Die(e, "crashed")

-----------------------------------------------------------------------------
IOThread(e) ==
    \/ IOLoop(e) \/ IOState(e) \/ IOPoll(e) \/ IOReceive(e) \/ IOParse(e) \/ IOWrite(e)
    \/ IOVerify(e) \/ IOVerifyFails(e) \/ IOPublishEnd(e)

OwnerThread(e) ==
    \/ ReadHook(e) \/ DeferredHandle(e) \/ DeferredShutdown(e) \/ Joined(e)
    \/ SyncMatch(e) \/ SyncWait(e) \/ SyncDrain(e)

Next ==
    \/ \E t \in Thread : PostRefused(t) \/ PostRetain(t) \/ PostEnqueue(t)
    \/ \E e \in End : IOThread(e) \/ OwnerThread(e) \/ Crash(e)
    \/ \E e \in End : \E how \in {"now", "pending"} : Close(e, how)

Spec == Init /\ [][Next]_vars

\* WF_vars(IOThread(e)), in a form that TLC evaluates quickly: an IO thread can
\* move unless it has ended or poll() has nothing to report, and its moves are
\* the only steps, but for a crash, that change its position.
IOMoves(e) ==
    /\ io[e] \notin {"done", "aborted", "crashed"}
    /\ io[e] = "poll" => wake[e] \/ PollEvents(e) # {}
    /\ \E at \in IOPosition \ {io[e]} : io' = [io EXCEPT ![e] = at]

\* Threads are scheduled; nobody has to close or to crash, nor to post a new
\* message, but a post that has begun is finished.
FairSpec ==
    /\ Spec
    /\ \A e \in End : WF_io(IOMoves(e)) /\ WF_vars(OwnerThread(e))
    /\ \A t \in Thread : WF_vars(PostEnqueue(t))

-----------------------------------------------------------------------------
Entry == {q \in [frame : Frame, offset : Nat, unsent : 0..MaxTransferFds] : q.offset < Size(q.frame)}
Unit == {u \in [frame : Frame, at : Nat, fds : Seq(Descriptor)] : u.at \in 1..Size(u.frame)}
Message == [msg : Msg, fds : Seq(Descriptor)]

\* The variables have their types, the socket holds no more than its capacity,
\* and no message is on the wire more often than it was posted.
TypeOK ==
    /\ todo \in [Thread -> Seq(Msg)] /\ retaining \in [Thread -> Msg \cup {None}]
    /\ queue \in [End -> Seq(Entry)] /\ queueFds \in [End -> Seq(Descriptor)]
    /\ retained \in [End -> Seq(Descriptor)]
    /\ wire \in [End -> Seq(Unit)] /\ bytes \in [End -> Seq(Unit)] /\ attached \in [End -> Seq(Descriptor)]
    /\ incoming \in [End -> Seq(Message)] /\ unprocessed \in [End -> Seq(Message)]
    /\ taken \in [End -> Seq(Message)] /\ handled \in [End -> Seq(Message)]
    /\ posted \in [End -> Seq(Msg)] /\ written \in [End -> Nat]
    /\ open \in [End -> BOOLEAN] /\ up \in [End -> BOOLEAN] /\ wake \in [End -> BOOLEAN]
    /\ want \in [End -> BOOLEAN] /\ notify \in [End -> BOOLEAN] /\ ended \in [End -> BOOLEAN]
    /\ peerEof \in [End -> BOOLEAN] /\ incomingEof \in [End -> BOOLEAN]
    /\ state \in [End -> {"Running", "SendPendingMessagesAndStop", "Stopped"}]
    /\ io \in [End -> IOPosition] /\ revents \in [End -> SUBSET {"POLLIN", "POLLHUP", "POLLOUT"}]
    /\ main \in [End -> {"events", "posting", "match", "wait", "blocked", "drain", "joining", "dead"}]
    /\ deferred \in [End -> Seq({"handle_messages", "shutdown"})]
    /\ awaited \in [End -> Request \cup {None}]
    /\ outcome \in [Request -> {None, "waiting", "answered", "failed"}]
    /\ \A e \in End : Len(wire[e]) <= SocketCapacity
    /\ \A e \in End : written[e] <= Len(posted[e])

Messages(T) == [i \in 1..Len(T) |-> T[i].msg]

\* One direction of the connection, as its two ends see it.
Direction(e) == INSTANCE Channel WITH
    posted <- posted[e],
    written <- written[e],
    taken <- Messages(taken[Peer(e)]),
    ended <- ended[Peer(e)],
    hungUp <- ~open[Peer(e)]

\* Each direction delivers in order, each message once, and reports the end of
\* the stream only to a reader that has everything the writer got out (the
\* comment in read_incoming_messages: "a consumer which observes EOF has also
\* taken every message that arrived before it").
\* The formula is \A e \in End : Direction(e)!Spec, with the quantifier moved
\* inside [] as TLC needs it.
ChannelSpec ==
    /\ \A e \in End : Direction(e)!Init
    /\ [][\A e \in End : [Direction(e)!Next]_(Direction(e)!vars)]_vars

\* No byte of a message leaves before its descriptors, and no message leaves
\* the queue without them (VERIFY(queued_message.unsent_fd_count == 0) in discard()).
FdsBeforeBytes ==
    \A e \in End :
        /\ \A i \in 1..Len(queue[e]) : queue[e][i].offset > 0 => queue[e][i].unsent = 0
        /\ UnsentUpTo(queue[e], Len(queue[e])) = Len(queueFds[e])

\* A message is taken with its own attachments, however writes were cut and joined.
OwnAttachments ==
    \A e \in End : \A i \in 1..Len(taken[e]) : taken[e][i].fds = Fds(taken[e][i].msg)

\* The descriptors of messages that threads of e have retained and not enqueued.
BeingPosted(e) ==
    {d \in Thread \X (1..MaxTransferFds) :
        At[d[1]] = e /\ retaining[d[1]] # None /\ d[2] <= FdCount[retaining[d[1]]]}

\* How many descriptors e has posted that are in no message of its peer yet, and
\* how many acknowledgements for e are on their way.
Travelling(e) ==
    Cardinality(BeingPosted(e)) + Len(queueFds[e]) + Len(Each(wire[e], LAMBDA u : u.fds))
        + Len(attached[Peer(e)])
Acknowledging(e) ==
    Acknowledged(bytes[e]) + Acknowledged(wire[Peer(e)]) + Acknowledged(Stream(queue[Peer(e)]))

\* An end keeps as many descriptors open as are travelling or have an
\* acknowledgement on its way back, however the posts of several threads and the
\* IO threads interleave: it never lets go of more than the peer has received, so
\* no acknowledgement finds too few (read_incoming_messages takes that for the end
\* of the stream), and while both sockets exist it keeps none for ever.
RetainedAccounted ==
    \A e \in End : main[e] # "dead" =>
        /\ Travelling(e) + Acknowledging(e) <= Len(retained[e])
        /\ up[e] /\ up[Peer(e)] => Travelling(e) + Acknowledging(e) = Len(retained[e])

\* "After file descriptor is sent, it is moved to the wait queue until an
\* acknowledgement is received from the peer": a descriptor that is queued, on
\* the wire or not yet in a message of the peer is one of those kept open.  Two
\* threads that post descriptors can retain them in one order and enqueue them in
\* the other, and an acknowledgement then lets go of one that has not left.
RetainedUntilReceived ==
    \A e \in End : main[e] # "dead" =>
        LET inFlight == ToSet(queueFds[e])
                        \cup (UNION {ToSet(wire[e][i].fds) : i \in 1..Len(wire[e])})
                        \cup ToSet(attached[Peer(e)])
        IN inFlight \subseteq ToSet(retained[e])

\* The owner dispatches what it has drained in the order of arrival and loses
\* nothing, whichever of the read hook, the deferred call or a wait gets there.
DispatchedInOrder ==
    \A e \in End : main[e] # "dead" =>
                   ForEndpoint(taken[e]) = handled[e] \o ForEndpoint(unprocessed[e])

Took(e, m) == \E i \in 1..Len(taken[e]) : taken[e][i].msg = m

\* Every synchronous call has come back, with its reply or without, and so has
\* every close.
CallsReturned ==
    /\ \A m \in Request : outcome[m] # "waiting"
    /\ \A e \in End : main[e] # "joining"

\* An owner whose peer is gone has learned of it and has closed.
HangUpNoticed == \A e \in End : ~up[Peer(e)] => ~open[e]

\* What was posted has been taken, unless an end has closed.
PostsArrived ==
    (\A e \in End : open[e]) => \A e \in End : \A i \in 1..Len(posted[e]) : Took(Peer(e), posted[e][i])

\* No wake-up is lost, through either pipe or the condition variable: all
\* that was begun comes to its end.
ComesToRest == <>[](CallsReturned /\ HangUpNoticed /\ PostsArrived)
=============================================================================
