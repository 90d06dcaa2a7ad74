----------------------- MODULE TransportChannelProof -----------------------
(***************************************************************************)
(* Each direction of a connection implements Channel: what is written is   *)
(* taken in order and once, and the end of the stream is reported after    *)
(* it.  The messages on their way are followed from the queue of one end   *)
(* to the handlers of the other.                                           *)
(***************************************************************************)
EXTENDS TransportProof

-----------------------------------------------------------------------------
(***************************************************************************)
(* The end of the stream.  An end that has not closed stops reading only   *)
(* when its peer is gone, and reports the end only when all that the peer  *)
(* sent has been parsed.                                                   *)
(***************************************************************************)

\* The IO thread of x reads, or the owner of x has not closed.
Reads(x) == open[x] \/ io[x] \notin Ended

EndsAt(x) ==
    LET y == Peer(x) IN
    /\ main[x] = "joining" \/ ~up[x] => ~open[x]
    /\ open[x] /\ state[x] # "Running" => state[x] = "Stopped" /\ ~up[y]
    /\ open[x] /\ io[x] \in {"verify", "last receive", "last parse", "publish end"} => ~up[y]
    /\ "POLLHUP" \in revents[x] => ~up[y]
    /\ open[x] /\ io[x] = "last parse" => peerEof[x]
    /\ open[x] /\ io[x] = "publish end" => incomingEof[x]
    /\ peerEof[x] /\ Reads(x) => ~up[y] /\ wire[y] = <<>>
    /\ incomingEof[x] /\ Reads(x) => peerEof[x] /\ Endings(bytes[x]) = <<>>
    /\ main[x] # "dead" /\ ended[x] => incomingEof[x] /\ incoming[x] = <<>>

Ends == \A x \in End : EndsAt(x)

LEMMA InitEnds == Init => Ends
<1> SUFFICES ASSUME Init, NEW x \in End PROVE EndsAt(x)
  BY DEF Ends
<1>1. /\ main[x] = "events" /\ up[x] /\ state[x] = "Running" /\ io[x] = "loop" /\ revents[x] = {}
      /\ ~peerEof[x] /\ ~incomingEof[x] /\ ~ended[x]
  BY DEF Init
<1> QED BY <1>1 DEF EndsAt

\* A step that does not concern x, but for the death of its peer.
Aside(x) ==
    LET y == Peer(x) IN
    /\ main'[x] = main[x] \/ (main[x] # "dead" /\ main'[x] # "joining")
    /\ up'[x] = up[x] /\ open'[x] = open[x] /\ state'[x] = state[x] /\ io'[x] = io[x] /\ revents'[x] = revents[x]
    /\ peerEof'[x] = peerEof[x] /\ incomingEof'[x] = incomingEof[x] /\ ended'[x] = ended[x]
    /\ bytes'[x] = bytes[x] /\ incoming'[x] = incoming[x]
    /\ ~up[y] => ~up'[y] /\ (wire[y] = <<>> => wire'[y] = <<>>)

LEMMA EndsAside == ASSUME NEW x \in End, EndsAt(x), Aside(x) PROVE EndsAt(x)'
<1>1. Endings(bytes[x])' = Endings(bytes'[x])
  BY DEF Endings, Say, AtEnd, endOf
<1> QED BY <1>1 DEF EndsAt, Aside, Reads

LEMMA EndsOfBoth == ASSUME NEW x \in End, EndsAt(x)', EndsAt(Peer(x))' PROVE Ends'
BY PeerProperties DEF Ends

LEMMA EndsOfLoop ==
    ASSUME SentTyped, ReadTyped, MessagesTyped, ControlTyped, Life, Ends,
           NEW x \in End, IOLoop(x) \/ IOState(x) \/ IOPoll(x) \/ IOVerify(x)
    PROVE  Ends'
<1> DEFINE y == Peer(x)
<1>0. y \in End /\ y # x /\ EndsAt(x) /\ EndsAt(y)
  BY PeerProperties DEF Ends
<1>1. UNCHANGED <<main, up, open, peerEof, incomingEof, ended, bytes, incoming, wire>>
  <2>1. CASE IOLoop(x)
    BY <2>1 DEF IOLoop, receiving, connection, os, history
  <2>2. CASE IOState(x)
    BY <2>2 DEF IOState, receiving, connection, os, history
  <2>3. CASE IOPoll(x)
    BY <2>3 DEF IOPoll, receiving, connection, os, history
  <2>4. CASE IOVerify(x)
    BY <2>4 DEF IOVerify, receiving, connection, os, history
  <2> QED BY <2>1, <2>2, <2>3, <2>4
<1>2. /\ state' = state \/ (state[x] = "SendPendingMessagesAndStop" /\ state' = [state EXCEPT ![x] = "Stopped"])
      /\ revents' = revents \/ revents' = [revents EXCEPT ![x] = PollEvents(x)]
      /\ \E at \in {"state", "poll", "verify", "receive", "write", "loop", "last receive"} :
            io' = [io EXCEPT ![x] = at] /\ (at = "verify" => state[x] # "Running")
                                        /\ (at = "last receive" => io[x] = "verify")
      /\ io[x] \notin Ended
  <2>1. CASE IOLoop(x)
    BY <2>1 DEF IOLoop, Ended
  <2>2. CASE IOState(x)
    BY <2>2 DEF IOState, Ended
  <2>3. CASE IOPoll(x)
    BY <2>3 DEF IOPoll, Ended
  <2>4. CASE IOVerify(x)
    BY <2>4 DEF IOVerify, Ended
  <2> QED BY <2>1, <2>2, <2>3, <2>4
<1>3. "POLLHUP" \in PollEvents(x) => ~up[y]
  BY DEF PollEvents
<1> HIDE DEF y
<1>4. Aside(y)
  BY <1>0, <1>1, <1>2 DEF Aside, ControlTyped
<1>5. EndsAt(x)'
  <2>1. Endings(bytes[x])' = Endings(bytes[x])
    BY <1>1 DEF Endings, Say, AtEnd, endOf
  <2> QED BY <1>0, <1>1, <1>2, <1>3, <2>1, ZenonT(30) DEF EndsAt, Reads, Ended, ControlTyped, y
<1> QED BY <1>0, <1>4, <1>5, EndsAside, EndsOfBoth DEF y

LEMMA EndsOfReceive ==
    ASSUME SentTyped, ReadTyped, MessagesTyped, ControlTyped, Life, Ends, NEW x \in End, IOReceive(x)
    PROVE  Ends'
<1> DEFINE y == Peer(x)
           bare == [i \in 1..Len(wire[y]) |-> [wire[y][i] EXCEPT !.fds = <<>>]]
<1>0. y \in End /\ y # x /\ Peer(y) = x /\ EndsAt(x) /\ EndsAt(y) /\ wire[y] \in Seq(Unit) /\ bytes[x] \in Seq(Unit)
  BY PeerProperties DEF Ends, SentTyped, ReadTyped
<1>1. /\ UNCHANGED <<main, up, open, state, revents, incomingEof, ended, incoming>>
      /\ io[x] \in {"receive", "last receive"}
      /\ io' = [io EXCEPT ![x] = IF @ = "receive" THEN "parse" ELSE "last parse"]
      /\ bytes' = [bytes EXCEPT ![x] = @ \o bare]
      /\ peerEof' = [peerEof EXCEPT ![x] = @ \/ ~up[y]]
      /\ wire' = [wire EXCEPT ![y] = <<>>]
  BY DEF IOReceive, connection, history
<1>2. wire[y] = <<>> => bytes[x] \o bare = bytes[x]
  <2>1. wire[y] = <<>> => bare = <<>>
    BY EmptySeq
  <2> QED BY <1>0, <2>1, ConcatEmptySeq
<1>a. y = Peer(x)
  OBVIOUS
<1> HIDE DEF y, bare
<1>3. Aside(y)
  BY <1>0, <1>1 DEF Aside, ControlTyped, ReadTyped, SentTyped
<1>4. EndsAt(x)'
  <2>1. Endings(bytes[x])' = Endings(bytes'[x])
    BY DEF Endings, Say, AtEnd, endOf
  <2>2. bytes'[x] = bytes[x] \o bare /\ peerEof'[x] = (peerEof[x] \/ ~up[y]) /\ wire'[y] = <<>>
        /\ io'[x] = (IF io[x] = "receive" THEN "parse" ELSE "last parse")
    BY <1>0, <1>1 DEF ControlTyped, ReadTyped, SentTyped
  <2>3. wire[y] = <<>> => Endings(bytes[x])' = Endings(bytes[x])
    BY <1>2, <2>1, <2>2
  <2>4. /\ main'[x] = main[x] /\ up'[x] = up[x] /\ open'[x] = open[x] /\ state'[x] = state[x] /\ revents'[x] = revents[x]
        /\ incomingEof'[x] = incomingEof[x] /\ ended'[x] = ended[x] /\ incoming'[x] = incoming[x] /\ up'[y] = up[y]
        /\ io[x] \in {"receive", "last receive"}
    BY <1>1
  <2> QED BY <1>0, <1>a, <2>2, <2>3, <2>4 DEF EndsAt, Reads, Ended
<1> QED BY <1>0, <1>3, <1>4, <1>a, EndsAside, EndsOfBoth

LEMMA EndsOfPublish ==
    ASSUME SentTyped, ReadTyped, MessagesTyped, ControlTyped, Life, Ends, NEW x \in End, IOPublishEnd(x)
    PROVE  Ends'
<1> DEFINE y == Peer(x)
<1>0. y \in End /\ y # x /\ Peer(y) = x /\ EndsAt(x) /\ EndsAt(y) /\ y = Peer(x)
  BY PeerProperties DEF Ends
<1>1. /\ UNCHANGED <<up, open, state, revents, ended, incoming, bytes, wire>>
      /\ io[x] = "publish end" /\ io' = [io EXCEPT ![x] = "done"]
      /\ peerEof' = [peerEof EXCEPT ![x] = TRUE] /\ incomingEof' = [incomingEof EXCEPT ![x] = TRUE]
      /\ main' = main \/ (main[x] = "blocked" /\ main' = [main EXCEPT ![x] = "wait"])
  BY DEF IOPublishEnd, Broadcast, os, history
<1> HIDE DEF y
<1>3. Aside(y)
  BY <1>0, <1>1 DEF Aside, ControlTyped
<1>4. EndsAt(x)'
  <2>1. Endings(bytes[x])' = Endings(bytes[x])
    BY <1>1 DEF Endings, Say, AtEnd, endOf
  <2> QED BY <1>0, <1>1, <2>1 DEF EndsAt, Reads, Ended, ControlTyped
<1> QED BY <1>0, <1>3, <1>4, EndsAside, EndsOfBoth

\* A write fails only if the peer is gone: what is queued is retained.
LEMMA EndsOfWrite ==
    ASSUME SentTyped, ReadTyped, RetainedTyped, MessagesTyped, ControlTyped, Life, Safe, Ends, RetainedUntilReceived,
           NEW x \in End, IOWrite(x)
    PROVE  Ends'
<1> DEFINE y == Peer(x)
           fds == SubSeq(queueFds[x], 1, Peek(queue[x]).fds)
           failed == ~up[y] \/ \E i \in 1..Len(fds) : ~Contains(retained[x], fds[i])
<1>0. y \in End /\ y # x /\ Peer(y) = x /\ EndsAt(x) /\ EndsAt(y) /\ y = Peer(x)
  BY PeerProperties DEF Ends
<1>1. /\ UNCHANGED <<main, up, open, peerEof, incomingEof, ended, incoming, bytes>>
      /\ io[x] = "write" /\ io' = [io EXCEPT ![x] = "loop"]
      /\ revents' = [revents EXCEPT ![x] = {}]
      /\ IF failed THEN state' = [state EXCEPT ![x] = "Stopped"] /\ UNCHANGED wire
                   ELSE UNCHANGED state /\ \E w : wire' = [wire EXCEPT ![x] = w]
  BY DEF IOWrite, receiving, connection
<1>2. up[x] /\ main[x] # "dead"
  BY <1>1 DEF Life, Ended
<1>3. \A i \in 1..Len(fds) : Contains(retained[x], fds[i])
  <2>1. /\ queueFds[x] \in Seq(Descriptor) /\ queue[x] \in Seq(Entry) /\ queue[x] \in Seq(SentEntry)
        /\ UnsentIn(queue[x]) = Len(queueFds[x]) /\ Len(queue[x]) \in Nat
    BY EntriesMayBeSent, LenProperties DEF SentTyped, Safe
  <2>2. Peek(queue[x]).fds = UnsentUpTo(queue[x], Covered(queue[x]))
    BY DEF Peek
  <2>3. Covered(queue[x]) \in 0..Len(queue[x]) /\ Len(queue[x]) \in 0..Len(queue[x]) /\ Covered(queue[x]) <= Len(queue[x])
    BY <2>1, CoveredProperties
  <2>4. Peek(queue[x]).fds \in 0..Len(queueFds[x])
    <3>1. /\ UnsentUpTo(queue[x], Covered(queue[x])) <= UnsentUpTo(queue[x], Len(queue[x]))
          /\ UnsentUpTo(queue[x], Covered(queue[x])) \in Nat
      BY <2>1, <2>3, UnsentGrows, UnsentProperties
    <3> QED BY <2>1, <2>2, <3>1, LenProperties DEF UnsentIn
  <2>5. ToSet(queueFds[x]) \subseteq ToSet(retained[x])
    BY <1>2 DEF RetainedUntilReceived
  <2>6. Len(fds) = Peek(queue[x]).fds /\ fds \in Seq(Descriptor)
    BY <2>1, <2>4, CutInTwo
  <2>7. \A i \in 1..Len(fds) : i \in 1..Len(queueFds[x]) /\ fds[i] = queueFds[x][i]
    <3>1. \A s \in Seq(Descriptor) : \A n \in 0..Len(s) : \A i \in 1..n : SubSeq(s, 1, n)[i] = s[i]
      BY LenProperties, ElementOfSeq
    <3>2. \A i \in 1..Len(fds) : i \in 1..Len(queueFds[x])
      BY <2>1, <2>4, <2>6, LenProperties
    <3> QED BY <2>1, <2>4, <2>6, <3>1, <3>2
  <2>8. \A s \in Seq(Descriptor) : DOMAIN s = 1..Len(s)
    BY LenProperties
  <2>9. \A i \in 1..Len(fds) : fds[i] \in ToSet(retained[x])
    BY <2>1, <2>5, <2>7, <2>8 DEF ToSet
  <2>10. retained[x] \in Seq(Descriptor)
    BY DEF RetainedTyped
  <2> QED BY <2>8, <2>9, <2>10 DEF ToSet, Contains
<1>4. failed => ~up[y]
  BY <1>3
<1> HIDE DEF y, failed
<1>5. Aside(y)
  BY <1>0, <1>1, <1>2 DEF Aside, ControlTyped, SentTyped
<1>6. EndsAt(x)'
  <2>1. Endings(bytes[x])' = Endings(bytes[x])
    BY <1>1 DEF Endings, Say, AtEnd, endOf
  <2>2. wire'[y] = wire[y]
    BY <1>0, <1>1 DEF SentTyped
  <2> QED BY <1>0, <1>1, <1>4, <2>1, <2>2 DEF EndsAt, Reads, Ended, ControlTyped
<1> QED BY <1>0, <1>5, <1>6, EndsAside, EndsOfBoth

-----------------------------------------------------------------------------
(***************************************************************************)
(* The messages of a batch, and what is left when all is there.            *)
(***************************************************************************)

Along(s, k) == [i \in 1..Len(s) |-> k[s[i]]]
Singly(g, k, U, V) == Maps(g, U, V) /\ k \in [U -> V] /\ \A u \in U : g[u] = <<k[u]>>

LEMMA ImagesOfSingles ==
    ASSUME NEW U, NEW V, NEW k, NEW g, Singly(g, k, U, V)
    PROVE  \A s \in Seq(U) : Images(s, g) = Along(s, k)
<1> DEFINE K(s) == [i \in 1..Len(s) |-> k[s[i]]]
           G == {s \in Seq(U) : Images(s, g) = K(s)}
<1>1. Maps(g, U, V) /\ k \in [U -> V] /\ \A u \in U : g[u] = <<k[u]>>
  BY DEF Singly
<1>2. <<>> \in G
  <2>1. K(<<>>) = <<>>
    BY EmptySeq
  <2> QED BY <1>1, <2>1, EmptySeq, ImagesProperties
<1>3. ASSUME NEW s \in Seq(U), NEW x \in U, s \in G PROVE Append(s, x) \in G
  <2>1. /\ Len(s) \in Nat /\ Append(s, x) \in Seq(U) /\ Len(Append(s, x)) = Len(s) + 1
        /\ Append(s, x)[Len(s) + 1] = x /\ \A i \in 1..Len(s) : Append(s, x)[i] = s[i] /\ s[i] \in U
    BY LenProperties, AppendProperties, ElementOfSeq
  <2>2. Images(Append(s, x), g) = K(s) \o <<k[x]>>
    <3>1. Images(Append(s, x), g) = Images(s, g) \o g[x]
      BY <1>1, ImagesProperties
    <3> QED BY <1>1, <1>3, <3>1
  <2>3. K(s) \in Seq(V) /\ Len(K(s)) = Len(s) /\ k[x] \in V /\ \A i \in 1..Len(s) : K(s)[i] = k[s[i]]
    BY <1>1, <2>1
  <2>4. K(Append(s, x)) \in Seq(V) /\ Len(K(Append(s, x))) = Len(s) + 1
        /\ \A i \in 1..(Len(s) + 1) : K(Append(s, x))[i] = k[Append(s, x)[i]]
    BY <1>1, <2>1
  <2> HIDE DEF K
  <2>5. K(s) \o <<k[x]>> = Append(K(s), k[x])
    BY <2>3, AppendIsConcat
  <2>6. /\ Append(K(s), k[x]) \in Seq(V) /\ Len(Append(K(s), k[x])) = Len(s) + 1
        /\ Append(K(s), k[x])[Len(s) + 1] = k[x] /\ \A i \in 1..Len(s) : Append(K(s), k[x])[i] = k[s[i]]
    BY <2>3, AppendProperties
  <2>7. \A i \in 1..(Len(s) + 1) : K(Append(s, x))[i] = Append(K(s), k[x])[i]
    <3>1. \A i \in 1..(Len(s) + 1) : i = Len(s) + 1 \/ i \in 1..Len(s)
      BY <2>1
    <3> QED BY <2>1, <2>4, <2>6, <3>1
  <2>8. K(Append(s, x)) = Append(K(s), k[x])
    BY <2>4, <2>6, <2>7, SeqEqual
  <2> QED BY <2>1, <2>2, <2>5, <2>8
<1>4. Seq(U) \subseteq G
  <2> HIDE DEF G
  <2> QED BY <1>2, <1>3, SequencesByAppending
<1> QED BY <1>4 DEF Along

\* A batch holds the messages that end in the units.
LEMMA BatchEndings ==
    ASSUME NEW U \in Seq(Unit), NEW A \in Seq(Descriptor), Len(Announced(U)) <= Len(A)
    PROVE  Messages(Batch(Those(U, IsLastOfPayload), A)) = Endings(U)
<1> DEFINE P == Those(U, IsLastOfPayload)
           Final == {u \in Unit : IsLastOfPayload(u)}
           k == [u \in Final |-> u.frame.msg]
           g == [u \in Final |-> <<k[u]>>]
<1>1. k \in [Final -> Msg]
  <2>1. \A u \in Final : u.frame.msg \in Msg
    BY DEF IsLastOfPayload, Unit, Frame
  <2> QED BY <2>1
<1>2. /\ Maps(g, Final, Msg)
      /\ \A s \in Seq(Final) : Images(s, g) = [i \in 1..Len(s) |-> k[s[i]]]
  <2> HIDE DEF k, Final
  <2>1. \A u \in Final : g[u] = <<k[u]>> /\ <<k[u]>> \in Seq(Msg)
    BY <1>1
  <2>2. Maps(g, Final, Msg)
    BY <2>1 DEF Maps
  <2> HIDE DEF g
  <2>3. \A s \in Seq(Final) : Images(s, g) = Along(s, k)
    <3>1. Singly(g, k, Final, Msg)
      BY <1>1, <2>1, <2>2 DEF Singly
    <3> QED BY <3>1, ImagesOfSingles
  <2> QED BY <2>2, <2>3 DEF Along
<1>3. Maps(lastOf, Unit, Final)
  <2>1. \A u \in Unit : (IF IsLastOfPayload(u) THEN <<u>> ELSE <<>>) \in Seq(Final)
    <3>1. \A u \in Unit : IsLastOfPayload(u) => u \in Final
      OBVIOUS
    <3>2. \A u \in Final : <<u>> \in Seq(Final)
      OBVIOUS
    <3> HIDE DEF Final
    <3> QED BY <3>1, <3>2, EmptySeq
  <2> HIDE DEF Final
  <2> QED BY <2>1 DEF Maps, lastOf
<1>4. P = Images(U, lastOf)
  <2>1. \A W \in Seq(Unit) : Those(W, IsLastOfPayload) = Images(W, lastOf)
    BY JoinedAreImages
  <2> QED BY <2>1, Zenon
<1>5. P \in Seq(Final)
  <2> HIDE DEF P, Final
  <2> QED BY <1>3, <1>4, ImagesProperties
<1>6. \A u \in Unit : AtEnd(endOf)[u] = Images(lastOf[u], g)
  <2> TAKE u \in Unit
  <2>1. u.frame \in Frame
    BY DEF Unit
  <2>2. CASE IsLastOfPayload(u)
    <3>1. lastOf[u] = <<u>> /\ AtEnd(endOf)[u] = <<u.frame.msg>> /\ u \in Final
      BY <2>1, <2>2 DEF lastOf, AtEnd, endOf, IsLastOfPayload
    <3>2. g[u] = <<u.frame.msg>>
      BY <3>1
    <3>3. Images(<<u>>, g) = g[u]
      <4> HIDE DEF g, Final
      <4> QED BY <1>2, <3>1, ImagesProperties
    <3> QED BY <3>1, <3>2, <3>3
  <2>3. CASE ~IsLastOfPayload(u)
    <3>1. lastOf[u] = <<>> /\ AtEnd(endOf)[u] = <<>>
      BY <2>1, <2>3 DEF lastOf, AtEnd, endOf, IsLastOfPayload
    <3>2. Images(<<>>, g) = <<>>
      <4> HIDE DEF g, Final
      <4> QED BY <1>2, ImagesProperties
    <3> QED BY <3>1, <3>2
  <2> QED BY <2>2, <2>3
<1>7. Endings(U) = Images(P, g)
  <2>1. Maps(AtEnd(endOf), Unit, Msg)
    BY EndingsTyped, SayTyped
  <2> HIDE DEF P, g, Final
  <2>2. \A s \in Seq(Unit) : Images(Images(s, lastOf), g) = Images(s, AtEnd(endOf))
    BY <1>2, <1>3, <1>6, <2>1, ImagesOfImages
  <2> QED BY <1>4, <2>2 DEF Endings, Say
<1>8. Images(P, g) = [i \in 1..Len(P) |-> P[i].frame.msg]
  <2>1. \A i \in 1..Len(P) : k[P[i]] = P[i].frame.msg
    <3>1. \A i \in 1..Len(P) : P[i] \in Final
      <4> HIDE DEF P, Final
      <4> QED BY <1>5, ElementOfSeq
    <3> HIDE DEF P, Final
    <3> QED BY <3>1
  <2>2. Images(P, g) = [i \in 1..Len(P) |-> k[P[i]]]
    <3> HIDE DEF P, g, k, Final
    <3> QED BY <1>2, <1>5
  <2> HIDE DEF P, g, k, Final
  <2> QED BY <2>1, <2>2
<1>9. Messages(Batch(P, A)) = [i \in 1..Len(P) |-> P[i].frame.msg]
  <2>1. Len(Batch(P, A)) = Len(P) /\ \A i \in 1..Len(P) : Batch(P, A)[i].msg = P[i].frame.msg
    <3> HIDE DEF P
    <3> QED BY BatchProperties DEF P
  <2> HIDE DEF P
  <2> QED BY <2>1 DEF Messages
<1> QED BY <1>7, <1>8, <1>9

\* When nothing is on the way, no message stays behind: its descriptors are there.
LEMMA NothingLeft ==
    ASSUME SentTyped, ReadTyped, Flow, NEW x \in End, up[x], wire[Peer(x)] = <<>>
    PROVE  Endings(SubSeq(bytes[x], Parsed(x) + 1, Len(bytes[x]))) = <<>>
<1> DEFINE B == bytes[x]
           A == attached[x]
           n == Parsed(x)
           rest == SubSeq(B, n + 1, Len(B))
           T == {0} \cup {i \in 1..Len(B) : IsLastUnit(B[i]) /\ Len(Announced(SubSeq(B, 1, i))) <= Len(A)}
           Early == {u \in Unit : ~IsLastUnit(u)}
<1>1. B \in Seq(Unit) /\ A \in Seq(Descriptor) /\ Len(B) \in Nat /\ n \in 0..Len(B) /\ rest \in Seq(Unit)
      /\ Len(rest) = Len(B) - n
  <2>1. B \in Seq(Unit) /\ A \in Seq(Descriptor) /\ Len(B) \in Nat
    BY LenProperties DEF ReadTyped
  <2>2. n \in 0..Len(B)
    BY <2>1, ParsedProperties
  <2> HIDE DEF B, n
  <2> QED BY <2>1, <2>2, CutInTwo
<1>2. Len(Announced(B)) <= Len(A)
  <2>1. Peer(x) \in End /\ Peer(Peer(x)) = x
    BY PeerProperties
  <2>2. Ahead(A, wire[Peer(x)], B)
    BY <2>1 DEF Flow
  <2>3. PICK r \in Seq(Descriptor) : A \o Images(<<>>, fdsOfUnit) = (Announced(B) \o Announced(<<>>)) \o r
    BY <2>2 DEF Ahead
  <2> HIDE DEF A, B
  <2>4. Announced(B) \in Seq(Descriptor) /\ Announced(<<>>) = <<>>
    BY <1>1, AnnouncedTyped
  <2>5. A \o Images(<<>>, fdsOfUnit) = A /\ Announced(B) \o <<>> = Announced(B)
    BY <1>1, <2>4, DescriptorsJoined
  <2>6. A = Announced(B) \o r
    BY <2>3, <2>4, <2>5
  <2> QED BY <2>4, <2>6, ConcatProperties, LenProperties
<1>3. \A i \in 1..Len(B) : IsLastUnit(B[i]) => i <= n
  <2> TAKE i \in 1..Len(B)
  <2> HAVE IsLastUnit(B[i])
  <2>1. Len(Announced(SubSeq(B, 1, i))) <= Len(Announced(B))
    <3> HIDE DEF B
    <3>1. i \in 0..Len(B)
      BY <1>1
    <3>2. /\ SubSeq(B, 1, i) \in Seq(Unit) /\ SubSeq(B, i + 1, Len(B)) \in Seq(Unit)
          /\ B = SubSeq(B, 1, i) \o SubSeq(B, i + 1, Len(B))
      BY <1>1, <3>1, CutInTwo
    <3>3. /\ Announced(SubSeq(B, 1, i)) \in Seq(Descriptor) /\ Announced(SubSeq(B, i + 1, Len(B))) \in Seq(Descriptor)
          /\ Announced(SubSeq(B, 1, i) \o SubSeq(B, i + 1, Len(B)))
                 = Announced(SubSeq(B, 1, i)) \o Announced(SubSeq(B, i + 1, Len(B)))
      BY <3>2, AnnouncedTyped
    <3>4. Announced(B) = Announced(SubSeq(B, 1, i)) \o Announced(SubSeq(B, i + 1, Len(B)))
      BY <3>2, <3>3
    <3> QED BY <3>3, <3>4, ConcatProperties, LenProperties
  <2>2. Len(Announced(SubSeq(B, 1, i))) <= Len(A)
    <3>1. /\ Len(Announced(SubSeq(B, 1, i))) \in Nat /\ Len(Announced(B)) \in Nat /\ Len(A) \in Nat
      <4> HIDE DEF A, B
      <4>1. i \in 0..Len(B)
        BY <1>1
      <4>2. SubSeq(B, 1, i) \in Seq(Unit)
        BY <1>1, <4>1, CutInTwo
      <4> QED BY <1>1, <4>2, AnnouncedTyped, LenProperties
    <3> QED BY <1>2, <2>1, <3>1
  <2>3. i \in T
    BY <2>2
  <2>4. n = Max(T)
    BY DEF Parsed
  <2>5. T \subseteq 0..Len(B) /\ T # {}
    BY <1>1
  <2> HIDE DEF T, B, n
  <2> QED BY <1>1, <2>3, <2>4, <2>5, MaxProperties
<1> HIDE DEF n
<1>4. \A i \in 1..Len(rest) : rest[i] \in Unit /\ ~IsLastUnit(rest[i])
  <2>1. \A i \in 1..Len(rest) : rest[i] = B[n + i] /\ n + i \in 1..Len(B) /\ ~(n + i <= n)
    <3>1. \A i \in 1..Len(rest) : n + i \in 1..Len(B) /\ ~(n + i <= n)
      BY <1>1
    <3>2. \A i \in 1..Len(rest) : rest[i] = B[n + i]
      <4> HIDE DEF B
      <4> QED BY <1>1, ElementOfSeq
    <3> QED BY <3>1, <3>2
  <2> HIDE DEF rest, B
  <2> QED BY <1>1, <1>3, <2>1, ElementOfSeq
<1>5. rest \in Seq(Early)
  <2>1. \A i \in 1..Len(rest) : rest[i] \in Early
    BY <1>4
  <2> HIDE DEF rest, Early
  <2>2. Len(rest) \in Nat /\ rest = [i \in 1..Len(rest) |-> rest[i]]
    BY <1>1, LenProperties
  <2> QED BY <2>1, <2>2
<1>6. Endings(rest) = <<>>
  <2>1. \A U \in Seq(Early) : Say(U, endOf) = <<>>
    BY EndingsTyped, SayTyped
  <2> HIDE DEF rest, Early
  <2> QED BY <1>5, <2>1 DEF Endings
<1> QED BY <1>6 DEF n

\* The peer acknowledges no more than is retained.
LEMMA AcknowledgedFits ==
    ASSUME OnePoster, SentTyped, RetainedTyped, ReadTyped, PostersTyped, Safe, Accounted, NEW x \in End, main[x] # "dead"
    PROVE  Acknowledged(ParsedUnits(x)) <= Len(retained[x])
<1> DEFINE y == Peer(x)
           U == ParsedUnits(x)
           rest == SubSeq(bytes[x], Parsed(x) + 1, Len(bytes[x]))
           k == Acknowledged(U)
           n == Due(rest, wire[y], queue[y])
<1>1. /\ y \in End /\ retained[x] \in Seq(Descriptor) /\ attached[y] \in Seq(Descriptor)
      /\ queueFds[x] \in Seq(Descriptor) /\ wire[y] \in Seq(Unit) /\ queue[y] \in Seq(SafeEntry)
      /\ queue[y] \in Seq(Entry) /\ bytes[x] \in Seq(Unit) /\ attached[x] \in Seq(Descriptor)
  <2>1. y \in End
    BY PeerProperties
  <2>2. queue[y] \in Seq(SafeEntry)
    BY <2>1 DEF Safe
  <2>3. queue[y] \in Seq(Entry)
    BY <2>2, SafeIsEntry
  <2> QED BY <2>1, <2>2, <2>3 DEF SentTyped, ReadTyped, RetainedTyped
<1>2. U \in Seq(Unit) /\ rest \in Seq(Unit) /\ U \o rest = bytes[x]
  <2>1. Parsed(x) \in 0..Len(bytes[x])
    BY <1>1, ParsedProperties
  <2> QED BY <1>1, <2>1, CutInTwo DEF ParsedUnits
<1>3. Pending(x) \in Seq(Descriptor)
  <2>1. Poster(x) \in Thread
    BY PosterProperties
  <2>2. retaining[Poster(x)] \in Msg \cup {None}
    BY <2>1 DEF PostersTyped
  <2> QED BY <2>2, FdsTyped, EmptySeq DEF Pending
<1>4. PICK W \in Seq(Descriptor) : Keeps(retained[x], attached[y], W, queueFds[x], Pending(x), Owed(x))
  BY DEF Accounted
<1> HIDE DEF U, rest
<1>5. k \in Nat /\ n \in Nat /\ Owed(x) = n + k
  <2>1. k \in Nat
    BY <1>2, AcknowledgedTyped
  <2>2. n \in Nat
    BY <1>1, <1>2, DueTyped
  <2>3. \A X, Y \in Seq(Unit), Z \in Seq(SafeEntry) : \A T \in Seq(Unit) :
            Due(T \o X, Y, Z) = Due(X, Y, Z) + Acknowledged(T)
    BY DueWhileMoving
  <2>4. Due(U \o rest, wire[y], queue[y]) = n + k
    BY <1>1, <1>2, <2>3
  <2>5. Owed(x) = Due(U \o rest, wire[y], queue[y])
    BY <1>2 DEF Owed
  <2> QED BY <2>1, <2>2, <2>4, <2>5
<1> HIDE DEF k, n, y
<1>6. k <= Len(retained[x])
  <2>1. Keeps(retained[x], attached[y], W, queueFds[x], Pending(x), n + k)
    BY <1>4, <1>5
  <2> QED BY <1>1, <1>3, <1>5, <2>1, KeepsTheRest
<1> QED BY <1>6 DEF k, U

LEMMA EndsOfParse ==
    ASSUME OnePoster, SentTyped, RetainedTyped, ReadTyped, PostersTyped, MessagesTyped, ControlTyped, Safe, Life, Flow,
           Accounted, Ends, NEW x \in End, IOParse(x)
    PROVE  Ends'
<1> DEFINE y == Peer(x)
           U == ParsedUnits(x)
           rest == SubSeq(bytes[x], Parsed(x) + 1, Len(bytes[x]))
           got == ParsedMessages(x)
<1>0. y \in End /\ y # x /\ Peer(y) = x /\ EndsAt(x) /\ EndsAt(y) /\ y = Peer(x)
  BY PeerProperties DEF Ends
<1>1. io[x] \in {"parse", "last parse"} /\ io[x] \notin Ended /\ up[x] /\ main[x] # "dead"
  BY DEF IOParse, Life, Ended
<1>2. U \in Seq(Unit) /\ rest \in Seq(Unit) /\ U \o rest = bytes[x] /\ got \in Seq(Message)
      /\ Messages(got) = Endings(U)
  <2>1. bytes[x] \in Seq(Unit) /\ attached[x] \in Seq(Descriptor) /\ Parsed(x) \in 0..Len(bytes[x])
    BY ReadTyped, ParsedProperties DEF ReadTyped
  <2>2. U \in Seq(Unit) /\ got \in Seq(Message) /\ Len(Announced(U)) <= Len(attached[x])
    BY ParseTyped
  <2>3. rest \in Seq(Unit) /\ U \o rest = bytes[x]
    BY <2>1, CutInTwo DEF ParsedUnits
  <2>4. Messages(got) = Endings(U)
    <3> HIDE DEF U
    <3>1. Messages(Batch(Those(U, IsLastOfPayload), attached[x])) = Endings(U)
      BY <2>1, <2>2, BatchEndings
    <3> QED BY <3>1 DEF ParsedMessages, U
  <2> QED BY <2>2, <2>3, <2>4
<1>3. /\ UNCHANGED <<up, open, ended, wire>>
      /\ main' = main \/ (main[x] = "blocked" /\ main' = [main EXCEPT ![x] = "wait"])
      /\ bytes' = [bytes EXCEPT ![x] = rest]
      /\ incoming' = [incoming EXCEPT ![x] = @ \o got]
  BY DEF IOParse, Broadcast, ParsedUnits, ParsedMessages, os, history
<1>4. /\ peerEof' = [peerEof EXCEPT ![x] = @]
      /\ incomingEof' = [incomingEof EXCEPT ![x] = @ \/ peerEof[x]]
  <2>1. ~(Acknowledged(U) > Len(retained[x]))
    <3>1. Acknowledged(U) <= Len(retained[x]) /\ Acknowledged(U) \in Nat /\ Len(retained[x]) \in Nat
      BY <1>1, <1>2, AcknowledgedFits, AcknowledgedTyped, LenProperties DEF RetainedTyped
    <3> QED BY <3>1
  <2>2. /\ peerEof' = [peerEof EXCEPT ![x] = peerEof[x] \/ Acknowledged(U) > Len(retained[x])]
        /\ incomingEof' = [incomingEof EXCEPT ![x] = @ \/ (peerEof[x] \/ Acknowledged(U) > Len(retained[x]))]
    BY DEF IOParse, ParsedUnits
  <2> HIDE DEF U
  <2> QED BY <2>1, <2>2 DEF ControlTyped
<1>5. /\ \/ state' = state /\ revents' = [revents EXCEPT ![x] = @ \ {"POLLIN"}]
            /\ io[x] = "parse" /\ io'[x] \in {"write", "loop"}
         \/ state' = [state EXCEPT ![x] = "Stopped"] /\ revents' = [revents EXCEPT ![x] = {}]
            /\ io[x] = "parse" /\ io'[x] = "verify" /\ "POLLHUP" \in revents[x]
         \/ state' = state /\ revents' = revents /\ io[x] = "last parse" /\ io'[x] = "publish end"
      /\ \A z \in End : z # x => io'[z] = io[z]
  <2>1. x \in DOMAIN io
    BY DEF ControlTyped
  <2> QED BY <2>1 DEF IOParse, ControlTyped
<1> HIDE DEF y, U, rest, got
<1>6. \A z \in End :
          /\ main'[z] = main[z] \/ (main[z] = "blocked" /\ main'[z] = "wait")
          /\ up'[z] = up[z] /\ open'[z] = open[z] /\ ended'[z] = ended[z] /\ wire'[z] = wire[z]
          /\ peerEof'[z] = peerEof[z]
          /\ bytes'[z] = IF z = x THEN rest ELSE bytes[z]
          /\ incoming'[z] = IF z = x THEN incoming[z] \o got ELSE incoming[z]
          /\ incomingEof'[z] = IF z = x THEN incomingEof[z] \/ peerEof[x] ELSE incomingEof[z]
  <2>1. \A z \in End :
          /\ main'[z] = main[z] \/ (main[z] = "blocked" /\ main'[z] = "wait")
          /\ up'[z] = up[z] /\ open'[z] = open[z] /\ ended'[z] = ended[z] /\ wire'[z] = wire[z]
    BY <1>3 DEF ControlTyped
  <2>2. \A z \in End :
          /\ peerEof'[z] = peerEof[z]
          /\ incomingEof'[z] = IF z = x THEN incomingEof[z] \/ peerEof[x] ELSE incomingEof[z]
    BY <1>4 DEF ControlTyped
  <2>3. \A z \in End : bytes'[z] = IF z = x THEN rest ELSE bytes[z]
    BY <1>3 DEF ReadTyped
  <2>4. \A z \in End : incoming'[z] = IF z = x THEN incoming[z] \o got ELSE incoming[z]
    BY <1>3 DEF MessagesTyped
  <2> QED BY <2>1, <2>2, <2>3, <2>4
<1>7. /\ \A z \in End : z # x => state'[z] = state[z] /\ revents'[z] = revents[z] /\ io'[z] = io[z]
      /\ state'[x] = state[x] \/ (state'[x] = "Stopped" /\ "POLLHUP" \in revents[x])
      /\ "POLLHUP" \in revents'[x] => "POLLHUP" \in revents[x]
      /\ io'[x] \in {"write", "loop"} \/ (io'[x] = "verify" /\ "POLLHUP" \in revents[x])
         \/ (io'[x] = "publish end" /\ io[x] = "last parse")
  <2>1. CASE state' = state /\ revents' = [revents EXCEPT ![x] = @ \ {"POLLIN"}] /\ io'[x] \in {"write", "loop"}
    BY <1>5, <2>1 DEF ControlTyped
  <2>2. CASE state' = [state EXCEPT ![x] = "Stopped"] /\ revents' = [revents EXCEPT ![x] = {}]
             /\ io'[x] = "verify" /\ "POLLHUP" \in revents[x]
    BY <1>5, <2>2 DEF ControlTyped
  <2>3. CASE state' = state /\ revents' = revents /\ io[x] = "last parse" /\ io'[x] = "publish end"
    BY <1>5, <2>3
  <2> QED BY <1>5, <2>1, <2>2, <2>3
<1>a. Aside(y)
  BY <1>0, <1>6, <1>7 DEF Aside
<1>8. Endings(bytes[x])' = Endings(rest)
  BY <1>6 DEF Endings, Say, AtEnd, endOf
<1>9. incomingEof[x] => got = <<>>
  <2> HAVE incomingEof[x]
  <2>1. Endings(U \o rest) = <<>>
    BY <1>0, <1>1, <1>2 DEF EndsAt, Reads
  <2>2. Endings(U) \in Seq(Msg) /\ Endings(rest) \in Seq(Msg) /\ Endings(U \o rest) = Endings(U) \o Endings(rest)
    BY <1>2, EndingsTyped
  <2>3. Len(Endings(U)) = 0
    BY <2>1, <2>2, ConcatProperties, LenProperties, EmptySeq
  <2>4. Len(got) = Len(Messages(got))
    BY <1>2, LenProperties DEF Messages
  <2> QED BY <1>2, <2>3, <2>4, EmptySeq
<1>10. peerEof[x] => Endings(rest) = <<>>
  <2> HAVE peerEof[x]
  <2>1. wire[y] = <<>>
    BY <1>0, <1>1 DEF EndsAt, Reads
  <2> QED BY <1>0, <1>1, <2>1, NothingLeft DEF rest
<1>11. incoming[x] = <<>> /\ got = <<>> => incoming[x] \o got = <<>>
  BY EmptySeq, ConcatEmptySeq
<1>12. /\ main'[x] = main[x] \/ (main[x] = "blocked" /\ main'[x] = "wait")
       /\ up'[x] = up[x] /\ up'[y] = up[y] /\ open'[x] = open[x] /\ ended'[x] = ended[x] /\ wire'[y] = wire[y]
       /\ peerEof'[x] = peerEof[x] /\ incomingEof'[x] = (incomingEof[x] \/ peerEof[x])
       /\ incoming'[x] = incoming[x] \o got
  BY <1>0, <1>6
<1>13. EndsAt(x)'
  <2>1. Reads(x) /\ (incomingEof[x] => peerEof[x])
    BY <1>0, <1>1 DEF EndsAt, Reads
  <2>2. peerEof[x] => ~up[y] /\ wire[y] = <<>>
    BY <1>0, <2>1 DEF EndsAt
  <2>3. (main'[x] = "joining" \/ ~up'[x] => ~open'[x]) /\ ("POLLHUP" \in revents'[x] => ~up'[y])
    BY <1>0, <1>7, <1>12 DEF EndsAt
  <2>4. open'[x] /\ state'[x] # "Running" => state'[x] = "Stopped" /\ ~up'[y]
    BY <1>0, <1>7, <1>12 DEF EndsAt
  <2>5. open'[x] /\ io'[x] \in {"verify", "last receive", "last parse", "publish end"} => ~up'[y]
    BY <1>0, <1>7, <1>12 DEF EndsAt
  <2>6. (open'[x] /\ io'[x] = "last parse" => peerEof'[x]) /\ (open'[x] /\ io'[x] = "publish end" => incomingEof'[x])
    BY <1>0, <1>7, <1>12 DEF EndsAt
  <2>7. peerEof'[x] => ~up'[y] /\ wire'[y] = <<>>
    BY <1>12, <2>2
  <2>8. incomingEof'[x] => peerEof'[x] /\ Endings(bytes[x])' = <<>>
    BY <1>8, <1>10, <1>12, <2>1
  <2>9. main'[x] # "dead" /\ ended'[x] => incomingEof'[x] /\ incoming'[x] = <<>>
    BY <1>0, <1>1, <1>9, <1>11, <1>12 DEF EndsAt
  <2> QED BY <1>0, <2>3, <2>4, <2>5, <2>6, <2>7, <2>8, <2>9 DEF EndsAt
<1> QED BY <1>0, <1>a, <1>13, EndsAside, EndsOfBoth

LEMMA EndsOfDrain ==
    ASSUME SentTyped, ReadTyped, MessagesTyped, ControlTyped, Life, Ends, NEW x \in End, ReadHook(x) \/ SyncDrain(x)
    PROVE  Ends'
<1> DEFINE y == Peer(x)
<1>0. y \in End /\ y # x /\ Peer(y) = x /\ EndsAt(x) /\ EndsAt(y) /\ y = Peer(x)
  BY PeerProperties DEF Ends
<1>1. /\ UNCHANGED <<up, bytes, peerEof, incomingEof, io, revents, wire>>
      /\ incoming' = [incoming EXCEPT ![x] = <<>>]
      /\ ended' = [ended EXCEPT ![x] = incomingEof[x]]
      /\ main[x] # "dead"
  BY DEF ReadHook, SyncDrain, Drain, os, ioThread
<1>2. \/ UNCHANGED <<open, state>> /\ (main' = main \/ \E at \in {"match", "events"} : main' = [main EXCEPT ![x] = at])
      \/ /\ open' = [open EXCEPT ![x] = FALSE] /\ state' = [state EXCEPT ![x] = "Stopped"]
         /\ main' = [main EXCEPT ![x] = "joining"]
  <2>1. CASE ReadHook(x)
    BY <2>1 DEF ReadHook
  <2>2. CASE SyncDrain(x)
    BY <2>2 DEF SyncDrain, StopIOThread
  <2> QED BY <2>1, <2>2
<1> HIDE DEF y
<1>3. /\ \A z \in End :
             /\ up'[z] = up[z] /\ bytes'[z] = bytes[z] /\ peerEof'[z] = peerEof[z] /\ incomingEof'[z] = incomingEof[z]
             /\ io'[z] = io[z] /\ revents'[z] = revents[z] /\ wire'[z] = wire[z]
             /\ z # x => incoming'[z] = incoming[z] /\ ended'[z] = ended[z] /\ main'[z] = main[z]
                         /\ open'[z] = open[z] /\ state'[z] = state[z]
      /\ incoming'[x] = <<>> /\ ended'[x] = incomingEof[x]
      /\ main'[x] = "joining" => ~open'[x] \/ main[x] = "joining"
      /\ open'[x] => open[x] /\ state'[x] = state[x]
  <2>1. \A z \in End :
             /\ up'[z] = up[z] /\ bytes'[z] = bytes[z] /\ peerEof'[z] = peerEof[z] /\ incomingEof'[z] = incomingEof[z]
             /\ io'[z] = io[z] /\ revents'[z] = revents[z] /\ wire'[z] = wire[z]
    BY <1>1
  <2>2. /\ \A z \in End : z # x => incoming'[z] = incoming[z] /\ ended'[z] = ended[z]
        /\ incoming'[x] = <<>> /\ ended'[x] = incomingEof[x]
    BY <1>1 DEF ControlTyped, MessagesTyped
  <2>3. /\ \A z \in End : z # x => main'[z] = main[z] /\ open'[z] = open[z] /\ state'[z] = state[z]
        /\ main'[x] = "joining" => ~open'[x] \/ main[x] = "joining"
        /\ open'[x] => open[x] /\ state'[x] = state[x]
    <3>1. CASE UNCHANGED <<open, state>> /\ (main' = main \/ \E at \in {"match", "events"} : main' = [main EXCEPT ![x] = at])
      BY <3>1 DEF ControlTyped
    <3>2. CASE /\ open' = [open EXCEPT ![x] = FALSE] /\ state' = [state EXCEPT ![x] = "Stopped"]
               /\ main' = [main EXCEPT ![x] = "joining"]
      BY <3>2 DEF ControlTyped
    <3> QED BY <1>2, <3>1, <3>2
  <2> QED BY <2>1, <2>2, <2>3
<1>4. Aside(y)
  BY <1>0, <1>3 DEF Aside
<1>5. EndsAt(x)'
  <2>1. Endings(bytes[x])' = Endings(bytes[x])
    BY <1>1 DEF Endings, Say, AtEnd, endOf
  <2>2. open'[x] = TRUE \/ open'[x] = FALSE
    BY <1>2 DEF ControlTyped
  <2>3. (Reads(x)' => Reads(x)) /\ open' = open' /\ main[x] # "dead"
    BY <1>1, <1>3 DEF Reads
  <2> QED BY <1>0, <1>3, <2>1, <2>3 DEF EndsAt
<1> QED BY <1>0, <1>4, <1>5, EndsAside, EndsOfBoth

LEMMA EndsOfClose ==
    ASSUME SentTyped, ReadTyped, MessagesTyped, ControlTyped, Life, Ends, NEW x \in End,
           DeferredShutdown(x) \/ (\E how : Close(x, how)) \/ Joined(x)
    PROVE  Ends'
<1> DEFINE y == Peer(x)
<1>0. y \in End /\ y # x /\ Peer(y) = x /\ EndsAt(x) /\ EndsAt(y) /\ y = Peer(x)
  BY PeerProperties DEF Ends
<1>1. /\ UNCHANGED <<bytes, peerEof, incoming, incomingEof, ended, io, revents>>
      /\ \/ /\ UNCHANGED <<up, wire>> /\ open' = [open EXCEPT ![x] = FALSE]
            /\ \E s : state' = [state EXCEPT ![x] = s]
            /\ main' = [main EXCEPT ![x] = "joining"] /\ main[x] = "events"
         \/ /\ up' = [up EXCEPT ![x] = FALSE] /\ wire' = [wire EXCEPT ![y] = <<>>] /\ UNCHANGED <<open, state>>
            /\ main' = [main EXCEPT ![x] = "events"] /\ main[x] = "joining" /\ io[x] = "done"
  <2>1. CASE DeferredShutdown(x)
    BY <2>1 DEF DeferredShutdown, StopIOThread, receiving, os, ioThread, history
  <2>2. CASE \E how : Close(x, how)
    BY <2>2 DEF Close, StopIOThread, receiving, os, ioThread, history
  <2>3. CASE Joined(x)
    BY <2>3 DEF Joined, receiving, ioThread, history
  <2> QED BY <2>1, <2>2, <2>3
<1> HIDE DEF y
<1>2. /\ \A z \in End :
             /\ bytes'[z] = bytes[z] /\ peerEof'[z] = peerEof[z] /\ incomingEof'[z] = incomingEof[z]
             /\ io'[z] = io[z] /\ revents'[z] = revents[z] /\ incoming'[z] = incoming[z] /\ ended'[z] = ended[z]
             /\ z # x => up'[z] = up[z] /\ main'[z] = main[z] /\ open'[z] = open[z] /\ state'[z] = state[z]
             /\ z # y => wire'[z] = wire[z]
      /\ wire'[y] \in {wire[y], <<>>}
      /\ ~open'[x] /\ main[x] # "dead"
      /\ Reads(x)' => Reads(x)
      /\ ~up[x] => ~up'[x]
  <2>1. \A z \in End :
             /\ bytes'[z] = bytes[z] /\ peerEof'[z] = peerEof[z] /\ incomingEof'[z] = incomingEof[z]
             /\ io'[z] = io[z] /\ revents'[z] = revents[z] /\ incoming'[z] = incoming[z] /\ ended'[z] = ended[z]
    BY <1>1
  <2>2. CASE /\ UNCHANGED <<up, wire>> /\ open' = [open EXCEPT ![x] = FALSE]
             /\ \E s : state' = [state EXCEPT ![x] = s]
             /\ main' = [main EXCEPT ![x] = "joining"] /\ main[x] = "events"
    BY <2>1, <2>2 DEF ControlTyped, Reads
  <2>3. CASE /\ up' = [up EXCEPT ![x] = FALSE] /\ wire' = [wire EXCEPT ![y] = <<>>] /\ UNCHANGED <<open, state>>
             /\ main' = [main EXCEPT ![x] = "events"] /\ main[x] = "joining" /\ io[x] = "done"
    <3>1. ~open[x]
      BY <1>0, <2>3 DEF EndsAt
    <3> QED BY <1>0, <2>1, <2>3, <3>1, ZenonT(30) DEF ControlTyped, SentTyped, Reads
  <2> QED BY <1>1, <2>2, <2>3
<1>3. Aside(y)
  BY <1>0, <1>2 DEF Aside
<1>4. EndsAt(x)'
  <2>1. Endings(bytes[x])' = Endings(bytes[x])
    BY <1>1 DEF Endings, Say, AtEnd, endOf
  <2> QED BY <1>0, <1>2, <2>1, ZenonT(30) DEF EndsAt
<1> QED BY <1>0, <1>3, <1>4, EndsAside, EndsOfBoth

LEMMA EndsOfDeath ==
    ASSUME SentTyped, ReadTyped, MessagesTyped, ControlTyped, Life, Ends, NEW x \in End,
           NEW now \in {"aborted", "crashed"}, Die(x, now)
    PROVE  Ends'
<1> DEFINE y == Peer(x)
<1>0. y \in End /\ y # x /\ Peer(y) = x /\ EndsAt(x) /\ EndsAt(y) /\ y = Peer(x)
  BY PeerProperties DEF Ends
<1>1. /\ main' = [main EXCEPT ![x] = "dead"] /\ io' = [io EXCEPT ![x] = now] /\ up' = [up EXCEPT ![x] = FALSE]
      /\ wire' = [wire EXCEPT ![y] = <<>>] /\ open' = [open EXCEPT ![x] = FALSE] /\ state' = [state EXCEPT ![x] = "Stopped"]
      /\ bytes' = [bytes EXCEPT ![x] = <<>>] /\ peerEof' = [peerEof EXCEPT ![x] = FALSE]
      /\ incoming' = [incoming EXCEPT ![x] = <<>>] /\ incomingEof' = [incomingEof EXCEPT ![x] = FALSE]
      /\ revents' = [revents EXCEPT ![x] = {}] /\ ended' = ended
  BY DEF Die
<1> HIDE DEF y
<1>2. Aside(y)
  BY <1>0, <1>1 DEF Aside, ControlTyped, SentTyped, ReadTyped, MessagesTyped
<1>3. /\ main'[x] = "dead" /\ ~open'[x] /\ ~peerEof'[x] /\ ~incomingEof'[x] /\ revents'[x] = {}
  BY <1>1 DEF ControlTyped
<1>4. EndsAt(x)'
  BY <1>3 DEF EndsAt
<1> QED BY <1>0, <1>2, <1>4, EndsAside, EndsOfBoth

LEMMA EndsOfOthers ==
    ASSUME MessagesTyped, ControlTyped, Life, PostersTyped, Ends,
           \/ \E t \in Thread : PostRefused(t) \/ PostRetain(t) \/ PostEnqueue(t)
           \/ \E e \in End : DeferredHandle(e) \/ SyncMatch(e) \/ SyncWait(e)
           \/ UNCHANGED vars
    PROVE  Ends'
<1> DEFINE Same == UNCHANGED <<up, open, state, io, revents, peerEof, incomingEof, ended, bytes, incoming, wire>>
           Turns == \E e \in End, at \in {"posting", "match", "events", "wait", "blocked", "drain"} :
                        main[e] # "dead" /\ main' = [main EXCEPT ![e] = at]
           Goal == Same /\ (main' = main \/ Turns)
<1>1. ASSUME NEW t \in Thread, PostRefused(t) PROVE Goal
  BY <1>1 DEF PostRefused, receiving, connection, ioThread, os
<1>2. ASSUME NEW t \in Thread, PostRetain(t) PROVE Goal
  <2>1. /\ Same /\ At[t] \in End /\ open[At[t]]
        /\ main' = main \/ main' = [main EXCEPT ![At[t]] = "posting"]
    BY <1>2, ThreadAssumption DEF PostRetain, receiving, ioThread, os, history
  <2>2. main[At[t]] # "dead"
    BY <2>1 DEF Life
  <2> QED BY <2>1, <2>2
<1>3. ASSUME NEW t \in Thread, PostEnqueue(t) PROVE Goal
  <2>1. /\ Same /\ At[t] \in End /\ retaining[t] # None
        /\ main' = main \/ main' = [main EXCEPT ![At[t]] = "match"] \/ main' = [main EXCEPT ![At[t]] = "events"]
    BY <1>3, ThreadAssumption DEF PostEnqueue, receiving, ioThread, os
  <2>2. main[At[t]] # "dead"
    BY <2>1 DEF Life
  <2> QED BY <2>1, <2>2
<1>4. ASSUME NEW e \in End, DeferredHandle(e) PROVE Goal
  BY <1>4 DEF DeferredHandle, receiving, ioThread, os
<1>5. ASSUME NEW e \in End, SyncMatch(e) PROVE Goal
  <2>1. /\ Same /\ main[e] = "match"
        /\ main' = [main EXCEPT ![e] = "events"] \/ main' = [main EXCEPT ![e] = "wait"]
    BY <1>5 DEF SyncMatch, receiving, ioThread, os
  <2> QED BY <2>1
<1>6. ASSUME NEW e \in End, SyncWait(e) PROVE Goal
  <2>1. /\ Same /\ main[e] = "wait"
        /\ main' = [main EXCEPT ![e] = "blocked"] \/ main' = [main EXCEPT ![e] = "drain"]
    BY <1>6 DEF SyncWait, receiving, ioThread, os, history
  <2> QED BY <2>1
<1>7. ASSUME UNCHANGED vars PROVE Goal
  <2>1. Same /\ main' = main
    BY <1>7 DEF vars, receiving, ioThread, connection, os, history
  <2> QED BY <2>1
<1> HIDE DEF Goal
<1>8. Goal
  BY <1>1, <1>2, <1>3, <1>4, <1>5, <1>6, <1>7
<1> USE DEF Goal
<1>9. ASSUME NEW x \in End PROVE Aside(x)
  <2>1. main'[x] = main[x] \/ (main[x] # "dead" /\ main'[x] # "joining")
    BY <1>8 DEF ControlTyped
  <2> QED BY <1>8, <2>1 DEF Aside
<1> QED BY <1>9, EndsAside DEF Ends

LEMMA EndsStays ==
    ASSUME OnePoster, RetainedInv, Ends, [Next]_vars
    PROVE  Ends'
<1>0. /\ SentTyped /\ RetainedTyped /\ ReadTyped /\ PostersTyped /\ MessagesTyped /\ ControlTyped /\ Safe /\ Life
      /\ Flow /\ Accounted /\ RetainedUntilReceived
  BY RetainedInvMeans DEF RetainedInv, TransportInv
<1>1. ASSUME NEW e \in End, IOThread(e) PROVE Ends'
  <2>1. CASE IOLoop(e) \/ IOState(e) \/ IOPoll(e) \/ IOVerify(e)
    BY <1>0, <2>1, EndsOfLoop
  <2>2. CASE IOReceive(e)
    BY <1>0, <2>2, EndsOfReceive
  <2>3. CASE IOParse(e)
    BY <1>0, <2>3, EndsOfParse
  <2>4. CASE IOWrite(e)
    BY <1>0, <2>4, EndsOfWrite
  <2>5. CASE IOVerifyFails(e)
    BY <1>0, <2>5, EndsOfDeath DEF IOVerifyFails
  <2>6. CASE IOPublishEnd(e)
    BY <1>0, <2>6, EndsOfPublish
  <2> QED BY <1>1, <2>1, <2>2, <2>3, <2>4, <2>5, <2>6 DEF IOThread
<1>2. ASSUME NEW e \in End, OwnerThread(e) \/ \E how : Close(e, how) PROVE Ends'
  <2>1. CASE ReadHook(e) \/ SyncDrain(e)
    BY <1>0, <2>1, EndsOfDrain
  <2>2. CASE DeferredShutdown(e) \/ (\E how : Close(e, how)) \/ Joined(e)
    BY <1>0, <2>2, EndsOfClose
  <2>3. CASE DeferredHandle(e) \/ SyncMatch(e) \/ SyncWait(e)
    BY <1>0, <2>3, EndsOfOthers
  <2> QED BY <1>2, <2>1, <2>2, <2>3 DEF OwnerThread
<1>3. ASSUME NEW e \in End, Crash(e) PROVE Ends'
  BY <1>0, <1>3, EndsOfDeath DEF Crash
<1>4. ASSUME (\E t \in Thread : PostRefused(t) \/ PostRetain(t) \/ PostEnqueue(t)) \/ UNCHANGED vars PROVE Ends'
  BY <1>0, <1>4, EndsOfOthers
<1> QED BY <1>1, <1>2, <1>3, <1>4 DEF Next

-----------------------------------------------------------------------------
(***************************************************************************)
(* The messages of e on their way to its peer p: those queued, those on    *)
(* the wire, those that have arrived, those parsed and those taken, and    *)
(* how a step moves them on.                                               *)
(***************************************************************************)

ToSend(e) == Endings(Stream(queue[e]))

SenderStays(e) ==
    /\ posted'[e] = posted[e] /\ written'[e] = written[e]
    /\ main'[e] # "dead" => Endings(Stream(queue'[e])) = Endings(Stream(queue[e]))

ReaderStays(e, p) ==
    /\ Messages(taken'[p]) = Messages(taken[p]) /\ ended'[p] = ended[p]
    /\ main'[p] # "dead" => /\ Endings(wire'[e]) = Endings(wire[e]) /\ Endings(bytes'[p]) = Endings(bytes[p])
                            /\ Messages(incoming'[p]) = Messages(incoming[p])

MovePost(e, p) ==
    /\ \E R \in Seq(Msg) : /\ posted'[e] = posted[e] \o R
                           /\ Endings(Stream(queue'[e])) = Endings(Stream(queue[e])) \o R
    /\ written'[e] = written[e] /\ ReaderStays(e, p) /\ open'[p] = open[p]

MoveWrite(e, p) ==
    /\ \E x \in Seq(Msg) : /\ written'[e] = written[e] + Len(x)
                           /\ Endings(Stream(queue[e])) = x \o Endings(Stream(queue'[e]))
                           /\ Endings(wire'[e]) = Endings(wire[e]) \o x
    /\ up[e] /\ up[p] /\ main[e] # "dead" /\ posted'[e] = posted[e] /\ open'[p] = open[p]
    /\ Messages(taken'[p]) = Messages(taken[p]) /\ ended'[p] = ended[p]
    /\ Endings(bytes'[p]) = Endings(bytes[p]) /\ Messages(incoming'[p]) = Messages(incoming[p])

MoveReceive(e, p) ==
    /\ Endings(bytes'[p]) = Endings(bytes[p]) \o Endings(wire[e]) /\ Endings(wire'[e]) = <<>>
    /\ SenderStays(e) /\ open'[p] = open[p]
    /\ Messages(taken'[p]) = Messages(taken[p]) /\ ended'[p] = ended[p]
    /\ Messages(incoming'[p]) = Messages(incoming[p])

MoveParse(e, p) ==
    /\ \E x \in Seq(Msg) : /\ Endings(bytes[p]) = x \o Endings(bytes'[p])
                           /\ Messages(incoming'[p]) = Messages(incoming[p]) \o x
    /\ SenderStays(e) /\ open'[p] = open[p] /\ Endings(wire'[e]) = Endings(wire[e])
    /\ Messages(taken'[p]) = Messages(taken[p]) /\ ended'[p] = ended[p]

MoveTake(e, p) ==
    /\ Messages(taken'[p]) = Messages(taken[p]) \o Messages(incoming[p])
    /\ Messages(incoming'[p]) = <<>>
    /\ ended'[p] = incomingEof[p] /\ main[p] # "dead"
    /\ open'[p] = open[p] \/ (incomingEof[p] /\ ~open'[p])
    /\ SenderStays(e) /\ Endings(wire'[e]) = Endings(wire[e]) /\ Endings(bytes'[p]) = Endings(bytes[p])

MoveHangUp(e, p) ==
    /\ Endings(wire'[e]) = <<>> /\ ~up'[p]
    /\ SenderStays(e) /\ open'[p] = open[p]
    /\ Messages(taken'[p]) = Messages(taken[p]) /\ ended'[p] = ended[p]
    /\ Endings(bytes'[p]) = Endings(bytes[p]) /\ Messages(incoming'[p]) = Messages(incoming[p])

MoveNothing(e, p) ==
    /\ SenderStays(e) /\ ReaderStays(e, p)
    /\ open'[p] = open[p] \/ ~open'[p]

Move(e, p) ==
    \/ MovePost(e, p) \/ MoveWrite(e, p) \/ MoveReceive(e, p) \/ MoveParse(e, p) \/ MoveTake(e, p)
    \/ MoveHangUp(e, p) \/ MoveNothing(e, p)

path == <<queue, posted, written, wire, bytes, incoming, taken, ended>>

\* The steps that move no message; a step of the owner may hang up.
LEMMA PathSteps ==
    ASSUME ControlTyped, [Next]_vars
    PROVE  \/ UNCHANGED path /\ \A x \in End : open'[x] = open[x] \/ ~open'[x]
           \/ \E t \in Thread : PostEnqueue(t)
           \/ \E e \in End : \/ IOReceive(e) \/ IOParse(e) \/ IOWrite(e) \/ Joined(e) \/ ReadHook(e)
                             \/ DeferredHandle(e) \/ SyncDrain(e)
                             \/ \E now \in {"aborted", "crashed"} : Die(e, now)
<1> DEFINE Quiet == UNCHANGED path /\ \A x \in End : open'[x] = open[x] \/ ~open'[x]
<1> USE DEF path, sending, receiving, connection, os, history
<1>1. ASSUME UNCHANGED vars PROVE Quiet
  BY <1>1 DEF vars
<1>2. ASSUME NEW t \in Thread, PostRefused(t) \/ PostRetain(t) PROVE Quiet
  BY <1>2 DEF PostRefused, PostRetain
<1>3. ASSUME NEW e \in End, IOLoop(e) \/ IOState(e) \/ IOPoll(e) \/ IOVerify(e) \/ IOPublishEnd(e) PROVE Quiet
  <2>1. CASE IOLoop(e)
    BY <2>1 DEF IOLoop
  <2>2. CASE IOState(e)
    BY <2>2 DEF IOState
  <2>3. CASE IOPoll(e)
    BY <2>3 DEF IOPoll
  <2>4. CASE IOVerify(e) \/ IOPublishEnd(e)
    BY <2>4 DEF IOVerify, IOPublishEnd
  <2> QED BY <1>3, <2>1, <2>2, <2>3, <2>4
<1>4. ASSUME NEW e \in End, DeferredShutdown(e) \/ \E how : Close(e, how) PROVE Quiet
  <2>1. UNCHANGED path /\ open' = [open EXCEPT ![e] = FALSE]
    BY <1>4 DEF DeferredShutdown, Close, StopIOThread
  <2> QED BY <2>1 DEF ControlTyped
<1>5. ASSUME NEW e \in End, SyncMatch(e) \/ SyncWait(e) PROVE Quiet
  BY <1>5 DEF SyncMatch, SyncWait
<1> HIDE DEF path, sending, receiving, connection, os, history, Quiet
<1>6. \/ Quiet
      \/ \E t \in Thread : PostEnqueue(t)
      \/ \E e \in End : \/ IOReceive(e) \/ IOParse(e) \/ IOWrite(e) \/ Joined(e) \/ ReadHook(e)
                        \/ DeferredHandle(e) \/ SyncDrain(e)
                        \/ \E now \in {"aborted", "crashed"} : Die(e, now)
  BY <1>1, <1>2, <1>3, <1>4, <1>5 DEF Next, IOThread, OwnerThread, Crash, IOVerifyFails
<1> QED BY <1>6 DEF Quiet

LEMMA PostSays ==
    \A Q \in Seq(Entry), R \in Seq(Msg) : Endings(Stream(Q \o Answers(R))) = Endings(Stream(Q)) \o R
<1> DEFINE k == [m \in Msg |-> m]
           g == [m \in Msg |-> <<m>>]
<1>1. Maps(g, Msg, Msg) /\ Singly(g, k, Msg, Msg)
  <2>1. \A m \in Msg : g[m] = <<m>> /\ <<m>> \in Seq(Msg) /\ k[m] = m
    OBVIOUS
  <2>2. k \in [Msg -> Msg]
    OBVIOUS
  <2>3. g \in [Msg -> Seq(Msg)]
    OBVIOUS
  <2> HIDE DEF k, g
  <2> QED BY <2>1, <2>2, <2>3 DEF Singly, Maps
<1>2. \A m \in Msg : endOf[Payload(m)] = g[m]
  <2>1. \A m \in Msg : Payload(m) \in Frame /\ Payload(m).type = "Payload" /\ Payload(m).msg = m
    BY MessageAssumption DEF Payload, Frame
  <2> QED BY <2>1 DEF endOf
<1>3. \A R \in Seq(Msg) : Images(R, g) = R
  <2> TAKE R \in Seq(Msg)
  <2>1. Images(R, g) = Along(R, k)
    <3> HIDE DEF g, k
    <3> QED BY <1>1, ImagesOfSingles
  <2>2. Len(R) \in Nat /\ \A i \in 1..Len(R) : R[i] \in Msg
    BY LenProperties, ElementOfSeq
  <2>3. Along(R, k) = [i \in 1..Len(R) |-> R[i]]
    BY <2>2 DEF Along
  <2>4. R = [i \in 1..Len(R) |-> R[i]]
    BY LenProperties
  <2> QED BY <2>1, <2>3, <2>4
<1> HIDE DEF g, k
<1> SUFFICES ASSUME NEW Q \in Seq(Entry), NEW R \in Seq(Msg)
             PROVE  Endings(Stream(Q \o Answers(R))) = Endings(Stream(Q)) \o R
  OBVIOUS
<1>4. Maps(endOf, Frame, Msg)
  BY EndingsTyped
<1>5. Say(Stream(Q \o Answers(R)), endOf) = Say(Stream(Q), endOf) \o Images(R, g)
  BY <1>1, <1>2, <1>4, AnswersSay
<1> QED BY <1>3, <1>5 DEF Endings

LEMMA AcknowledgementSays ==
    \A Q \in Seq(Entry), n \in Nat :
        Endings(Stream(Append(Q, Queued(Acknowledgement(n))))) = Endings(Stream(Q))
<1> SUFFICES ASSUME NEW Q \in Seq(Entry), NEW n \in Nat
             PROVE  Endings(Stream(Append(Q, Queued(Acknowledgement(n))))) = Endings(Stream(Q))
  OBVIOUS
<1> DEFINE q == Queued(Acknowledgement(n))
<1>1. q \in SafeEntry /\ q \in Entry
  BY QueuedIsSafe, SafeIsEntry
<1>2. q.frame \in Frame /\ q.frame.type # "Payload"
  <2>1. q.frame = Acknowledgement(n) /\ Acknowledgement(n).type # "Payload"
    BY DEF Queued, Acknowledgement
  <2> QED BY <1>1, <2>1 DEF Entry
<1>3. endOf[q.frame] = <<>>
  BY <1>2 DEF endOf
<1> HIDE DEF q
<1>4. Maps(endOf, Frame, Msg) /\ Endings(Stream(Q)) \in Seq(Msg)
  BY StreamTyped, EndingsTyped
<1>5. Say(Stream(Append(Q, q)), endOf) = Say(Stream(Q), endOf) \o endOf[q.frame]
  BY <1>1, <1>4, StreamSays
<1>6. Endings(Stream(Append(Q, q))) = Endings(Stream(Q)) \o <<>>
  BY <1>3, <1>5 DEF Endings
<1>7. Endings(Stream(Append(Q, q))) = Endings(Stream(Q))
  BY <1>4, <1>6, ConcatEmptySeq
<1> QED BY <1>7 DEF q

LEMMA MessagesTypedToo ==
    /\ \A T \in Seq(Message) : Messages(T) \in Seq(Msg) /\ Len(Messages(T)) = Len(T)
    /\ \A S, T \in Seq(Message) : Messages(S \o T) = Messages(S) \o Messages(T)
    /\ Messages(<<>>) = <<>>
<1>1. ASSUME NEW T \in Seq(Message)
      PROVE  Messages(T) \in Seq(Msg) /\ Len(Messages(T)) = Len(T) /\ \A i \in 1..Len(T) : Messages(T)[i] = T[i].msg
  <2>1. Len(T) \in Nat /\ \A i \in 1..Len(T) : T[i] \in Message
    BY LenProperties, ElementOfSeq
  <2>2. \A m \in Message : m.msg \in Msg
    BY DEF Message
  <2> QED BY <2>1, <2>2 DEF Messages
<1>2. ASSUME NEW S \in Seq(Message), NEW T \in Seq(Message) PROVE Messages(S \o T) = Messages(S) \o Messages(T)
  <2>1. /\ S \o T \in Seq(Message) /\ Len(S \o T) = Len(S) + Len(T) /\ Len(S) \in Nat /\ Len(T) \in Nat
        /\ \A i \in 1..(Len(S) + Len(T)) : (S \o T)[i] = IF i <= Len(S) THEN S[i] ELSE T[i - Len(S)]
    BY ConcatProperties, LenProperties
  <2>2. /\ Messages(S) \o Messages(T) \in Seq(Msg) /\ Len(Messages(S) \o Messages(T)) = Len(S) + Len(T)
        /\ \A i \in 1..(Len(S) + Len(T)) :
               (Messages(S) \o Messages(T))[i] = IF i <= Len(S) THEN Messages(S)[i] ELSE Messages(T)[i - Len(S)]
    <3>1. Messages(S) \in Seq(Msg) /\ Messages(T) \in Seq(Msg) /\ Len(Messages(S)) = Len(S) /\ Len(Messages(T)) = Len(T)
      BY <1>1
    <3> DEFINE a == Messages(S)
               b == Messages(T)
    <3> HIDE DEF a, b
    <3>2. a \in Seq(Msg) /\ b \in Seq(Msg) /\ Len(a) = Len(S) /\ Len(b) = Len(T)
      BY <3>1 DEF a, b
    <3>3. /\ a \o b \in Seq(Msg) /\ Len(a \o b) = Len(a) + Len(b)
          /\ \A i \in 1..(Len(a) + Len(b)) : (a \o b)[i] = IF i <= Len(a) THEN a[i] ELSE b[i - Len(a)]
      BY <3>2, ConcatProperties
    <3>4. /\ a \o b \in Seq(Msg) /\ Len(a \o b) = Len(S) + Len(T)
          /\ \A i \in 1..(Len(S) + Len(T)) : (a \o b)[i] = IF i <= Len(S) THEN a[i] ELSE b[i - Len(S)]
      BY <3>2, <3>3
    <3> QED BY <3>4 DEF a, b
  <2>3. /\ Messages(S \o T) \in Seq(Msg) /\ Len(Messages(S \o T)) = Len(S) + Len(T)
        /\ \A i \in 1..(Len(S) + Len(T)) : Messages(S \o T)[i] = (S \o T)[i].msg
    BY <1>1, <2>1
  <2>4. \A i \in 1..(Len(S) + Len(T)) : Messages(S \o T)[i] = (Messages(S) \o Messages(T))[i]
    <3> TAKE i \in 1..(Len(S) + Len(T))
    <3>1. CASE i <= Len(S)
      <4>1. i \in 1..Len(S)
        BY <2>1, <3>1
      <4> QED BY <1>1, <2>1, <2>2, <2>3, <3>1, <4>1
    <3>2. CASE ~(i <= Len(S))
      <4>1. i - Len(S) \in 1..Len(T)
        BY <2>1, <3>2
      <4> QED BY <1>1, <2>1, <2>2, <2>3, <3>2, <4>1
    <3> QED BY <3>1, <3>2
  <2> QED BY <2>2, <2>3, <2>4, SeqEqual
<1>3. Messages(<<>>) = <<>>
  BY EmptySeq DEF Messages
<1> QED BY <1>1, <1>2, <1>3

LEMMA Moves ==
    ASSUME SentTyped, ReadTyped, PostersTyped, MessagesTyped, ControlTyped, Safe, Life, [Next]_vars, NEW e \in End
    PROVE  Move(e, Peer(e))
<1> DEFINE p == Peer(e)
           Goal == Move(e, p)
<1>0. /\ p \in End /\ p # e /\ Peer(p) = e /\ Peer(e) = p /\ \A x \in End : x = e \/ x = p
  BY PeerProperties
<1>a. /\ queue \in [End -> Seq(Entry)] /\ posted \in [End -> Seq(Msg)] /\ written \in [End -> Nat]
      /\ wire \in [End -> Seq(Unit)] /\ bytes \in [End -> Seq(Unit)] /\ incoming \in [End -> Seq(Message)]
      /\ taken \in [End -> Seq(Message)] /\ ended \in [End -> BOOLEAN] /\ open \in [End -> BOOLEAN]
      /\ up \in [End -> BOOLEAN] /\ attached \in [End -> Seq(Descriptor)]
  BY DEF SentTyped, ReadTyped, MessagesTyped, ControlTyped
<1> HIDE DEF p
\* Nothing happens to what comes before the wire; to what comes after.
<1> DEFINE Back == posted'[e] = posted[e] /\ written'[e] = written[e] /\ queue'[e] = queue[e]
           Staying == wire'[e] = wire[e] /\ bytes'[p] = bytes[p] /\ incoming'[p] = incoming[p]
           Reader == taken'[p] = taken[p] /\ ended'[p] = ended[p]
<1>b. Back => SenderStays(e)
  BY DEF SenderStays
<1>c. Staying /\ Reader => ReaderStays(e, p)
  BY DEF ReaderStays
<1>d. Back /\ Staying /\ Reader /\ (open'[p] = open[p] \/ ~open'[p]) => Goal
  BY <1>b, <1>c DEF Move, MoveNothing
<1>1. ASSUME UNCHANGED path, \A x \in End : open'[x] = open[x] \/ ~open'[x] PROVE Goal
  <2>1. Back /\ Staying /\ Reader
    BY <1>1 DEF path
  <2> HIDE DEF Back, Staying, Reader, Goal
  <2> QED BY <1>0, <1>1, <1>d, <2>1
<1>2. ASSUME NEW x \in End, NEW R \in Seq(Msg), Posts(x, R), Staying, Reader, open'[p] = open[p] PROVE Goal
  <2>1. /\ queue' = [queue EXCEPT ![x] = @ \o Answers(R)] /\ posted' = [posted EXCEPT ![x] = @ \o R]
        /\ written' = written
    BY <1>2 DEF Posts
  <2>2. CASE x = p
    <3>1. Back
      BY <1>0, <1>a, <2>1, <2>2
    <3> HIDE DEF Back, Staying, Reader, Goal
    <3> QED BY <1>2, <1>d, <3>1
  <2>3. CASE x = e
    <3>1. queue'[e] = queue[e] \o Answers(R) /\ posted'[e] = posted[e] \o R /\ written'[e] = written[e]
      BY <1>a, <2>1, <2>3
    <3>2. Endings(Stream(queue'[e])) = Endings(Stream(queue[e])) \o R
      BY <1>a, <3>1, PostSays
    <3>3. ReaderStays(e, p)
      <4> HIDE DEF Staying, Reader
      <4> QED BY <1>2, <1>c
    <3>4. MovePost(e, p)
      BY <1>2, <3>1, <3>2, <3>3 DEF MovePost
    <3> QED BY <3>4 DEF Move
  <2> QED BY <1>0, <2>2, <2>3
<1>3. ASSUME NEW t \in Thread, PostEnqueue(t) PROVE Goal
  <2>1. PICK x \in End, R \in Seq(Msg) : Posts(x, R)
    BY <1>3, EnqueueEffect
  <2>2. Staying /\ Reader /\ open'[p] = open[p]
    BY <1>3 DEF PostEnqueue, receiving, os
  <2> HIDE DEF Staying, Reader, Goal
  <2> QED BY <1>2, <2>1, <2>2
<1>4. ASSUME NEW x \in End, DeferredHandle(x) PROVE Goal
  <2>1. PICK R \in Seq(Msg) : Posts(x, R)
    <3>1. PICK R : R \in Seq(Msg) /\ Posts(x, R)
      BY <1>4, AnswerEffect
    <3> QED BY <3>1
  <2>2. Staying /\ Reader /\ open'[p] = open[p]
    BY <1>4 DEF DeferredHandle, receiving, os
  <2> HIDE DEF Staying, Reader, Goal
  <2> QED BY <1>2, <2>1, <2>2
<1>5. ASSUME NEW x \in End, incoming' = [incoming EXCEPT ![x] = <<>>], taken' = [taken EXCEPT ![x] = @ \o incoming[x]],
             ended' = [ended EXCEPT ![x] = incomingEof[x]], wire' = wire, bytes' = bytes, main[x] # "dead",
             open' = open \/ (incomingEof[x] /\ open' = [open EXCEPT ![x] = FALSE]),
             \/ queue' = queue /\ posted' = posted /\ written' = written
             \/ open' = open /\ \E R \in Seq(Msg) : Posts(x, R)
      PROVE  Goal
  <2>1. CASE x = p
    <3>1. Back
      <4>1. CASE queue' = queue /\ posted' = posted /\ written' = written
        BY <4>1
      <4>2. ASSUME NEW R \in Seq(Msg), Posts(x, R) PROVE Back
        <5>1. /\ queue' = [queue EXCEPT ![x] = @ \o Answers(R)] /\ posted' = [posted EXCEPT ![x] = @ \o R]
              /\ written' = written
          BY <4>2 DEF Posts
        <5> QED BY <1>0, <1>a, <2>1, <5>1
      <4> HIDE DEF Back
      <4> QED BY <1>5, <4>1, <4>2
    <3>2. /\ incoming'[p] = <<>> /\ taken'[p] = taken[p] \o incoming[p] /\ ended'[p] = incomingEof[p]
          /\ wire'[e] = wire[e] /\ bytes'[p] = bytes[p] /\ main[p] # "dead"
      BY <1>0, <1>5, <1>a, <2>1
    <3>3. open'[p] = open[p] \/ (incomingEof[p] /\ ~open'[p])
      BY <1>0, <1>5, <1>a, <2>1
    <3>4. /\ Messages(taken'[p]) = Messages(taken[p]) \o Messages(incoming[p])
          /\ Messages(incoming'[p]) = <<>>
      BY <1>0, <1>a, <3>2, MessagesTypedToo, ZenonT(30)
    <3>5. MoveTake(e, p)
      <4> HIDE DEF Back
      <4> QED BY <1>b, <3>1, <3>2, <3>3, <3>4 DEF MoveTake
    <3> QED BY <3>5 DEF Move
  <2>2. CASE x = e
    <3>1. Staying /\ Reader /\ open'[p] = open[p]
      BY <1>0, <1>5, <1>a, <2>2
    <3>2. CASE queue' = queue /\ posted' = posted /\ written' = written
      <4>1. Back
        BY <3>2
      <4> HIDE DEF Back, Staying, Reader, Goal
      <4> QED BY <1>d, <3>1, <4>1
    <3>3. ASSUME NEW R \in Seq(Msg), Posts(x, R) PROVE Goal
      <4> HIDE DEF Staying, Reader, Goal
      <4> QED BY <1>2, <3>1, <3>3
    <3> HIDE DEF Goal
    <3> QED BY <1>5, <3>2, <3>3
  <2> QED BY <1>0, <2>1, <2>2
<1>6. ASSUME NEW x \in End, ReadHook(x) PROVE Goal
  <2>1. PICK R \in Seq(Msg) : Posts(x, R)
    <3>1. PICK R : R \in Seq(Msg) /\ Posts(x, R)
      BY <1>6, AnswerEffect
    <3> QED BY <3>1
  <2>2. /\ incoming' = [incoming EXCEPT ![x] = <<>>] /\ taken' = [taken EXCEPT ![x] = @ \o incoming[x]]
        /\ ended' = [ended EXCEPT ![x] = incomingEof[x]] /\ wire' = wire /\ bytes' = bytes /\ main[x] # "dead"
        /\ open' = open
    BY <1>6 DEF ReadHook, Drain, os
  <2> HIDE DEF Goal
  <2> QED BY <1>5, <2>1, <2>2
<1>7. ASSUME NEW x \in End, SyncDrain(x) PROVE Goal
  <2>1. /\ incoming' = [incoming EXCEPT ![x] = <<>>] /\ taken' = [taken EXCEPT ![x] = @ \o incoming[x]]
        /\ ended' = [ended EXCEPT ![x] = incomingEof[x]] /\ wire' = wire /\ bytes' = bytes /\ main[x] # "dead"
        /\ queue' = queue /\ posted' = posted /\ written' = written
    BY <1>7 DEF SyncDrain, Drain, os, sending
  <2>2. open' = open \/ (incomingEof[x] /\ open' = [open EXCEPT ![x] = FALSE])
    BY <1>7 DEF SyncDrain, StopIOThread
  <2> HIDE DEF Goal
  <2> QED BY <1>5, <2>1, <2>2
<1>8. ASSUME NEW x \in End, IOReceive(x) PROVE Goal
  <2>1. /\ bytes' = [bytes EXCEPT ![x] = @ \o [i \in 1..Len(wire[Peer(x)]) |-> [wire[Peer(x)][i] EXCEPT !.fds = <<>>]]]
        /\ wire' = [wire EXCEPT ![Peer(x)] = <<>>]
        /\ UNCHANGED <<queue, posted, written, incoming, taken, ended, open>>
    BY <1>8 DEF IOReceive, sending, connection, history
  <2>2. Back /\ Reader /\ incoming'[p] = incoming[p] /\ open'[p] = open[p]
    BY <2>1
  <2>3. CASE x = e
    <3>1. Staying
      BY <1>0, <1>a, <2>1, <2>2, <2>3
    <3> HIDE DEF Back, Staying, Reader, Goal
    <3> QED BY <1>d, <2>2, <3>1
  <2>4. CASE x = p
    <3> DEFINE bare == [i \in 1..Len(wire[e]) |-> [wire[e][i] EXCEPT !.fds = <<>>]]
    <3>1. bytes'[p] = bytes[p] \o bare /\ wire'[e] = <<>>
      BY <1>0, <1>a, <2>1, <2>4
    <3>2. bare \in Seq(Unit) /\ Endings(bare) = Endings(wire[e])
      <4>1. wire[e] \in Seq(Unit)
        BY <1>a
      <4> QED BY <4>1, BareSaysTheSame DEF Endings
    <3> HIDE DEF bare
    <3>3. Endings(bytes'[p]) = Endings(bytes[p]) \o Endings(wire[e]) /\ Endings(wire'[e]) = <<>>
      <4>1. Endings(bytes[p] \o bare) = Endings(bytes[p]) \o Endings(bare)
        BY <1>0, <1>a, <3>2, EndingsTyped
      <4> QED BY <3>1, <3>2, <4>1, EndingsTyped
    <3>4. MoveReceive(e, p)
      <4>1. SenderStays(e)
        <5> HIDE DEF Back
        <5> QED BY <1>b, <2>2
      <4> QED BY <2>2, <3>3, <4>1 DEF MoveReceive
    <3> QED BY <3>4 DEF Move
  <2> QED BY <1>0, <2>3, <2>4
<1>9. ASSUME NEW x \in End, IOParse(x) PROVE Goal
  <2> DEFINE received == Len(Announced(ParsedUnits(x)))
             U == ParsedUnits(x)
             rest == SubSeq(bytes[x], Parsed(x) + 1, Len(bytes[x]))
             got == ParsedMessages(x)
  <2>1. /\ queue' = queue \/ \E n \in Nat : queue' = [queue EXCEPT ![x] = Append(@, Queued(Acknowledgement(n)))]
        /\ bytes' = [bytes EXCEPT ![x] = rest]
        /\ UNCHANGED <<posted, written, wire>>
    BY <1>9, ParseEffect DEF Parses
  <2>2. /\ incoming' = [incoming EXCEPT ![x] = @ \o got]
        /\ UNCHANGED <<taken, ended, open>>
    BY <1>9 DEF IOParse, ParsedMessages, ParsedUnits, history
  <2>3. U \in Seq(Unit) /\ rest \in Seq(Unit) /\ U \o rest = bytes[x] /\ got \in Seq(Message)
        /\ Messages(got) = Endings(U)
    <3>1. bytes[x] \in Seq(Unit) /\ attached[x] \in Seq(Descriptor) /\ Parsed(x) \in 0..Len(bytes[x])
      BY <1>a, ParsedProperties
    <3>2. U \in Seq(Unit) /\ got \in Seq(Message) /\ Len(Announced(U)) <= Len(attached[x])
      BY ParseTyped
    <3>3. rest \in Seq(Unit) /\ U \o rest = bytes[x]
      BY <3>1, CutInTwo DEF ParsedUnits
    <3>4. Messages(got) = Endings(U)
      <4> HIDE DEF U
      <4>1. Messages(Batch(Those(U, IsLastOfPayload), attached[x])) = Endings(U)
        BY <3>1, <3>2, BatchEndings
      <4> QED BY <4>1 DEF ParsedMessages, U
    <3> QED BY <3>2, <3>3, <3>4
  <2> HIDE DEF U, rest, got
  <2>4. SenderStays(e)
    <3>1. Endings(Stream(queue'[e])) = Endings(Stream(queue[e]))
      <4>1. CASE queue' = queue
        BY <4>1
      <4>2. ASSUME NEW n \in Nat, queue' = [queue EXCEPT ![x] = Append(@, Queued(Acknowledgement(n)))]
            PROVE  Endings(Stream(queue'[e])) = Endings(Stream(queue[e]))
        <5>1. queue'[e] = queue[e] \/ queue'[e] = Append(queue[e], Queued(Acknowledgement(n)))
          BY <1>a, <4>2
        <5>2. queue[e] \in Seq(Entry)
          BY <1>a
        <5> QED BY <5>1, <5>2, AcknowledgementSays
      <4> QED BY <2>1, <4>1, <4>2
    <3> QED BY <2>1, <3>1 DEF SenderStays
  <2>5. wire'[e] = wire[e] /\ Reader /\ open'[p] = open[p]
    BY <2>1, <2>2
  <2>6. CASE x = e
    <3>1. bytes'[p] = bytes[p] /\ incoming'[p] = incoming[p]
      BY <1>0, <1>a, <2>1, <2>2, <2>6
    <3>2. ReaderStays(e, p)
      BY <2>5, <3>1 DEF ReaderStays
    <3> QED BY <2>4, <2>5, <3>2 DEF Move, MoveNothing
  <2>7. CASE x = p
    <3>1. bytes'[p] = rest /\ incoming'[p] = incoming[p] \o got
      BY <1>0, <1>a, <2>1, <2>2, <2>7
    <3>2. Endings(bytes[p]) = Endings(U) \o Endings(bytes'[p]) /\ Endings(U) \in Seq(Msg)
      <4>1. Endings(U \o rest) = Endings(U) \o Endings(rest) /\ Endings(U) \in Seq(Msg)
        BY <2>3, EndingsTyped
      <4> QED BY <2>3, <2>7, <3>1, <4>1
    <3>3. Messages(incoming'[p]) = Messages(incoming[p]) \o Endings(U)
      BY <1>0, <1>a, <2>3, <3>1, MessagesTypedToo
    <3>4. MoveParse(e, p)
      BY <2>4, <2>5, <3>2, <3>3 DEF MoveParse
    <3> QED BY <3>4 DEF Move
  <2> QED BY <1>0, <2>6, <2>7
<1>10. ASSUME NEW x \in End, IOWrite(x) PROVE Goal
  <2>1. UNCHANGED <<posted, bytes, incoming, taken, ended, open, up>> /\ io[x] = "write"
    BY <1>10 DEF IOWrite, receiving
  <2>2. CASE UNCHANGED flow
    <3>1. Back /\ Staying /\ Reader /\ open'[p] = open[p]
      BY <2>1, <2>2 DEF flow
    <3> HIDE DEF Back, Staying, Reader, Goal
    <3> QED BY <1>d, <3>1
  <2>3. CASE Writes(x)
    <3>1. PICK k \in 0..UnitsUpTo(queue[x], Covered(queue[x])) : Written(x, k) /\ up[Peer(x)]
      BY <2>3 DEF Writes
    <3>2. CASE x = p
      <4>1. Back /\ Staying /\ Reader /\ open'[p] = open[p]
        BY <1>0, <1>a, <2>1, <3>1, <3>2 DEF Written
      <4> HIDE DEF Back, Staying, Reader, Goal
      <4> QED BY <1>d, <4>1
    <3>3. CASE x = e
      <4> DEFINE Q == queue[e]
                 fds == UnsentUpTo(Q, Covered(Q))
                 F == SubSeq(queueFds[e], 1, fds)
                 out == Sent(Q, k, F)
      <4>1. /\ wire'[e] = wire[e] \o out /\ queue'[e] = Discard(Q, k, fds)
            /\ written'[e] = written[e] + Len(Those(out, IsLastOfPayload))
        BY <1>a, <3>1, <3>3 DEF Written
      <4>2. Q \in Seq(SafeEntry) /\ queueFds[e] \in Seq(Descriptor) /\ Len(queueFds[e]) = UnsentIn(Q)
        BY DEF Safe, SentTyped
      <4>3. k \in 0..UnitsUpTo(Q, Covered(Q))
        BY <3>1, <3>3
      <4>4. out \in Seq(Unit)
        <5> HIDE DEF Q
        <5> QED BY <4>2, <4>3, WriteProperties DEF out, F, fds
      <4>5. F \in Seq(Descriptor)
        <5>1. fds \in 0..Len(queueFds[e])
          <6>1. Q \in Seq(SentEntry) /\ Q \in Seq(Entry) /\ Len(Q) \in Nat /\ Covered(Q) \in 0..Len(Q) /\ Len(Q) \in 0..Len(Q)
            <7> HIDE DEF Q
            <7>1. Q \in Seq(SentEntry) /\ Q \in Seq(Entry)
              BY <4>2, SafeIsEntry
            <7> QED BY <7>1, CoveredProperties, LenProperties
          <6>2. fds <= UnsentUpTo(Q, Len(Q)) /\ fds \in Nat
            BY <6>1, UnsentGrows, UnsentProperties
          <6> HIDE DEF fds, Q
          <6> QED BY <4>2, <6>2, LenProperties DEF UnsentIn
        <5> HIDE DEF fds
        <5> QED BY <4>2, <5>1, CutInTwo
      <4>6. Endings(Stream(Q)) = Endings(out) \o Endings(Stream(queue'[e]))
        <5> HIDE DEF F, Q
        <5>1. Maps(endOf, Frame, Msg)
          BY EndingsTyped
        <5>2. Say(Stream(Q), endOf) = Say(Sent(Q, k, F), endOf) \o Say(Stream(Discard(Q, k, UnsentUpTo(Q, Covered(Q)))), endOf)
          BY <4>2, <4>3, <4>5, <5>1, WriteSays
        <5> QED BY <4>1, <5>2 DEF Endings
      <4> HIDE DEF out, F, fds
      <4>7. Len(Those(out, IsLastOfPayload)) = Len(Endings(out)) /\ Endings(out) \in Seq(Msg)
            /\ Endings(wire[e] \o out) = Endings(wire[e]) \o Endings(out)
        BY <1>a, <4>4, MarksTyped, EndingsTyped DEF Marks
      <4>8. up[p] /\ up[e] /\ main[e] # "dead"
        BY <1>0, <2>1, <3>1, <3>3 DEF Life, Ended
      <4>9. MoveWrite(e, p)
        <5>1. written'[e] = written[e] + Len(Endings(out)) /\ Endings(wire'[e]) = Endings(wire[e]) \o Endings(out)
          BY <4>1, <4>7
        <5>2. posted'[e] = posted[e] /\ open'[p] = open[p] /\ Reader /\ bytes'[p] = bytes[p] /\ incoming'[p] = incoming[p]
          BY <2>1
        <5> QED BY <4>6, <4>7, <4>8, <5>1, <5>2 DEF MoveWrite
      <4> QED BY <4>9 DEF Move
    <3> QED BY <1>0, <3>2, <3>3
  <2> QED BY <1>10, <2>2, <2>3, WriteStep
<1>11. ASSUME NEW x \in End, Joined(x) PROVE Goal
  <2>1. /\ wire' = [wire EXCEPT ![Peer(x)] = <<>>] /\ up' = [up EXCEPT ![x] = FALSE]
        /\ UNCHANGED <<queue, posted, written, bytes, incoming, taken, ended, open>>
    BY <1>11 DEF Joined, sending, receiving, history
  <2>2. Back /\ Reader /\ bytes'[p] = bytes[p] /\ incoming'[p] = incoming[p] /\ open'[p] = open[p]
    BY <2>1
  <2>3. CASE x = e
    <3>1. Staying
      BY <1>0, <1>a, <2>1, <2>2, <2>3
    <3> HIDE DEF Back, Staying, Reader, Goal
    <3> QED BY <1>d, <2>2, <3>1
  <2>4. CASE x = p
    <3>1. wire'[e] = <<>> /\ ~up'[p]
      BY <1>0, <1>a, <2>1, <2>4
    <3>2. Endings(wire'[e]) = <<>>
      BY <3>1, EndingsTyped
    <3>3. SenderStays(e)
      <4> HIDE DEF Back
      <4> QED BY <1>b, <2>2
    <3> QED BY <2>2, <3>1, <3>2, <3>3 DEF Move, MoveHangUp
  <2> QED BY <1>0, <2>3, <2>4
<1>12. ASSUME NEW x \in End, NEW now \in {"aborted", "crashed"}, Die(x, now) PROVE Goal
  <2>1. /\ main' = [main EXCEPT ![x] = "dead"] /\ open' = [open EXCEPT ![x] = FALSE]
        /\ wire' = [wire EXCEPT ![Peer(x)] = <<>>] /\ bytes' = [bytes EXCEPT ![x] = <<>>]
        /\ incoming' = [incoming EXCEPT ![x] = <<>>] /\ queue' = [queue EXCEPT ![x] = <<>>]
        /\ UNCHANGED <<posted, written, taken, ended>>
    BY <1>12 DEF Die
  <2>2. posted'[e] = posted[e] /\ written'[e] = written[e] /\ Reader /\ (open'[p] = open[p] \/ ~open'[p])
    BY <1>0, <1>a, <2>1
  <2>3. SenderStays(e)
    <3>1. x = e => main'[e] = "dead"
      BY <2>1 DEF ControlTyped
    <3>2. x = p => queue'[e] = queue[e]
      BY <1>0, <1>a, <2>1
    <3> QED BY <1>0, <2>2, <3>1, <3>2 DEF SenderStays
  <2>4. ReaderStays(e, p)
    <3>1. x = p => main'[p] = "dead"
      BY <1>0, <2>1 DEF ControlTyped
    <3>2. x = e => Staying
      BY <1>0, <1>a, <2>1
    <3> QED BY <1>0, <2>2, <3>1, <3>2 DEF ReaderStays
  <2> QED BY <2>2, <2>3, <2>4 DEF Move, MoveNothing
<1> HIDE DEF Goal
<1>13. Goal
  BY <1>1, <1>3, <1>4, <1>6, <1>7, <1>8, <1>9, <1>10, <1>11, <1>12, PathSteps
<1> QED BY <1>13 DEF Goal, p

-----------------------------------------------------------------------------
(***************************************************************************)
(* What is written of the messages posted is, in order, what was taken,    *)
(* what waits to be taken, what has arrived, what is on the wire, and what *)
(* a reader that hung up has lost.                                         *)
(***************************************************************************)

Line(f, t, i, b, v, r) == f = Join(t, Join(i, Join(b, Join(v, r))))

LEMMA JoinsOfMessages ==
    /\ \A x, y \in Seq(Msg) : Join(x, y) \in Seq(Msg)
    /\ \A x, y, z \in Seq(Msg) : Join(Join(x, y), z) = Join(x, Join(y, z))
    /\ \A x \in Seq(Msg) : Join(x, <<>>) = x /\ Join(<<>>, x) = x
<1>1. \A x, y \in Seq(Msg) : Join(x, y) \in Seq(Msg)
  BY ConcatProperties DEF Join
<1>2. \A x, y, z \in Seq(Msg) : Join(Join(x, y), z) = Join(x, Join(y, z))
  BY ConcatAssociative DEF Join
<1>3. \A x \in Seq(Msg) : Join(x, <<>>) = x /\ Join(<<>>, x) = x
  BY ConcatEmptySeq DEF Join
<1> QED BY <1>1, <1>2, <1>3

LEMMA LineMoves ==
    \A f, t, i, b, v, r, x \in Seq(Msg) :
        /\ Line(f, t, i, b, v, <<>>) => Line(Join(f, x), t, i, b, Join(v, x), <<>>)
        /\ Line(f, t, i, b, v, r) => Line(f, t, i, Join(b, v), <<>>, r)
        /\ Line(f, t, i, Join(x, b), v, r) => Line(f, t, Join(i, x), b, v, r)
        /\ Line(f, t, i, b, v, r) => Line(f, Join(t, i), <<>>, b, v, r)
        /\ Line(f, t, i, b, v, r) => Line(f, t, i, b, <<>>, Join(v, r))
<1> SUFFICES ASSUME NEW f \in Seq(Msg), NEW t \in Seq(Msg), NEW i \in Seq(Msg), NEW b \in Seq(Msg),
                    NEW v \in Seq(Msg), NEW r \in Seq(Msg), NEW x \in Seq(Msg)
             PROVE  /\ Line(f, t, i, b, v, <<>>) => Line(Join(f, x), t, i, b, Join(v, x), <<>>)
                    /\ Line(f, t, i, b, v, r) => Line(f, t, i, Join(b, v), <<>>, r)
                    /\ Line(f, t, i, Join(x, b), v, r) => Line(f, t, Join(i, x), b, v, r)
                    /\ Line(f, t, i, b, v, r) => Line(f, Join(t, i), <<>>, b, v, r)
                    /\ Line(f, t, i, b, v, r) => Line(f, t, i, b, <<>>, Join(v, r))
  OBVIOUS
<1>0. /\ \A s, u \in Seq(Msg) : Join(s, u) \in Seq(Msg)
      /\ \A s, u, w \in Seq(Msg) : Join(Join(s, u), w) = Join(s, Join(u, w))
      /\ \A s \in Seq(Msg) : Join(s, <<>>) = s /\ Join(<<>>, s) = s
  BY JoinsOfMessages
<1>1. Join(v, r) \in Seq(Msg) /\ Join(b, Join(v, r)) \in Seq(Msg) /\ Join(i, Join(b, Join(v, r))) \in Seq(Msg)
      /\ <<>> \in Seq(Msg) /\ Join(v, x) \in Seq(Msg)
  BY <1>0, EmptySeq
<1>2. Line(f, t, i, b, v, <<>>) => Line(Join(f, x), t, i, b, Join(v, x), <<>>)
  <2> HAVE Line(f, t, i, b, v, <<>>)
  <2>1. f = Join(t, Join(i, Join(b, v)))
    BY <1>0 DEF Line
  <2>2. Join(b, v) \in Seq(Msg) /\ Join(i, Join(b, v)) \in Seq(Msg)
    BY <1>0
  <2>3. Join(Join(b, v), x) = Join(b, Join(v, x))
    BY <1>0
  <2>4. Join(Join(i, Join(b, v)), x) = Join(i, Join(Join(b, v), x))
    BY <1>0, <2>2
  <2>5. Join(Join(t, Join(i, Join(b, v))), x) = Join(t, Join(Join(i, Join(b, v)), x))
    BY <1>0, <2>2
  <2>6. Join(Join(v, x), <<>>) = Join(v, x)
    BY <1>0, <1>1
  <2>7. Join(f, x) = Join(t, Join(i, Join(b, Join(v, x))))
    BY <2>1, <2>3, <2>4, <2>5, Zenon
  <2> QED BY <2>6, <2>7 DEF Line
<1>3. Line(f, t, i, b, v, r) => Line(f, t, i, Join(b, v), <<>>, r)
  <2>1. Join(<<>>, r) = r /\ Join(Join(b, v), r) = Join(b, Join(v, r))
    BY <1>0
  <2> QED BY <2>1 DEF Line
<1>4. Line(f, t, i, Join(x, b), v, r) => Line(f, t, Join(i, x), b, v, r)
  <2>1. Join(Join(x, b), Join(v, r)) = Join(x, Join(b, Join(v, r)))
    BY <1>0, <1>1
  <2>2. Join(Join(i, x), Join(b, Join(v, r))) = Join(i, Join(x, Join(b, Join(v, r))))
    BY <1>0, <1>1
  <2> QED BY <2>1, <2>2 DEF Line
<1>5. Line(f, t, i, b, v, r) => Line(f, Join(t, i), <<>>, b, v, r)
  <2>1. Join(<<>>, Join(b, Join(v, r))) = Join(b, Join(v, r))
    BY <1>0, <1>1
  <2>2. Join(Join(t, i), Join(b, Join(v, r))) = Join(t, Join(i, Join(b, Join(v, r))))
    BY <1>0, <1>1
  <2> QED BY <2>1, <2>2 DEF Line
<1>6. Line(f, t, i, b, v, r) => Line(f, t, i, b, <<>>, Join(v, r))
  <2>1. Join(<<>>, Join(v, r)) = Join(v, r)
    BY <1>0, <1>1
  <2> QED BY <2>1 DEF Line
<1> QED BY <1>2, <1>3, <1>4, <1>5, <1>6

LEMMA FrontKept ==
    \A s, t \in Seq(Msg) : \A n \in 0..Len(s) : SubSeq(s \o t, 1, n) = SubSeq(s, 1, n)
<1> SUFFICES ASSUME NEW s \in Seq(Msg), NEW t \in Seq(Msg), NEW n \in 0..Len(s)
             PROVE  SubSeq(s \o t, 1, n) = SubSeq(s, 1, n)
  OBVIOUS
<1> DEFINE a == SubSeq(s, 1, n)
           b == SubSeq(s, n + 1, Len(s))
<1>1. a \in Seq(Msg) /\ b \in Seq(Msg) /\ Len(a) = n /\ s = a \o b
  BY CutInTwo
<1> HIDE DEF a, b
<1>2. b \o t \in Seq(Msg) /\ (a \o b) \o t = a \o (b \o t)
  <2>1. b \o t \in Seq(Msg)
    BY <1>1, ConcatProperties
  <2>2. (a \o b) \o t = a \o (b \o t)
    BY <1>1, JoinsOfMessages DEF Join
  <2> QED BY <2>1, <2>2
<1>3. SubSeq(a \o (b \o t), 1, Len(a)) = a
  BY <1>1, <1>2, CutOfConcat
<1>4. SubSeq(s \o t, 1, n) = a
  BY <1>1, <1>2, <1>3, Zenon
<1> QED BY <1>4 DEF a

LEMMA FrontGrows ==
    \A f, x, r \in Seq(Msg) : /\ Join(f, Join(x, r)) = Join(Join(f, x), r)
                              /\ SubSeq(Join(f, Join(x, r)), 1, Len(f) + Len(x)) = Join(f, x)
<1> SUFFICES ASSUME NEW f \in Seq(Msg), NEW x \in Seq(Msg), NEW r \in Seq(Msg)
             PROVE  /\ Join(f, Join(x, r)) = Join(Join(f, x), r)
                    /\ SubSeq(Join(f, Join(x, r)), 1, Len(f) + Len(x)) = Join(f, x)
  OBVIOUS
<1>1. f \o (x \o r) = (f \o x) \o r
  BY JoinsOfMessages DEF Join
<1>2. f \o x \in Seq(Msg) /\ Len(f \o x) = Len(f) + Len(x)
  BY ConcatProperties
<1>3. SubSeq((f \o x) \o r, 1, Len(f \o x)) = f \o x
  BY <1>2, CutOfConcat
<1>4. SubSeq(f \o (x \o r), 1, Len(f) + Len(x)) = f \o x
  BY <1>1, <1>2, <1>3, ZenonT(30)
<1> QED BY <1>1, <1>4 DEF Join

\* The messages of e, where they are.
InLine(e, p) ==
    LET front == SubSeq(posted[e], 1, written[e]) IN
    /\ main[e] # "dead" => posted[e] = Join(front, Endings(Stream(queue[e])))
    /\ main[p] # "dead" =>
           \E rest \in Seq(Msg) :
               /\ Line(front, Messages(taken[p]), Messages(incoming[p]), Endings(bytes[p]), Endings(wire[e]), rest)
               /\ up[p] => rest = <<>>

Passage == \A e \in End : InLine(e, Peer(e))

LEMMA InitPassage == Init => Passage
<1> SUFFICES ASSUME Init, NEW e \in End PROVE InLine(e, Peer(e))
  BY DEF Passage
<1>1. Peer(e) \in End
  BY PeerProperties
<1>2. /\ posted[e] = <<>> /\ written[e] = 0 /\ queue[e] = <<>> /\ wire[e] = <<>>
      /\ taken[Peer(e)] = <<>> /\ incoming[Peer(e)] = <<>> /\ bytes[Peer(e)] = <<>>
  BY <1>1 DEF Init
<1>3. /\ Stream(<<>>) = <<>> /\ Endings(<<>>) = <<>> /\ Messages(<<>>) = <<>> /\ Join(<<>>, <<>>) = <<>>
      /\ <<>> \in Seq(Msg)
  BY StreamTyped, EndingsTyped, MessagesTypedToo, JoinProperties, EmptySeq
<1>4. SubSeq(<<>>, 1, 0) = <<>>
  <2>1. <<>> \in Seq(Msg) /\ Len(<<>>) = 0 /\ 0 \in 0..Len(<<>>)
    BY EmptySeq
  <2>2. SubSeq(<<>>, 1, 0) \in Seq(Msg) /\ Len(SubSeq(<<>>, 1, 0)) = 0
    BY <2>1, CutInTwo
  <2> QED BY <2>2, EmptySeq
<1> QED BY <1>2, <1>3, <1>4 DEF InLine, Line

LEMMA EndsTheLineTyped ==
    ASSUME SentTyped, ReadTyped, Safe, MessagesTyped, NEW e \in End
    PROVE  /\ Endings(Stream(queue[e])) \in Seq(Msg) /\ Endings(wire[e]) \in Seq(Msg)
           /\ Endings(bytes[e]) \in Seq(Msg)
           /\ Messages(incoming[e]) \in Seq(Msg) /\ Messages(taken[e]) \in Seq(Msg)
           /\ posted[e] \in Seq(Msg) /\ written[e] \in 0..Len(posted[e])
           /\ SubSeq(posted[e], 1, written[e]) \in Seq(Msg)
           /\ Len(SubSeq(posted[e], 1, written[e])) = written[e]
<1>1. /\ queue[e] \in Seq(SafeEntry) /\ wire[e] \in Seq(Unit) /\ bytes[e] \in Seq(Unit)
      /\ posted[e] \in Seq(Msg) /\ written[e] \in Nat
      /\ written[e] + Marks(Stream(queue[e])) <= Len(posted[e])
  BY DEF SentTyped, ReadTyped, Safe
<1>2. Stream(queue[e]) \in Seq(Unit)
  BY <1>1, SafeIsEntry, StreamTyped
<1>3. /\ Endings(Stream(queue[e])) \in Seq(Msg) /\ Endings(wire[e]) \in Seq(Msg)
      /\ Endings(bytes[e]) \in Seq(Msg)
  BY <1>1, <1>2, EndingsTyped
<1>4. Messages(incoming[e]) \in Seq(Msg) /\ Messages(taken[e]) \in Seq(Msg)
  BY MessagesTypedToo DEF MessagesTyped
<1>5. written[e] \in 0..Len(posted[e])
  <2>1. Marks(Stream(queue[e])) \in Nat /\ Len(posted[e]) \in Nat
    BY <1>1, <1>2, MarksTyped, LenProperties
  <2> QED BY <1>1, <2>1
<1> QED BY <1>1, <1>3, <1>4, <1>5, CutInTwo

\* The messages in line stay in line, whatever moves.
LEMMA InLineStays ==
    ASSUME SentTyped, ReadTyped, Safe, MessagesTyped, ControlTyped,
           SentTyped', ReadTyped', Safe', MessagesTyped', ControlTyped',
           \A x \in End : (main[x] = "dead" => main'[x] = "dead") /\ (~up[x] => ~up'[x]),
           NEW e \in End, NEW p \in End, Move(e, p), InLine(e, p)
    PROVE  InLine(e, p)'
<1> DEFINE front == SubSeq(posted[e], 1, written[e])
           frontN == SubSeq(posted'[e], 1, written'[e])
           q == Endings(Stream(queue[e]))      qN == Endings(Stream(queue'[e]))
           w == Endings(wire[e])               wN == Endings(wire'[e])
           b == Endings(bytes[p])              bN == Endings(bytes'[p])
           i == Messages(incoming[p])          iN == Messages(incoming'[p])
           t == Messages(taken[p])             tN == Messages(taken'[p])
           Here == main'[e] # "dead" => posted'[e] = Join(frontN, qN)
           Gone == main'[p] # "dead" => \E rest \in Seq(Msg) : Line(frontN, tN, iN, bN, wN, rest)
                                                               /\ (up'[p] => rest = <<>>)
<1>1. /\ q \in Seq(Msg) /\ w \in Seq(Msg) /\ b \in Seq(Msg) /\ i \in Seq(Msg) /\ t \in Seq(Msg)
      /\ posted[e] \in Seq(Msg) /\ written[e] \in 0..Len(posted[e])
      /\ front \in Seq(Msg) /\ Len(front) = written[e]
  BY EndsTheLineTyped
<1>2. /\ qN \in Seq(Msg) /\ wN \in Seq(Msg) /\ bN \in Seq(Msg) /\ iN \in Seq(Msg) /\ tN \in Seq(Msg)
      /\ posted'[e] \in Seq(Msg) /\ written'[e] \in 0..Len(posted'[e])
      /\ frontN \in Seq(Msg) /\ Len(frontN) = written'[e]
  <2>1. /\ queue'[e] \in Seq(SafeEntry) /\ wire'[e] \in Seq(Unit) /\ bytes'[p] \in Seq(Unit)
        /\ posted'[e] \in Seq(Msg) /\ written'[e] \in Nat
        /\ written'[e] + Marks(Stream(queue'[e])) <= Len(posted'[e])
        /\ incoming'[p] \in Seq(Message) /\ taken'[p] \in Seq(Message)
    <3>1. written'[e] + Marks(Stream(queue'[e])) <= Len(posted'[e])
      <4>1. (written[e] + Marks(Stream(queue[e])))' = written'[e] + Marks(Stream(queue'[e]))
        BY DEF Marks, Endings, Say, AtEnd, endOf, Stream
      <4> QED BY <4>1 DEF Safe
    <3> QED BY <3>1 DEF SentTyped, ReadTyped, Safe, MessagesTyped
  <2>2. Stream(queue'[e]) \in Seq(Unit)
    BY <2>1, SafeIsEntry, StreamTyped
  <2>3. Marks(Stream(queue'[e])) \in Nat /\ Len(posted'[e]) \in Nat
    BY <2>1, <2>2, MarksTyped, LenProperties
  <2>4. written'[e] \in 0..Len(posted'[e])
    BY <2>1, <2>3
  <2>5. iN \in Seq(Msg) /\ tN \in Seq(Msg)
    BY <2>1, MessagesTypedToo
  <2>6. qN \in Seq(Msg) /\ wN \in Seq(Msg) /\ bN \in Seq(Msg)
    BY <2>1, <2>2, EndingsTyped
  <2>7. frontN \in Seq(Msg) /\ Len(frontN) = written'[e]
    BY <2>1, <2>4, CutInTwo
  <2> QED BY <2>1, <2>4, <2>5, <2>6, <2>7
<1>3. main[e] # "dead" => posted[e] = Join(front, q)
  BY DEF InLine
<1>4. main[p] # "dead" => \E rest \in Seq(Msg) : Line(front, t, i, b, w, rest) /\ (up[p] => rest = <<>>)
  BY DEF InLine
<1>5. (Here /\ Gone) => InLine(e, p)'
  <2>1. /\ (Endings(Stream(queue[e])))' = qN /\ (Endings(wire[e]))' = wN /\ (Endings(bytes[p]))' = bN
        /\ (Messages(incoming[p]))' = iN /\ (Messages(taken[p]))' = tN
    BY DEF Endings, Say, AtEnd, endOf, Stream, Messages
  <2>2. \A f, T, I, B, V, R : Line(f, T, I, B, V, R)' <=> Line(f, T, I, B, V, R)
    BY DEF Line
  <2> QED BY <2>1, <2>2 DEF InLine
<1> HIDE DEF front, frontN, q, qN, w, wN, b, bN, i, iN, t, tN
<1>6. SenderStays(e) => Here /\ frontN = front
  BY <1>3 DEF SenderStays, Here, front, frontN, q, qN
<1>7. ASSUME \A r \in Seq(Msg) : (up[p] => r = <<>>) /\ Line(front, t, i, b, w, r)
                   => \E u \in Seq(Msg) : Line(frontN, tN, iN, bN, wN, u) /\ (up'[p] => u = <<>>)
      PROVE  Gone
  BY <1>4, <1>7 DEF Gone
<1> HIDE DEF Here, Gone
<1>8. up'[p] => up[p]
  BY DEF ControlTyped
<1>9. ASSUME ReaderStays(e, p), frontN = front PROVE Gone
  <2>1. CASE main'[p] = "dead"
    BY <2>1 DEF Gone
  <2>2. CASE main'[p] # "dead"
    <3>1. wN = w /\ bN = b /\ iN = i /\ tN = t
      BY <1>9, <2>2 DEF ReaderStays, w, wN, b, bN, i, iN, t, tN
    <3> QED BY <1>7, <1>8, <1>9, <3>1
  <2> QED BY <2>1, <2>2
<1>10. ASSUME MovePost(e, p) PROVE Here /\ Gone
  <2>1. PICK R \in Seq(Msg) : posted'[e] = posted[e] \o R /\ qN = q \o R
    BY <1>10 DEF MovePost, q, qN
  <2>2. frontN = front
    BY <1>1, <1>10, <2>1, FrontKept, SMTT(30) DEF MovePost, front, frontN
  <2>3. Here
    <3>1. Join(Join(front, q), R) = Join(front, Join(q, R))
      BY <1>1, <2>1, JoinsOfMessages
    <3>2. main'[e] # "dead" => posted'[e] = Join(Join(front, q), R)
      BY <1>3, <2>1 DEF Join
    <3> QED BY <2>1, <2>2, <3>1, <3>2 DEF Here, Join
  <2> QED BY <1>9, <1>10, <2>2, <2>3 DEF MovePost
<1>11. ASSUME MoveWrite(e, p) PROVE Here /\ Gone
  <2>1. PICK x \in Seq(Msg) : written'[e] = written[e] + Len(x) /\ q = x \o qN /\ wN = w \o x
    BY <1>11 DEF MoveWrite, w, wN, q, qN
  <2>2. /\ up[p] /\ main[e] # "dead" /\ posted'[e] = posted[e]
        /\ tN = t /\ bN = b /\ iN = i
    BY <1>11 DEF MoveWrite, b, bN, i, iN, t, tN
  <2>3. posted[e] = Join(front, Join(x, qN)) /\ written'[e] = Len(front) + Len(x)
    BY <1>1, <1>3, <2>1, <2>2, ZenonT(30) DEF Join
  <2>4. posted'[e] = Join(Join(front, x), qN)
    BY <1>1, <1>2, <2>1, <2>2, <2>3, FrontGrows
  <2>5. frontN = Join(front, x)
    <3>1. SubSeq(Join(front, Join(x, qN)), 1, Len(front) + Len(x)) = Join(front, x)
      <4>1. front \in Seq(Msg) /\ x \in Seq(Msg) /\ qN \in Seq(Msg)
        BY <1>1, <1>2, <2>1
      <4> QED BY <4>1, FrontGrows, ZenonT(60)
    <3>2. posted'[e] = Join(front, Join(x, qN))
      BY <2>2, <2>3
    <3> QED BY <2>3, <3>1, <3>2, ZenonT(30) DEF frontN
  <2>6. Here
    BY <2>4, <2>5 DEF Here
  <2>7. Line(front, t, i, b, w, <<>>) => Line(frontN, tN, iN, bN, wN, <<>>)
    <3>1. Line(front, t, i, b, w, <<>>) => Line(Join(front, x), t, i, b, Join(w, x), <<>>)
      BY <1>1, LineMoves
    <3>2. Join(front, x) = frontN /\ Join(w, x) = wN
      BY <2>1, <2>5 DEF Join
    <3> QED BY <2>2, <3>1, <3>2
  <2> QED BY <1>7, <2>2, <2>6, <2>7, EmptySeq
<1>12. ASSUME MoveReceive(e, p) PROVE Here /\ Gone
  <2>1. bN = Join(b, w) /\ wN = <<>> /\ SenderStays(e) /\ tN = t /\ iN = i
    BY <1>12 DEF MoveReceive, w, wN, b, bN, i, iN, t, tN, Join
  <2>2. Here /\ frontN = front
    BY <1>6, <2>1
  <2>3. \A r \in Seq(Msg) : Line(front, t, i, b, w, r) => Line(frontN, tN, iN, bN, wN, r)
    BY <1>1, <2>1, <2>2, LineMoves
  <2> QED BY <1>7, <1>8, <2>2, <2>3
<1>13. ASSUME MoveParse(e, p) PROVE Here /\ Gone
  <2>1. PICK x \in Seq(Msg) : b = Join(x, bN) /\ iN = Join(i, x)
    BY <1>13 DEF MoveParse, b, bN, i, iN, Join
  <2>2. Here /\ frontN = front /\ wN = w /\ tN = t
    BY <1>6, <1>13 DEF MoveParse, w, wN, t, tN
  <2>3. \A r \in Seq(Msg) : Line(front, t, i, Join(x, bN), w, r) => Line(front, t, Join(i, x), bN, w, r)
    BY <1>1, <1>2, <2>1, LineMoves
  <2>4. \A r \in Seq(Msg) : Line(front, t, i, b, w, r) => Line(frontN, tN, iN, bN, wN, r)
    BY <2>1, <2>2, <2>3
  <2> QED BY <1>7, <1>8, <2>2, <2>4
<1>14. ASSUME MoveTake(e, p) PROVE Here /\ Gone
  <2>1. tN = Join(t, i) /\ iN = <<>> /\ SenderStays(e) /\ wN = w /\ bN = b
    BY <1>14 DEF MoveTake, w, wN, b, bN, i, iN, t, tN, Join
  <2>2. Here /\ frontN = front
    BY <1>6, <2>1
  <2>3. \A r \in Seq(Msg) : Line(front, t, i, b, w, r) => Line(frontN, tN, iN, bN, wN, r)
    BY <1>1, <2>1, <2>2, LineMoves
  <2> QED BY <1>7, <1>8, <2>2, <2>3
<1>15. ASSUME MoveHangUp(e, p) PROVE Here /\ Gone
  <2>1. wN = <<>> /\ ~up'[p] /\ SenderStays(e) /\ tN = t /\ bN = b /\ iN = i
    BY <1>15 DEF MoveHangUp, w, wN, b, bN, i, iN, t, tN
  <2>2. Here /\ frontN = front
    BY <1>6, <2>1
  <2>3. \A r \in Seq(Msg) : Line(front, t, i, b, w, r) => Line(frontN, tN, iN, bN, wN, Join(w, r))
    BY <1>1, <2>1, <2>2, LineMoves
  <2>4. \A r \in Seq(Msg) : Join(w, r) \in Seq(Msg)
    BY <1>1, ConcatProperties DEF Join
  <2> QED BY <1>7, <2>1, <2>2, <2>3, <2>4
<1>16. ASSUME MoveNothing(e, p) PROVE Here /\ Gone
  BY <1>6, <1>9, <1>16 DEF MoveNothing
<1> QED BY <1>5, <1>10, <1>11, <1>12, <1>13, <1>14, <1>15, <1>16 DEF Move

-----------------------------------------------------------------------------
(***************************************************************************)
(* Each move is a step of the channel, or none.                            *)
(***************************************************************************)

\* What the channel's variables are, before and after a step.
LEMMA ChannelSteps ==
    ASSUME NEW e \in End, NEW p \in End, p = Peer(e)
    PROVE  LET old == Messages(taken[p])
               new == Messages(taken'[p])
               Keeping == posted'[e] = posted[e] /\ written'[e] = written[e]
               Untaken == new = old /\ ended'[p] = ended[p]
               Posting == /\ posted'[e] \in Seq(Msg) /\ Len(posted[e]) <= Len(posted'[e])
                          /\ SubSeq(posted'[e], 1, Len(posted[e])) = posted[e]
                          /\ written'[e] = written[e]
               Writing == /\ written'[e] \in 1..Len(posted[e]) /\ written[e] < written'[e]
                          /\ ended[p] => ~open[p]
                          /\ posted'[e] = posted[e]
               Taking(n, end, hang) ==
                          /\ ~ended[p] /\ Len(old) <= n /\ n <= written[e]
                          /\ end => ~open[p] \/ n = written[e]
                          /\ new = SubSeq(posted[e], 1, n) /\ ended'[p] = end
                          /\ (~open'[p]) = (~open[p] \/ (end /\ hang))
           IN  /\ Keeping /\ Untaken /\ open'[p] = open[p] => UNCHANGED Direction(e)!vars
               /\ Keeping /\ Untaken /\ open[p] /\ ~open'[p] => Direction(e)!Next
               /\ Posting /\ Untaken /\ open'[p] = open[p] => Direction(e)!Next
               /\ Writing /\ Untaken /\ open'[p] = open[p] => Direction(e)!Next
               /\ \A n \in 0..Len(posted[e]), end, hang \in BOOLEAN :
                      Taking(n, end, hang) /\ Keeping => Direction(e)!Next
<1>1. /\ (Messages(taken[Peer(e)]))' = Messages(taken'[p]) /\ Messages(taken[Peer(e)]) = Messages(taken[p])
      /\ (ended[Peer(e)])' = ended'[p] /\ ended[Peer(e)] = ended[p]
      /\ (open[Peer(e)])' = open'[p] /\ open[Peer(e)] = open[p]
  BY DEF Messages, Peer
<1>2. ASSUME posted'[e] = posted[e], written'[e] = written[e], Messages(taken'[p]) = Messages(taken[p]),
             ended'[p] = ended[p]
      PROVE  /\ open'[p] = open[p] => UNCHANGED Direction(e)!vars
             /\ open[p] /\ ~open'[p] => Direction(e)!HangUp
  BY <1>1, <1>2 DEF Direction!vars, Direction!HangUp
<1>3. ASSUME Messages(taken'[p]) = Messages(taken[p]), ended'[p] = ended[p], open'[p] = open[p],
             written'[e] = written[e], posted'[e] \in Seq(Msg), Len(posted[e]) <= Len(posted'[e]),
             SubSeq(posted'[e], 1, Len(posted[e])) = posted[e]
      PROVE  Direction(e)!Post
  BY <1>1, <1>3 DEF Direction!Post
<1>4. ASSUME Messages(taken'[p]) = Messages(taken[p]), ended'[p] = ended[p], open'[p] = open[p],
             posted'[e] = posted[e], written'[e] \in 1..Len(posted[e]), written[e] < written'[e],
             ended[p] => ~open[p]
      PROVE  \E n \in 1..Len(posted[e]) : Direction(e)!Write(n)
  <2>1. Direction(e)!Write(written'[e])
    BY <1>1, <1>4 DEF Direction!Write
  <2> QED BY <1>4, <2>1
<1>5. ASSUME NEW n \in 0..Len(posted[e]), NEW end \in BOOLEAN, NEW hang \in BOOLEAN,
             ~ended[p], Len(Messages(taken[p])) <= n, n <= written[e], end => ~open[p] \/ n = written[e],
             Messages(taken'[p]) = SubSeq(posted[e], 1, n), ended'[p] = end,
             (~open'[p]) = (~open[p] \/ (end /\ hang)), posted'[e] = posted[e], written'[e] = written[e]
      PROVE  \E k \in 0..Len(posted[e]), x, y \in BOOLEAN : Direction(e)!Take(k, x, y)
  <2>1. Direction(e)!Take(n, end, hang)
    BY <1>1, <1>5 DEF Direction!Take
  <2> QED BY <2>1
<1>6. /\ Direction(e)!HangUp => Direction(e)!Next
      /\ Direction(e)!Post => Direction(e)!Next
      /\ (\E n \in 1..Len(posted[e]) : Direction(e)!Write(n)) => Direction(e)!Next
      /\ (\E k \in 0..Len(posted[e]), x, y \in BOOLEAN : Direction(e)!Take(k, x, y)) => Direction(e)!Next
  BY DEF Direction!Next
<1> QED BY <1>2, <1>3, <1>4, <1>5, <1>6

LEMMA PrefixOfFront ==
    \A m, r, s \in Seq(Msg) : \A k \in 0..Len(s) :
        SubSeq(s, 1, k) = Join(m, r) => /\ Len(m) <= k /\ SubSeq(s, 1, Len(m)) = m
                                        /\ (r = <<>> => Len(m) = k)
<1> SUFFICES ASSUME NEW m \in Seq(Msg), NEW r \in Seq(Msg), NEW s \in Seq(Msg), NEW k \in 0..Len(s),
                    SubSeq(s, 1, k) = Join(m, r)
             PROVE  /\ Len(m) <= k /\ SubSeq(s, 1, Len(m)) = m /\ (r = <<>> => Len(m) = k)
  OBVIOUS
<1> DEFINE f == SubSeq(s, 1, k)
           g == SubSeq(s, k + 1, Len(s))
<1>1. f \in Seq(Msg) /\ g \in Seq(Msg) /\ Len(f) = k /\ s = f \o g
  BY CutInTwo
<1>2. f = m \o r
  BY DEF Join
<1> HIDE DEF f, g
<1>3. Len(f) = Len(m) + Len(r) /\ Len(m) \in Nat /\ Len(r) \in Nat
  BY <1>2, ConcatProperties, LenProperties
<1>4. SubSeq(f, 1, Len(m)) = m
  BY <1>2, CutOfConcat
<1>5. SubSeq(s, 1, Len(m)) = SubSeq(f, 1, Len(m))
  <2>1. Len(m) \in 0..Len(f)
    BY <1>3
  <2>2. SubSeq(f \o g, 1, Len(m)) = SubSeq(f, 1, Len(m))
    BY <1>1, <2>1, FrontKept
  <2> QED BY <1>1, <2>2, ZenonT(30)
<1>6. r = <<>> => Len(m) = k
  BY <1>1, <1>3, EmptySeq
<1>7. Len(m) <= k
  BY <1>1, <1>3
<1> QED BY <1>4, <1>5, <1>6, <1>7, Zenon

\* A move of the messages from e to its peer is a step of their channel.
LEMMA MovesOfChannel ==
    ASSUME SentTyped, ReadTyped, Safe, MessagesTyped, ControlTyped, Life, Ends,
           SentTyped', ReadTyped', Safe', MessagesTyped', ControlTyped',
           NEW e \in End, NEW p \in End, p = Peer(e), Move(e, p), InLine(e, p)
    PROVE  [Direction(e)!Next]_(Direction(e)!vars)
<1> DEFINE front == SubSeq(posted[e], 1, written[e])
           b == Endings(bytes[p])   w == Endings(wire[e])
           i == Messages(incoming[p])   iN == Messages(incoming'[p])
           t == Messages(taken[p])   tN == Messages(taken'[p])
           Same == posted'[e] = posted[e] /\ written'[e] = written[e] /\ tN = t /\ ended'[p] = ended[p]
           Goal == [Direction(e)!Next]_(Direction(e)!vars)
<1> SUFFICES Goal
  OBVIOUS
<1>1. /\ w \in Seq(Msg) /\ b \in Seq(Msg) /\ i \in Seq(Msg) /\ t \in Seq(Msg)
      /\ posted[e] \in Seq(Msg) /\ written[e] \in 0..Len(posted[e])
      /\ front \in Seq(Msg) /\ Len(front) = written[e]
  BY EndsTheLineTyped
<1>2. /\ open[p] \in BOOLEAN /\ open'[p] \in BOOLEAN /\ ended[p] \in BOOLEAN /\ incomingEof[p] \in BOOLEAN
      /\ up[e] \in BOOLEAN /\ up[p] \in BOOLEAN
  BY DEF ControlTyped
<1>3. EndsAt(p) /\ Peer(p) = e
  BY PeerProperties DEF Ends
<1>4. main[p] = "dead" => ~up[p] /\ ~open[p]
  BY DEF Life
<1>5. ASSUME Same, open'[p] = open[p] \/ ~open'[p] PROVE Goal
  BY <1>2, <1>5, ChannelSteps
<1> HIDE DEF Goal
<1>6. ASSUME MovePost(e, p) PROVE Goal
  <2>1. PICK R \in Seq(Msg) : posted'[e] = posted[e] \o R
    BY <1>6 DEF MovePost
  <2>2. /\ written'[e] = written[e] /\ tN = t /\ ended'[p] = ended[p] /\ open'[p] = open[p]
    BY <1>6 DEF MovePost, ReaderStays
  <2>3. posted'[e] \in Seq(Msg) /\ Len(posted'[e]) = Len(posted[e]) + Len(R) /\ Len(R) \in Nat /\ Len(posted[e]) \in Nat
    BY <1>1, <2>1, ConcatProperties, LenProperties
  <2>4. SubSeq(posted'[e], 1, Len(posted[e])) = posted[e]
    BY <1>1, <2>1, CutOfConcat
  <2>5. Len(posted[e]) <= Len(posted'[e])
    BY <2>3
  <2> HIDE DEF t, tN
  <2> QED BY <2>2, <2>3, <2>4, <2>5, ChannelSteps DEF Goal, t, tN
<1>7. ASSUME MoveWrite(e, p) PROVE Goal
  <2>1. PICK x \in Seq(Msg) : written'[e] = written[e] + Len(x)
    BY <1>7 DEF MoveWrite
  <2>2. /\ up[e] /\ up[p] /\ posted'[e] = posted[e] /\ tN = t /\ ended'[p] = ended[p] /\ open'[p] = open[p]
    BY <1>7 DEF MoveWrite
  <2>3. ended[p] => ~open[p]
    BY <1>3, <1>4, <2>2 DEF EndsAt, Reads
  <2>4. written'[e] \in 0..Len(posted'[e]) /\ Len(x) \in Nat
    <3>1. written'[e] \in Nat /\ posted'[e] \in Seq(Msg) /\ written'[e] + Marks(Stream(queue'[e])) <= Len(posted'[e])
          /\ Stream(queue'[e]) \in Seq(Unit)
      <4>1. (written[e] + Marks(Stream(queue[e])))' = written'[e] + Marks(Stream(queue'[e]))
        BY DEF Marks, Endings, Say, AtEnd, endOf, Stream
      <4>2. queue'[e] \in Seq(SafeEntry) /\ posted'[e] \in Seq(Msg) /\ written'[e] \in Nat
        BY DEF Safe, SentTyped
      <4>3. Stream(queue'[e]) \in Seq(Unit)
        BY <4>2, SafeIsEntry, StreamTyped
      <4> QED BY <4>1, <4>2, <4>3 DEF Safe
    <3>2. Marks(Stream(queue'[e])) \in Nat /\ Len(posted'[e]) \in Nat /\ Len(x) \in Nat
      BY <3>1, MarksTyped, LenProperties
    <3> QED BY <3>1, <3>2
  <2>5. CASE Len(x) = 0
    <3>1. Same
      BY <1>1, <2>1, <2>2, <2>5
    <3> QED BY <1>5, <2>2, <3>1
  <2>6. CASE Len(x) # 0
    <3>1. written'[e] \in 1..Len(posted[e]) /\ written[e] < written'[e]
      BY <1>1, <2>1, <2>2, <2>4, <2>6, LenProperties
    <3> HIDE DEF t, tN
    <3> QED BY <2>2, <2>3, <3>1, ChannelSteps DEF Goal, t, tN
  <2> QED BY <2>5, <2>6
<1>8. ASSUME MoveReceive(e, p) \/ MoveParse(e, p) \/ MoveHangUp(e, p) \/ MoveNothing(e, p) PROVE Goal
  <2>1. Same /\ (open'[p] = open[p] \/ ~open'[p])
    BY <1>8 DEF MoveReceive, MoveParse, MoveHangUp, MoveNothing, SenderStays, ReaderStays
  <2> QED BY <1>5, <2>1
<1>9. ASSUME MoveTake(e, p) PROVE Goal
  <2>1. /\ tN = Join(t, i) /\ ended'[p] = incomingEof[p] /\ main[p] # "dead"
        /\ open'[p] = open[p] \/ (incomingEof[p] /\ ~open'[p])
        /\ posted'[e] = posted[e] /\ written'[e] = written[e]
    BY <1>9 DEF MoveTake, SenderStays, Join
  <2>2. CASE ended[p]
    <3>1. incomingEof[p] /\ incoming[p] = <<>>
      BY <1>3, <2>1, <2>2 DEF EndsAt
    <3>2. i = <<>>
      BY <3>1, MessagesTypedToo
    <3>3. tN = t
      BY <1>1, <2>1, <3>2, ConcatEmptySeq DEF Join
    <3> QED BY <1>5, <2>1, <2>2, <3>1, <3>3
  <2>3. CASE ~ended[p]
    <3>1. PICK rest \in Seq(Msg) : front = Join(t, Join(i, Join(b, Join(w, rest)))) /\ (up[p] => rest = <<>>)
      BY <2>1 DEF InLine, Line
    <3> DEFINE behind == Join(b, Join(w, rest))
    <3>2. behind \in Seq(Msg) /\ tN \in Seq(Msg)
      BY <1>1, <2>1, ConcatProperties DEF Join
    <3>3. front = Join(tN, behind)
      <4>1. Line(front, t, i, b, w, rest) => Line(front, Join(t, i), <<>>, b, w, rest)
        BY <1>1, LineMoves
      <4>2. front = Join(tN, Join(<<>>, behind))
        BY <2>1, <3>1, <4>1 DEF Line
      <4>3. Join(<<>>, behind) = behind
        BY <3>2, ConcatEmptySeq DEF Join
      <4> QED BY <4>2, <4>3
    <3>4. incomingEof[p] /\ open[p] => behind = <<>>
      <4> SUFFICES ASSUME incomingEof[p], open[p] PROVE behind = <<>>
        OBVIOUS
      <4>1. up[p] /\ wire[e] = <<>> /\ b = <<>>
        BY <1>2, <1>3 DEF EndsAt, Reads
      <4>2. w = <<>> /\ rest = <<>>
        BY <3>1, <4>1, EndingsTyped
      <4>3. Join(<<>>, Join(<<>>, <<>>)) = <<>>
        BY EmptySeq, ConcatEmptySeq DEF Join
      <4> QED BY <4>1, <4>2, <4>3
    <3> HIDE DEF behind, t, i, b, w, tN
    <3> DEFINE n == Len(tN)
    <3>5. n <= written[e] /\ SubSeq(posted[e], 1, n) = tN /\ (behind = <<>> => n = written[e])
      <4>1. SubSeq(posted[e], 1, written[e]) = Join(tN, behind)
        BY <3>3
      <4> HIDE DEF front
      <4> QED BY <1>1, <3>2, <4>1, PrefixOfFront, ZenonT(30)
    <3>6. n \in 0..Len(posted[e]) /\ Len(t) <= n
      <4>1. Len(tN) = Len(t) + Len(i) /\ Len(t) \in Nat /\ Len(i) \in Nat /\ Len(posted[e]) \in Nat
        BY <1>1, <2>1, ConcatProperties, LenProperties DEF Join
      <4> QED BY <1>1, <3>5, <4>1
    <3> HIDE DEF n, tN
    <3>7. incomingEof[p] => ~open[p] \/ n = written[e]
      BY <3>4, <3>5
    <3>8. (~open'[p]) = (~open[p] \/ (incomingEof[p] /\ ~open'[p]))
      BY <1>2, <2>1
    <3>9. \A k \in 0..Len(posted[e]), end, hang \in BOOLEAN :
              /\ ~ended[p] /\ Len(t) <= k /\ k <= written[e]
              /\ end => ~open[p] \/ k = written[e]
              /\ tN = SubSeq(posted[e], 1, k) /\ ended'[p] = end
              /\ (~open'[p]) = (~open[p] \/ (end /\ hang))
              /\ posted'[e] = posted[e] /\ written'[e] = written[e]
              => Goal
      BY ChannelSteps DEF Goal, t, tN
    <3>10. (~open'[p]) \in BOOLEAN
      BY <1>2
    <3> QED BY <1>2, <2>1, <2>3, <3>5, <3>6, <3>7, <3>8, <3>9, <3>10
  <2> QED BY <2>2, <2>3
<1> QED BY <1>6, <1>7, <1>8, <1>9 DEF Move

-----------------------------------------------------------------------------
(***************************************************************************)
(* The connection implements a channel in each direction.                  *)
(***************************************************************************)

ChannelInv == RetainedInv /\ Ends /\ Passage

LEMMA InitChannelInv == OnePoster /\ Init => ChannelInv
BY InitRetainedInv, InitEnds, InitPassage DEF ChannelInv

\* A step keeps the invariant and is a step of each channel, or of none.
LEMMA ChannelInvStays ==
    ASSUME OnePoster, ChannelInv, [Next]_vars
    PROVE  ChannelInv' /\ \A e \in End : [Direction(e)!Next]_(Direction(e)!vars)
<1>1. RetainedInv' /\ Ends'
  BY RetainedInvStays, EndsStays DEF ChannelInv
<1>2. /\ SentTyped /\ ReadTyped /\ PostersTyped /\ MessagesTyped /\ ControlTyped /\ Safe /\ Life /\ Ends
  BY DEF ChannelInv, RetainedInv, TransportInv
<1>3. SentTyped' /\ ReadTyped' /\ MessagesTyped' /\ ControlTyped' /\ Safe'
  BY <1>1 DEF RetainedInv, TransportInv
<1>4. \A x \in End : (main[x] = "dead" => main'[x] = "dead") /\ (~up[x] => ~up'[x])
  BY <1>2, LifeStays
<1>5. ASSUME NEW e \in End
      PROVE  InLine(e, Peer(e))' /\ [Direction(e)!Next]_(Direction(e)!vars)
  <2> DEFINE p == Peer(e)
  <2>1. p \in End /\ InLine(e, p)
    BY PeerProperties DEF ChannelInv, Passage
  <2>2. Move(e, p)
    BY <1>2, Moves
  <2> HIDE DEF p
  <2>3. InLine(e, p)'
    BY <1>2, <1>3, <1>4, <2>1, <2>2, InLineStays
  <2>4. [Direction(e)!Next]_(Direction(e)!vars)
    BY <1>2, <1>3, <2>1, <2>2, MovesOfChannel DEF p
  <2>5. InLine(e, Peer(e))'
    BY <2>3 DEF p, Peer
  <2> QED BY <2>4, <2>5
<1>6. Passage'
  BY <1>5 DEF Passage
<1> QED BY <1>1, <1>5, <1>6 DEF ChannelInv

LEMMA ChannelsStart == Init => \A e \in End : Direction(e)!Init
<1> SUFFICES ASSUME Init, NEW e \in End PROVE Direction(e)!Init
  OBVIOUS
<1>1. Peer(e) \in End
  BY PeerProperties
<1>2. posted[e] = <<>> /\ written[e] = 0 /\ taken[Peer(e)] = <<>> /\ ended[Peer(e)] = FALSE /\ open[Peer(e)] = TRUE
  BY <1>1 DEF Init
<1>3. Messages(taken[Peer(e)]) = <<>>
  BY <1>2, MessagesTypedToo
<1> QED BY <1>2, <1>3 DEF Direction!Init

\* Each direction of a connection delivers what was written in order and each
\* message once, and reports the end of the stream only to a reader that has
\* everything the writer got out, unless that reader hung up: the order in which
\* read_incoming_messages() parses, publishes and reports, and the last read of an
\* IO thread before it stops.
THEOREM ConnectionIsTwoChannels == OnePoster => (Spec => ChannelSpec)
<1> SUFFICES ASSUME OnePoster PROVE Spec => ChannelSpec
  OBVIOUS
<1>1. Init => ChannelInv /\ \A e \in End : Direction(e)!Init
  BY InitChannelInv, ChannelsStart
<1>2. ChannelInv /\ [Next]_vars => ChannelInv'
  BY ChannelInvStays
<1>3. ChannelInv /\ [Next]_vars => [\A e \in End : [Direction(e)!Next]_(Direction(e)!vars)]_vars
  BY ChannelInvStays
<1> QED BY <1>1, <1>2, <1>3, PTL DEF Spec, ChannelSpec
=============================================================================
