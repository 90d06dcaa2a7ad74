---------------------------- MODULE MCTransport ----------------------------
(* A client and a server on one connection. *)
EXTENDS Transport, TLC

CONSTANTS client, server, c, s, pump, ask, note, reply, ready, slot

MCAt == [t \in Thread |-> IF t = c THEN client ELSE server]
MCOwner == (client :> c) @@ (server :> s)

\* The client makes a synchronous call.  The server posts a notice and answers,
\* both with descriptors, too many for one write.
CallAndNotice == (c :> <<ask>>) @@ (s :> <<note>>)
\* The owner of the server posts the descriptors of a video edge while the pump
\* thread of the same process posts those of a frame slot
\* (VideoPresentationServerConnection).
EdgeAndSlot == (c :> <<>>) @@ (s :> <<ready>>) @@ (pump :> <<slot>>)
MCUnits == [m \in Msg |-> IF m = note THEN 2 ELSE 1]
MCFdCount == [m \in Msg |-> IF m = ask THEN 0 ELSE IF m = note THEN 2 ELSE 1]
MCReply == (ask :> reply)
NoReply == <<>>

NobodyCloses == (client :> {}) @@ (server :> {})
ServerCloses == (client :> {}) @@ (server :> {"pending"})
=============================================================================
