--------------------------- MODULE MCRequestServer ---------------------------
(* Small instances of RequestServer. *)
EXTENDS RequestServer, TLC

CONSTANTS f1, f2, f3, b1, c1, c2, k1, k2, k3

OneKey == [r \in Requests |-> k1]
\* f1 asks for an ordinary resource, f2 for a substituted one, f3 for one the
\* network shield refuses.
KeyEach == [r \in Requests |-> IF r = f2 THEN k2 ELSE IF r = f3 THEN k3 ELSE k1]
OneClient == [r \in Requests |-> c1]
TwoClients == [r \in Requests |-> IF r = f2 THEN c2 ELSE c1]

\* Version 1 has a body of one chunk, passed through the pipe; version 2 one of
\* two chunks, passed as a file.
GrowingSize == [v \in Version |-> v]
\* Bodies of two chunks that only their version tells apart.
EqualSize == [v \in Version |-> 2]
\* Version 2 has no body.
ShrinkingSize == [v \in Version |-> 2 - v]

FetchSymmetry == Permutations(Fetches)
=============================================================================
