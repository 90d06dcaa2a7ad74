------------------------------ MODULE Channel ------------------------------
(***************************************************************************)
(* What one direction of an IPC connection promises to its two ends.  The  *)
(* writer posts messages, some of them reach the operating system in the   *)
(* order of posting, and the reader takes what was written, in that order  *)
(* and each once.  The reader is told of the end of the stream once.       *)
(* Unless it hung up itself, it has then taken everything that was ever    *)
(* written, and nothing comes after.                                       *)
(***************************************************************************)
EXTENDS Naturals, Sequences

CONSTANT Msg

VARIABLES
    posted,     \* messages posted, in order
    written,    \* how many of them are wholly on the wire
    taken,      \* messages the reader has taken, in order
    ended,      \* the reader was told of the end
    hungUp      \* the reader hung up

vars == <<posted, written, taken, ended, hungUp>>

Init ==
    /\ posted = <<>>
    /\ written = 0
    /\ taken = <<>>
    /\ ended = FALSE
    /\ hungUp = FALSE

\* The answers to several requests are posted together.
Post ==
    /\ posted' \in Seq(Msg)
    /\ Len(posted) <= Len(posted') /\ SubSeq(posted', 1, Len(posted)) = posted
    /\ UNCHANGED <<written, taken, ended, hungUp>>

\* A reader that hangs up in the middle of a write leaves the rest unwritten.
Write(n) ==
    /\ written < n /\ n <= Len(posted)
    /\ ended => hungUp
    /\ written' = n
    /\ UNCHANGED <<posted, taken, ended, hungUp>>

\* The reader takes all messages up to the n-th, and learns of the end if
\* end holds; it may hang up at once.
Take(n, end, hang) ==
    /\ ~ended
    /\ Len(taken) <= n /\ n <= written
    /\ end => hungUp \/ n = written
    /\ taken' = SubSeq(posted, 1, n)
    /\ ended' = end
    /\ hungUp' = (hungUp \/ (end /\ hang))
    /\ UNCHANGED <<posted, written>>

HangUp ==
    /\ ~hungUp
    /\ hungUp' = TRUE
    /\ UNCHANGED <<posted, written, taken, ended>>

Next ==
    \/ Post
    \/ \E n \in 1..Len(posted) : Write(n)
    \/ \E n \in 0..Len(posted), end, hang \in BOOLEAN : Take(n, end, hang)
    \/ HangUp

Spec == Init /\ [][Next]_vars
=============================================================================
