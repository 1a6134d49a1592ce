----------------------------- MODULE MCMsgQueue -----------------------------
(***************************************************************************)
(* Model-checking instances of MsgQueue.  Two processes share one queue    *)
(* name; the queue holds one message (Depth 1 for the code's 20: a full    *)
(* queue is what makes senders wait) and messages are 1 or 2 bytes.        *)
(***************************************************************************)
EXTENDS MsgQueue, TLC

CONSTANTS p1, p2

TwoProcs == {p1, p2}

\* The two processes play the same role.
ProcSymmetry == Permutations(TwoProcs)

\* A blocking call and a call with a 2 ms timeout.
BlockOrTimed == {-1, 2}

\* Blocking calls only.
Blocking == {-1}

\* A blocking call, a poll and a call with a 2 ms timeout.
AllWaits == {-1, 0, 2}

=============================================================================
