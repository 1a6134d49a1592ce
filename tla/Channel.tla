------------------------------ MODULE Channel ------------------------------
(***************************************************************************)
(* The contract of the read/write/close capability that the IPC base class *)
(* declares (src/include/co/posix_ipc.h, class IPC) for a byte stream, as  *)
(* section 4.2 and 7 of the spec state it.  Every call is one atomic step  *)
(* that returns                                                            *)
(*   -1  on a closed end (always) or on a transient failure,              *)
(*    0  when nothing was transferred (timeout, end of file),             *)
(*    k  when exactly k <= len bytes were transferred; a read gets the k  *)
(*       oldest bytes not yet read, a write appends k new bytes.          *)
(* Ends are closed one way: a closed end is never valid again.  Bytes are *)
(* numbered in the order they are written, so the stream is checked for   *)
(* loss, duplication and reordering by comparing numbers.                  *)
(***************************************************************************)
EXTENDS Integers, Sequences

CONSTANTS
  Procs,   \* the processes that hold an end of the channel
  WLens,   \* lengths a write may be called with
  RLens    \* lengths a read may be called with

VARIABLES
  stream,  \* bytes written and not yet read, oldest first
  sent,    \* number of bytes written so far
  got,     \* got[p]: the bytes p has read, in the order it read them
  ret,     \* ret[p]: what the last call of p returned
  rOpen,   \* rOpen[p]: p's read end is valid
  wOpen    \* wOpen[p]: p's write end is valid

vars == <<stream, sent, got, ret, rOpen, wOpen>>

Init ==
  /\ stream = <<>>
  /\ sent = 0
  /\ got = [p \in Procs |-> <<>>]
  /\ ret = [p \in Procs |-> 0]
  /\ rOpen \in [Procs -> BOOLEAN]
  /\ wOpen \in [Procs -> BOOLEAN]

SetRet(p, v) == ret' = [ret EXCEPT ![p] = v]

\* A call that transfers nothing: -1 or 0.
Fail(p) ==
  /\ \E v \in {-1, 0} : SetRet(p, v)
  /\ UNCHANGED <<stream, sent, got, rOpen, wOpen>>

Write(p) ==
  \E len \in WLens :
    \/ /\ ~wOpen[p]
       /\ SetRet(p, -1)
       /\ UNCHANGED <<stream, sent, got, rOpen, wOpen>>
    \/ wOpen[p] /\ Fail(p)
    \/ /\ wOpen[p]
       /\ \E k \in 1..len :
            /\ stream' = stream \o [i \in 1..k |-> sent + i]
            /\ sent' = sent + k
            /\ SetRet(p, k)
       /\ UNCHANGED <<got, rOpen, wOpen>>

Read(p) ==
  \E len \in RLens :
    \/ /\ ~rOpen[p]
       /\ SetRet(p, -1)
       /\ UNCHANGED <<stream, sent, got, rOpen, wOpen>>
    \/ rOpen[p] /\ Fail(p)
    \/ /\ rOpen[p]
       /\ \E k \in 1..len :
            /\ k <= Len(stream)
            /\ got' = [got EXCEPT ![p] = @ \o SubSeq(stream, 1, k)]
            /\ stream' = SubSeq(stream, k + 1, Len(stream))
            /\ SetRet(p, k)
       /\ UNCHANGED <<sent, rOpen, wOpen>>

\* Closing any of p's ends (close_r, close_w, close, or process exit).
Release(p) ==
  /\ \E r \in {FALSE, rOpen[p]}, w \in {FALSE, wOpen[p]} :
       /\ rOpen' = [rOpen EXCEPT ![p] = r]
       /\ wOpen' = [wOpen EXCEPT ![p] = w]
  /\ UNCHANGED <<stream, sent, got, ret>>

Next == \E p \in Procs : Write(p) \/ Read(p) \/ Release(p)

Spec == Init /\ [][Next]_vars

=============================================================================
