------------------------------- MODULE PipeIO -------------------------------
(***************************************************************************)
(* ipc::Pipe and the guarded I/O it routes through (src/src/ipc/           *)
(* posix_ipc.cc: wait_write, wait_read, ipc::write, ipc::read, Pipe), used *)
(* by the processes that share one pipe after fork().  Each process holds  *)
(* its own copy of the Pipe object (pipe_[0], pipe_[1]); the kernel pipe   *)
(* -- its buffer, its capacity and the O_NONBLOCK flag of each of its two  *)
(* open file descriptions -- is shared by all of them.                    *)
(*                                                                         *)
(* A read or write is two steps, as in the code: the select() readiness    *)
(* probe, then at most one read()/write() system call.  Another process    *)
(* may run between the two.  Time is not a variable: a bounded wait may    *)
(* expire at any moment its descriptor is not ready.                      *)
(***************************************************************************)
EXTENDS Integers, Sequences, FiniteSets

CONSTANTS
  Procs,          \* processes holding a copy of the Pipe
  WriteProcs,     \* processes that call Pipe::write
  ReadProcs,      \* processes that call Pipe::read
  Slots,          \* page slots of the kernel pipe (Linux: 16)
  PipeBuf,        \* PIPE_BUF, which on Linux is also the page size
  WLens,          \* lengths passed to Pipe::write
  RLens,          \* lengths passed to Pipe::read
  Waits,          \* timeouts passed, in ms: < 0 infinite, 0 poll, > 0 bounded
  MaxBytes,       \* model bound on the number of bytes written
  SigpipeIgnored  \* processes that ignore SIGPIPE (the library never does)

ASSUME
  /\ WriteProcs \cup ReadProcs \subseteq Procs
  /\ Slots \in Nat \ {0}
  /\ WLens \cup RLens \subseteq Nat \ {0}
  \* Only atomic writes are modelled: every length is at most PIPE_BUF.
  /\ \A len \in WLens : len <= PipeBuf
  /\ Waits \subseteq Int
  /\ SigpipeIgnored \subseteq Procs

VARIABLES
  rfd,   \* rfd[p]: p's pipe_[0] is a valid descriptor (pipe_[0] >= 0)
  wfd,   \* wfd[p]: p's pipe_[1] is a valid descriptor (pipe_[1] >= 0)
  nbR,   \* O_NONBLOCK on the read end's open file description (shared)
  nbW,   \* O_NONBLOCK on the write end's open file description (shared)
  buf,   \* bytes in the kernel buffer, oldest first; byte i is the i-th written
  slots, \* the pipe's page slots, oldest first: n bytes unread, fill = the
         \* page's offset + len (a page is appended to only up to its end)
  sent,  \* number of bytes written into the pipe so far
  pc,    \* control point of each process
  arg,   \* arguments of the call each process is in
  ret,   \* value returned by the last call of each process
  got    \* bytes each process has read, in order (history)

vars == <<rfd, wfd, nbR, nbW, buf, slots, sent, pc, arg, ret, got>>

InCall == {"probeW", "sysW", "probeR", "sysR"}
Ctl == {"idle", "dead", "killed"} \cup InCall

----------------------------------------------------------------------------
(* The kernel side (Linux pipe_poll / pipe_read / pipe_write).            *)

Readers == {q \in Procs : rfd[q]}
Writers == {q \in Procs : wfd[q]}

\* pipe_poll: select() reports the write end ready when a page slot is
\* free or there is no reader (the write would fail at once with EPIPE);
\* the read end when there are bytes or no writer (end of file).
WriteReady == Len(slots) < Slots \/ Readers = {}
ReadReady == buf # <<>> \/ Writers = {}

\* pipe_write appends a write of len bytes (len not a whole page) to the
\* newest page when it still fits there; otherwise it needs a free slot.
Mergeable(len) ==
  /\ slots # <<>>
  /\ len % PipeBuf # 0
  /\ slots[Len(slots)].fill + len <= PipeBuf

\* The write() / read() system call of p can finish without another
\* process acting first.
WriteCompletes(p) ==
  Readers = {} \/ Len(slots) < Slots \/ Mergeable(arg[p].len) \/ nbW
ReadCompletes(p) == buf # <<>> \/ Writers = {} \/ nbR

\* pipe_read takes k bytes from the oldest pages, releasing each page it
\* empties; a page's fill is unchanged by reading from it.
RECURSIVE Drain(_, _)
Drain(sl, k) ==
  IF k = 0 THEN sl
  ELSE IF sl[1].n <= k THEN Drain(Tail(sl), k - sl[1].n)
  ELSE <<[sl[1] EXCEPT !.n = @ - k]>> \o Tail(sl)

\* pipe_write of len bytes: merged into the newest page, or a new page.
Fill(sl, len) ==
  IF Mergeable(len)
    THEN [sl EXCEPT ![Len(sl)] = [n |-> @.n + len, fill |-> @.fill + len]]
    ELSE Append(sl, [n |-> len, fill |-> len])

----------------------------------------------------------------------------
(* Faults that a plausible change of the code would introduce; each is    *)
(* used in place of the definition it is named after to confirm that a    *)
(* property detects it.                                                    *)

\* ipc::read returning the length asked for instead of what read() moved.
ReadResultAsLen(k, len) == len

----------------------------------------------------------------------------
(* The library side.                                                      *)

\* wait_write / wait_read pass a struct timeval to select() only when
\* wait >= 0; a negative wait passes nullptr and select() never times out.
TimerArmed(wait) == wait >= 0

\* ::read() of p transfers k bytes; ipc::read returns that result verbatim.
ReadResult(k, len) == k

\* The call of p returns v; its arguments are gone.
NoArg == [len |-> 0, wait |-> 0]

Return(p, v) ==
  /\ ret' = [ret EXCEPT ![p] = v]
  /\ pc' = [pc EXCEPT ![p] = "idle"]
  /\ arg' = [arg EXCEPT ![p] = NoArg]

Init ==
  \* After fork() each process has closed the end it does not use, as the
  \* class comment requires (one end only reads, the other only writes).
  /\ rfd = [p \in Procs |-> p \in ReadProcs]
  /\ wfd = [p \in Procs |-> p \in WriteProcs]
  /\ nbR = FALSE
  /\ nbW = FALSE
  /\ buf = <<>>
  /\ slots = <<>>
  /\ sent = 0
  /\ pc = [p \in Procs |-> "idle"]
  /\ arg = [p \in Procs |-> NoArg]
  /\ ret = [p \in Procs |-> 0]
  /\ got = [p \in Procs |-> <<>>]

\* Pipe::write: -1 on a closed write end, else ipc::write on pipe_[1].
Write(p) ==
  /\ p \in WriteProcs
  /\ pc[p] = "idle"
  /\ \E len \in WLens, wait \in Waits :
       /\ sent + len <= MaxBytes
       /\ \/ ~wfd[p] /\ Return(p, -1)
          \/ /\ wfd[p]
             /\ pc' = [pc EXCEPT ![p] = "probeW"]
             /\ arg' = [arg EXCEPT ![p] = [len |-> len, wait |-> wait]]
             /\ UNCHANGED ret
  /\ UNCHANGED <<rfd, wfd, nbR, nbW, buf, slots, sent, got>>

\* wait_write, and ipc::write acting on its result: 1 goes on to write(),
\* 0 (timeout) returns 0, -1 (select failed, e.g. EINTR) returns -1.
WaitWrite(p) ==
  /\ pc[p] = "probeW"
  /\ \/ WriteReady /\ pc' = [pc EXCEPT ![p] = "sysW"] /\ UNCHANGED <<ret, arg>>
     \/ ~WriteReady /\ TimerArmed(arg[p].wait) /\ Return(p, 0)
     \/ Return(p, -1)
  /\ UNCHANGED <<rfd, wfd, nbR, nbW, buf, slots, sent, got>>

\* The process dies of a signal; the kernel closes its descriptors.
Kill(p) ==
  /\ rfd' = [rfd EXCEPT ![p] = FALSE]
  /\ wfd' = [wfd EXCEPT ![p] = FALSE]
  /\ pc' = [pc EXCEPT ![p] = "killed"]
  /\ arg' = [arg EXCEPT ![p] = NoArg]

\* ::write(pipe_[1], data, len), its result returned by ipc::write.  With
\* no reader the kernel raises SIGPIPE (fatal unless ignored) and fails with
\* EPIPE; a write of len <= PIPE_BUF goes into the newest page if it fits
\* there, else into a free slot; with neither, a blocking write waits and a
\* non-blocking one fails with EAGAIN.  Not enabled while it blocks.
SysWrite(p) ==
  LET len == arg[p].len IN
  /\ pc[p] = "sysW"
  /\ \/ /\ Readers = {}
        /\ IF p \in SigpipeIgnored THEN Return(p, -1) /\ UNCHANGED <<rfd, wfd>>
                             ELSE Kill(p) /\ UNCHANGED ret
        /\ UNCHANGED <<buf, slots, sent>>
     \/ /\ Readers # {}
        /\ Len(slots) < Slots \/ Mergeable(len)
        /\ buf' = buf \o [i \in 1..len |-> sent + i]
        /\ slots' = Fill(slots, len)
        /\ sent' = sent + len
        /\ Return(p, len)
        /\ UNCHANGED <<rfd, wfd>>
     \/ /\ Readers # {}
        /\ Len(slots) = Slots /\ ~Mergeable(len)
        /\ nbW
        /\ Return(p, -1)
        /\ UNCHANGED <<rfd, wfd, buf, slots, sent>>
  /\ UNCHANGED <<nbR, nbW, got>>

\* Pipe::read: -1 on a closed read end, else ipc::read on pipe_[0].
Read(p) ==
  /\ p \in ReadProcs
  /\ pc[p] = "idle"
  /\ \E len \in RLens, wait \in Waits :
       \/ ~rfd[p] /\ Return(p, -1)
       \/ /\ rfd[p]
          /\ pc' = [pc EXCEPT ![p] = "probeR"]
          /\ arg' = [arg EXCEPT ![p] = [len |-> len, wait |-> wait]]
          /\ UNCHANGED ret
  /\ UNCHANGED <<rfd, wfd, nbR, nbW, buf, slots, sent, got>>

\* wait_read, and ipc::read acting on its result.
WaitRead(p) ==
  /\ pc[p] = "probeR"
  /\ \/ ReadReady /\ pc' = [pc EXCEPT ![p] = "sysR"] /\ UNCHANGED <<ret, arg>>
     \/ ~ReadReady /\ TimerArmed(arg[p].wait) /\ Return(p, 0)
     \/ Return(p, -1)
  /\ UNCHANGED <<rfd, wfd, nbR, nbW, buf, slots, sent, got>>

\* ::read(pipe_[0], data, len): the oldest bytes, at most len; 0 at end of
\* file; EAGAIN on an empty non-blocking pipe; blocks otherwise.
SysRead(p) ==
  LET len == arg[p].len
      k == IF len < Len(buf) THEN len ELSE Len(buf)
  IN
  /\ pc[p] = "sysR"
  /\ \/ /\ buf # <<>>
        /\ got' = [got EXCEPT ![p] = @ \o SubSeq(buf, 1, k)]
        /\ buf' = SubSeq(buf, k + 1, Len(buf))
        /\ slots' = Drain(slots, k)
        /\ Return(p, ReadResult(k, len))
     \/ buf = <<>> /\ Writers = {} /\ Return(p, 0) /\ UNCHANGED <<buf, slots, got>>
     \/ buf = <<>> /\ Writers # {} /\ nbR /\ Return(p, -1) /\ UNCHANGED <<buf, slots, got>>
  /\ UNCHANGED <<rfd, wfd, nbR, nbW, sent>>

\* Pipe::close_r / Pipe::close_w: close the end if valid, mark it invalid.
CloseR(p) ==
  /\ pc[p] = "idle"
  /\ rfd' = [rfd EXCEPT ![p] = FALSE]
  /\ UNCHANGED <<wfd, nbR, nbW, buf, slots, sent, pc, arg, ret, got>>

CloseW(p) ==
  /\ pc[p] = "idle"
  /\ wfd' = [wfd EXCEPT ![p] = FALSE]
  /\ UNCHANGED <<rfd, nbR, nbW, buf, slots, sent, pc, arg, ret, got>>

\* Pipe::close: close_w() then close_r().
Close(p) ==
  /\ pc[p] = "idle"
  /\ wfd' = [wfd EXCEPT ![p] = FALSE]
  /\ rfd' = [rfd EXCEPT ![p] = FALSE]
  /\ UNCHANGED <<nbR, nbW, buf, slots, sent, pc, arg, ret, got>>

\* Pipe::set_block: F_SETFL on pipe_[0] if it is valid, else on pipe_[1],
\* else nothing.  The flag belongs to the open file description, so it
\* changes that end for every process sharing it.
SetBlock(p) ==
  /\ pc[p] = "idle"
  /\ \E en \in BOOLEAN :
       IF rfd[p] THEN nbR' = ~en /\ UNCHANGED nbW
       ELSE IF wfd[p] THEN nbW' = ~en /\ UNCHANGED nbR
       ELSE UNCHANGED <<nbR, nbW>>
  /\ UNCHANGED <<rfd, wfd, buf, slots, sent, pc, arg, ret, got>>

\* The process ends: ~Pipe calls close(), then the process exits.
Exit(p) ==
  /\ pc[p] = "idle"
  /\ wfd' = [wfd EXCEPT ![p] = FALSE]
  /\ rfd' = [rfd EXCEPT ![p] = FALSE]
  /\ pc' = [pc EXCEPT ![p] = "dead"]
  /\ UNCHANGED <<nbR, nbW, buf, slots, sent, arg, ret, got>>

\* Every process has ended: nothing more happens.
Terminated ==
  /\ \A p \in Procs : pc[p] \in {"dead", "killed"}
  /\ UNCHANGED vars

Next ==
  \/ \E p \in Procs :
       \/ Write(p) \/ WaitWrite(p) \/ SysWrite(p)
       \/ Read(p) \/ WaitRead(p) \/ SysRead(p)
       \/ CloseR(p) \/ CloseW(p) \/ Close(p) \/ SetBlock(p) \/ Exit(p)
  \/ Terminated

\* The kernel runs a process whose probe or system call can proceed, and
\* fires its select() timer; what the caller does next is not assumed.
Fairness ==
  \A p \in Procs :
    /\ WF_vars(WaitWrite(p)) /\ WF_vars(SysWrite(p))
    /\ WF_vars(WaitRead(p)) /\ WF_vars(SysRead(p))

Spec == Init /\ [][Next]_vars /\ Fairness

----------------------------------------------------------------------------
(* Properties.                                                             *)

TypeOK ==
  /\ rfd \in [Procs -> BOOLEAN]
  /\ wfd \in [Procs -> BOOLEAN]
  /\ nbR \in BOOLEAN /\ nbW \in BOOLEAN
  /\ buf \in Seq(1..sent)
  /\ slots \in Seq([n : 1..PipeBuf, fill : 1..PipeBuf]) /\ Len(slots) <= Slots
  /\ sent \in Nat
  /\ pc \in [Procs -> Ctl]
  /\ arg \in [Procs -> [len : {0} \cup WLens \cup RLens, wait : {0} \cup Waits]]
  /\ ret \in [Procs -> Int]
  /\ got \in [Procs -> Seq(1..sent)]

\* The timeout contract of wait_write/wait_read + write()/read() (spec
\* 4.1): a call made with a timeout (wait >= 0) never waits on another
\* process -- neither in select() with no timer nor in a system call that
\* blocks after select() reported the descriptor ready.
Stuck(p) ==
  \/ pc[p] \in {"probeW"} /\ ~WriteReady /\ ~TimerArmed(arg[p].wait)
  \/ pc[p] \in {"probeR"} /\ ~ReadReady /\ ~TimerArmed(arg[p].wait)
  \/ pc[p] = "sysW" /\ ~WriteCompletes(p)
  \/ pc[p] = "sysR" /\ ~ReadCompletes(p)

TimeoutHonoured ==
  \A p \in Procs : arg[p].wait >= 0 => ~Stuck(p)

\* Pipe implements the Channel contract: every call's return value is the
\* number of bytes it moved, reads get the oldest unread bytes, and a
\* closed end stays closed and answers -1.
Abs == INSTANCE Channel WITH stream <- buf, rOpen <- rfd, wOpen <- wfd
ChannelSpec == Abs!Spec

=============================================================================
