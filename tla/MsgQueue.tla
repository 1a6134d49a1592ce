------------------------------ MODULE MsgQueue ------------------------------
(***************************************************************************)
(* ipc::PosixMsgQueue (src/src/ipc/posix_ipc.cc, trans_mode and lines      *)
(* 295-387) used by several processes through one queue name.  Each        *)
(* process owns one instance (fd_, maxmsg_); the kernel keeps the name,    *)
(* the queue objects (their messages and mq_msgsize, fixed when created),  *)
(* each descriptor's O_NONBLOCK flag and each queue's notification owner.  *)
(* A queue object outlives the name: mq_unlink only unbinds it, and the    *)
(* processes that still hold a descriptor keep using it.                   *)
(*                                                                         *)
(* A send or receive is a call step (the checks the wrapper makes before   *)
(* the system call) and a kernel step that completes, fails or times out.  *)
(* now is the wall clock in ms; it starts at Now0, far past the epoch.     *)
(***************************************************************************)
EXTENDS Integers, Sequences, FiniteSets

CONSTANTS
  Procs,      \* processes using the queue name
  Modes,      \* mode characters passed to the constructor
  MaxMsgs,    \* maxmsg values passed to the constructor (mq_msgsize)
  Depth,      \* attr.mq_maxmsg, 20 in the code
  WLens,      \* lengths passed to write (the size of the message)
  RLens,      \* buffer lengths passed to read
  Waits,      \* timeouts in ms: < 0 blocks, >= 0 is a timed call
  Now0,       \* the clock when the model starts, in ms
  MaxTime,    \* model bound: the clock runs up to Now0 + MaxTime
  MaxQueues,  \* model bound on the queue objects created
  MaxSends,   \* model bound on the messages sent
  NoProc      \* no process (a model value)

ModeChars == {"r", "a", "w", "m", "d", "x"}   \* "x": any other character

ASSUME
  /\ Modes \subseteq ModeChars
  /\ MaxMsgs \cup WLens \cup RLens \subseteq Nat \ {0}
  /\ Depth \in Nat \ {0}
  /\ Waits \subseteq Int
  /\ Now0 \in Nat /\ MaxTime \in Nat
  /\ NoProc \notin Procs

QIds == 1..MaxQueues
None == 0   \* IPC_INVALID_FD, and the name bound to no queue

VARIABLES
  name,      \* the queue object the name is bound to, or None
  nq,        \* queue objects created so far (their ids are 1..nq)
  msgs,      \* msgs[q]: the messages in queue q, oldest first
  msgsize,   \* msgsize[q]: mq_msgsize of queue q
  creator,   \* creator[q]: the mode character queue q was created with
  owner,     \* owner[q]: the process registered by mq_notify on q, or NoProc
  fd,        \* fd[p]: the queue p's fd_ refers to, or None
  acc,       \* acc[p]: the access p's descriptor grants, a subset of {"r","w"}
  nb,        \* nb[p]: O_NONBLOCK on p's descriptor
  maxmsg,    \* maxmsg[p]: p's maxmsg_
  pc,        \* control point of each process
  arg,       \* the call each process is in: len, wait, start time
  ret,       \* value returned by the last call of each process
  sent,      \* number of messages sent
  notified,  \* notified[p]: a notification was delivered to p (history)
  now        \* the wall clock, ms

vars == <<name, nq, msgs, msgsize, creator, owner, fd, acc, nb, maxmsg,
          pc, arg, ret, sent, notified, now>>
kernel == <<name, nq, msgs, msgsize, creator, owner>>

Msg == [id : Nat, size : Nat]
NoArg == [len |-> 0, wait |-> 0, start |-> 0]

----------------------------------------------------------------------------
(* Faults that a plausible change of the code would introduce; each is    *)
(* used in place of the definition it is named after to confirm that a    *)
(* property detects it.                                                    *)

\* PosixMsgQueue::write returning len without looking at mq_send's result.
SendResultIgnoreError(ok, len) == len

----------------------------------------------------------------------------
(* trans_mode (lines 29-43): a mode character to open flags.  -1 for an   *)
(* unknown character; as an int of open flags -1 has every bit set.       *)

AllFlags == {"WRONLY", "RDWR", "CREAT", "EXCL", "TRUNC", "APPEND", "NONBLOCK"}

trans_mode(c) ==
  CASE c = "r" -> {}                              \* O_RDONLY
    [] c = "a" -> {"WRONLY", "CREAT", "APPEND"}
    [] c = "w" -> {"WRONLY", "CREAT", "TRUNC"}
    [] c = "m" -> {"WRONLY", "CREAT"}
    [] c = "d" -> {"RDWR", "CREAT", "APPEND"}
    [] OTHER   -> AllFlags                         \* -1

ValidMode(c) == trans_mode(c) # AllFlags

\* The access mq_open grants for the O_ACCMODE bits; 3 grants none.
Access(flags) ==
  IF {"WRONLY", "RDWR"} \subseteq flags THEN {}
  ELSE IF "RDWR" \in flags THEN {"r", "w"}
  ELSE IF "WRONLY" \in flags THEN {"w"}
  ELSE {"r"}

\* The struct timespec the code passes as abs_timeout (lines 337-339 and
\* 361-363): {wait / 1000, wait % 1000 * 1000}, read by the kernel as an
\* absolute CLOCK_REALTIME instant; in ms.
CodeDeadline(wait) == (wait \div 1000) * 1000 + ((wait % 1000) * 1000) \div 1000000

\* mq_send's result as PosixMsgQueue::write reports it: -1 on failure,
\* len on success.
SendResult(ok, len) == IF ok THEN len ELSE -1

----------------------------------------------------------------------------

Return(p, v) ==
  /\ ret' = [ret EXCEPT ![p] = v]
  /\ pc' = [pc EXCEPT ![p] = "idle"]
  /\ arg' = [arg EXCEPT ![p] = NoArg]

Init ==
  /\ name = None
  /\ nq = 0
  /\ msgs = [q \in QIds |-> <<>>]
  /\ msgsize = [q \in QIds |-> 0]
  /\ creator = [q \in QIds |-> "x"]
  /\ owner = [q \in QIds |-> NoProc]
  /\ fd = [p \in Procs |-> None]
  /\ acc = [p \in Procs |-> {}]
  /\ nb = [p \in Procs |-> FALSE]
  /\ maxmsg = [p \in Procs |-> 0]
  /\ pc = [p \in Procs |-> "idle"]
  /\ arg = [p \in Procs |-> NoArg]
  /\ ret = [p \in Procs |-> 0]
  /\ sent = 0
  /\ notified = [p \in Procs |-> FALSE]
  /\ now = Now0

\* The constructor: mq_open(path, trans_mode(mode), 0666, &attr) with
\* attr.mq_msgsize = maxmsg; it throws (ret -1 here) when mq_open fails.
\* mq_open creates the queue if the name is free and O_CREAT is set,
\* fails with ENOENT without O_CREAT, with EEXIST on O_CREAT|O_EXCL, and
\* with EINVAL on an existing queue for O_ACCMODE 3.  attr only applies
\* when the queue is created.
Construct(p) ==
  /\ pc[p] = "idle"
  /\ fd[p] = None
  /\ \E mode \in Modes, mx \in MaxMsgs :
       LET flags == trans_mode(mode) IN
       /\ maxmsg' = [maxmsg EXCEPT ![p] = mx]
       /\ \/ /\ name = None
             /\ "CREAT" \in flags
             /\ nq < MaxQueues
             /\ nq' = nq + 1
             /\ name' = nq + 1
             /\ msgsize' = [msgsize EXCEPT ![nq + 1] = mx]
             /\ creator' = [creator EXCEPT ![nq + 1] = mode]
             /\ fd' = [fd EXCEPT ![p] = nq + 1]
             /\ acc' = [acc EXCEPT ![p] = Access(flags)]
             /\ nb' = [nb EXCEPT ![p] = "NONBLOCK" \in flags]
             /\ ret' = [ret EXCEPT ![p] = 0]
          \/ /\ name # None
             /\ ~({"CREAT", "EXCL"} \subseteq flags)
             /\ Access(flags) # {}
             /\ fd' = [fd EXCEPT ![p] = name]
             /\ acc' = [acc EXCEPT ![p] = Access(flags)]
             /\ nb' = [nb EXCEPT ![p] = "NONBLOCK" \in flags]
             /\ ret' = [ret EXCEPT ![p] = 0]
             /\ UNCHANGED <<name, nq, msgsize, creator>>
          \/ /\ \/ name = None /\ "CREAT" \notin flags
                \/ name # None /\ {"CREAT", "EXCL"} \subseteq flags
                \/ name # None /\ Access(flags) = {}
             /\ ret' = [ret EXCEPT ![p] = -1]
             /\ UNCHANGED <<name, nq, msgsize, creator, fd, acc, nb>>
  /\ UNCHANGED <<msgs, owner, pc, arg, sent, notified, now>>

\* PosixMsgQueue::close: mq_close if fd_ is valid, then fd_ invalid.  The
\* kernel drops the notification p registered through it.
Close(p) ==
  /\ pc[p] = "idle"
  /\ fd' = [fd EXCEPT ![p] = None]
  /\ owner' = IF fd[p] # None /\ owner[fd[p]] = p
                THEN [owner EXCEPT ![fd[p]] = NoProc] ELSE owner
  /\ UNCHANGED <<name, nq, msgs, msgsize, creator, acc, nb, maxmsg, pc, arg,
                 ret, sent, notified, now>>

\* PosixMsgQueue::destroy: close(), then mq_unlink(path_), which unbinds
\* the name whatever queue it is bound to now.
Destroy(p) ==
  /\ pc[p] = "idle"
  /\ fd' = [fd EXCEPT ![p] = None]
  /\ owner' = IF fd[p] # None /\ owner[fd[p]] = p
                THEN [owner EXCEPT ![fd[p]] = NoProc] ELSE owner
  /\ name' = None
  /\ UNCHANGED <<nq, msgs, msgsize, creator, acc, nb, maxmsg, pc, arg, ret,
                 sent, notified, now>>

\* PosixMsgQueue::write: -1 on an invalid fd_, else mq_send (wait < 0) or
\* mq_timedsend with the abs_timeout built from wait.
Write(p) ==
  /\ pc[p] = "idle"
  /\ \E len \in WLens, wait \in Waits :
       \/ fd[p] = None /\ Return(p, -1)
       \/ /\ fd[p] # None
          /\ sent + Cardinality({q \in Procs : pc[q] = "send"}) < MaxSends
          /\ pc' = [pc EXCEPT ![p] = "send"]
          /\ arg' = [arg EXCEPT ![p] = [len |-> len, wait |-> wait, start |-> now]]
          /\ UNCHANGED ret
  /\ UNCHANGED <<name, nq, msgs, msgsize, creator, owner, fd, acc, nb, maxmsg,
                 sent, notified, now>>

\* The kernel side of mq_send / mq_timedsend.  It fails at once with EBADF
\* on a descriptor without write access, EMSGSIZE when len exceeds
\* mq_msgsize, EAGAIN on a full queue with O_NONBLOCK; a full queue blocks
\* until there is room, or until the deadline of a timed send has passed
\* (ETIMEDOUT).  A message that makes the queue non-empty is announced to
\* the notification owner, whose registration then ends.
SendDone(p) ==
  LET q == fd[p]
      len == arg[p].len
  IN
  /\ pc[p] = "send"
  /\ "w" \in acc[p]
  /\ len <= msgsize[q]
  /\ Len(msgs[q]) < Depth
  /\ msgs' = [msgs EXCEPT ![q] = Append(@, [id |-> sent + 1, size |-> len])]
  /\ sent' = sent + 1
  /\ IF msgs[q] = <<>> /\ owner[q] # NoProc
       THEN /\ notified' = [notified EXCEPT ![owner[q]] = TRUE]
            /\ owner' = [owner EXCEPT ![q] = NoProc]
       ELSE UNCHANGED <<notified, owner>>
  /\ Return(p, SendResult(TRUE, len))
  /\ UNCHANGED <<name, nq, msgsize, creator, fd, acc, nb, maxmsg, now>>

SendFails(p) ==
  LET q == fd[p] IN
  /\ pc[p] = "send"
  /\ \/ "w" \notin acc[p]
     \/ arg[p].len > msgsize[q]
     \/ Len(msgs[q]) = Depth /\ nb[p]
  /\ Return(p, SendResult(FALSE, arg[p].len))
  /\ UNCHANGED <<name, nq, msgs, msgsize, creator, owner, fd, acc, nb, maxmsg,
                 sent, notified, now>>

SendTimesOut(p) ==
  /\ pc[p] = "send"
  /\ "w" \in acc[p] /\ arg[p].len <= msgsize[fd[p]]
  /\ Len(msgs[fd[p]]) = Depth /\ ~nb[p]
  /\ arg[p].wait >= 0
  /\ now >= CodeDeadline(arg[p].wait)
  /\ Return(p, SendResult(FALSE, arg[p].len))
  /\ UNCHANGED <<name, nq, msgs, msgsize, creator, owner, fd, acc, nb, maxmsg,
                 sent, notified, now>>

\* PosixMsgQueue::read: -1 on an invalid fd_ or when len > maxmsg_, else
\* mq_receive / mq_timedreceive with the buffer size maxmsg_ (not len).
Read(p) ==
  /\ pc[p] = "idle"
  /\ \E len \in RLens, wait \in Waits :
       \/ fd[p] = None /\ Return(p, -1)
       \/ fd[p] # None /\ len > maxmsg[p] /\ Return(p, -1)
       \/ /\ fd[p] # None
          /\ len <= maxmsg[p]
          /\ pc' = [pc EXCEPT ![p] = "recv"]
          /\ arg' = [arg EXCEPT ![p] = [len |-> len, wait |-> wait, start |-> now]]
          /\ UNCHANGED ret
  /\ UNCHANGED <<name, nq, msgs, msgsize, creator, owner, fd, acc, nb, maxmsg,
                 sent, notified, now>>

\* The kernel side of mq_receive / mq_timedreceive: EBADF without read
\* access, EMSGSIZE when the buffer size (maxmsg_) is below mq_msgsize,
\* EAGAIN on an empty O_NONBLOCK queue; the oldest message is copied into
\* the caller's buffer and its size returned; an empty queue blocks until a
\* message arrives or the deadline of a timed receive has passed.
RecvDone(p) ==
  LET q == fd[p] IN
  /\ pc[p] = "recv"
  /\ "r" \in acc[p]
  /\ maxmsg[p] >= msgsize[q]
  /\ msgs[q] # <<>>
  /\ msgs' = [msgs EXCEPT ![q] = Tail(@)]
  /\ Return(p, Head(msgs[q]).size)
  /\ UNCHANGED <<name, nq, msgsize, creator, owner, fd, acc, nb, maxmsg, sent,
                 notified, now>>

RecvFails(p) ==
  LET q == fd[p] IN
  /\ pc[p] = "recv"
  /\ \/ "r" \notin acc[p]
     \/ maxmsg[p] < msgsize[q]
     \/ msgs[q] = <<>> /\ nb[p]
  /\ Return(p, -1)
  /\ UNCHANGED <<name, nq, msgs, msgsize, creator, owner, fd, acc, nb, maxmsg,
                 sent, notified, now>>

RecvTimesOut(p) ==
  /\ pc[p] = "recv"
  /\ "r" \in acc[p] /\ maxmsg[p] >= msgsize[fd[p]]
  /\ msgs[fd[p]] = <<>> /\ ~nb[p]
  /\ arg[p].wait >= 0
  /\ now >= CodeDeadline(arg[p].wait)
  /\ Return(p, -1)
  /\ UNCHANGED <<name, nq, msgs, msgsize, creator, owner, fd, acc, nb, maxmsg,
                 sent, notified, now>>

\* PosixMsgQueue::set_block: false on an invalid fd_; otherwise
\* mq_getattr, then mq_setattr with mq_flags 0 or O_NONBLOCK.
SetBlock(p) ==
  /\ pc[p] = "idle"
  /\ fd[p] # None
  /\ \E en \in BOOLEAN : nb' = [nb EXCEPT ![p] = ~en]
  /\ UNCHANGED <<name, nq, msgs, msgsize, creator, owner, fd, acc, maxmsg, pc,
                 arg, ret, sent, notified, now>>

\* PosixMsgQueue::notify: false on an invalid fd_; otherwise mq_notify.
\* A non-null notification registers p unless any process (p included)
\* is registered (EBUSY); a null one removes p's own registration.
Notify(p) ==
  LET q == fd[p] IN
  /\ pc[p] = "idle"
  /\ fd[p] # None
  /\ \/ owner[q] = NoProc /\ owner' = [owner EXCEPT ![q] = p]
     \/ owner[q] = p /\ owner' = [owner EXCEPT ![q] = NoProc]
  /\ UNCHANGED <<name, nq, msgs, msgsize, creator, fd, acc, nb, maxmsg, pc,
                 arg, ret, sent, notified, now>>

\* Time passes.
Tick ==
  /\ now < Now0 + MaxTime
  /\ now' = now + 1
  /\ UNCHANGED <<name, nq, msgs, msgsize, creator, owner, fd, acc, nb, maxmsg,
                 pc, arg, ret, sent, notified>>

Next ==
  \/ \E p \in Procs :
       \/ Construct(p) \/ Close(p) \/ Destroy(p)
       \/ Write(p) \/ SendDone(p) \/ SendFails(p) \/ SendTimesOut(p)
       \/ Read(p) \/ RecvDone(p) \/ RecvFails(p) \/ RecvTimesOut(p)
       \/ SetBlock(p) \/ Notify(p)
  \/ Tick

Spec == Init /\ [][Next]_vars

----------------------------------------------------------------------------
(* Properties.                                                             *)

TypeOK ==
  /\ name \in {None} \cup QIds
  /\ nq \in 0..MaxQueues
  /\ msgs \in [QIds -> Seq(Msg)]
  /\ msgsize \in [QIds -> {0} \cup MaxMsgs]
  /\ creator \in [QIds -> ModeChars]
  /\ owner \in [QIds -> Procs \cup {NoProc}]
  /\ fd \in [Procs -> {None} \cup QIds]
  /\ acc \in [Procs -> SUBSET {"r", "w"}]
  /\ nb \in [Procs -> BOOLEAN]
  /\ maxmsg \in [Procs -> {0} \cup MaxMsgs]
  /\ pc \in [Procs -> {"idle", "send", "recv"}]
  /\ ret \in [Procs -> Int]
  /\ sent \in 0..MaxSends
  /\ notified \in [Procs -> BOOLEAN]
  /\ now \in Now0..(Now0 + MaxTime)

\* Spec 4.5: a timed send or receive gives up only once `wait` ms have
\* passed since the call (the deadline is now + wait); the code's
\* abs_timeout makes the kernel give up at once on a full / empty queue.
TimedWaitHonoured ==
  [][\A p \in Procs :
       (SendTimesOut(p) \/ RecvTimesOut(p)) => now >= arg[p].start + arg[p].wait]_vars

\* The buffer PosixMsgQueue::read is given holds len bytes (the test
\* reads 11 bytes into a buffer it sized): mq_receive never copies a
\* message longer than len into it.
NoOverrun ==
  [][\A p \in Procs :
       RecvDone(p) => Head(msgs[fd[p]]).size <= arg[p].len]_vars

\* Every value returned to a caller tells the truth about the queue: a
\* write that returned len > 0 enqueued exactly one message of len bytes,
\* a read that returned s >= 0 dequeued exactly one message of size s,
\* and a -1 changed no queue.
MessagesAccounted ==
  [][\A p \in Procs :
       (pc[p] \in {"send", "recv"} /\ pc'[p] = "idle") =>
         \/ /\ ret'[p] = -1
            /\ UNCHANGED <<msgs, sent>>
         \/ /\ pc[p] = "send" /\ ret'[p] = arg[p].len
            /\ sent' = sent + 1
            /\ msgs'[fd[p]] = Append(msgs[fd[p]], [id |-> sent', size |-> arg[p].len])
         \/ /\ pc[p] = "recv" /\ msgs[fd[p]] # <<>>
            /\ ret'[p] = Head(msgs[fd[p]]).size
            /\ msgs'[fd[p]] = Tail(msgs[fd[p]])]_vars

=============================================================================
