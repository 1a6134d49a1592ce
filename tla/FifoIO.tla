------------------------------- MODULE FifoIO -------------------------------
(***************************************************************************)
(* ipc::Fifo (src/src/ipc/posix_ipc.cc lines 237-293): processes that each *)
(* construct a Fifo on one path, open it, read and write it, close it, and *)
(* may die and be started again.  The kernel keeps the path (nothing in    *)
(* Fifo removes it), the permission bits mkfifo gave it, the bytes in the  *)
(* fifo and, per process, the open read and write descriptions.  A read or *)
(* write is one step here: the probe and the syscall of ipc::read and      *)
(* ipc::write are split, and checked, in PipeIO.                           *)
(***************************************************************************)
EXTENDS Integers, Bitwise

CONSTANTS
  Procs,       \* processes using the path
  Modes,       \* mode characters passed to the constructor and to open
  Cap,         \* bytes the fifo holds
  Umask,       \* the process umask, e.g. 18 (022)
  Privileged   \* the processes that bypass permission checks (root)

ASSUME Privileged \subseteq Procs

None == {}   \* no descriptor: the empty access

\* Open flags, with Linux's values.
O_RDONLY == 0   O_WRONLY == 1   O_RDWR == 2
O_CREAT == 64   O_TRUNC == 512  O_APPEND == 1024

VARIABLES
  exists,  \* the path holds the fifo
  perm,    \* its permission bits
  buf,     \* bytes in the fifo
  nR,      \* nR[p]: read descriptions of the fifo that p has open
  nW,      \* nW[p]: write descriptions of the fifo that p has open
  inst,    \* inst[p]: p has a constructed Fifo instance
  fd,      \* fd[p]: the access of the instance's fd_, or None
  pend,    \* pend[p]: the access of an open() still blocked in the kernel
  pc,      \* "idle", "opening" (blocked in ::open) or "down"
  res      \* res[p]: how p's last constructor or open call ended

vars == <<exists, perm, buf, nR, nW, inst, fd, pend, pc, res>>

----------------------------------------------------------------------------
(* Faults that a plausible change of the code would introduce.            *)

\* Fifo::open without the "descriptor already open" check.
AlreadyOpenUnchecked(p) == FALSE

----------------------------------------------------------------------------

\* trans_mode (lines 29-43); -1 for any other character.
trans_mode(c) ==
  CASE c = "r" -> O_RDONLY
    [] c = "a" -> O_WRONLY + O_CREAT + O_APPEND
    [] c = "w" -> O_WRONLY + O_CREAT + O_TRUNC
    [] c = "m" -> O_WRONLY + O_CREAT
    [] c = "d" -> O_RDWR + O_CREAT + O_APPEND
    [] OTHER -> -1

\* The access an open with these flags gets.
Access(flags) ==
  CASE flags % 4 = O_RDONLY -> {"r"}
    [] flags % 4 = O_WRONLY -> {"w"}
    [] OTHER -> {"r", "w"}

\* mkfifo(path, mode) creates the fifo with mode & 0777 & ~umask.
MkfifoPerm(mode) == (mode & 511) & (511 - Umask)

\* p, the owner, may open with this access (S_IRUSR 0400, S_IWUSR 0200).
Permitted(p, acc) ==
  \/ p \in Privileged
  \/ /\ "r" \in acc => (perm & 256) # 0
     /\ "w" \in acc => (perm & 128) # 0

\* Fifo::open's first check: the instance already has a descriptor.
AlreadyOpen(p) == fd[p] # None

Readers == {p \in Procs : nR[p] > 0}
Writers == {p \in Procs : nW[p] > 0}

Init ==
  /\ exists = FALSE
  /\ perm = 0
  /\ buf = 0
  /\ nR = [p \in Procs |-> 0]
  /\ nW = [p \in Procs |-> 0]
  /\ inst = [p \in Procs |-> FALSE]
  /\ fd = [p \in Procs |-> None]
  /\ pend = [p \in Procs |-> None]
  /\ pc = [p \in Procs |-> "idle"]
  /\ res = [p \in Procs |-> "ok"]

\* Fifo::Fifo(path, mode): invalid_argument for a bad mode, then
\* mkfifo(path, trans_mode(mode)), runtime_error when it fails (EEXIST).
Construct(p) ==
  /\ pc[p] = "idle"
  /\ ~inst[p]
  /\ \E c \in Modes :
       \/ /\ trans_mode(c) < 0
          /\ res' = [res EXCEPT ![p] = "EINVAL"]
          /\ UNCHANGED <<exists, perm, inst>>
       \/ /\ trans_mode(c) >= 0
          /\ exists
          /\ res' = [res EXCEPT ![p] = "EEXIST"]
          /\ UNCHANGED <<exists, perm, inst>>
       \/ /\ trans_mode(c) >= 0
          /\ ~exists
          /\ exists' = TRUE
          /\ perm' = MkfifoPerm(trans_mode(c))
          /\ inst' = [inst EXCEPT ![p] = TRUE]
          /\ res' = [res EXCEPT ![p] = "ok"]
  /\ UNCHANGED <<buf, nR, nW, fd, pend, pc>>

\* Fifo::open(mode): false if fd_ is open or the mode is bad; else
\* ::open(path, trans_mode(mode)).  Without O_NONBLOCK the kernel counts
\* the new end and then waits for a partner unless the access is O_RDWR.
Open(p) ==
  /\ pc[p] = "idle"
  /\ inst[p]
  /\ \E c \in Modes :
       \/ /\ AlreadyOpen(p) \/ trans_mode(c) < 0
          /\ res' = [res EXCEPT ![p] = "false"]
          /\ UNCHANGED <<nR, nW, pend, pc>>
       \/ /\ ~AlreadyOpen(p) /\ trans_mode(c) >= 0
          /\ ~Permitted(p, Access(trans_mode(c)))
          /\ res' = [res EXCEPT ![p] = "EACCES"]
          /\ UNCHANGED <<nR, nW, pend, pc>>
       \/ /\ ~AlreadyOpen(p) /\ trans_mode(c) >= 0
          /\ Permitted(p, Access(trans_mode(c)))
          /\ LET acc == Access(trans_mode(c)) IN
               /\ nR' = [nR EXCEPT ![p] = @ + (IF "r" \in acc THEN 1 ELSE 0)]
               /\ nW' = [nW EXCEPT ![p] = @ + (IF "w" \in acc THEN 1 ELSE 0)]
               /\ pend' = [pend EXCEPT ![p] = acc]
          /\ pc' = [pc EXCEPT ![p] = "opening"]
          /\ UNCHANGED res
  /\ UNCHANGED <<exists, perm, buf, inst, fd>>

\* ::open returns once the other end has a holder; fd_ takes the result.
OpenDone(p) ==
  /\ pc[p] = "opening"
  /\ "r" \in pend[p] => Writers # {}
  /\ "w" \in pend[p] => Readers # {}
  /\ fd' = [fd EXCEPT ![p] = pend[p]]
  /\ pend' = [pend EXCEPT ![p] = None]
  /\ pc' = [pc EXCEPT ![p] = "idle"]
  /\ res' = [res EXCEPT ![p] = "ok"]
  /\ UNCHANGED <<exists, perm, buf, nR, nW, inst>>

\* The kernel side of ::close(fd_) for a descriptor of this access.
CloseEnds(p, acc) ==
  /\ nR' = [nR EXCEPT ![p] = @ - (IF "r" \in acc THEN 1 ELSE 0)]
  /\ nW' = [nW EXCEPT ![p] = @ - (IF "w" \in acc THEN 1 ELSE 0)]

\* Fifo::close: ::close(fd_) and fd_ = -1 if fd_ is open.  The last end
\* closed discards what the fifo holds.
Close(p) ==
  /\ pc[p] = "idle"
  /\ inst[p]
  /\ IF fd[p] # None
       THEN /\ CloseEnds(p, fd[p])
            /\ fd' = [fd EXCEPT ![p] = None]
            /\ buf' = IF Readers' = {} /\ Writers' = {} THEN 0 ELSE buf
       ELSE UNCHANGED <<nR, nW, fd, buf>>
  /\ UNCHANGED <<exists, perm, inst, pend, pc, res>>

\* Fifo::set_block(en): set_fd_block(fd_, en).  With fd_ = -1 fcntl fails
\* (EBADF) and it returns false; else O_NONBLOCK is set or cleared on the
\* open description and it returns true.  Every read and write here polls
\* (wait 0) and ::open takes its flags from trans_mode alone, so the flag
\* changes no later step and is not a variable.
SetBlock(p) ==
  /\ pc[p] = "idle"
  /\ inst[p]
  /\ res' = [res EXCEPT ![p] = IF fd[p] = None THEN "false" ELSE "ok"]
  /\ UNCHANGED <<exists, perm, buf, nR, nW, inst, fd, pend, pc>>

\* Fifo::write(data, 1, 0): -1 without fd_ or on a read-only fd_ (EBADF
\* after the probe); else one byte if there is room, 0 if not.  A writer
\* always has a reader here: a write-only open returns only once there is
\* one, and only the constructing process can hold a Fifo on the path, so
\* the reader is its own read-write descriptor or a blocked write-only
\* open that never returns; the SIGPIPE of a write with no reader, which
\* PipeIO covers, cannot happen.
Write(p) ==
  /\ pc[p] = "idle"
  /\ inst[p]
  /\ buf' = IF "w" \in fd[p] /\ buf < Cap THEN buf + 1 ELSE buf
  /\ UNCHANGED <<exists, perm, nR, nW, inst, fd, pend, pc, res>>

\* Fifo::read(data, 1, 0): -1 without fd_ or on a write-only fd_ (EBADF
\* after the probe); one byte if there is one, else 0 (timeout or EOF).
Read(p) ==
  /\ pc[p] = "idle"
  /\ inst[p]
  /\ buf' = IF "r" \in fd[p] /\ buf > 0 THEN buf - 1 ELSE buf
  /\ UNCHANGED <<exists, perm, nR, nW, inst, fd, pend, pc, res>>

\* The process dies, also while blocked in ::open; the kernel closes its
\* descriptors, the path stays.
Crash(p) ==
  /\ pc[p] # "down"
  /\ nR' = [nR EXCEPT ![p] = 0]
  /\ nW' = [nW EXCEPT ![p] = 0]
  /\ buf' = IF Readers' = {} /\ Writers' = {} THEN 0 ELSE buf
  /\ inst' = [inst EXCEPT ![p] = FALSE]
  /\ fd' = [fd EXCEPT ![p] = None]
  /\ pend' = [pend EXCEPT ![p] = None]
  /\ pc' = [pc EXCEPT ![p] = "down"]
  /\ UNCHANGED <<exists, perm, res>>

Restart(p) ==
  /\ pc[p] = "down"
  /\ pc' = [pc EXCEPT ![p] = "idle"]
  /\ UNCHANGED <<exists, perm, buf, nR, nW, inst, fd, pend, res>>

Next ==
  \E p \in Procs :
    \/ Construct(p) \/ Open(p) \/ OpenDone(p) \/ Close(p)
    \/ SetBlock(p) \/ Write(p) \/ Read(p) \/ Crash(p) \/ Restart(p)

Spec == Init /\ [][Next]_vars

----------------------------------------------------------------------------
(* Properties.                                                             *)

Results == {"ok", "false", "EINVAL", "EEXIST", "EACCES"}

TypeOK ==
  /\ exists \in BOOLEAN
  /\ perm \in 0..511
  /\ buf \in 0..Cap
  /\ nR \in [Procs -> Nat]
  /\ nW \in [Procs -> Nat]
  /\ inst \in [Procs -> BOOLEAN]
  /\ fd \in [Procs -> SUBSET {"r", "w"}]
  /\ pend \in [Procs -> SUBSET {"r", "w"}]
  /\ pc \in [Procs -> {"idle", "opening", "down"}]
  /\ res \in [Procs -> Results]

\* The access the kernel has granted p or is about to grant it.
Granted(p) == IF pc[p] = "opening" THEN pend[p] ELSE fd[p]

Ends(acc, a) == IF a \in acc THEN 1 ELSE 0

\* Every descriptor the kernel holds open for p is the one its Fifo
\* instance refers to: open, close and a death neither leak a descriptor
\* (which would keep the far end from seeing end of file) nor lose one.
NoDescriptorLeak ==
  \A p \in Procs :
    /\ nR[p] = Ends(Granted(p), "r")
    /\ nW[p] = Ends(Granted(p), "w")

\* Section 4.4 and the round trip of section 8: the process that created
\* the fifo can open it for the access its mode asks for.
CreatorMayOpen == \A p \in Procs : res[p] # "EACCES"

=============================================================================
