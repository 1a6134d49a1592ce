------------------------------ MODULE ShareMem ------------------------------
(***************************************************************************)
(* ipc::PosixShareMem (src/src/ipc/posix_ipc.cc lines 478-548): processes  *)
(* construct instances on one segment name, destroy the name and drop     *)
(* instances.  map() is not modelled: line 538 calls mmap with five of    *)
(* its six arguments and compares the pointer with "< 0", which does not  *)
(* compile as C++, and nothing else ever sets addr_.  So addr_ keeps the  *)
(* nullptr of the constructor, and unmap() -- called by destroy() and by  *)
(* the destructor -- finds no mapping and does nothing.                   *)
(***************************************************************************)
EXTENDS FiniteSets

CONSTANTS
  Insts,      \* PosixShareMem instances, each in some process
  Modes       \* mode characters passed to the constructor

VARIABLES
  exists,    \* the segment name is bound
  live,      \* live[i]: instance i is constructed and not yet destructed
  fdOpen,    \* fdOpen[i]: the descriptor i's shm_open returned is open
  pc         \* pc[i]: "new", "live" or "gone"

vars == <<exists, live, fdOpen, pc>>

\* trans_mode accepts these characters (lines 29-43); "r" has no O_CREAT.
Valid(c) == c \in {"r", "a", "w", "m", "d"}
Creates(c) == c # "r"

Init ==
  /\ exists = FALSE
  /\ live = [i \in Insts |-> FALSE]
  /\ fdOpen = [i \in Insts |-> FALSE]
  /\ pc = [i \in Insts |-> "new"]

\* PosixShareMem(name, mode): invalid_argument for a bad mode; then
\* shm_open(name, trans_mode(mode), 0666), runtime_error if it fails
\* (ENOENT for "r" on a missing name).
Construct(i) ==
  /\ pc[i] = "new"
  /\ \E c \in Modes :
       IF Valid(c) /\ (exists \/ Creates(c))
         THEN /\ exists' = TRUE
              /\ live' = [live EXCEPT ![i] = TRUE]
              /\ fdOpen' = [fdOpen EXCEPT ![i] = TRUE]
              /\ pc' = [pc EXCEPT ![i] = "live"]
         ELSE /\ pc' = [pc EXCEPT ![i] = "gone"]
              /\ UNCHANGED <<exists, live, fdOpen>>

\* destroy(): unmap() (nothing, addr_ is null), then shm_unlink(name_),
\* whose ENOENT on an already removed name is ignored.  fd_ stays open.
Destroy(i) ==
  /\ pc[i] = "live"
  /\ exists' = FALSE
  /\ UNCHANGED <<live, fdOpen, pc>>

\* ~PosixShareMem: unmap() only; fd_ is not closed.
Drop(i) ==
  /\ pc[i] = "live"
  /\ live' = [live EXCEPT ![i] = FALSE]
  /\ pc' = [pc EXCEPT ![i] = "gone"]
  /\ UNCHANGED <<exists, fdOpen>>

\* Every instance has been constructed (or failed) and dropped.
Done ==
  /\ \A i \in Insts : pc[i] = "gone"
  /\ UNCHANGED vars

Next ==
  \/ \E i \in Insts : Construct(i) \/ Destroy(i) \/ Drop(i)
  \/ Done

Spec == Init /\ [][Next]_vars

----------------------------------------------------------------------------
(* Properties.                                                             *)

TypeOK ==
  /\ exists \in BOOLEAN
  /\ live \in [Insts -> BOOLEAN]
  /\ fdOpen \in [Insts -> BOOLEAN]
  /\ pc \in [Insts -> {"new", "live", "gone"}]

\* Section 3 of the spec: close happens "implicitly via destruction", and
\* section 5 makes each descriptor owned by its instance.  So once an
\* instance's destructor has run, the descriptor its shm_open returned is
\* closed, whatever other instances did to the name meanwhile.
NoDescriptorLeak == \A i \in Insts : fdOpen[i] => live[i]

=============================================================================
