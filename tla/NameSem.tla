------------------------------ MODULE NameSem ------------------------------
(***************************************************************************)
(* ipc::NameSem (src/src/ipc/posix_ipc.cc lines 389-447) used as an        *)
(* inter-process lock: processes open the semaphore by one name, take it   *)
(* with sem_p and give it back with sem_v.  One process is the server      *)
(* (srv = true: O_CREAT|O_EXCL), the others clients (O_CREAT).  The        *)
(* kernel keeps the name and the semaphore objects; an object outlives the *)
(* name (sem_unlink only unbinds it) and a process that dies keeps no      *)
(* handle but its count is not given back.  A process may die at any      *)
(* point and be started again.                                             *)
(***************************************************************************)
EXTENDS Integers, FiniteSets

CONSTANTS
  Procs,        \* processes using the semaphore name
  Servers,      \* those that construct with srv = true
  MaxSems       \* model bound on the semaphore objects created

ASSUME
  /\ Servers \subseteq Procs
  /\ MaxSems \in Nat \ {0}

SIds == 1..MaxSems
None == 0   \* nullptr, and the name bound to no semaphore

VARIABLES
  name,   \* the semaphore object the name is bound to, or None
  ns,     \* semaphore objects created so far (ids 1..ns)
  count,  \* count[s]: the value of semaphore s
  sem,    \* sem[p]: the object p's sem_ refers to, or None
  pc,     \* "down" (not running), "idle", "waiting" (in sem_wait), "cs"
  held    \* held[p]: the object p took and has not given back, or None

vars == <<name, ns, count, sem, pc, held>>

----------------------------------------------------------------------------
(* Faults that a plausible change of the code would introduce.            *)

\* sem_p(true) reporting success whatever sem_wait returned.
SemWaitIgnoreResult(took) == TRUE

----------------------------------------------------------------------------

\* sem_p(false) succeeds when sem_trywait returns 0: the count was > 0.
TryWaitOk(s) == count[s] > 0

\* sem_p(true) returns 0 == sem_wait(sem).
SemWaitResult(took) == took

Init ==
  /\ name = None
  /\ ns = 0
  /\ count = [s \in SIds |-> 0]
  /\ sem = [p \in Procs |-> None]
  /\ pc = [p \in Procs |-> "idle"]
  /\ held = [p \in Procs |-> None]

\* The constructor: sem_open(name, srv ? O_CREAT|O_EXCL : O_CREAT, 0666, 1);
\* it throws when sem_open fails (EEXIST for a server when the name exists).
Construct(p) ==
  /\ pc[p] = "idle"
  /\ sem[p] = None
  /\ \/ /\ name = None
        /\ ns < MaxSems
        /\ ns' = ns + 1
        /\ name' = ns + 1
        /\ count' = [count EXCEPT ![ns + 1] = 1]
        /\ sem' = [sem EXCEPT ![p] = ns + 1]
     \/ /\ name # None
        /\ p \notin Servers
        /\ sem' = [sem EXCEPT ![p] = name]
        /\ UNCHANGED <<name, ns, count>>
  /\ UNCHANGED <<pc, held>>

\* NameSem::sem_p: false without a handle; else sem_trywait (block false)
\* or sem_wait (block true).  The caller enters its critical section on
\* true.
SemP(p) ==
  /\ pc[p] = "idle"
  /\ held[p] = None
  /\ sem[p] # None
  /\ \E block \in BOOLEAN :
       \/ /\ ~block
          /\ TryWaitOk(sem[p])
          /\ count' = [count EXCEPT ![sem[p]] = IF @ > 0 THEN @ - 1 ELSE @]
          /\ held' = [held EXCEPT ![p] = sem[p]]
          /\ pc' = [pc EXCEPT ![p] = "cs"]
       \/ /\ ~block
          /\ ~TryWaitOk(sem[p])
          /\ UNCHANGED <<count, held, pc>>
       \/ /\ block
          /\ pc' = [pc EXCEPT ![p] = "waiting"]
          /\ UNCHANGED <<count, held>>
  /\ UNCHANGED <<name, ns, sem>>

\* sem_wait returns: 0 when it took a unit, -1 (EINTR) when a signal came
\* first.  sem_p(true) returns true iff sem_wait returned 0.
WaitDone(p) ==
  /\ pc[p] = "waiting"
  /\ \E took \in BOOLEAN :
       /\ took => count[sem[p]] > 0
       /\ count' = IF took THEN [count EXCEPT ![sem[p]] = @ - 1] ELSE count
       /\ IF SemWaitResult(took)
            THEN /\ held' = [held EXCEPT ![p] = sem[p]]
                 /\ pc' = [pc EXCEPT ![p] = "cs"]
            ELSE /\ pc' = [pc EXCEPT ![p] = "idle"]
                 /\ UNCHANGED held
  /\ UNCHANGED <<name, ns, sem>>

\* NameSem::sem_v, called by the holder: sem_post on its handle, which is
\* the object it took (handles change only outside the critical section).
\* The count of a held binary semaphore is 0, so EOVERFLOW is out of reach.
SemV(p) ==
  /\ pc[p] = "cs"
  /\ pc' = [pc EXCEPT ![p] = "idle"]
  /\ held' = [held EXCEPT ![p] = None]
  /\ count' = [count EXCEPT ![sem[p]] = @ + 1]
  /\ UNCHANGED <<name, ns, sem>>

\* NameSem::close: sem_close if sem_ is set, then sem_ = nullptr.
Close(p) ==
  /\ pc[p] = "idle"
  /\ sem' = [sem EXCEPT ![p] = None]
  /\ UNCHANGED <<name, ns, count, pc, held>>

\* NameSem::unlink: close(), then sem_unlink(name_).
Unlink(p) ==
  /\ pc[p] = "idle"
  /\ sem' = [sem EXCEPT ![p] = None]
  /\ name' = None
  /\ UNCHANGED <<ns, count, pc, held>>

\* The process dies, in any state; the kernel drops its handle only.
Crash(p) ==
  /\ pc[p] # "down"
  /\ pc' = [pc EXCEPT ![p] = "down"]
  /\ sem' = [sem EXCEPT ![p] = None]
  /\ UNCHANGED <<name, ns, count, held>>

\* The process is started again; what it held before stays lost.
Restart(p) ==
  /\ pc[p] = "down"
  /\ pc' = [pc EXCEPT ![p] = "idle"]
  /\ UNCHANGED <<name, ns, count, sem, held>>

Next ==
  \E p \in Procs :
    \/ Construct(p) \/ SemP(p) \/ WaitDone(p) \/ SemV(p)
    \/ Close(p) \/ Unlink(p) \/ Crash(p) \/ Restart(p)

Spec == Init /\ [][Next]_vars

----------------------------------------------------------------------------
(* Properties.                                                             *)

TypeOK ==
  /\ name \in {None} \cup SIds
  /\ ns \in 0..MaxSems
  /\ count \in [SIds -> 0..1]
  /\ sem \in [Procs -> {None} \cup SIds]
  /\ pc \in [Procs -> {"down", "idle", "waiting", "cs"}]
  /\ held \in [Procs -> {None} \cup SIds]

Holders(s) == {p \in Procs : held[p] = s}

\* Every unit of a semaphore object is either in its count or with the
\* process that took it, running or dead: sem_p and sem_v neither make
\* nor lose one, so a unit taken by a process that died is never back.
UnitsConserved ==
  \A s \in 1..ns : count[s] + Cardinality(Holders(s)) = 1

=============================================================================
