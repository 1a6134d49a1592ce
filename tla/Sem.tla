-------------------------------- MODULE Sem --------------------------------
(***************************************************************************)
(* ipc::Sem (src/src/ipc/posix_ipc.cc lines 449-476), the process-private  *)
(* semaphore, used by threads of one process as a lock: sem_p and sem_v    *)
(* around a critical section, and close() (also run by ~Sem).  Unlike      *)
(* NameSem, Sem keeps no "closed" mark: close() runs sem_destroy and then  *)
(* memsets the sem_t, which leaves a semaphore of value 0 that the later   *)
(* sem_p/sem_v calls go on using.  glibc's sem_destroy does nothing; the   *)
(* memset also clears the count of registered waiters, so a thread asleep  *)
(* in sem_wait is woken by a later sem_post only if some other waiter      *)
(* registered meanwhile: undefined behaviour, a wake-up that may or may    *)
(* not come.                                                               *)
(***************************************************************************)
EXTENDS Naturals, FiniteSets

CONSTANTS
  SemThreads    \* threads sharing one Sem object

VARIABLES
  svalue,       \* the semaphore's value
  spc           \* spc[t]: "idle", "waiting" (in sem_wait), "cs"

svars == <<svalue, spc>>

----------------------------------------------------------------------------
(* Faults that a plausible change of the code would introduce.            *)

\* sem_p(false) returning true whatever sem_trywait returned.
PTryWaitIgnoreResult(v) == TRUE

----------------------------------------------------------------------------

\* sem_trywait succeeds (returns 0) when the value is positive.
PTryWaitOk(v) == v > 0

\* Sem(shared): memset, then sem_init(&sem_, shared, 1).
SemInit ==
  /\ svalue = 1
  /\ spc = [t \in SemThreads |-> "idle"]

\* Sem::sem_p(block): sem_trywait, or sem_wait, which may sleep; the
\* caller enters its critical section on true.
PSemP(t) ==
  /\ spc[t] = "idle"
  /\ \E block \in BOOLEAN :
       \/ /\ ~block
          /\ IF PTryWaitOk(svalue)
               THEN /\ svalue' = IF svalue > 0 THEN svalue - 1 ELSE svalue
                    /\ spc' = [spc EXCEPT ![t] = "cs"]
               ELSE UNCHANGED svars
       \/ /\ block
          /\ spc' = [spc EXCEPT ![t] = "waiting"]
          /\ UNCHANGED svalue

\* sem_wait takes a unit and returns 0.  (EINTR only repeats the idle
\* state and is left out.)
PSemWaitDone(t) ==
  /\ spc[t] = "waiting"
  /\ svalue > 0
  /\ svalue' = svalue - 1
  /\ spc' = [spc EXCEPT ![t] = "cs"]

\* Sem::sem_v by the holder: sem_post.
PSemV(t) ==
  /\ spc[t] = "cs"
  /\ svalue' = svalue + 1
  /\ spc' = [spc EXCEPT ![t] = "idle"]

\* Sem::close() (or ~Sem) by an idle thread: sem_destroy(&sem_), then
\* memset(&sem_, 0, ...): the value becomes 0, whoever is waiting or
\* holding.
PSemClose(t) ==
  /\ spc[t] = "idle"
  /\ svalue' = 0
  /\ UNCHANGED spc

PSemNext ==
  \E t \in SemThreads :
    PSemP(t) \/ PSemWaitDone(t) \/ PSemV(t) \/ PSemClose(t)

----------------------------------------------------------------------------
(* Properties.                                                             *)

SemTypeOK ==
  /\ svalue \in 0..1
  /\ spc \in [SemThreads -> {"idle", "waiting", "cs"}]

\* Sem as a lock: whatever order sem_p(false), sem_p(true), sem_v and a
\* close() by another thread (which zeroes the value under a holder or a
\* sleeper) come in, at most one thread is in a critical section.
SemExclusion == Cardinality({t \in SemThreads : spc[t] = "cs"}) <= 1

=============================================================================
