------------------------------- MODULE Mutex -------------------------------
(***************************************************************************)
(* Mutex and MutexGuard (src/include/co/unix/thread.h lines 13-38, 81-95): *)
(* threads enter a critical section through MutexGuard (lock() in the      *)
(* constructor, unlock() in the destructor, and its own unlock() and       *)
(* lock() in between) or through try_lock() and unlock().  Each            *)
(* pthread call of lock(), unlock() and the constructor is the argument of *)
(* assert(0 == ...): built with NDEBUG the call is not compiled at all.    *)
(* try_lock() calls pthread_mutex_trylock outside an assert.  Without the  *)
(* pthread_mutex_init the pthread_mutex_t holds whatever the memory held:  *)
(* zero (unlocked) or a word that reads as locked by no thread of ours.    *)
(***************************************************************************)
EXTENDS Integers, FiniteSets

CONSTANTS
  Threads,
  NDEBUG,   \* the build defines NDEBUG
  Nobody,   \* the mutex is unlocked
  Stranger, \* an uninitialised lock word that reads as locked
  EarlyExit \* a thread may leave a guard's scope after calling its unlock()

VARIABLES
  owner,    \* the thread pthread considers the mutex's owner
  pc        \* pc[t]: "idle", "locking" (in pthread_mutex_lock), "cs", or
            \* "released" (in a guard's scope after its unlock())

vars == <<owner, pc>>

----------------------------------------------------------------------------
(* Faults that a plausible change of the code would introduce.            *)

\* try_lock() returning true whatever pthread_mutex_trylock returned.
TryLockIgnoreResult(o) == TRUE

----------------------------------------------------------------------------

\* assert(0 == f()): f is called only when NDEBUG is not defined.
Asserted == ~NDEBUG

\* pthread_mutex_trylock returns 0 iff the mutex was unlocked.
TryLockOk(o) == o = Nobody

\* pthread_mutex_unlock on a default (normal) glibc mutex releases it
\* without checking that the caller owns it.
Unlocked(t) == Nobody

\* Mutex::unlock(): pthread_mutex_unlock, or nothing under NDEBUG.
UnlockOp(t) == IF Asserted THEN Unlocked(t) ELSE owner

\* Mutex::lock(): pthread_mutex_lock, or nothing under NDEBUG.
LockOp(t) ==
  /\ pc' = [pc EXCEPT ![t] = IF Asserted THEN "locking" ELSE "cs"]
  /\ UNCHANGED owner

\* Mutex(): pthread_mutex_init, or nothing under NDEBUG.
Init ==
  /\ owner \in IF Asserted THEN {Nobody} ELSE {Nobody, Stranger}
  /\ pc = [t \in Threads |-> "idle"]

\* MutexGuard g(m): the constructor calls m.lock().
GuardEnter(t) == pc[t] = "idle" /\ LockOp(t)

\* pthread_mutex_lock returns when the mutex is free, owned by the caller.
LockDone(t) ==
  /\ pc[t] = "locking"
  /\ owner = Nobody
  /\ owner' = t
  /\ pc' = [pc EXCEPT ![t] = "cs"]

\* Mutex::try_lock(): pthread_mutex_trylock(&_mutex) == 0.
TryLock(t) ==
  /\ pc[t] = "idle"
  /\ IF TryLockOk(owner)
       THEN /\ owner' = IF owner = Nobody THEN t ELSE owner
            /\ pc' = [pc EXCEPT ![t] = "cs"]
       ELSE UNCHANGED <<owner, pc>>

\* MutexGuard::unlock() inside the guard's scope.
GuardUnlock(t) ==
  /\ pc[t] = "cs"
  /\ owner' = UnlockOp(t)
  /\ pc' = [pc EXCEPT ![t] = "released"]

\* MutexGuard::lock() after an unlock() in the same scope.
GuardRelock(t) == pc[t] = "released" /\ LockOp(t)

\* ~MutexGuard (or Mutex::unlock() after try_lock) calls m.unlock()
\* unconditionally.  The threads leave a scope after a guard's unlock()
\* only if EarlyExit allows it.
Exit(t) ==
  /\ \/ pc[t] = "cs"
     \/ pc[t] = "released" /\ EarlyExit
  /\ owner' = UnlockOp(t)
  /\ pc' = [pc EXCEPT ![t] = "idle"]

Next ==
  \E t \in Threads :
    \/ GuardEnter(t) \/ LockDone(t) \/ TryLock(t)
    \/ GuardUnlock(t) \/ GuardRelock(t) \/ Exit(t)

Spec == Init /\ [][Next]_vars

----------------------------------------------------------------------------
(* Properties.                                                             *)

TypeOK ==
  /\ owner \in Threads \cup {Nobody, Stranger}
  /\ pc \in [Threads -> {"idle", "locking", "cs", "released"}]

InCs == {t \in Threads : pc[t] = "cs"}

\* MutexGuard and try_lock exclude each other: at most one thread is
\* between a successful lock()/try_lock() and its unlock().
MutualExclusion == Cardinality(InCs) <= 1

=============================================================================
