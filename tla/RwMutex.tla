------------------------------ MODULE RwMutex ------------------------------
(***************************************************************************)
(* RwMutex, RMutexGuard and WMutexGuard (src/include/co/unix/thread.h      *)
(* lines 40-79, 97-125).  A thread takes the lock for reading or for       *)
(* writing through a guard (rlock()/wlock() in the constructor, unlock()   *)
(* in the destructor, its own unlock() and lock() in between), or through  *)
(* try_rlock()/try_wlock() or the timed try_*_timeout() and then unlock(). *)
(* As in Mutex, the pthread calls of the constructor, rlock(), wlock()     *)
(* and unlock() are arguments of assert(0 == ...); the try_* calls are     *)
(* not.  The rwlock is created with default attributes, which in glibc     *)
(* prefer readers: a read lock is granted whenever no writer holds it.     *)
(* glibc keeps a count of readers, not their names, and unlock() by a      *)
(* thread that is not the writer takes one reader off that count.          *)
(***************************************************************************)
EXTENDS Integers, FiniteSets

CONSTANTS
  Threads,
  NDEBUG,   \* the build defines NDEBUG
  Nobody,   \* no thread holds the write lock
  Stranger, \* an uninitialised lock word that reads as write-locked
  EarlyExit \* a thread may leave a guard's scope after calling its unlock()

VARIABLES
  writer,   \* the rwlock's writer (glibc's __cur_writer)
  nreaders, \* the rwlock's count of read locks held
  rwpc,     \* rwpc[t]: "idle", "locking" (in rdlock/wrlock), "timed" (in a
            \* timed lock), "cs", or "released" (after a guard's unlock())
  kind      \* kind[t]: "r" or "w", the lock t asks for or holds

rwvars == <<writer, nreaders, rwpc, kind>>

\* The reader count sits in bits 3..31 of glibc's __readers word; taking
\* one off a count of 0 borrows through the word and leaves 2^29 - 1
\* readers, a lock no writer is ever granted again.
ReadUnlock(n) == IF n = 0 THEN 2^29 - 1 ELSE n - 1

----------------------------------------------------------------------------
(* Faults that a plausible change of the code would introduce.            *)

\* A write lock granted while readers still hold the lock.
GrantIgnoringReaders(k, w, n) == w = Nobody

\* unlock() that always releases a read lock, as if the caller were a
\* reader, leaving a writer's lock held.
UnlockAsReader(t) == [w |-> writer, n |-> ReadUnlock(nreaders)]

----------------------------------------------------------------------------

RwAsserted == ~NDEBUG

\* pthread_rwlock_(try|timed)(rd|wr)lock succeeds: reading needs no
\* writer, writing needs neither writer nor readers.
Grantable(k, w, n) == w = Nobody /\ (k = "w" => n = 0)

\* pthread_rwlock_unlock: the caller is the writer, or else it drops a
\* read lock, whether or not the caller holds one.
RwUnlocked(t) ==
  IF writer = t THEN [w |-> Nobody, n |-> nreaders]
                ELSE [w |-> writer, n |-> ReadUnlock(nreaders)]

\* RwMutex::unlock(): pthread_rwlock_unlock, or nothing under NDEBUG.
RwUnlockOp(t) ==
  LET u == IF RwAsserted THEN RwUnlocked(t) ELSE [w |-> writer, n |-> nreaders]
  IN  writer' = u.w /\ nreaders' = u.n

\* The lock is granted to t for kind k.
Acquire(t, k) ==
  /\ writer' = IF k = "w" THEN t ELSE writer
  /\ nreaders' = IF k = "r" THEN nreaders + 1 ELSE nreaders

\* rlock()/wlock(): the blocking call, or nothing under NDEBUG.
RwLockOp(t) ==
  /\ rwpc' = [rwpc EXCEPT ![t] = IF RwAsserted THEN "locking" ELSE "cs"]
  /\ UNCHANGED <<writer, nreaders>>

\* RwMutex(): pthread_rwlock_init, or nothing under NDEBUG.
RwInit ==
  /\ writer \in IF RwAsserted THEN {Nobody} ELSE {Nobody, Stranger}
  /\ nreaders = 0
  /\ rwpc = [t \in Threads |-> "idle"]
  /\ kind = [t \in Threads |-> "r"]

\* RMutexGuard g(m) / WMutexGuard g(m): the constructor calls m.rlock() or
\* m.wlock().
RwGuardEnter(t) ==
  /\ rwpc[t] = "idle"
  /\ \E k \in {"r", "w"} : kind' = [kind EXCEPT ![t] = k]
  /\ RwLockOp(t)

\* pthread_rwlock_rdlock/wrlock returns once the lock can be granted.
RwLockDone(t) ==
  /\ rwpc[t] = "locking"
  /\ Grantable(kind[t], writer, nreaders)
  /\ Acquire(t, kind[t])
  /\ rwpc' = [rwpc EXCEPT ![t] = "cs"]
  /\ UNCHANGED kind

\* try_rlock()/try_wlock(): one non-blocking attempt.
RwTryLock(t) ==
  /\ rwpc[t] = "idle"
  /\ \E k \in {"r", "w"} :
       /\ kind' = [kind EXCEPT ![t] = k]
       /\ IF Grantable(k, writer, nreaders)
            THEN Acquire(t, k) /\ rwpc' = [rwpc EXCEPT ![t] = "cs"]
            ELSE UNCHANGED <<writer, nreaders, rwpc>>

\* try_rlock_timeout(t)/try_wlock_timeout(t): the timed call starts.
RwTimedLock(t) ==
  /\ rwpc[t] = "idle"
  /\ \E k \in {"r", "w"} : kind' = [kind EXCEPT ![t] = k]
  /\ rwpc' = [rwpc EXCEPT ![t] = "timed"]
  /\ UNCHANGED <<writer, nreaders>>

\* The timed call is granted the lock and returns true.
RwTimedDone(t) ==
  /\ rwpc[t] = "timed"
  /\ Grantable(kind[t], writer, nreaders)
  /\ Acquire(t, kind[t])
  /\ rwpc' = [rwpc EXCEPT ![t] = "cs"]
  /\ UNCHANGED kind

\* The absolute deadline passes: ETIMEDOUT, the call returns false.
RwTimedOut(t) ==
  /\ rwpc[t] = "timed"
  /\ rwpc' = [rwpc EXCEPT ![t] = "idle"]
  /\ UNCHANGED <<writer, nreaders, kind>>

\* RMutexGuard::unlock() / WMutexGuard::unlock() inside the scope.
RwGuardUnlock(t) ==
  /\ rwpc[t] = "cs"
  /\ RwUnlockOp(t)
  /\ rwpc' = [rwpc EXCEPT ![t] = "released"]
  /\ UNCHANGED kind

\* The guard's lock() after its unlock(): rlock() or wlock() again.
RwGuardRelock(t) ==
  /\ rwpc[t] = "released"
  /\ RwLockOp(t)
  /\ UNCHANGED kind

\* The guard's destructor, or unlock() after a successful try: m.unlock(),
\* also after the guard's own unlock() if EarlyExit allows it.
RwExit(t) ==
  /\ \/ rwpc[t] = "cs"
     \/ rwpc[t] = "released" /\ EarlyExit
  /\ RwUnlockOp(t)
  /\ rwpc' = [rwpc EXCEPT ![t] = "idle"]
  /\ UNCHANGED kind

RwNext ==
  \E t \in Threads :
    \/ RwGuardEnter(t) \/ RwLockDone(t) \/ RwTryLock(t)
    \/ RwTimedLock(t) \/ RwTimedDone(t) \/ RwTimedOut(t)
    \/ RwGuardUnlock(t) \/ RwGuardRelock(t) \/ RwExit(t)

\* The kernel grants a grantable lock to a blocked caller, and every
\* thread leaves a section it entered or relocks a released guard.
RwFairness ==
  \A t \in Threads :
    /\ WF_rwvars(RwLockDone(t))
    /\ WF_rwvars(RwGuardUnlock(t) \/ RwExit(t))
    /\ WF_rwvars(RwGuardRelock(t))

RwSpec == RwInit /\ [][RwNext]_rwvars /\ RwFairness

----------------------------------------------------------------------------
(* Properties.                                                             *)

RwTypeOK ==
  /\ writer \in Threads \cup {Nobody, Stranger}
  /\ nreaders \in Nat
  /\ rwpc \in [Threads -> {"idle", "locking", "timed", "cs", "released"}]
  /\ kind \in [Threads -> {"r", "w"}]

\* Whatever mix of guards, try_*, timed calls and guard unlock/relock the
\* threads use, a thread inside a write section is alone in a section.
RwExclusion ==
  \A t \in Threads :
    rwpc[t] = "cs" /\ kind[t] = "w" =>
      \A u \in Threads \ {t} : rwpc[u] # "cs"

\* A thread blocked in rlock() or wlock() is never left waiting with nobody
\* in a section: unlock() really releases the writer's and each reader's
\* lock, so some thread later holds the lock.
RwProgress ==
  (\E t \in Threads : rwpc[t] = "locking") ~> (\E t \in Threads : rwpc[t] = "cs")

=============================================================================
