----------------------------- MODULE ThreadJoin -----------------------------
(***************************************************************************)
(* Thread (src/include/co/unix/thread.h lines 171-213): one Thread object, *)
(* whose join() and detach() (and the destructor, which joins) may be      *)
(* called by several threads.  Each call swaps _id with 0 atomically and   *)
(* hands a non-zero id to pthread_join or pthread_detach.  The started     *)
(* thread runs its closure and exits on its own.  The constructor's        *)
(* pthread_create is the argument of an assert: built with NDEBUG no       *)
(* thread is started and _id keeps the 0 of its initialiser.               *)
(***************************************************************************)
EXTENDS Integers, FiniteSets

CONSTANTS
  Callers,   \* threads that call join(), detach() or destroy the object
  Tid,       \* the pthread_t pthread_create gives the started thread (not 0)
  NDEBUG     \* the build defines NDEBUG

ASSUME Tid # 0 /\ NDEBUG \in BOOLEAN

VARIABLES
  id,        \* Thread::_id
  fn,        \* the thread function: "none" (never started), "running",
             \* "returned"
  handle,    \* "joinable", "joined" or "detached": what pthread has done
  releases,  \* number of pthread_join/pthread_detach calls on Tid
  pc,        \* pc[c]: "idle", "swapped", "joining", "done"
  call,      \* call[c]: "join" or "detach", the method c is in
  local      \* local[c]: the id c's atomic_swap returned

vars == <<id, fn, handle, releases, pc, call, local>>

----------------------------------------------------------------------------

\* Thread(cb): _id(0), then assert(0 == pthread_create(&_id, ...)).
Init ==
  /\ id = IF NDEBUG THEN 0 ELSE Tid
  /\ fn = IF NDEBUG THEN "none" ELSE "running"
  /\ handle = "joinable"
  /\ releases = 0
  /\ pc = [c \in Callers |-> "idle"]
  /\ call = [c \in Callers |-> "join"]
  /\ local = [c \in Callers |-> 0]

\* _Run: cb->run() returns and the thread exits.
Finish ==
  /\ fn = "running"
  /\ fn' = "returned"
  /\ UNCHANGED <<id, handle, releases, pc, call, local>>

\* join() or detach() (~Thread is a join): atomic_swap(&_id, 0).
Swap(c) ==
  /\ pc[c] = "idle"
  /\ \E m \in {"join", "detach"} : call' = [call EXCEPT ![c] = m]
  /\ local' = [local EXCEPT ![c] = id]
  /\ id' = 0
  /\ pc' = [pc EXCEPT ![c] = "swapped"]
  /\ UNCHANGED <<fn, handle, releases>>

\* if (id != 0) pthread_join(id, 0) / pthread_detach(id).
Release(c) ==
  /\ pc[c] = "swapped"
  /\ \/ /\ local[c] = 0
        /\ pc' = [pc EXCEPT ![c] = "done"]
        /\ UNCHANGED <<handle, releases>>
     \/ /\ local[c] # 0 /\ call[c] = "join"
        /\ releases' = releases + 1
        /\ pc' = [pc EXCEPT ![c] = "joining"]
        /\ UNCHANGED handle
     \/ /\ local[c] # 0 /\ call[c] = "detach"
        /\ releases' = releases + 1
        /\ handle' = "detached"
        /\ pc' = [pc EXCEPT ![c] = "done"]
  /\ UNCHANGED <<id, fn, call, local>>

\* pthread_join returns once the thread has exited.
JoinReturns(c) ==
  /\ pc[c] = "joining"
  /\ fn = "returned"
  /\ handle' = "joined"
  /\ pc' = [pc EXCEPT ![c] = "done"]
  /\ UNCHANGED <<id, fn, releases, call, local>>

Done ==
  /\ \A c \in Callers : pc[c] = "done"
  /\ fn # "running"
  /\ UNCHANGED vars

Next ==
  \/ Finish
  \/ \E c \in Callers : Swap(c) \/ Release(c) \/ JoinReturns(c)
  \/ Done

Spec == Init /\ [][Next]_vars

----------------------------------------------------------------------------
(* Properties.                                                             *)

TypeOK ==
  /\ id \in {0, Tid}
  /\ fn \in {"none", "running", "returned"}
  /\ handle \in {"joinable", "joined", "detached"}
  /\ releases \in 0..Cardinality(Callers)
  /\ pc \in [Callers -> {"idle", "swapped", "joining", "done"}]
  /\ call \in [Callers -> {"join", "detach"}]
  /\ local \in [Callers -> {0, Tid}]

\* The comment of join(): "wait until the thread function terminates".
\* Unless the thread was detached, a join() call (or ~Thread) returns only
\* once the thread function has run and returned: also when two threads
\* join the same Thread at once, and also in a build with NDEBUG, where
\* the constructor's pthread_create sits inside assert().
JoinWaits ==
  [][\A c \in Callers :
       (pc[c] # "done" /\ pc'[c] = "done" /\ call[c] = "join"
          /\ handle' # "detached")
         => fn' = "returned"]_vars

=============================================================================
