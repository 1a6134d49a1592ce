------------------------------ MODULE ThreadPtr ------------------------------
(***************************************************************************)
(* thread_ptr<T> (src/include/co/unix/thread.h lines 215-299): each thread *)
(* keeps its own T* in a pthread key and the object also records it in     *)
(* _objs, a map from current_thread_id() (the kernel tid) to the pointer,  *)
(* so that ~thread_ptr can delete what threads left behind: the key has no *)
(* destructor, so a thread's object outlives the thread.  Threads come and *)
(* go; the kernel may give a new thread the tid of one that has exited.   *)
(* Every update of _objs is made under the MutexGuard on _mtx, so it is   *)
(* one step here.                                                          *)
(***************************************************************************)
EXTENDS Integers, FiniteSets

CONSTANTS
  Tids,      \* kernel thread ids
  Objs,      \* the T objects the threads may allocate with new T
  Null,      \* the null pointer
  TidReuse   \* the kernel may give a tid to a new thread after an exit

VARIABLES
  alive,     \* alive[i]: a thread with tid i runs
  used,      \* used[i]: a thread with tid i has run
  tls,       \* tls[i]: the running thread i's pthread_getspecific(_key)
  objs,      \* _objs: the pointer recorded for each tid, Null if none
  heap,      \* objects allocated and not deleted
  owned,     \* objects handed to callers by release()
  doubleDel, \* some delete was of an object already deleted
  destroyed  \* ~thread_ptr has run

vars == <<alive, used, tls, objs, heap, owned, doubleDel, destroyed>>

----------------------------------------------------------------------------
(* Faults that a plausible change of the code would introduce.            *)

\* release() without the _objs[current_thread_id()] = 0 update.
ReleaseRecordKeeps(i) == objs

\* reset() without the _objs[current_thread_id()] = p update.
ResetRecordKeeps(i, p) == objs

----------------------------------------------------------------------------

\* Some pointer of S, other than Null, was deleted before.
FreedBefore(S) == ~((S \ {Null}) \subseteq heap)

\* delete of a set of pointers; delete of Null does nothing.
Delete(S) ==
  /\ heap' = heap \ S
  /\ doubleDel' = (doubleDel \/ FreedBefore(S))

\* reset(p): _objs[current_thread_id()] = p, under the guard on _mtx.
ResetRecord(i, p) == [objs EXCEPT ![i] = p]

\* release(): _objs[current_thread_id()] = 0, under the guard on _mtx.
ReleaseRecord(i) == [objs EXCEPT ![i] = Null]

Init ==
  /\ alive = [i \in Tids |-> FALSE]
  /\ used = [i \in Tids |-> FALSE]
  /\ tls = [i \in Tids |-> Null]
  /\ objs = [i \in Tids |-> Null]
  /\ heap = {}
  /\ owned = {}
  /\ doubleDel = FALSE
  /\ destroyed = FALSE

\* A thread starts with a tid that no running thread has; its key value is
\* null.  Unless TidReuse, a tid is given out once.
Spawn(i) ==
  /\ ~destroyed
  /\ ~alive[i]
  /\ TidReuse \/ ~used[i]
  /\ alive' = [alive EXCEPT ![i] = TRUE]
  /\ used' = [used EXCEPT ![i] = TRUE]
  /\ tls' = [tls EXCEPT ![i] = Null]
  /\ UNCHANGED <<objs, heap, owned, doubleDel, destroyed>>

\* The thread exits; the key has no destructor, _objs keeps its entry.
Exit(i) ==
  /\ alive[i]
  /\ alive' = [alive EXCEPT ![i] = FALSE]
  /\ tls' = [tls EXCEPT ![i] = Null]
  /\ UNCHANGED <<used, objs, heap, owned, doubleDel, destroyed>>

\* reset(p) with p = new T or 0: return if get() == p; else delete get(),
\* pthread_setspecific(_key, p) and _objs[current_thread_id()] = p.
Reset(i) ==
  /\ ~destroyed
  /\ alive[i]
  /\ \E p \in {Null} \cup (Objs \ (heap \cup owned)) :
       \/ /\ tls[i] = p
          /\ UNCHANGED <<tls, objs, heap, doubleDel>>
       \/ /\ tls[i] # p
          /\ heap' = (heap \ {tls[i]}) \cup ({p} \ {Null})
          /\ doubleDel' = (doubleDel \/ FreedBefore({tls[i]}))
          /\ tls' = [tls EXCEPT ![i] = p]
          /\ objs' = ResetRecord(i, p)
  /\ UNCHANGED <<alive, used, owned, destroyed>>

\* release(): obj = get(); pthread_setspecific(_key, 0); _objs[tid] = 0;
\* the caller takes obj.
Release(i) ==
  /\ ~destroyed
  /\ alive[i]
  /\ tls' = [tls EXCEPT ![i] = Null]
  /\ objs' = ReleaseRecord(i)
  /\ owned' = owned \cup ({tls[i]} \ {Null})
  /\ UNCHANGED <<alive, used, heap, doubleDel, destroyed>>

\* The caller deletes an object release() gave it.
Free(o) ==
  /\ o \in owned
  /\ owned' = owned \ {o}
  /\ Delete({o})
  /\ UNCHANGED <<alive, used, tls, objs, destroyed>>

\* ~thread_ptr: pthread_key_delete, then delete of every _objs value.  The
\* program destroys the thread_ptr after the threads using it have exited.
Destroy ==
  /\ ~destroyed
  /\ \A i \in Tids : ~alive[i]
  /\ destroyed' = TRUE
  /\ Delete({objs[i] : i \in Tids})
  /\ UNCHANGED <<alive, used, tls, objs, owned>>

Done ==
  /\ destroyed
  /\ owned = {}
  /\ UNCHANGED vars

Next ==
  \/ \E i \in Tids : Spawn(i) \/ Exit(i) \/ Reset(i) \/ Release(i)
  \/ \E o \in Objs : Free(o)
  \/ Destroy
  \/ Done

Spec == Init /\ [][Next]_vars

----------------------------------------------------------------------------
(* Properties.                                                             *)

TypeOK ==
  /\ alive \in [Tids -> BOOLEAN]
  /\ used \in [Tids -> BOOLEAN]
  /\ tls \in [Tids -> Objs \cup {Null}]
  /\ objs \in [Tids -> Objs \cup {Null}]
  /\ heap \subseteq Objs
  /\ owned \subseteq Objs
  /\ doubleDel \in BOOLEAN
  /\ destroyed \in BOOLEAN

\* No object is deleted twice: what reset() deletes, what release() hands
\* out and what ~thread_ptr deletes from _objs never overlap.
NoDoubleDelete == ~doubleDel

\* The comment "just like the std::unique_ptr": every object a thread set
\* is deleted once thread_ptr is gone, unless release() handed it out.
\* Until then, every live object is the pointer _objs records for some
\* tid or is held by a caller.
NoLeak ==
  heap \subseteq {objs[i] : i \in Tids} \cup owned

=============================================================================
