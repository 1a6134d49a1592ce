------------------------------- MODULE MCMutex -------------------------------
(***************************************************************************)
(* The two locks of thread.h side by side: a Mutex used through           *)
(* MutexGuard and try_lock by four threads, and an RwMutex used through    *)
(* RMutexGuard, WMutexGuard, try_* and the timed calls by three of them.   *)
(* A step is a step of one lock; both share NDEBUG and the lock words'     *)
(* Nobody and Stranger.                                                    *)
(***************************************************************************)
EXTENDS Mutex

CONSTANTS t1, t2, t3, t4

VARIABLES writer, nreaders, rwpc, kind

FourThreads == {t1, t2, t3, t4}

RwThreads == {t1, t2, t3}

Rw == INSTANCE RwMutex WITH Threads <- RwThreads

rwv == <<writer, nreaders, rwpc, kind>>

allvars == <<vars, rwv>>

LocksInit == Init /\ Rw!RwInit

LocksNext ==
  \/ Next /\ UNCHANGED rwv
  \/ Rw!RwNext /\ UNCHANGED vars

LocksSpec == LocksInit /\ [][LocksNext]_allvars /\ Rw!RwFairness

\* RwMutex's properties, stated in RwMutex.
RwExclusion == Rw!RwExclusion

RwProgress == Rw!RwProgress

=============================================================================
