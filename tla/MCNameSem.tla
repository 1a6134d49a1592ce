----------------------------- MODULE MCNameSem -----------------------------
(***************************************************************************)
(* The two ISem implementations side by side: a NameSem used as a lock by  *)
(* three processes, and a Sem used as a lock by two threads of one         *)
(* process.  A step is a step of one of them.                              *)
(***************************************************************************)
EXTENDS NameSem

CONSTANTS p1, p2, p3, s1, s2

VARIABLES svalue, spc

ThreeProcs == {p1, p2, p3}

TwoThreads == {s1, s2}

P == INSTANCE Sem WITH SemThreads <- TwoThreads

sv == <<svalue, spc>>

SemsInit == Init /\ P!SemInit

SemsNext ==
  \/ Next /\ UNCHANGED sv
  \/ P!PSemNext /\ UNCHANGED vars

SemsSpec == SemsInit /\ [][SemsNext]_<<vars, sv>>

\* Sem's property, stated in Sem.
SemExclusion == P!SemExclusion

=============================================================================
