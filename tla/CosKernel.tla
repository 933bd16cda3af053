------------------------------ MODULE CosKernel ------------------------------
(***************************************************************************)
(* The part of the Composite kernel interface the scheduling library leans *)
(* on, as sl.h and sl.c use it: one processor, switched from thread to     *)
(* thread by cos_defswitch or by an interrupt, and scheduler tokens.       *)
(*                                                                         *)
(* cos_sched_sync returns a token newer than all before it.  A switch that *)
(* names a token is refused when a newer token has been used since, that   *)
(* is, when another decision has been carried out since the caller started *)
(* to make its own.  Only the order of the tokens still held matters, so   *)
(* they are kept as the set of those that would be accepted and a relation *)
(* between them.  A thread may hold two, one per use.                      *)
(***************************************************************************)
CONSTANTS Thread,   \* kernel threads
          Sched     \* the one that runs sl_sched_loop

ASSUME KernelAssumption == Sched \in Thread

VARIABLES curr,     \* the thread on the processor
          fresh,    \* the tokens that would be accepted
          before    \* <<j, k>>: token j is older than token k

kernelvars == <<curr, fresh, before>>

Uses   == {"cs", "schedule"}
Tokens == Thread \X Uses

KernelTypeOK ==
  /\ curr \in Thread
  /\ fresh \subseteq Tokens
  /\ before \subseteq Tokens \X Tokens

KernelInit ==
  /\ curr = Sched
  /\ fresh = {}
  /\ before = {}

\* cos_sched_sync: the token k of a thread is renewed.
Sync(k) ==
  /\ fresh' = fresh \cup {k}
  /\ before' = {jl \in before : jl[1] # k /\ jl[2] # k} \cup {<<j, k>> : j \in fresh \ {k}}
  /\ UNCHANGED curr

\* cos_defswitch to thread u with token k, when it is accepted ...
Accepted(k, u) ==
  /\ k \in fresh
  /\ fresh' = {j \in fresh : <<k, j>> \in before}
  /\ before' = {jl \in before : jl[1] \in fresh' /\ jl[2] \in fresh'}
  /\ curr' = u

\* ... and when it returns at once because the token is out of date.
Refused(k) ==
  /\ k \notin fresh
  /\ UNCHANGED kernelvars

\* A token nobody will use any more is forgotten.
Drop(k) ==
  /\ fresh' = fresh \ {k}
  /\ before' = {jl \in before : jl[1] # k /\ jl[2] # k}
  /\ UNCHANGED curr

\* An interrupt takes the processor away.
Interrupt(u) ==
  /\ curr' = u
  /\ UNCHANGED <<fresh, before>>
=============================================================================
