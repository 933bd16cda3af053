-------------------------------- MODULE SlCs --------------------------------
(***************************************************************************)
(* The critical section of the scheduling library (scheddev/sl.h, sl.c).   *)
(*                                                                         *)
(* A word holds the owner and a contention bit and is changed by compare   *)
(* and swap only.  A thread that finds the section taken marks it          *)
(* contended and switches to the owner; an owner that finds the mark when  *)
(* it leaves switches to the scheduler thread.                             *)
(*                                                                         *)
(* An action is what a thread does between two points at which losing the  *)
(* processor makes a difference: a token taken, a read of the word, a      *)
(* compare and swap, a switch.  cs[t] is where thread t is.                *)
(***************************************************************************)
EXTENDS CosKernel

CONSTANT NULL
ASSUME NullAssumption == NULL \notin Thread

VARIABLES lock,   \* sl_global_data.lock
          seen,   \* the value of lock a thread has read, csi and cached
          cs      \* where a thread is in sl_cs_enter and sl_cs_exit

csvars == <<lock, seen, cs>>
slcsvars == <<kernelvars, csvars>>

Word == [owner : Thread \cup {NULL}, contention : {0, 1}]
Free == [owner |-> NULL, contention |-> 0]

Entering == {"sync", "read", "take", "contend", "defer"}
Leaving  == {"xsync", "xread", "release"}
Holding  == {"in"} \cup Leaving
Phase    == {"out", "handover"} \cup Entering \cup Holding

WordOK ==
  /\ lock \in Word
  /\ seen \in [Thread -> Word]
  /\ cs \in [Thread -> Phase]
CsTypeOK == KernelTypeOK /\ WordOK

CsInit ==
  /\ KernelInit
  /\ lock = Free
  /\ seen = [t \in Thread |-> Free]
  /\ cs = [t \in Thread |-> "out"]

At(t, phase) == curr = t /\ cs[t] = phase
Goto(t, phase) == cs' = [cs EXCEPT ![t] = phase]

\* ps_cas on the word: it becomes new if it still is what t has read.
BugStore(t, new, won, lost) == lock' = new /\ Goto(t, won)
Cas(t, new, won, lost) ==
  \/ lock = seen[t] /\ lock' = new /\ Goto(t, won)
  \/ lock # seen[t] /\ UNCHANGED lock /\ Goto(t, lost)

\* What was read of the word is local to one try.
Forget(t) == seen' = [seen EXCEPT ![t] = Free]

\* cos_defswitch with the token the thread took when it read the word.
Switch(t, u, phase) ==
  /\ Accepted(<<t, "cs">>, u) \/ Refused(<<t, "cs">>)
  /\ Goto(t, phase)
  /\ Forget(t)
  /\ UNCHANGED lock

ReadLock(t) == seen' = [seen EXCEPT ![t] = lock] /\ UNCHANGED <<kernelvars, lock>>

-----------------------------------------------------------------------------
(* sl_cs_enter *)
Enter(t) ==
  /\ At(t, "out")
  /\ Goto(t, "sync")
  /\ UNCHANGED <<kernelvars, lock, seen>>

EnterSync(t) ==
  /\ At(t, "sync")
  /\ Sync(<<t, "cs">>)
  /\ Goto(t, "read")
  /\ UNCHANGED <<lock, seen>>

BugReadIgnoresOwner(t) == At(t, "read") /\ ReadLock(t) /\ Goto(t, "take")
EnterRead(t) ==
  /\ At(t, "read")
  /\ ReadLock(t)
  /\ Goto(t, IF lock.owner = NULL THEN "take" ELSE "contend")

EnterTake(t) ==
  /\ At(t, "take")
  /\ Cas(t, [seen[t] EXCEPT !.owner = t], "in", "sync")
  /\ Drop(<<t, "cs">>)
  /\ Forget(t)

\* sl_cs_enter_contention: up to the switch, and the switch.
EnterContend(t) ==
  /\ At(t, "contend")
  /\ \/ seen[t].contention = 1 /\ UNCHANGED lock /\ Goto(t, "defer")
     \/ seen[t].contention = 0 /\ Cas(t, [seen[t] EXCEPT !.contention = 1], "defer", "sync")
  /\ UNCHANGED <<kernelvars, seen>>

BugSpin(t) == At(t, "defer") /\ Goto(t, "sync") /\ UNCHANGED <<kernelvars, lock, seen>>
EnterDefer(t) == At(t, "defer") /\ Switch(t, seen[t].owner, "sync")

-----------------------------------------------------------------------------
(* sl_cs_exit *)
Exit(t) ==
  /\ At(t, "in")
  /\ Goto(t, "xsync")
  /\ UNCHANGED <<kernelvars, lock, seen>>

ExitSync(t) ==
  /\ At(t, "xsync")
  /\ Sync(<<t, "cs">>)
  /\ Goto(t, "xread")
  /\ UNCHANGED <<lock, seen>>

ExitRead(t) == At(t, "xread") /\ ReadLock(t) /\ Goto(t, "release")

BugKeepsOwner(t) ==
  /\ At(t, "release")
  /\ Cas(t, [seen[t] EXCEPT !.contention = 0],
         IF seen[t].contention = 1 THEN "handover" ELSE "out", "xsync")
  /\ Forget(t)
  /\ UNCHANGED kernelvars

\* The word is cleared, in sl_cs_exit_contention when it was contended.
ExitRelease(t) ==
  /\ At(t, "release")
  /\ Cas(t, Free, IF seen[t].contention = 1 THEN "handover" ELSE "out", "xsync")
  /\ Forget(t)
  /\ IF seen[t].contention = 1 THEN UNCHANGED kernelvars ELSE Drop(<<t, "cs">>)

\* The switch at the end of sl_cs_exit_contention.
ExitHandover(t) == At(t, "handover") /\ Switch(t, Sched, "out")

-----------------------------------------------------------------------------
\* What goes on inside sl_cs_enter and sl_cs_exit.
CsStep(t) ==
  \/ EnterSync(t) \/ EnterRead(t) \/ EnterTake(t) \/ EnterContend(t) \/ EnterDefer(t)
  \/ ExitSync(t) \/ ExitRead(t) \/ ExitRelease(t) \/ ExitHandover(t)

(* On its own, the critical section is studied under any interleaving: the  *)
(* processor may go to any thread at any time.                              *)
CsNext ==
  \/ \E t \in Thread : Enter(t) \/ Exit(t) \/ CsStep(t)
  \/ \E u \in Thread : Interrupt(u) /\ UNCHANGED csvars
CsSpec == CsInit /\ [][CsNext]_slcsvars

-----------------------------------------------------------------------------
(* Properties *)

\* At most one thread is between the compare and swap that takes the critical
\* section and the one that gives it back, whatever the interleaving.
MutualExclusion ==
  \A t, u \in Thread : cs[t] \in Holding /\ cs[u] \in Holding => t = u

\* The assertion in sl_cs_enter_contention that a thread does not wait for a section
\* it owns never fails, even on what it read of the word some time ago.
NotRecursive == \A t \in Thread : cs[t] \in {"contend", "defer"} => seen[t].owner # t

\* A mark made by a waiting thread is not lost: the owner leaves without a handover
\* only when nobody has marked the section since it was taken.
MarkSeen ==
  [][\A t \in Thread :
       cs[t] \in Holding /\ cs'[t] = "out" => lock.contention = 0]_slcsvars

\* The inductive invariant: the word names the thread that is inside (sl_cs_owner
\* tells the truth), and what an entering thread acts on is what it has read.
OwnerHolds == \A t \in Thread : lock.owner = t <=> cs[t] \in Holding
SeenInv ==
  \A t \in Thread :
    /\ cs[t] = "take" => seen[t].owner = NULL
    /\ cs[t] \in {"contend", "defer"} => seen[t].owner \in Thread \ {t}
CsIInv == WordOK /\ OwnerHolds /\ SeenInv
=============================================================================
