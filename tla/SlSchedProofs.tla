---------------------------- MODULE SlSchedProofs ----------------------------
(***************************************************************************)
(* Theorems about the critical section of the scheduling library, for any  *)
(* number of threads and any interleaving of them, and about the library,  *)
(* for any priorities as well: it keeps to the protocol of the section, so *)
(* that exclusion holds of it; its control, its run queues and its wakeups.*)
(***************************************************************************)
EXTENDS SlSched, SequenceTheorems, FiniteSetTheorems, TLAPS

-----------------------------------------------------------------------------
(* The critical section by itself, with an interrupt that may switch to any  *)
(* thread (SlCs).                                                            *)

\* Nobody is inside at the start.
LEMMA InitCsIInv == CsInit => CsIInv
BY KernelAssumption, NullAssumption DEF CsInit, CsIInv, WordOK, OwnerHolds, SeenInv,
       Word, Free, Phase, Entering, Leaving, Holding

\* The steps of sl_cs_enter.
LEMMA EnterSteps ==
  ASSUME CsIInv, NEW t \in Thread,
         \/ Enter(t) \/ EnterSync(t) \/ EnterRead(t) \/ EnterTake(t)
         \/ EnterContend(t) \/ EnterDefer(t)
  PROVE  CsIInv'
<1> USE KernelAssumption, NullAssumption DEF CsIInv, WordOK, OwnerHolds, SeenInv, Word, Free, Phase, Entering,
            Leaving, Holding, At, Goto, csvars
<1>1. CASE Enter(t)
  BY <1>1 DEF Enter
<1>2. CASE EnterSync(t)
  BY <1>2 DEF EnterSync
<1>3. CASE EnterRead(t)
  BY <1>3 DEF EnterRead, ReadLock
<1>4. CASE EnterTake(t)
  BY <1>4, SMTT(30) DEF EnterTake, Cas, Forget
<1>5. CASE EnterContend(t)
  <2>1. /\ lock' \in Word
        /\ lock'.owner = lock.owner
        /\ \E phase \in {"defer", "sync"} : Goto(t, phase)
    BY <1>5 DEF EnterContend, Cas
  <2>2. /\ At(t, "contend")
        /\ UNCHANGED seen
    BY <1>5 DEF EnterContend
  <2> QED BY <2>1, <2>2
<1>6. CASE EnterDefer(t)
  BY <1>6 DEF EnterDefer, Switch, Forget
<1> QED BY <1>1, <1>2, <1>3, <1>4, <1>5, <1>6

\* The steps of sl_cs_exit.
LEMMA ExitSteps ==
  ASSUME CsIInv, NEW t \in Thread,
         \/ Exit(t) \/ ExitSync(t) \/ ExitRead(t) \/ ExitRelease(t) \/ ExitHandover(t)
  PROVE  CsIInv'
<1> USE KernelAssumption, NullAssumption DEF CsIInv, WordOK, OwnerHolds, SeenInv, Word, Free, Phase, Entering,
            Leaving, Holding, At, Goto, csvars
<1>1. CASE Exit(t)
  BY <1>1 DEF Exit
<1>2. CASE ExitSync(t)
  BY <1>2 DEF ExitSync
<1>3. CASE ExitRead(t)
  BY <1>3 DEF ExitRead, ReadLock
<1>4. CASE ExitRelease(t)
  <2>1. At(t, "release") /\ Forget(t)
    BY <1>4 DEF ExitRelease
  <2>2. \/ /\ lock' = Free
           /\ \E phase \in {"handover", "out"} : Goto(t, phase)
        \/ UNCHANGED lock /\ Goto(t, "xsync")
    BY <1>4 DEF ExitRelease, Cas
  <2> QED BY <2>1, <2>2 DEF Forget
<1>5. CASE ExitHandover(t)
  BY <1>5 DEF ExitHandover, Switch, Forget
<1> QED BY <1>1, <1>2, <1>3, <1>4, <1>5

\* Every step preserves the inductive invariant.
LEMMA NextCsIInv == CsIInv /\ [CsNext]_slcsvars => CsIInv'
<1> SUFFICES ASSUME CsIInv, [CsNext]_slcsvars PROVE CsIInv'
  OBVIOUS
<1>1. CASE UNCHANGED slcsvars
  BY <1>1 DEF slcsvars, csvars, CsIInv, WordOK,
              OwnerHolds, SeenInv
<1>2. ASSUME NEW t \in Thread, Enter(t) \/ Exit(t) \/ CsStep(t)
      PROVE  CsIInv'
  BY <1>2, EnterSteps, ExitSteps DEF CsStep
<1>3. ASSUME NEW u \in Thread, Interrupt(u), UNCHANGED csvars
      PROVE  CsIInv'
  BY <1>3 DEF csvars, CsIInv, WordOK, OwnerHolds, SeenInv
<1> QED BY <1>1, <1>2, <1>3 DEF CsNext

\* The inductive invariant holds of every behaviour.
THEOREM CsInvariance == CsSpec => []CsIInv
BY InitCsIInv, NextCsIInv, PTL DEF CsSpec

\* Two threads are never inside the critical section of sl_cs_enter and sl_cs_exit.
THEOREM Exclusion == CsSpec => []MutualExclusion
<1>1. CsIInv => MutualExclusion
  BY NullAssumption DEF CsIInv, OwnerHolds, MutualExclusion, WordOK, Word
<1> QED BY <1>1, CsInvariance, PTL

\* The assertion of sl_cs_enter_contention never fails.
THEOREM NeverRecursive == CsSpec => []NotRecursive
<1>1. CsIInv => NotRecursive
  BY DEF CsIInv, SeenInv, NotRecursive
<1> QED BY <1>1, CsInvariance, PTL

\* sl_cs_exit never leaves past a contention mark without the handover.
THEOREM MarksSeen == CsSpec => MarkSeen
<1> DEFINE Kept == \A t \in Thread :
                     cs[t] \in Holding /\ cs'[t] = "out" => lock.contention = 0
<1>1. ASSUME CsIInv, [CsNext]_slcsvars
      PROVE  [Kept]_slcsvars
  <2>1. CASE UNCHANGED slcsvars
    BY <2>1
  <2>2. ASSUME NEW t \in Thread, Enter(t) \/ Exit(t) \/ CsStep(t)
        PROVE  Kept
    <3> SUFFICES ASSUME NEW u \in Thread, cs[u] \in Holding, cs'[u] = "out"
                 PROVE  lock.contention = 0
      OBVIOUS
    <3>0. /\ cs[u] \in {"in", "xsync", "xread", "release"}
          /\ cs \in [Thread -> Phase] /\ seen \in [Thread -> Word]
      BY <1>1 DEF Holding, Leaving, CsIInv, WordOK
    <3>1. CASE ExitRelease(t)
      <4>1. cs[t] = "release" /\ (cs'[u] # cs[u] => u = t)
        BY <3>1, <3>0 DEF ExitRelease, At, Cas, Goto
      <4>2. u = t
        BY <4>1, <3>0
      <4>3. CASE lock = seen[t]
        BY <3>1, <3>0, <4>2, <4>3 DEF ExitRelease, Cas, Goto, Word
      <4>4. CASE lock # seen[t]
        BY <3>1, <3>0, <4>2, <4>4 DEF ExitRelease, Cas, Goto
      <4> QED BY <4>3, <4>4
    <3>2. CASE ExitHandover(t)
      BY <3>2, <3>0 DEF ExitHandover, Switch, At, Goto
    <3>3. CASE ExitSync(t) \/ ExitRead(t) \/ Exit(t) \/ Enter(t)
      BY <3>3, <3>0 DEF ExitSync, ExitRead, Exit, Enter, At, Goto
    <3>4. CASE EnterSync(t) \/ EnterRead(t) \/ EnterDefer(t)
      BY <3>4, <3>0 DEF EnterSync, EnterRead, EnterDefer, Switch, At, Goto
    <3>5. CASE EnterTake(t) \/ EnterContend(t)
      BY <3>5, <3>0 DEF EnterTake, EnterContend, Cas, At, Goto
    <3> QED BY <2>2, <3>1, <3>2, <3>3, <3>4, <3>5 DEF CsStep
  <2>3. ASSUME NEW u \in Thread, Interrupt(u), UNCHANGED csvars
        PROVE  Kept
    BY <2>3 DEF csvars, Holding, Leaving
  <2> QED BY <1>1, <2>1, <2>2, <2>3 DEF CsNext
<1> QED BY <1>1, CsInvariance, PTL DEF CsSpec, MarkSeen

-----------------------------------------------------------------------------
(* The scheduling library keeps to the protocol of the critical section.     *)

\* A step that leaves the critical section alone.
LEMMA KernelOnly ==
  ASSUME CsIInv, UNCHANGED csvars
  PROVE  CsIInv'
BY DEF csvars, CsIInv, WordOK, OwnerHolds, SeenInv

\* Every step of a thread in a library call is a step of the critical section, or
\* leaves it alone.
LEMMA LibraryStep ==
  ASSUME CsIInv, NEW t \in Thread, Library(t)
  PROVE  CsIInv'
<1>1. CASE BlockWoken(t) \/ WakeupEarly(t) \/ Section(t)
  BY <1>1, ExitSteps DEF BlockWoken, WakeupEarly, Section
<1>2. CASE Block(t) \/ Wakeup(t) \/ Yield(t) \/ Reschedule(t) \/ Return(t)
  BY <1>2, KernelOnly DEF Block, Wakeup, Yield, Reschedule, Return, slcsvars
<1>3. CASE Reenter(t)
  BY <1>3, EnterSteps DEF Reenter
<1>4. CASE PickSync(t)
  BY <1>4, KernelOnly DEF PickSync
<1>5. CASE Choose(t)
  BY <1>5, KernelOnly, ExitSteps DEF Choose, slcsvars
<1>6. CASE Dispatched(t)
  BY <1>6, KernelOnly DEF Dispatched
<1>7. CASE DispatchRefused(t)
  BY <1>7, KernelOnly DEF DispatchRefused
<1>8. CASE CsStep(t)
  BY <1>8, EnterSteps, ExitSteps DEF CsStep
<1> QED BY <1>1, <1>2, <1>3, <1>4, <1>5, <1>6, <1>7, <1>8 DEF Library

\* Every step of the library is a step of its critical section, or leaves it alone.
LEMMA SchedCsStep ==
  ASSUME CsIInv, [SchedNext]_allvars
  PROVE  CsIInv'
<1>1. CASE UNCHANGED allvars
  BY <1>1, KernelOnly DEF allvars, slcsvars
<1>2. CASE \E t \in Thread : Library(t)
  BY <1>2, LibraryStep
<1>3. CASE \E t \in App : Caller(t)
  <2> PICK t \in App : Caller(t)
    BY <1>3
  <2>1. t \in Thread /\ Enter(t)
    BY DEF Caller, Start, App
  <2> QED BY <2>1, EnterSteps
<1>4. CASE SchedLoop
  <2>1. Sched \in Thread /\ Enter(Sched)
    BY <1>4, KernelAssumption DEF SchedLoop, Start
  <2> QED BY <2>1, EnterSteps
<1>5. CASE Timer
  BY <1>5, KernelOnly DEF Timer
<1>6. CASE \E t \in App : Maker(t)
  BY <1>6, KernelOnly DEF Maker, Alloc, ParamSet, Place, slcsvars
<1> QED BY <1>1, <1>2, <1>3, <1>4, <1>5, <1>6 DEF SchedNext

\* The invariant of the critical section holds of the whole scheduling library.
THEOREM SchedCsInvariance == SchedSpec => []CsIInv
<1>1. SchedInit => CsIInv
  BY InitCsIInv DEF SchedInit
<1>2. CsIInv /\ [SchedNext]_allvars => CsIInv'
  BY SchedCsStep
<1> QED BY <1>1, <1>2, PTL DEF SchedSpec

\* Blocking, waking, yielding and the scheduler's own loop never run inside the
\* critical section at once, for any number of threads and priorities.
THEOREM SchedExclusion == SchedSpec => []MutualExclusion
<1>1. CsIInv => MutualExclusion
  BY DEF CsIInv, OwnerHolds, MutualExclusion, WordOK, Word
<1> QED BY <1>1, SchedCsInvariance, PTL

-----------------------------------------------------------------------------
(* The inductive invariant.  First control: who may run, and which tokens  *)
(* are good while it does.                                                 *)

ControlTypeOK ==
  /\ CsTypeOK
  /\ threads \in [Queues -> Seq(App)]
  /\ call \in [Thread -> Calls \X Thread]
  /\ stage \in [Thread -> Stages]
  /\ next \in [Thread -> Thread]

\* Where a thread is in its call and where it is in the critical section.
StageInv ==
  \A t \in Thread :
    /\ stage[t] \in {"own", "place", "away"} => cs[t] = "out"
    /\ stage[t] = "work" => cs[t] \in Entering \cup {"in"}
    /\ stage[t] = "pick" => cs[t] \in Entering \cup {"out", "in"}
    /\ stage[t] \in {"choose", "aborted"} => cs[t] = "in"
    /\ stage[t] \in {"switch", "return"} => cs[t] \in Leaving \cup {"handover", "out"}

CallInv ==
  /\ call[Sched] = NoCall
  /\ stage[Sched] # "place"
  /\ \A t \in App :
       /\ stage[t] \notin {"own", "place"} => call[t][1] # "loop"
       /\ stage[t] = "place" => call[t][1] = "param_set"
       /\ call[t][1] \in {"wakeup", "switchto", "param_set"} => call[t][2] \in App

\* A token that would be accepted was taken after the last switch: only the scheduler
\* thread, which the timer brings in, has run since.
TokenInv ==
  /\ \A t \in Thread :
       /\ <<t, "schedule">> \in fresh =>
            stage[t] \in {"choose", "switch", "aborted"} /\ curr \in {t, Sched}
       /\ <<t, "cs">> \in fresh => cs[t] \notin {"out", "in"}
       /\ << <<t, "cs">>, <<t, "schedule">> >> \notin before
  /\ curr # Sched => \A k \in fresh : k[1] # Sched
  /\ \A kl \in before : kl[1] # kl[2] /\ (kl[1][1] = Sched => kl[2][1] = Sched)

\* The owner of the critical section has the processor, or the scheduler thread has,
\* which is the only thread that ever finds the section taken.
OwnerInv ==
  /\ lock.owner # NULL => curr \in {lock.owner, Sched}
  /\ \A t \in App : cs[t] \notin {"contend", "defer"}
  /\ cs[Sched] \in {"contend", "defer"} => curr = Sched /\ seen[Sched].owner = lock.owner
  /\ stage[Sched] \in {"choose", "switch"} => curr = Sched /\ lock.owner \in {NULL, Sched}

ControlInv == ControlTypeOK /\ CsIInv /\ StageInv /\ CallInv /\ TokenInv /\ OwnerInv

-----------------------------------------------------------------------------
(* Then the data of the library. *)

DataTypeOK ==
  /\ state \in [App -> {FREE, BLOCKED, WOKEN, RUNNABLE}]
  /\ prio \in [App -> Queues \cup {LOWEST}]
  /\ wakes \in [App -> Int]

\* What a call that has begun relies on.
TargetInv ==
  \A t \in App :
    /\ call[t][1] \in {"wakeup", "switchto"} => state[call[t][2]] # FREE
    /\ stage[t] = "own" => call[t] = NoCall

\* A thread that sl_thd_block has not told yet that it was woken, and one that was woken
\* again while it was owed a wakeup, at which sl_mod_wakeup has stopped the program.
Owed(t) == call[t][1] = "block" /\ stage[t] # "work"
Twice(t) == \E u \in App : stage[u] = "aborted" /\ call[u][1] = "wakeup" /\ call[u][2] = t
WakesInv ==
  \A t \in App :
    /\ state[t] = FREE => wakes[t] = 0 /\ stage[t] = "own"
    /\ state[t] = BLOCKED => wakes[t] = 0 /\ Owed(t) /\ stage[t] # "return"
    /\ state[t] = RUNNABLE =>
         wakes[t] = (IF Owed(t) THEN 1 ELSE 0) + (IF Twice(t) THEN 2 ELSE 0)
    /\ state[t] = WOKEN => wakes[t] = IF Owed(t) THEN 2 ELSE 1
    /\ Twice(t) => state[t] = RUNNABLE

\* The thread on the processor is made, and not blocked once it has given it away.
RunInv ==
  curr # Sched => state[curr] # FREE /\ (stage[curr] = "away" => state[curr] # BLOCKED)

\* While a thread is moved between run queues, none but the mover runs, which stays
\* the first.
PlaceInv ==
  \A t \in App :
    stage[t] = "place" =>
      /\ curr \in {t, Sched} /\ lock.owner \in {NULL, Sched}
      /\ Best = t
      /\ call[t][2] # t /\ state[call[t][2]] \in {RUNNABLE, WOKEN}

\* Nobody may be left on the run queues, but then the last thread to block is in the
\* critical section and goes on to find that out.
LastBlocks ==
  \E t \in App :
    state[t] = BLOCKED /\ lock.owner = t /\ stage[t] \in {"pick", "choose", "aborted"}
QueueInv ==
  /\ QueuesMatch
  /\ SomeQueued \/ LastBlocks
  /\ \A t \in App \ Moving : prio[t] \in Queues

\* What was decided holds for as long as the token does.
SwitchInv ==
  \A t \in Thread :
    stage[t] = "switch" /\ <<t, "schedule">> \in fresh =>
      next[t] = IF Wanted(t) THEN call[t][2] ELSE Best

\* Where an assertion has failed, why.
StoppedInv ==
  \A t \in Thread :
    stage[t] = "aborted" =>
      \/ call[t][1] = "wakeup" /\ wakes[call[t][2]] >= 2
      \/ \A u \in App : state[u] \in {FREE, BLOCKED}

DataInv ==
  DataTypeOK /\ TargetInv /\ WakesInv /\ RunInv /\ PlaceInv /\ QueueInv /\ SwitchInv

-----------------------------------------------------------------------------
(* Sequences and run queues.                                              *)

\* A set of naturals has a least element.
LEMMA LeastNat ==
  ASSUME NEW T, T \subseteq Nat, T # {}
  PROVE  \E x \in T : \A y \in T : x <= y
<1> DEFINE R == {ss \in Nat \X Nat : ss[1] < ss[2]}
<1>1. IsWellFoundedOn(R, Nat)
  BY NatLessThanWellFounded, Zenon DEF OpToRel
<1> HIDE DEF R
<1>2. PICK x \in T : \A y \in T : ~(<<y, x>> \in R)
  BY <1>1, WFMin
<1>3. \A y \in T : ~(y < x)
  BY <1>2 DEF R
<1> QED BY <1>3

\* A sequence without one of its elements.
LEMMA RemoveAtOK ==
  ASSUME NEW S, NEW s \in Seq(S), NEW i \in 1..Len(s)
  PROVE  /\ RemoveAt(s, i) \in Seq(S)
         /\ Len(RemoveAt(s, i)) = Len(s) - 1
         /\ \A j \in 1..(Len(s) - 1) : RemoveAt(s, i)[j] = IF j < i THEN s[j] ELSE s[j + 1]
<1> DEFINE a == SubSeq(s, 1, i - 1)
           d == SubSeq(s, i + 1, Len(s))
<1>1. Len(s) \in Nat /\ \A j \in 1..Len(s) : s[j] \in S
  BY LenProperties
<1>2. a \in Seq(S) /\ Len(a) = i - 1 /\ \A j \in 1..(i - 1) : a[j] = s[j]
  <2>1. i - 1 \in Int /\ \A j \in 1..(i - 1) : s[j] \in S
    BY <1>1
  <2>2. /\ SubSeq(s, 1, i - 1) \in Seq(S)
        /\ Len(SubSeq(s, 1, i - 1)) = IF 1 <= i - 1 THEN (i - 1) - 1 + 1 ELSE 0
        /\ \A j \in 1 .. ((i - 1) - 1 + 1) : SubSeq(s, 1, i - 1)[j] = s[1 + j - 1]
    BY <2>1, SubSeqProperties
  <2> QED BY <2>2
<1>3. /\ d \in Seq(S) /\ Len(d) = Len(s) - i
      /\ \A j \in 1..(Len(s) - i) : d[j] = s[i + j]
  <2>1. i + 1 \in Int /\ Len(s) \in Int /\ \A j \in (i + 1)..Len(s) : s[j] \in S
    BY <1>1
  <2>2. /\ SubSeq(s, i + 1, Len(s)) \in Seq(S)
        /\ Len(SubSeq(s, i + 1, Len(s))) = IF i + 1 <= Len(s) THEN Len(s) - (i + 1) + 1 ELSE 0
        /\ \A j \in 1 .. (Len(s) - (i + 1) + 1) : SubSeq(s, i + 1, Len(s))[j] = s[(i + 1) + j - 1]
    BY <2>1, SubSeqProperties
  <2> QED BY <1>1, <2>2
<1> HIDE DEF a, d
<1>4. /\ a \o d \in Seq(S)
      /\ Len(a \o d) = Len(a) + Len(d)
      /\ \A j \in 1 .. Len(a) + Len(d) : (a \o d)[j] = IF j <= Len(a) THEN a[j] ELSE d[j - Len(a)]
  BY <1>2, <1>3, ConcatProperties
<1>5. RemoveAt(s, i) = a \o d
  BY DEF RemoveAt, a, d
<1>6. ASSUME NEW j \in 1..(Len(s) - 1)
      PROVE  (a \o d)[j] = IF j < i THEN s[j] ELSE s[j + 1]
  <2>1. CASE j < i
    BY <1>1, <1>2, <1>3, <1>4, <2>1
  <2>2. CASE ~(j < i)
    <3>1. (a \o d)[j] = d[j - (i - 1)] /\ j - (i - 1) \in 1..(Len(s) - i)
      BY <1>1, <1>2, <1>3, <1>4, <2>2
    <3>2. d[j - (i - 1)] = s[i + (j - (i - 1))] /\ i + (j - (i - 1)) = j + 1
      BY <3>1, <1>3
    <3> QED BY <3>1, <3>2, <2>2
  <2> QED BY <2>1, <2>2
<1>7. Len(a \o d) = Len(s) - 1
  BY <1>1, <1>2, <1>3, <1>4
<1> QED BY <1>4, <1>5, <1>6, <1>7

\* A run queue without a thread.
LEMMA RemoveFirstAt ==
  ASSUME NEW S, NEW s \in Seq(S), NEW e
  PROVE  \/ e \notin ToSet(s) /\ RemoveFirst(s, e) = s
         \/ \E i \in 1..Len(s) : s[i] = e /\ RemoveFirst(s, e) = RemoveAt(s, i)
<1> DEFINE I == {i \in 1..Len(s) : s[i] = e}
<1>1. Len(s) \in Nat /\ DOMAIN s = 1..Len(s)
  BY LenProperties
<1>2. CASE I = {}
  <2>1. ~(\E i \in 1..Len(s) : s[i] = e) /\ e \notin ToSet(s)
    BY <1>1, <1>2 DEF ToSet
  <2>2. RemoveFirst(s, e) = s
    BY <2>1, Zenon DEF RemoveFirst
  <2> QED BY <2>1, <2>2
<1>3. CASE I # {}
  <2>1. Min(I) \in I
    <3>1. I \subseteq Nat
      BY <1>1
    <3> HIDE DEF I
    <3>2. \E x \in I : \A y \in I : x <= y
      BY <3>1, <1>3, LeastNat
    <3> QED BY <3>2, Zenon DEF Min
  <2>2. RemoveFirst(s, e) = RemoveAt(s, Min(I))
    BY <1>3 DEF RemoveFirst, SelectInSeq
  <2> QED BY <2>1, <2>2
<1> QED BY <1>2, <1>3

\* RemoveFirst takes one element out, and leaves the head where it was.
LEMMA RemoveFirstOK ==
  ASSUME NEW S, NEW s \in Seq(S), NEW e, IsInjective(s)
  PROVE  /\ RemoveFirst(s, e) \in Seq(S)
         /\ ToSet(RemoveFirst(s, e)) = ToSet(s) \ {e}
         /\ IsInjective(RemoveFirst(s, e))
         /\ s # <<>> /\ Head(s) # e => RemoveFirst(s, e) # <<>> /\ Head(RemoveFirst(s, e)) = Head(s)
<1>1. Len(s) \in Nat /\ DOMAIN s = 1..Len(s)
  BY LenProperties
<1>2. CASE e \notin ToSet(s) /\ RemoveFirst(s, e) = s
  BY <1>2
<1>3. ASSUME NEW i \in 1..Len(s), s[i] = e, RemoveFirst(s, e) = RemoveAt(s, i)
      PROVE  /\ RemoveFirst(s, e) \in Seq(S)
             /\ ToSet(RemoveFirst(s, e)) = ToSet(s) \ {e}
             /\ IsInjective(RemoveFirst(s, e))
             /\ s # <<>> /\ Head(s) # e =>
                  RemoveFirst(s, e) # <<>> /\ Head(RemoveFirst(s, e)) = Head(s)
  <2> DEFINE r == RemoveAt(s, i)
  <2>1. /\ r \in Seq(S) /\ Len(r) = Len(s) - 1
        /\ \A j \in 1..(Len(s) - 1) : r[j] = IF j < i THEN s[j] ELSE s[j + 1]
    BY RemoveAtOK
  <2> HIDE DEF r
  <2>2. DOMAIN r = 1..(Len(s) - 1)
    BY <2>1, LenProperties
  <2>3. ToSet(r) = ToSet(s) \ {e}
    <3>1. ASSUME NEW j \in 1..(Len(s) - 1) PROVE r[j] \in ToSet(s) \ {e}
      <4>1. \E k \in 1..Len(s) : k # i /\ r[j] = s[k]
        BY <1>1, <2>1
      <4>2. r[j] \in ToSet(s)
        BY <4>1, <1>1 DEF ToSet
      <4>3. r[j] # e
        BY <4>1, <1>1, <1>3 DEF IsInjective
      <4> QED BY <4>2, <4>3
    <3>2. ASSUME NEW k \in 1..Len(s), s[k] # e PROVE \E j \in 1..(Len(s) - 1) : r[j] = s[k]
      <4>1. CASE k < i
        BY <4>1, <1>1, <2>1
      <4>2. CASE k > i
        <5>1. k - 1 \in 1..(Len(s) - 1) /\ ~(k - 1 < i) /\ (k - 1) + 1 = k
          BY <4>2, <1>1
        <5>2. r[k - 1] = s[k]
          BY <5>1, <2>1
        <5> QED BY <5>1, <5>2
      <4> QED BY <4>1, <4>2, <3>2, <1>3, <1>1
    <3>3. /\ \A x : x \in ToSet(s) <=> \E k \in 1..Len(s) : x = s[k]
          /\ \A x : x \in ToSet(r) <=> \E j \in 1..(Len(s) - 1) : x = r[j]
      BY <1>1, <2>2 DEF ToSet
    <3>4. \A x : x \in ToSet(r) => x \in ToSet(s) \ {e}
      BY <3>1, <3>3
    <3>5. \A x : x \in ToSet(s) \ {e} => x \in ToSet(r)
      BY <3>2, <3>3
    <3> QED BY <3>4, <3>5
  <2>4. IsInjective(r)
    <3> SUFFICES ASSUME NEW j \in 1..(Len(s) - 1), NEW k \in 1..(Len(s) - 1), r[j] = r[k]
                 PROVE  j = k
      BY <2>2 DEF IsInjective
    <3> DEFINE J == IF j < i THEN j ELSE j + 1
               K == IF k < i THEN k ELSE k + 1
    <3>1. J \in 1..Len(s) /\ K \in 1..Len(s) /\ s[J] = s[K]
      BY <1>1, <2>1
    <3>2. J = K
      BY <3>1, <1>1 DEF IsInjective
    <3> QED BY <3>2, <1>1
  <2>5. ASSUME s # <<>>, Head(s) # e PROVE r # <<>> /\ Head(r) = Head(s)
    <3>1. Len(s) # 0 /\ Head(s) = s[1]
      BY <2>5, EmptySeq, HeadTailProperties
    <3>2. i > 1
      BY <3>1, <2>5, <1>3, <1>1
    <3>3. Len(r) > 0 /\ r[1] = s[1]
      BY <3>2, <2>1, <1>1
    <3>4. r # <<>> /\ Head(r) = r[1]
      BY <3>3, <2>1, EmptySeq, HeadTailProperties
    <3> QED BY <3>1, <3>3, <3>4
  <2> QED BY <1>3, <2>1, <2>3, <2>4, <2>5 DEF r
<1> QED BY <1>2, <1>3, RemoveFirstAt

\* A run queue with a thread more.
LEMMA AppendOK ==
  ASSUME NEW S, NEW s \in Seq(S), NEW e \in S
  PROVE  /\ Append(s, e) \in Seq(S) /\ Append(s, e) # <<>>
         /\ ToSet(Append(s, e)) = ToSet(s) \cup {e}
         /\ IsInjective(s) /\ e \notin ToSet(s) => IsInjective(Append(s, e))
<1> DEFINE r == Append(s, e)
<1>1. Len(s) \in Nat /\ DOMAIN s = 1..Len(s)
  BY LenProperties
<1>2. /\ r \in Seq(S) /\ r # <<>> /\ Len(r) = Len(s) + 1
      /\ \A j \in 1..Len(s) : r[j] = s[j]
      /\ r[Len(s) + 1] = e
  BY AppendProperties
<1> HIDE DEF r
<1>3. DOMAIN r = 1..(Len(s) + 1)
  BY <1>2, LenProperties
<1>4. ToSet(r) = ToSet(s) \cup {e}
  BY <1>1, <1>2, <1>3 DEF ToSet
<1>5. ASSUME IsInjective(s), e \notin ToSet(s) PROVE IsInjective(r)
  BY <1>1, <1>2, <1>3, <1>5 DEF ToSet, IsInjective
<1> QED BY <1>2, <1>4, <1>5 DEF r

\* The queue sl_mod_schedule stops at.
FirstQueue(th) ==
  CHOOSE p \in Queues : th[p] # <<>> /\ \A q \in Queues : th[q] # <<>> => p <= q

\* It is there when some run queue has a thread.
LEMMA FirstQueueOK ==
  ASSUME NEW th, \E p \in Queues : th[p] # <<>>
  PROVE  /\ FirstQueue(th) \in Queues /\ th[FirstQueue(th)] # <<>>
         /\ \A q \in Queues : th[q] # <<>> => FirstQueue(th) <= q
<1> DEFINE T == {p \in Queues : th[p] # <<>>}
<1>1. T \subseteq Nat /\ T # {}
  BY SchedAssumption DEF Queues
<1> HIDE DEF T
<1>2. PICK p \in T : \A q \in T : p <= q
  BY <1>1, LeastNat
<1>3. p \in Queues /\ th[p] # <<>> /\ \A q \in Queues : th[q] # <<>> => p <= q
  BY <1>2 DEF T
<1> QED BY <1>3 DEF FirstQueue

-----------------------------------------------------------------------------
(* Control is as the invariant says.                                       *)

\* sl_mod_schedule returns a thread that is on some run queue.
LEMMA BestOK ==
  ASSUME SomeQueued, threads \in [Queues -> Seq(App)]
  PROVE  /\ Best \in App
         /\ \E p \in Queues : threads[p] # <<>> /\ Best = Head(threads[p]) /\ Best \in ToSet(threads[p])
<1>1. FirstQueue(threads) \in Queues /\ threads[FirstQueue(threads)] # <<>>
  BY FirstQueueOK DEF SomeQueued
<1>2. Best = Head(threads[FirstQueue(threads)])
  BY DEF Best, FirstQueue
<1> DEFINE s == threads[FirstQueue(threads)]
<1>3. s \in Seq(App) /\ s # <<>>
  BY <1>1
<1> HIDE DEF s
<1>4. Head(s) = s[1] /\ 1 \in DOMAIN s /\ Head(s) \in App
  BY <1>3, EmptySeq, HeadTailProperties, LenProperties
<1>5. Head(s) \in ToSet(s)
  BY <1>4 DEF ToSet
<1> QED BY <1>1, <1>2, <1>3, <1>4, <1>5 DEF s

\* Taking a token keeps the type of the kernel's state.
LEMMA SyncType ==
  ASSUME KernelTypeOK, NEW k \in Tokens, Sync(k)
  PROVE  KernelTypeOK'
BY DEF KernelTypeOK, Sync

\* Forgetting a token does.
LEMMA DropType ==
  ASSUME KernelTypeOK, NEW k \in Tokens, Drop(k)
  PROVE  KernelTypeOK'
BY DEF KernelTypeOK, Drop

\* A switch that is carried out does.
LEMMA AcceptedType ==
  ASSUME KernelTypeOK, NEW k \in Tokens, NEW u \in Thread, Accepted(k, u)
  PROVE  KernelTypeOK'
BY DEF KernelTypeOK, Accepted

\* A switch that is refused does.
LEMMA RefusedType ==
  ASSUME KernelTypeOK, NEW k \in Tokens, Refused(k)
  PROVE  KernelTypeOK'
BY DEF KernelTypeOK, Refused, kernelvars

\* So does every step of sl_cs_enter and sl_cs_exit: the thread they switch to is one.
LEMMA CsKernelType ==
  ASSUME CsIInv, KernelTypeOK, NEW t \in Thread,
         Enter(t) \/ Exit(t) \/ CsStep(t)
  PROVE  KernelTypeOK'
<1>0. <<t, "cs">> \in Tokens
  BY DEF Tokens, Uses
<1>1. CASE Enter(t) \/ Exit(t) \/ EnterRead(t) \/ EnterContend(t) \/ ExitRead(t)
  BY <1>1 DEF Enter, Exit, EnterRead, EnterContend, ExitRead, ReadLock, kernelvars, KernelTypeOK
<1>2. CASE EnterSync(t) \/ ExitSync(t)
  BY <1>0, <1>2, SyncType DEF EnterSync, ExitSync
<1>3. CASE EnterTake(t) \/ ExitRelease(t)
  BY <1>0, <1>3, DropType DEF EnterTake, ExitRelease, kernelvars, KernelTypeOK
<1>4. CASE EnterDefer(t)
  <2>1. seen[t].owner \in Thread
    BY <1>4 DEF EnterDefer, At, CsIInv, SeenInv
  <2> QED BY <1>0, <1>4, <2>1, AcceptedType, RefusedType DEF EnterDefer, Switch
<1>5. CASE ExitHandover(t)
  BY <1>0, <1>5, AcceptedType, RefusedType, KernelAssumption DEF ExitHandover, Switch
<1> QED BY <1>1, <1>2, <1>3, <1>4, <1>5 DEF CsStep

\* Whatever a call does to the run queues, they hold threads of the application.
LEMMA QueueTypes ==
  ASSUME threads \in [Queues -> Seq(App)], NEW t \in App
  PROVE  /\ Unqueue(t) \in [Queues -> Seq(App)]
         /\ \A p : Requeue(t, p) \in [Queues -> Seq(App)]
         /\ \A p : [threads EXCEPT ![p] = Append(@, t)] \in [Queues -> Seq(App)]
<1>1. ASSUME NEW s \in Seq(App) PROVE RemoveFirst(s, t) \in Seq(App) /\ Append(s, t) \in Seq(App)
  BY RemoveFirstAt, RemoveAtOK, AppendProperties
<1>2. Unqueue(t) \in [Queues -> Seq(App)]
  BY <1>1 DEF Unqueue
<1> QED BY <1>1, <1>2 DEF Requeue

\* Where a thread is in its call goes with where it is in the critical section.
LEMMA StageStep ==
  ASSUME ControlTypeOK, CsIInv, StageInv, CallInv, SchedNext
  PROVE  StageInv'
<1> USE DEF In, Become, Inside, At, Goto, Entering, Leaving, App
<1>0. /\ stage \in [Thread -> Stages] /\ cs \in [Thread -> Phase] /\ call \in [Thread -> Calls \X Thread]
      /\ Sched \in Thread
  BY KernelAssumption DEF ControlTypeOK, CsTypeOK, WordOK
<1> USE <1>0 DEF StageInv, CallInv
<1>1. ASSUME NEW t \in Thread, Library(t) PROVE StageInv'
  <2>1. CASE BlockWoken(t) \/ WakeupEarly(t) \/ Section(t)
    BY <2>1 DEF BlockWoken, WakeupEarly, Section, Exit
  <2>2. CASE Block(t) \/ Wakeup(t) \/ Yield(t) \/ Reschedule(t)
    BY <2>2 DEF Block, Wakeup, Yield, Reschedule, slcsvars, csvars
  <2>3. CASE Return(t)
    BY <2>3 DEF Return, slcsvars, csvars
  <2>4. CASE Reenter(t) \/ PickSync(t)
    BY <2>4 DEF Reenter, PickSync, Enter, csvars, schedvars
  <2>5. CASE Choose(t)
    BY <2>5 DEF Choose, Exit, slcsvars, csvars
  <2>6. CASE Dispatched(t)
    BY <2>6 DEF Dispatched, csvars
  <2>7. CASE DispatchRefused(t)
    BY <2>7 DEF DispatchRefused, csvars, NoCall
  <2>8. CASE CsStep(t) /\ UNCHANGED schedvars
    <3> USE <2>8 DEF schedvars
    <3>1. CASE EnterSync(t) \/ EnterRead(t) \/ EnterTake(t)
      BY <3>1 DEF EnterSync, EnterRead, EnterTake, Cas
    <3>2. CASE EnterContend(t) \/ EnterDefer(t)
      BY <3>2 DEF EnterContend, EnterDefer, Switch, Cas
    <3>3. CASE ExitSync(t) \/ ExitRead(t) \/ ExitRelease(t) \/ ExitHandover(t)
      BY <3>3 DEF ExitSync, ExitRead, ExitRelease, ExitHandover, Switch, Cas
    <3> QED BY <3>1, <3>2, <3>3 DEF CsStep
  <2> QED BY <1>1, <2>1, <2>2, <2>3, <2>4, <2>5, <2>6, <2>7, <2>8 DEF Library
<1>2. ASSUME NEW t \in App, Caller(t) PROVE StageInv'
  BY <1>2 DEF Caller, Start, Enter
<1>3. ASSUME NEW t \in App, Maker(t) PROVE StageInv'
  BY <1>3 DEF Maker, Alloc, ParamSet, Place, slcsvars, csvars
<1>4. CASE SchedLoop
  BY <1>4 DEF SchedLoop, Start, Enter, NoCall
<1>5. CASE Timer
  BY <1>5 DEF Timer, csvars, schedvars
<1> QED BY <1>1, <1>2, <1>3, <1>4, <1>5 DEF SchedNext

\* A thread in a call has named it, and a thread the call is about; sl_thd_yield(u)
\* turns into a plain one when its switch is refused.
LEMMA CallStep ==
  ASSUME ControlTypeOK, CallInv, SchedNext
  PROVE  CallInv'
<1> USE DEF In, Become, Inside, App
<1>0. /\ stage \in [Thread -> Stages] /\ call \in [Thread -> Calls \X Thread]
      /\ Sched \in Thread /\ NoCall \in Calls \X Thread /\ NoCall[1] = "loop"
  BY KernelAssumption DEF ControlTypeOK, NoCall, Calls
<1> USE <1>0 DEF CallInv
<1>u. ASSUME NEW t \in Thread, NEW s, stage' = [stage EXCEPT ![t] = s], UNCHANGED call,
             s \notin {"own", "place"}, stage[t] \notin {"own", "place"}
      PROVE  CallInv'
  BY <1>u
<1>1. ASSUME NEW t \in Thread, Library(t) PROVE CallInv'
  <2>1. CASE BlockWoken(t) \/ WakeupEarly(t) \/ Section(t)
    BY <2>1, <1>u DEF BlockWoken, WakeupEarly, Section
  <2>2. CASE Block(t) \/ Yield(t) \/ Reschedule(t)
    BY <2>2, <1>u DEF Block, Yield, Reschedule
  <2>3. CASE Wakeup(t)
    BY <2>3, <1>u DEF Wakeup
  <2>4. CASE Return(t)
    BY <2>4 DEF Return
  <2>5. CASE Reenter(t)
    BY <2>5 DEF Reenter, schedvars
  <2>6. CASE PickSync(t) \/ Dispatched(t)
    BY <2>6, <1>u DEF PickSync, Dispatched
  <2>7. CASE Choose(t)
    BY <2>7, <1>u DEF Choose
  <2>8. CASE DispatchRefused(t)
    BY <2>8 DEF DispatchRefused
  <2>9. CASE CsStep(t) /\ UNCHANGED schedvars
    BY <2>9 DEF schedvars
  <2> QED BY <1>1, <2>1, <2>2, <2>3, <2>4, <2>5, <2>6, <2>7, <2>8, <2>9 DEF Library
<1>2. ASSUME NEW t \in App, Caller(t) PROVE CallInv'
  <2>1. ASSUME NEW name, NEW u \in Thread, Start(t, name, u),
               name \in {"wakeup", "switchto"} => u \in App,
               name # "loop", name # "param_set"
        PROVE  CallInv'
    BY <2>1 DEF Start
  <2> QED BY <2>1, <1>2 DEF Caller
<1>3. ASSUME NEW t \in App, Maker(t) PROVE CallInv'
  <2>1. CASE \E u \in App : MayMake(t) /\ Alloc(t, u)
    BY <2>1 DEF Alloc
  <2>2. CASE \E u \in App : MayMove(t, u) /\ ParamSet(t, u)
    BY <2>2 DEF ParamSet
  <2>3. CASE \E p \in Prios : Place(t, p)
    BY <2>3 DEF Place
  <2> QED BY <1>3, <2>1, <2>2, <2>3 DEF Maker
<1>4. CASE SchedLoop
  BY <1>4 DEF SchedLoop, Start, NoCall
<1>5. CASE Timer
  BY <1>5 DEF Timer, schedvars
<1> QED BY <1>1, <1>2, <1>3, <1>4, <1>5 DEF SchedNext

\* A token that the kernel would accept belongs to a thread that has run, with the
\* scheduler thread, and nobody else, since it was taken.
LEMMA TokenStep ==
  ASSUME ControlInv, SchedNext, StageInv'
  PROVE  TokenInv'
<1> USE DEF In, Become, Inside, At, Goto, Entering, Leaving, App
<1>0. /\ stage \in [Thread -> Stages] /\ cs \in [Thread -> Phase]
      /\ Sched \in Thread /\ curr \in Thread
      /\ fresh \subseteq Tokens /\ before \subseteq Tokens \X Tokens
      /\ StageInv /\ CallInv /\ TokenInv /\ OwnerInv
  BY KernelAssumption DEF ControlInv, ControlTypeOK, CsTypeOK, WordOK, KernelTypeOK
<1>t. ASSUME NEW t \in Thread PROVE <<t, "cs">> \in Tokens /\ <<t, "schedule">> \in Tokens
  BY DEF Tokens, Uses
<1> USE <1>0 DEF TokenInv
<1>1. ASSUME NEW t \in Thread, Library(t) PROVE TokenInv'
  <2>1. CASE BlockWoken(t) \/ WakeupEarly(t) \/ Section(t)
    BY <2>1 DEF BlockWoken, WakeupEarly, Section, Exit, kernelvars, StageInv
  <2>2. CASE Block(t) \/ Wakeup(t) \/ Yield(t) \/ Reschedule(t)
    BY <2>2 DEF Block, Wakeup, Yield, Reschedule, slcsvars, csvars, kernelvars, StageInv
  <2>3. CASE Return(t)
    BY <2>3 DEF Return, slcsvars, csvars, kernelvars
  <2>4. CASE Reenter(t)
    BY <2>4 DEF Reenter, Enter, schedvars, kernelvars
  <2>5. CASE PickSync(t)
    BY <2>5, <1>t DEF PickSync, Sync, csvars, Tokens
  <2>6. CASE Choose(t)
    BY <2>6 DEF Choose, Exit, slcsvars, csvars, kernelvars
  <2>7. CASE Dispatched(t)
    <3>1. curr = t /\ stage[t] = "switch" /\ cs[t] = "out" /\ UNCHANGED cs
      BY <2>7 DEF Dispatched, csvars
    <3>2. /\ <<t, "cs">> \notin fresh
          /\ fresh' = {j \in fresh : << <<t, "schedule">>, j>> \in before}
          /\ before' \subseteq before /\ <<t, "schedule">> \notin fresh'
      BY <2>7, <3>1, <1>t DEF Dispatched, Accepted
    <3>3. stage' = [stage EXCEPT ![t] = "away"]
      BY <2>7 DEF Dispatched
    <3>4. \A u \in Thread : <<u, "schedule">> \notin fresh'
      BY <3>1, <3>2
    <3>5. t = Sched => \A k \in fresh' : k[1] # Sched
      BY <3>1, <3>2 DEF Tokens, Uses
    <3>6. t # Sched => \A k \in fresh' : k[1] # Sched
      BY <3>1, <3>2
    <3> QED BY <3>1, <3>2, <3>3, <3>4, <3>5, <3>6
  <2>8. CASE DispatchRefused(t)
    BY <2>8 DEF DispatchRefused, Refused, csvars, kernelvars
  <2>9. CASE CsStep(t) /\ UNCHANGED schedvars
    <3> USE <2>9 DEF schedvars
    <3>1. CASE EnterSync(t)
      BY <3>1, <1>t DEF EnterSync, Sync, StageInv, OwnerInv
    <3>2. CASE EnterRead(t)
      BY <3>2 DEF EnterRead, ReadLock, kernelvars
    <3>3. CASE EnterTake(t)
      BY <3>3, <1>t DEF EnterTake, Cas, Drop
    <3>4. CASE EnterContend(t)
      BY <3>4 DEF EnterContend, Cas, kernelvars
    <3>5. CASE EnterDefer(t)
      <4>1. curr = t /\ cs[t] = "defer" /\ t = Sched /\ stage[t] \in {"work", "pick"}
            /\ cs' = [cs EXCEPT ![t] = "sync"]
        BY <3>5 DEF EnterDefer, Switch, StageInv, OwnerInv, Stages
      <4>2. CASE Refused(<<t, "cs">>)
        BY <4>1, <4>2 DEF Refused, kernelvars
      <4>3. CASE Accepted(<<t, "cs">>, seen[t].owner)
        <5>1. /\ fresh' = {j \in fresh : << <<t, "cs">>, j>> \in before}
              /\ before' \subseteq before /\ <<t, "schedule">> \notin fresh
          BY <4>1, <4>3, <1>t DEF Accepted
        <5>2. \A k \in fresh' : k[1] # Sched /\ k[2] = "cs"
          BY <5>1, <4>1 DEF Tokens, Uses
        <5> QED BY <4>1, <5>1, <5>2
      <4> QED BY <3>5, <4>2, <4>3 DEF EnterDefer, Switch
    <3>6. CASE ExitSync(t)
      BY <3>6, <1>t DEF ExitSync, Sync, StageInv
    <3>7. CASE ExitRead(t)
      BY <3>7 DEF ExitRead, ReadLock, kernelvars
    <3>8. CASE ExitRelease(t)
      BY <3>8, <1>t DEF ExitRelease, Cas, Drop, kernelvars
    <3>9. CASE ExitHandover(t)
      BY <3>9, <1>t, ZenonT(40) DEF ExitHandover, Switch, Accepted, Refused, kernelvars, StageInv, OwnerInv
    <3> QED BY <3>1, <3>2, <3>3, <3>4, <3>5, <3>6, <3>7, <3>8, <3>9 DEF CsStep
  <2> QED BY <1>1, <2>1, <2>2, <2>3, <2>4, <2>5, <2>6, <2>7, <2>8, <2>9 DEF Library
<1>2. ASSUME NEW t \in App, Caller(t) PROVE TokenInv'
  BY <1>2 DEF Caller, Start, Enter, kernelvars
<1>3. ASSUME NEW t \in App, Maker(t) PROVE TokenInv'
  BY <1>3 DEF Maker, Alloc, ParamSet, Place, slcsvars, csvars, kernelvars
<1>4. CASE SchedLoop
  BY <1>4 DEF SchedLoop, Start, Enter, kernelvars
<1>5. CASE Timer
  BY <1>5 DEF Timer, Interrupt, csvars, schedvars
<1> QED BY <1>1, <1>2, <1>3, <1>4, <1>5 DEF SchedNext

\* The processor leaves the owner of the critical section for the scheduler thread only,
\* and comes back to it from there.
LEMMA OwnerStep ==
  ASSUME ControlInv, SchedNext, CsIInv', StageInv'
  PROVE  OwnerInv'
<1> USE DEF In, Become, Inside, At, Goto, App, Holding, Leaving
<1>0. /\ stage \in [Thread -> Stages] /\ cs \in [Thread -> Phase]
      /\ seen \in [Thread -> Word] /\ lock \in Word
      /\ Sched \in Thread /\ curr \in Thread /\ NULL \notin Thread
      /\ fresh \subseteq Tokens /\ before \subseteq Tokens \X Tokens
      /\ StageInv /\ CallInv /\ TokenInv /\ OwnerInv /\ OwnerHolds /\ OwnerHolds'
  BY KernelAssumption, NullAssumption
  DEF ControlInv, ControlTypeOK, CsTypeOK, WordOK, KernelTypeOK, CsIInv
<1> USE <1>0 DEF OwnerInv, OwnerHolds
<1>1. ASSUME NEW t \in Thread, Library(t) PROVE OwnerInv'
  <2>1. CASE BlockWoken(t) \/ WakeupEarly(t) \/ Section(t)
    BY <2>1 DEF BlockWoken, WakeupEarly, Section, Exit, kernelvars
  <2>2. CASE Block(t) \/ Wakeup(t) \/ Yield(t) \/ Reschedule(t)
    BY <2>2 DEF Block, Wakeup, Yield, Reschedule, slcsvars, csvars, kernelvars
  <2>3. CASE Return(t)
    BY <2>3 DEF Return, slcsvars, csvars, kernelvars
  <2>4. CASE Reenter(t)
    BY <2>4 DEF Reenter, Enter, schedvars, kernelvars
  <2>5. CASE PickSync(t)
    BY <2>5 DEF PickSync, Sync, csvars
  <2>6. CASE Choose(t)
    BY <2>6 DEF Choose, Exit, slcsvars, csvars, kernelvars
  <2>7. CASE Dispatched(t)
    BY <2>7 DEF Dispatched, Accepted, csvars
  <2>8. CASE DispatchRefused(t)
    BY <2>8 DEF DispatchRefused, Refused, csvars, kernelvars
  <2>9. CASE CsStep(t) /\ UNCHANGED schedvars
    <3> USE <2>9 DEF schedvars
    <3>1. CASE EnterSync(t)
      BY <3>1 DEF EnterSync, Sync
    <3>2. CASE EnterRead(t)
      BY <3>2 DEF EnterRead, ReadLock, kernelvars
    <3>3. CASE EnterTake(t)
      BY <3>3 DEF EnterTake, Cas, Drop, Forget, StageInv
    <3>4. CASE EnterContend(t)
      BY <3>4 DEF EnterContend, Cas, kernelvars, Word
    <3>5. CASE EnterDefer(t)
      BY <3>5 DEF EnterDefer, Switch, Accepted, Refused, kernelvars, StageInv, Forget
    <3>6. CASE ExitSync(t)
      BY <3>6 DEF ExitSync, Sync
    <3>7. CASE ExitRead(t)
      BY <3>7 DEF ExitRead, ReadLock, kernelvars
    <3>8. CASE ExitRelease(t)
      BY <3>8 DEF ExitRelease, Cas, Drop, kernelvars, Free, Forget
    <3>9. CASE ExitHandover(t)
      BY <3>9 DEF ExitHandover, Switch, Accepted, Refused, kernelvars, StageInv, Forget
    <3> QED BY <3>1, <3>2, <3>3, <3>4, <3>5, <3>6, <3>7, <3>8, <3>9 DEF CsStep
  <2> QED BY <1>1, <2>1, <2>2, <2>3, <2>4, <2>5, <2>6, <2>7, <2>8, <2>9 DEF Library
<1>2. ASSUME NEW t \in App, Caller(t) PROVE OwnerInv'
  BY <1>2 DEF Caller, Start, Enter, kernelvars
<1>3. ASSUME NEW t \in App, Maker(t) PROVE OwnerInv'
  BY <1>3 DEF Maker, Alloc, ParamSet, Place, slcsvars, csvars, kernelvars
<1>4. CASE SchedLoop
  BY <1>4 DEF SchedLoop, Start, Enter, kernelvars
<1>5. CASE Timer
  BY <1>5 DEF Timer, Interrupt, csvars, schedvars
<1> QED BY <1>1, <1>2, <1>3, <1>4, <1>5 DEF SchedNext

\* Every step keeps the types of the control variables.
LEMMA ControlTypeStep ==
  ASSUME ControlInv, SchedNext
  PROVE  ControlTypeOK'
<1> USE DEF In, Become, Inside, App
<1>0. /\ KernelTypeOK /\ CsIInv /\ CallInv
      /\ threads \in [Queues -> Seq(App)] /\ call \in [Thread -> Calls \X Thread]
      /\ stage \in [Thread -> Stages] /\ next \in [Thread -> Thread] /\ Sched \in Thread
      /\ call[Sched][1] = "loop"
      /\ \A t \in App : call[t][1] \in {"wakeup", "switchto"} => call[t][2] \in App
      /\ \A t \in App : stage[t] = "place" => call[t][2] \in App
      /\ NoCall \in Calls \X Thread
  BY KernelAssumption DEF ControlInv, ControlTypeOK, CsTypeOK, CallInv, NoCall, Calls
<1>w. CsIInv' => WordOK'
  BY DEF CsIInv
<1>t. ASSUME NEW t \in Thread PROVE <<t, "schedule">> \in Tokens
  BY DEF Tokens, Uses
<1>1. ASSUME NEW t \in Thread, Library(t) PROVE ControlTypeOK'
  <2>w. WordOK'
    BY <1>0, <1>1, <1>w, LibraryStep
  <2> SUFFICES /\ KernelTypeOK' /\ threads' \in [Queues -> Seq(App)]
               /\ call' \in [Thread -> Calls \X Thread]
               /\ stage' \in [Thread -> Stages] /\ next' \in [Thread -> Thread]
    BY <2>w DEF ControlTypeOK, CsTypeOK
  <2>1. CASE BlockWoken(t) \/ WakeupEarly(t) \/ Section(t)
    BY <2>1, <1>0, CsKernelType DEF BlockWoken, WakeupEarly, Section, queuevars, Stages
  <2>2. CASE Block(t)
    <3>1. t \in App
      BY <2>2, <1>0 DEF Block
    <3> QED BY <2>2, <1>0, <3>1, QueueTypes
            DEF Block, ModBlock, slcsvars, kernelvars, KernelTypeOK, Stages
  <2>3. CASE Wakeup(t)
    <3>1. call[t][2] \in App
      BY <2>3, <1>0 DEF Wakeup
    <3>2. threads' \in [Queues -> Seq(App)]
      BY <2>3, <1>0, <3>1, QueueTypes DEF Wakeup, ModWakeup, queuevars
    <3>3. stage' \in [Thread -> Stages]
      BY <2>3, <1>0 DEF Wakeup, Stages
    <3> QED BY <2>3, <1>0, <3>2, <3>3 DEF Wakeup, slcsvars, kernelvars, KernelTypeOK
  <2>4. CASE Yield(t)
    <3>1. t \in App
      BY <2>4, <1>0 DEF Yield
    <3> QED BY <2>4, <1>0, <3>1, QueueTypes
            DEF Yield, ModYield, slcsvars, kernelvars, KernelTypeOK, Stages
  <2>5. CASE Reschedule(t) \/ Return(t)
    <3>1. KernelTypeOK' /\ UNCHANGED threads
      BY <2>5, <1>0 DEF Reschedule, Return, slcsvars, kernelvars, queuevars, KernelTypeOK
    <3>2. stage' \in [Thread -> Stages]
      BY <2>5, <1>0 DEF Reschedule, Return, Stages
    <3>3. call' \in [Thread -> Calls \X Thread]
      <4>1. call' = call \/ call' = [call EXCEPT ![t] = NoCall]
        BY <2>5 DEF Reschedule, Return
      <4>2. ASSUME NEW c \in Calls \X Thread
            PROVE  [call EXCEPT ![t] = c] \in [Thread -> Calls \X Thread]
        BY <1>0
      <4>3. NoCall \in Calls \X Thread
        BY <1>0
      <4>4. [call EXCEPT ![t] = NoCall] \in [Thread -> Calls \X Thread]
        BY <4>2, <4>3, Zenon
      <4> QED BY <4>1, <4>4, <1>0
    <3>4. next' \in [Thread -> Thread]
      BY <2>5, <1>0 DEF Reschedule, Return
    <3> QED BY <1>0, <3>1, <3>2, <3>3, <3>4
  <2>6. CASE Reenter(t)
    BY <2>6, <1>0, CsKernelType DEF Reenter, schedvars
  <2>7. CASE PickSync(t)
    BY <2>7, <1>0, <1>t, SyncType DEF PickSync, queuevars, Stages
  <2>8. CASE Choose(t)
    <3>1. KernelTypeOK'
      BY <2>8, <1>0, CsKernelType DEF Choose, slcsvars, kernelvars, KernelTypeOK
    <3>2. SomeQueued => Best \in Thread
      BY <1>0, BestOK
    <3>3. next' \in [Thread -> Thread]
      BY <2>8, <1>0, <3>2 DEF Choose, Wanted
    <3> QED BY <2>8, <1>0, <3>1, <3>3 DEF Choose, queuevars, Stages
  <2>9. CASE Dispatched(t)
    BY <2>9, <1>0, <1>t, AcceptedType DEF Dispatched, queuevars, Stages
  <2>10. CASE DispatchRefused(t)
    BY <2>10, <1>0, <1>t, RefusedType DEF DispatchRefused, queuevars, Stages, Calls
  <2>11. CASE CsStep(t) /\ UNCHANGED schedvars
    BY <2>11, <1>0, CsKernelType DEF schedvars
  <2> QED BY <1>1, <2>1, <2>2, <2>3, <2>4, <2>5, <2>6, <2>7, <2>8, <2>9, <2>10, <2>11 DEF Library
<1>2. ASSUME NEW t \in Thread, Enter(t), WordOK', UNCHANGED <<threads, next>>,
             NEW c \in Calls \X Thread, call' = [call EXCEPT ![t] = c], stage' = [stage EXCEPT ![t] = "work"]
      PROVE  ControlTypeOK'
  BY <1>0, <1>2, CsKernelType DEF ControlTypeOK, CsTypeOK, Stages
<1>3. CASE \E t \in App : Caller(t)
  <2> PICK t \in App : Caller(t)
    BY <1>3
  <2>1. PICK name \in Calls, u \in Thread : Start(t, name, u)
    BY DEF Caller, Calls
  <2>2. WordOK'
    BY <2>1, <1>0, <1>w, EnterSteps DEF Start
  <2> QED BY <2>1, <2>2, <1>2 DEF Start, queuevars
<1>4. CASE SchedLoop
  <2>2. WordOK'
    BY <1>4, <1>0, <1>w, EnterSteps DEF SchedLoop, Start
  <2> QED BY <2>2, <1>4, <1>2, <1>0 DEF SchedLoop, Start, queuevars, Calls
<1>5. CASE \E t \in App : Maker(t)
  <2> PICK t \in App : Maker(t)
    BY <1>5
  <2>1. UNCHANGED <<slcsvars, next>> /\ WordOK' /\ KernelTypeOK'
    <3>1. UNCHANGED <<slcsvars, next>>
      BY DEF Maker, Alloc, ParamSet, Place
    <3> QED BY <3>1, <1>0 DEF slcsvars, csvars, kernelvars, CsIInv, WordOK, KernelTypeOK
  <2>2. call' \in [Thread -> Calls \X Thread] /\ stage' \in [Thread -> Stages]
    <3>1. \A u \in App : <<"param_set", u>> \in Calls \X Thread
      BY DEF Calls
    <3>2. \E c \in Calls \X Thread, s \in Stages :
             call' = [call EXCEPT ![t] = c] /\ stage' = [stage EXCEPT ![t] = s]
      BY <1>0, <3>1 DEF Maker, Alloc, ParamSet, Place, Stages
    <3> QED BY <1>0, <3>2
  <2>3. threads' \in [Queues -> Seq(App)]
    <3>1. CASE \E u \in App : MayMake(t) /\ Alloc(t, u)
      BY <3>1, <1>0 DEF Alloc
    <3>2. CASE \E u \in App : MayMove(t, u) /\ ParamSet(t, u)
      BY <3>2, <1>0, QueueTypes DEF ParamSet, TakenOff
    <3>3. CASE \E p \in Prios : Place(t, p)
      <4>1. call[t][2] \in App
        BY <3>3, <1>0 DEF Place
      <4> QED BY <3>3, <4>1, <1>0, QueueTypes DEF Place
    <3> QED BY <3>1, <3>2, <3>3 DEF Maker
  <2> QED BY <1>0, <2>1, <2>2, <2>3 DEF ControlTypeOK, CsTypeOK
<1>6. CASE Timer
  BY <1>6, <1>0 DEF Timer, Interrupt, csvars, schedvars, ControlTypeOK, CsTypeOK,
                    KernelTypeOK, CsIInv, WordOK
<1> QED BY <1>1, <1>3, <1>4, <1>5, <1>6 DEF SchedNext

\* The elements of a finite set in some order.
LEMMA SetToSeqOK ==
  ASSUME NEW S, IsFiniteSet(S)
  PROVE  SetToSeq(S) \in Seq(S) /\ ToSet(SetToSeq(S)) = S /\ IsInjective(SetToSeq(S))
<1> DEFINE n == Cardinality(S)
           f == SetToSeq(S)
<1>1. n \in Nat /\ ExistsBijection(1..n, S)
  BY FS_CardinalityType
<1>2. PICK g : g \in Bijection(1..n, S)
  BY <1>1 DEF ExistsBijection
<1>3. g \in [1..n -> S] /\ IsInjective(g)
  BY <1>2 DEF Bijection, Injection, IsInjective
<1>4. f \in [1..n -> S] /\ IsInjective(f)
  BY <1>3, Zenon DEF SetToSeq
<1> HIDE DEF f
<1>5. f \in Seq(S)
  BY <1>1, <1>4, SeqDef
<1>6. ExistsInjection(1..n, S) /\ f \in Injection(1..n, S)
  BY <1>4 DEF Injection, ExistsInjection, IsInjective
<1>7. f \in Surjection(1..n, S)
  <2>1. IsFiniteSet(1..n) /\ Cardinality(1..n) = n
    BY <1>1, FS_Interval
  <2> QED BY <2>1, <1>6, FS_Injection
<1>8. ToSet(f) = S
  <2>1. DOMAIN f = 1..n
    BY <1>4
  <2>2. \A x \in S : \E i \in 1..n : f[i] = x
    BY <1>7 DEF Surjection
  <2>3. \A i \in 1..n : f[i] \in S
    BY <1>4
  <2> QED BY <2>1, <2>2, <2>3 DEF ToSet
<1> QED BY <1>4, <1>5, <1>8 DEF f

\* The run queues at the start.
LEMMA FirstOK ==
  /\ First \in [Queues -> Seq(App)]
  /\ \A p \in Queues : /\ ToSet(First[p]) = {t \in App \ Young : Prio[t] = p}
                       /\ IsInjective(First[p])
<1> SUFFICES ASSUME NEW p \in Queues
             PROVE  LET S == {t \in App \ Young : Prio[t] = p} IN
                    /\ SetToSeq(S) \in Seq(App)
                    /\ ToSet(SetToSeq(S)) = S
                    /\ IsInjective(SetToSeq(S))
  BY DEF First
<1> DEFINE S == {t \in App \ Young : Prio[t] = p}
<1>1. S \in SUBSET Thread /\ S \subseteq App
  BY DEF App
<1> HIDE DEF S
<1>2. IsFiniteSet(S)
  BY <1>1, FS_Subset, SchedAssumption
<1>3. SetToSeq(S) \in Seq(S) /\ ToSet(SetToSeq(S)) = S /\ IsInjective(SetToSeq(S))
  BY <1>2, SetToSeqOK
<1>4. SetToSeq(S) \in Seq(App)
  BY <1>1, <1>3
<1> QED BY <1>3, <1>4 DEF S

\* The scheduler thread starts, and every thread is in its own code.
LEMMA InitControl == SchedInit => ControlInv
<1> SUFFICES ASSUME SchedInit PROVE ControlInv
  OBVIOUS
<1> USE KernelAssumption, NullAssumption DEF SchedInit, CsInit, KernelInit, NoCall
<1>1. ControlTypeOK
  <2>1. CsTypeOK
    BY InitCsIInv DEF CsTypeOK, KernelTypeOK, CsIInv
  <2> QED BY <2>1, FirstOK DEF ControlTypeOK, Calls, Stages
<1>2. CsIInv
  BY InitCsIInv
<1>3. StageInv /\ CallInv /\ TokenInv /\ OwnerInv
  BY DEF StageInv, CallInv, TokenInv, OwnerInv, App, Free
<1> QED BY <1>1, <1>2, <1>3 DEF ControlInv

\* The control part of the invariant is inductive.
LEMMA ControlStep == ASSUME ControlInv, [SchedNext]_allvars PROVE ControlInv'
<1>1. CASE SchedNext
  <2>1. ControlTypeOK /\ CsIInv /\ StageInv /\ CallInv
    BY DEF ControlInv
  <2>2. CsIInv'
    BY <1>1, <2>1, SchedCsStep
  <2>3. StageInv' /\ CallInv'
    BY <1>1, <2>1, StageStep, CallStep
  <2>4. ControlTypeOK' /\ TokenInv' /\ OwnerInv'
    BY <1>1, <2>2, <2>3, ControlTypeStep, TokenStep, OwnerStep
  <2> QED BY <2>2, <2>3, <2>4 DEF ControlInv
<1>2. CASE UNCHANGED allvars
  BY <1>2 DEF allvars, slcsvars, kernelvars, csvars, schedvars, ControlInv, ControlTypeOK,
    CsTypeOK, KernelTypeOK, WordOK, CsIInv, OwnerHolds, SeenInv, StageInv, CallInv, TokenInv,
    OwnerInv
<1> QED BY <1>1, <1>2

-----------------------------------------------------------------------------
(* The data is, as long as control is.                                     *)

\* What the steps below need of the control part.
LEMMA SchedFacts ==
  ASSUME ControlInv
  PROVE  /\ stage \in [Thread -> Stages] /\ cs \in [Thread -> Phase]
         /\ call \in [Thread -> Calls \X Thread]
         /\ threads \in [Queues -> Seq(App)]
         /\ Sched \in Thread /\ curr \in Thread /\ NULL \notin Thread
         /\ StageInv /\ CallInv /\ TokenInv /\ OwnerInv /\ OwnerHolds
         /\ call[Sched][1] = "loop"
         /\ \A t \in App : call[t][1] \in {"wakeup", "switchto", "param_set"} => call[t][2] \in App
         /\ \A t \in App : stage[t] = "place" => call[t][2] \in App
<1>1. /\ stage \in [Thread -> Stages] /\ cs \in [Thread -> Phase]
      /\ call \in [Thread -> Calls \X Thread] /\ threads \in [Queues -> Seq(App)]
      /\ Sched \in Thread /\ curr \in Thread /\ NULL \notin Thread
      /\ StageInv /\ CallInv /\ TokenInv /\ OwnerInv /\ OwnerHolds
  BY KernelAssumption, NullAssumption
  DEF ControlInv, ControlTypeOK, CsTypeOK, WordOK, KernelTypeOK, CsIInv
<1> QED BY <1>1 DEF CallInv, NoCall

\* While a thread of the application other than the mover runs, none is moved.
LEMMA NoneMoved ==
  ASSUME ControlInv, DataInv, curr # Sched, stage[curr] # "place"
  PROVE  Moving = {} /\ \A t \in App : stage[t] # "place"
<1>1. \A t \in App : stage[t] # "place"
  BY DEF DataInv, PlaceInv
<1> QED BY <1>1 DEF Moving

\* Every step keeps the types of the data.
LEMMA DataTypeStep ==
  ASSUME ControlInv, DataInv, SchedNext
  PROVE  DataTypeOK'
<1> USE DEF In, Become, Inside, App
<1>0. /\ state \in [App -> {FREE, BLOCKED, WOKEN, RUNNABLE}]
      /\ prio \in [App -> Queues \cup {LOWEST}] /\ wakes \in [App -> Int]
      /\ Prios \subseteq Queues
  BY DEF DataInv, DataTypeOK, Queues
<1> USE <1>0, SchedFacts DEF DataTypeOK
<1>1. ASSUME NEW t \in Thread, Library(t) PROVE DataTypeOK'
  <2>1. CASE BlockWoken(t) \/ Section(t) \/ Block(t) \/ Yield(t) \/ Reschedule(t)
    BY <2>1 DEF BlockWoken, Section, Block, Yield, Reschedule, ModBlock, ModYield, queuevars
  <2>2. CASE WakeupEarly(t) \/ Wakeup(t)
    <3>1. call[t][2] \in App
      BY <2>2 DEF WakeupEarly, Wakeup
    <3>2. UNCHANGED prio
      BY <2>2 DEF WakeupEarly, Wakeup, ModWakeup, queuevars
    <3>3. wakes' = [wakes EXCEPT ![call[t][2]] = @ + 1]
      BY <2>2 DEF WakeupEarly, Wakeup
    <3>4. \E s \in {WOKEN, RUNNABLE} : state' = [state EXCEPT ![call[t][2]] = s]
      BY <2>2 DEF WakeupEarly, Wakeup, Noted
    <3> QED BY <3>1, <3>2, <3>3, <3>4
  <2>3. CASE Return(t)
    BY <2>3 DEF Return, queuevars
  <2>4. CASE Reenter(t) \/ PickSync(t) \/ Choose(t) \/ Dispatched(t) \/ DispatchRefused(t)
    BY <2>4 DEF Reenter, PickSync, Choose, Dispatched, DispatchRefused, queuevars, schedvars
  <2>5. CASE CsStep(t) /\ UNCHANGED schedvars
    BY <2>5 DEF schedvars
  <2> QED BY <1>1, <2>1, <2>2, <2>3, <2>4, <2>5 DEF Library
<1>2. ASSUME NEW t \in App, Caller(t) PROVE DataTypeOK'
  BY <1>2 DEF Caller, Start, queuevars
<1>3. ASSUME NEW t \in App, Maker(t) PROVE DataTypeOK'
  <2>1. CASE \E u \in App : MayMake(t) /\ Alloc(t, u)
    BY <2>1 DEF Alloc
  <2>2. CASE \E u \in App : MayMove(t, u) /\ ParamSet(t, u)
    BY <2>2 DEF ParamSet
  <2>3. CASE \E p \in Prios : Place(t, p)
    BY <2>3 DEF Place
  <2> QED BY <1>3, <2>1, <2>2, <2>3 DEF Maker
<1>4. CASE SchedLoop
  BY <1>4 DEF SchedLoop, Start, queuevars
<1>5. CASE Timer
  BY <1>5 DEF Timer, schedvars
<1> QED BY <1>1, <1>2, <1>3, <1>4, <1>5 DEF SchedNext

\* What a call relied on when it began still holds when it does its work: a thread that
\* is made stays made.
LEMMA TargetStep ==
  ASSUME ControlInv, DataInv, SchedNext
  PROVE  TargetInv'
<1> USE DEF In, Become, Inside, App
<1>0. /\ state \in [App -> {FREE, BLOCKED, WOKEN, RUNNABLE}]
      /\ TargetInv /\ RunInv
      /\ \A t \in App : state[t] = FREE => stage[t] = "own"
  BY DEF DataInv, DataTypeOK, WakesInv
<1> USE <1>0, SchedFacts DEF TargetInv, FREE, BLOCKED, WOKEN, RUNNABLE, NoCall
<1>1. ASSUME NEW t \in Thread, Library(t) PROVE TargetInv'
  <2>1. CASE BlockWoken(t)
    BY <2>1 DEF BlockWoken
  <2>2. CASE Section(t) \/ Reschedule(t) \/ Yield(t)
    BY <2>2 DEF Section, Reschedule, Yield
  <2>3. CASE Block(t)
    BY <2>3 DEF Block
  <2>4. CASE WakeupEarly(t)
    BY <2>4 DEF WakeupEarly, Noted
  <2>5. CASE Wakeup(t)
    BY <2>5 DEF Wakeup
  <2>6. CASE Return(t)
    BY <2>6 DEF Return
  <2>7. CASE PickSync(t) \/ Choose(t) \/ Dispatched(t)
    BY <2>7 DEF PickSync, Choose, Dispatched
  <2>8. CASE DispatchRefused(t)
    BY <2>8 DEF DispatchRefused
  <2>9. CASE Reenter(t) \/ (CsStep(t) /\ UNCHANGED schedvars)
    BY <2>9 DEF schedvars, Reenter
  <2> QED BY <1>1, <2>1, <2>2, <2>3, <2>4, <2>5, <2>6, <2>7, <2>8, <2>9 DEF Library
<1>2. ASSUME NEW t \in App, Caller(t) PROVE TargetInv'
  <2>1. ASSUME NEW name, NEW u, Start(t, name, u), name \in {"wakeup", "switchto"} => state[u] # FREE
        PROVE  TargetInv'
    <3>1. /\ stage' = [stage EXCEPT ![t] = "work"] /\ call' = [call EXCEPT ![t] = <<name, u>>]
          /\ state' = state
      BY <2>1 DEF Start
    <3> HIDE DEF NoCall
    <3> QED BY <2>1, <3>1
  <2> QED BY <1>2, <2>1 DEF Caller
<1>3. ASSUME NEW t \in App, Maker(t) PROVE TargetInv'
  <2>1. CASE \E u \in App : MayMake(t) /\ Alloc(t, u)
    BY <2>1 DEF Alloc
  <2>2. CASE \E u \in App : MayMove(t, u) /\ ParamSet(t, u)
    BY <2>2 DEF ParamSet
  <2>3. CASE \E p \in Prios : Place(t, p)
    BY <2>3 DEF Place
  <2> QED BY <1>3, <2>1, <2>2, <2>3 DEF Maker
<1>4. CASE SchedLoop
  BY <1>4 DEF SchedLoop, Start
<1>5. CASE Timer
  BY <1>5 DEF Timer, schedvars
<1> QED BY <1>1, <1>2, <1>3, <1>4, <1>5 DEF SchedNext

\* sl_thd_wakeup and sl_thd_block keep the count of the wakeups that are due.
LEMMA WakesStep ==
  ASSUME ControlInv, DataInv, SchedNext
  PROVE  WakesInv'
<1> USE DEF In, Become, Inside, App
<1>0. /\ state \in [App -> {FREE, BLOCKED, WOKEN, RUNNABLE}] /\ wakes \in [App -> Int]
      /\ TargetInv /\ RunInv /\ WakesInv /\ QueueInv
      /\ \A u \in App : stage[u] # "aborted"
  BY DEF DataInv, DataTypeOK, SchedNext, Running
<1>a. \A v \in App : ~Twice(v)
  BY <1>0 DEF Twice
<1>n. (\A u \in App : stage'[u] # "aborted") => \A v \in App : ~Twice(v)'
  BY DEF Twice
<1> USE <1>0, <1>a, <1>n, SchedFacts DEF WakesInv, Owed, FREE, BLOCKED, WOKEN, RUNNABLE
<1>1. ASSUME NEW t \in Thread, Library(t) PROVE WakesInv'
  <2>1. CASE BlockWoken(t)
    BY <2>1 DEF BlockWoken
  <2>2. CASE Section(t) \/ Reschedule(t) \/ Yield(t)
    BY <2>2 DEF Section, Reschedule, Yield
  <2>3. CASE Block(t)
    BY <2>3 DEF Block
  <2>4. CASE WakeupEarly(t)
    <3>1. t \in App /\ call[t][2] \in App
      BY <2>4 DEF WakeupEarly
    <3> QED BY <2>4, <3>1 DEF WakeupEarly, Noted
  <2>5. CASE Wakeup(t)
    <3>1. /\ t \in App /\ call[t][2] \in App /\ call[t][1] = "wakeup" /\ curr = t
          /\ stage[t] = "work" /\ state[call[t][2]] \in {BLOCKED, WOKEN} /\ call' = call
      BY <2>5 DEF Wakeup, TargetInv
    <3>2. PICK u \in App : u = call[t][2]
      BY <3>1
    <3>3. /\ state' = [state EXCEPT ![u] = RUNNABLE] /\ wakes' = [wakes EXCEPT ![u] = wakes[u] + 1]
      BY <2>5, <3>2 DEF Wakeup
    <3>m. Moving = {}
      BY <3>1, NoneMoved
    <3>4. Queued(u) <=> state[u] = WOKEN
      <4>1. /\ prio[u] \in Queues
            /\ \A p \in Queues : u \in ToSet(threads[p]) <=>
                 prio[u] = p /\ state[u] \notin {FREE, BLOCKED}
        <5> HIDE DEF FREE, BLOCKED, WOKEN, RUNNABLE, WakesInv, App
        <5> QED BY <1>0, <3>m DEF QueueInv, QueuesMatch
      <4> QED BY <3>1, <3>2, <4>1 DEF Queued
    <3>5. CASE state[u] = BLOCKED
      <4>1. stage' = [stage EXCEPT ![t] = "pick"]
        BY <2>5, <3>2, <3>4, <3>5 DEF Wakeup
      <4> QED BY <3>1, <3>2, <3>3, <3>5, <4>1
    <3>6. CASE state[u] = WOKEN
      <4>1. stage' = [stage EXCEPT ![t] = "aborted"]
        BY <2>5, <3>2, <3>4, <3>6 DEF Wakeup, ModWakeup
      <4>2. Twice(u)' /\ \A v \in App \ {u} : ~Twice(v)'
        BY <3>1, <3>2, <4>1 DEF Twice
      <4>3. \A v \in App : Owed(v)' <=> Owed(v)
        BY <3>1, <4>1 DEF Owed
      <4> QED BY <3>1, <3>2, <3>3, <3>6, <4>1, <4>2, <4>3
    <3> QED BY <3>1, <3>2, <3>5, <3>6
  <2>6. CASE Return(t)
    BY <2>6 DEF Return, RunInv, NoCall
  <2>7. CASE PickSync(t) \/ Dispatched(t)
    BY <2>7 DEF PickSync, Dispatched
  <2>10. CASE Choose(t)
    <3>1. /\ UNCHANGED <<state, wakes, call>> /\ stage[t] = "choose" /\ curr = t
          /\ stage' = [stage EXCEPT ![t] = "switch"] \/ stage' = [stage EXCEPT ![t] = "aborted"]
      BY <2>10 DEF Choose, queuevars
    <3>2. CASE stage' = [stage EXCEPT ![t] = "switch"]
      BY <3>1, <3>2
    <3>3. CASE stage' = [stage EXCEPT ![t] = "aborted"]
      <4>1. t = Sched \/ call[t][1] = "block"
        <5>1. ~SomeQueued /\ cs[t] = "in"
          BY <2>10, <3>1, <3>3 DEF Choose, StageInv
        <5>2. lock.owner = t
          BY <5>1, <2>10 DEF OwnerHolds, Holding
        <5> QED BY <5>1, <5>2 DEF QueueInv, LastBlocks
      <4>2. \A v \in App : ~Twice(v)'
        BY <3>1, <3>3, <4>1 DEF Twice
      <4> QED BY <3>1, <3>3, <4>2
    <3> QED BY <3>1, <3>2, <3>3
  <2>8. CASE DispatchRefused(t)
    BY <2>8 DEF DispatchRefused
  <2>9. CASE Reenter(t) \/ (CsStep(t) /\ UNCHANGED schedvars)
    BY <2>9 DEF schedvars, Reenter
  <2> QED BY <1>1, <2>1, <2>2, <2>3, <2>4, <2>5, <2>6, <2>7, <2>8, <2>9, <2>10 DEF Library
<1>2. ASSUME NEW t \in App, Caller(t) PROVE WakesInv'
  <2>1. PICK name, u : Start(t, name, u)
    BY <1>2 DEF Caller
  <2>2. state[t] # FREE /\ call[t] = NoCall
    BY <2>1, KernelAssumption DEF Start, RunInv, TargetInv
  <2> QED BY <2>1, <2>2 DEF Start, NoCall
<1>3. ASSUME NEW t \in App, Maker(t) PROVE WakesInv'
  <2>1. CASE \E u \in App : MayMake(t) /\ Alloc(t, u)
    BY <2>1 DEF Alloc, RunInv, TargetInv, NoCall
  <2>2. CASE \E u \in App : MayMove(t, u) /\ ParamSet(t, u)
    BY <2>2 DEF ParamSet, RunInv, TargetInv, NoCall
  <2>3. CASE \E p \in Prios : Place(t, p)
    BY <2>3 DEF Place, NoCall, CallInv
  <2> QED BY <1>3, <2>1, <2>2, <2>3 DEF Maker
<1>4. CASE SchedLoop
  BY <1>4 DEF SchedLoop, Start, NoCall
<1>5. CASE Timer
  BY <1>5 DEF Timer, schedvars
<1> QED BY <1>1, <1>2, <1>3, <1>4, <1>5 DEF SchedNext

\* What the policy would choose, and whether there is anything to choose from, depends
\* on the run queues only.
LEMMA BestSame ==
  ASSUME UNCHANGED threads
  PROVE  UNCHANGED <<Best, SomeQueued>>
<1>1. Best = Head(threads[FirstQueue(threads)])
  BY DEF Best, FirstQueue
<1>2. Best' = Head(threads'[FirstQueue(threads')])
  BY DEF Best, FirstQueue
<1>3. UNCHANGED SomeQueued
  BY DEF SomeQueued
<1> QED BY <1>1, <1>2, <1>3

\* Who is on the run queues is found by a thread outside the critical section.
LEMMA QueuedOutside ==
  ASSUME ControlInv, DataInv, lock.owner \notin App
  PROVE  SomeQueued
BY DEF DataInv, QueueInv, LastBlocks

\* The owner of the critical section has the processor, or the scheduler thread has.
LEMMA NoOwner ==
  ASSUME ControlInv, cs[curr] \notin Holding,
         curr = Sched => stage[curr] \in {"choose", "switch"}
  PROVE  lock.owner \notin App
<1>1. /\ OwnerInv /\ OwnerHolds /\ curr \in Thread /\ Sched \in Thread /\ NULL \notin Thread
      /\ lock.owner \in Thread \cup {NULL}
  BY SchedFacts DEF ControlInv, CsIInv, WordOK, Word
<1>2. lock.owner # curr
  BY <1>1 DEF OwnerHolds
<1> QED BY <1>1, <1>2 DEF OwnerInv, App

\* The thread the policy would choose is made and not blocked.
LEMMA BestRuns ==
  ASSUME ControlInv, QueueInv, SomeQueued
  PROVE  Best \in App /\ Best \notin Moving /\ state[Best] \notin {FREE, BLOCKED}
<1>1. threads \in [Queues -> Seq(App)]
  BY SchedFacts
<1>2. PICK p \in Queues : Best \in ToSet(threads[p])
  BY <1>1, BestOK
<1> QED BY <1>1, <1>2, BestOK DEF QueueInv, QueuesMatch

\* A switch that is accepted is the right one.
LEMMA RightTarget ==
  ASSUME ControlInv, DataInv, NEW t \in Thread, Dispatched(t)
  PROVE  /\ next[t] = IF Wanted(t) THEN call[t][2] ELSE Best
         /\ next[t] \in App /\ state[next[t]] \notin {FREE, BLOCKED}
<1>1. next[t] = IF Wanted(t) THEN call[t][2] ELSE Best
  BY DEF Dispatched, In, Accepted, DataInv, SwitchInv
<1>2. Wanted(t) => call[t][2] \in App /\ state[call[t][2]] = RUNNABLE
  BY SchedFacts DEF Wanted, App
<1>3. lock.owner \notin App
  BY NoOwner DEF Dispatched, In, Holding, Leaving
<1>4. Best \in App /\ state[Best] \notin {FREE, BLOCKED}
  BY <1>3, QueuedOutside, BestRuns DEF DataInv
<1> QED BY <1>1, <1>2, <1>4 DEF FREE, BLOCKED, RUNNABLE

\* Nobody switches to a thread that is blocked or not made.
LEMMA RunStep ==
  ASSUME ControlInv, DataInv, SchedNext
  PROVE  RunInv'
<1> USE DEF In, Become, Inside, App
<1>0. /\ state \in [App -> {FREE, BLOCKED, WOKEN, RUNNABLE}]
      /\ TargetInv /\ RunInv /\ WakesInv
  BY DEF DataInv, DataTypeOK
<1> USE <1>0, SchedFacts DEF RunInv, FREE, BLOCKED, WOKEN, RUNNABLE
<1>1. ASSUME NEW t \in Thread, Library(t) PROVE RunInv'
  <2>1. CASE BlockWoken(t) \/ Section(t) \/ Reschedule(t) \/ Yield(t) \/ Block(t)
    BY <2>1 DEF BlockWoken, Section, Reschedule, Yield, Block, Exit, slcsvars, kernelvars
  <2>2. CASE WakeupEarly(t)
    BY <2>2 DEF WakeupEarly, Noted, Exit, slcsvars, kernelvars
  <2>3. CASE Wakeup(t)
    BY <2>3 DEF Wakeup, Exit, slcsvars, kernelvars
  <2>4. CASE Return(t)
    BY <2>4 DEF Return, slcsvars, kernelvars
  <2>5. CASE PickSync(t) \/ Choose(t) \/ DispatchRefused(t)
    BY <2>5 DEF PickSync, Choose, Sync, DispatchRefused, Refused, Exit, slcsvars, kernelvars
  <2>6. CASE Dispatched(t)
    BY <2>6, RightTarget DEF Dispatched, Accepted
  <2>7. CASE Reenter(t)
    BY <2>7 DEF Reenter, Enter, kernelvars, schedvars
  <2>8. CASE CsStep(t) /\ UNCHANGED schedvars
    <3> USE <2>8 DEF schedvars
    <3>1. CASE EnterSync(t) \/ EnterRead(t) \/ EnterTake(t) \/ EnterContend(t)
      BY <3>1 DEF EnterSync, EnterRead, EnterTake, EnterContend, Sync, ReadLock, Drop, kernelvars
    <3>2. CASE ExitSync(t) \/ ExitRead(t) \/ ExitRelease(t)
      BY <3>2 DEF ExitSync, ExitRead, ExitRelease, Sync, ReadLock, Drop, kernelvars
    <3>3. CASE ExitHandover(t)
      BY <3>3 DEF ExitHandover, Switch, Accepted, Refused, kernelvars
    <3>4. CASE EnterDefer(t)
      <4>1. t = Sched /\ seen[t].owner = lock.owner /\ seen[t].owner \in Thread \ {t}
        BY <3>4 DEF EnterDefer, At, OwnerInv, ControlInv, CsIInv, SeenInv
      <4>2. cs[lock.owner] \in Holding
        BY <4>1 DEF OwnerHolds
      <4>3. stage[lock.owner] \notin {"own", "away"}
        BY <4>1, <4>2 DEF StageInv, Holding, Leaving
      <4>4. curr' = t \/ curr' = lock.owner
        BY <3>4, <4>1 DEF EnterDefer, Switch, Accepted, Refused, kernelvars, At
      <4> QED BY <4>1, <4>3, <4>4 DEF WakesInv
    <3> QED BY <2>8, <3>1, <3>2, <3>3, <3>4 DEF CsStep
  <2> QED BY <1>1, <2>1, <2>2, <2>3, <2>4, <2>5, <2>6, <2>7, <2>8 DEF Library
<1>2. ASSUME NEW t \in App, Caller(t) PROVE RunInv'
  BY <1>2 DEF Caller, Start, Enter, kernelvars
<1>3. ASSUME NEW t \in App, Maker(t) PROVE RunInv'
  <2>1. CASE \E u \in App : MayMake(t) /\ Alloc(t, u)
    BY <2>1 DEF Alloc, slcsvars, kernelvars
  <2>2. CASE \E u \in App : MayMove(t, u) /\ ParamSet(t, u)
    BY <2>2 DEF ParamSet, slcsvars, kernelvars
  <2>3. CASE \E p \in Prios : Place(t, p)
    BY <2>3 DEF Place, slcsvars, kernelvars
  <2> QED BY <1>3, <2>1, <2>2, <2>3 DEF Maker
<1>4. CASE SchedLoop
  BY <1>4 DEF SchedLoop, Start, Enter, kernelvars
<1>5. CASE Timer
  BY <1>5 DEF Timer, schedvars, Interrupt
<1> QED BY <1>1, <1>2, <1>3, <1>4, <1>5 DEF SchedNext

\* A token for a switch is good only while its thread runs, or the scheduler thread.
LEMMA NoneSwitching ==
  ASSUME ControlInv, curr # Sched, stage[curr] # "switch",
         NEW t \in Thread, stage[t] = "switch"
  PROVE  <<t, "schedule">> \notin fresh
BY SchedFacts DEF TokenInv

\* Between sl_cs_exit_schedule's choice and its switch the data it rests on changes only
\* with its token.
LEMMA SwitchStep ==
  ASSUME ControlInv, DataInv, SchedNext
  PROVE  SwitchInv'
<1> USE DEF In, Become, Inside, App
<1>0. SwitchInv /\ next \in [Thread -> Thread]
  BY DEF DataInv, ControlInv, ControlTypeOK
<1>b. UNCHANGED threads => Best' = Best
  BY BestSame
<1> USE <1>0, SchedFacts DEF SwitchInv, Wanted
<1>k. ASSUME NEW t \in Thread, UNCHANGED <<state, threads, next, fresh>>,
             NEW s, stage' = [stage EXCEPT ![t] = s], s # "switch",
             \A u \in Thread \ {t} : call'[u] = call[u]
      PROVE  SwitchInv'
  BY <1>b, <1>k
<1>d. ASSUME curr # Sched, stage[curr] # "switch", UNCHANGED fresh,
             NEW s, stage' = [stage EXCEPT ![curr] = s], s # "switch"
      PROVE  SwitchInv'
  BY <1>d, NoneSwitching
<1>1. ASSUME NEW t \in Thread, Library(t) PROVE SwitchInv'
  <2>1. CASE BlockWoken(t) \/ Block(t) \/ Yield(t)
    BY <2>1, <1>d DEF BlockWoken, Block, Yield, Exit, slcsvars, kernelvars
  <2>2. CASE WakeupEarly(t)
    BY <2>2, <1>d DEF WakeupEarly, Exit, kernelvars
  <2>3. CASE Wakeup(t)
    BY <2>3, <1>d DEF Wakeup, slcsvars, kernelvars
  <2>4. CASE Section(t) \/ Reschedule(t)
    BY <2>4, <1>k DEF Section, Reschedule, Exit, slcsvars, kernelvars, queuevars
  <2>5. CASE Return(t)
    BY <2>5, <1>b DEF Return, slcsvars, kernelvars, queuevars
  <2>6. CASE PickSync(t)
    BY <2>6, <1>b DEF PickSync, Sync, queuevars
  <2>7. CASE Choose(t)
    <3>1. UNCHANGED <<state, threads, call, fresh>> /\ Best' = Best
      BY <2>7, <1>b DEF Choose, Exit, slcsvars, kernelvars, queuevars
    <3>2. CASE /\ next' = [next EXCEPT ![t] = IF Wanted(t) THEN call[t][2] ELSE Best]
               /\ stage' = [stage EXCEPT ![t] = "switch"]
      BY <3>1, <3>2
    <3>3. CASE UNCHANGED next /\ stage' = [stage EXCEPT ![t] = "aborted"]
      BY <3>1, <3>3, <1>k
    <3> QED BY <2>7, <3>2, <3>3 DEF Choose
  <2>8. CASE Dispatched(t)
    BY <2>8, <1>b DEF Dispatched, Accepted, queuevars
  <2>9. CASE DispatchRefused(t)
    <3>1. UNCHANGED <<state, threads, next, fresh>>
      BY <2>9 DEF DispatchRefused, Refused, kernelvars, queuevars
    <3>2. \A u \in Thread \ {t} : call'[u] = call[u]
      BY <2>9 DEF DispatchRefused
    <3>3. stage' = [stage EXCEPT ![t] = "own"] \/ stage' = [stage EXCEPT ![t] = "pick"]
      BY <2>9 DEF DispatchRefused
    <3> QED BY <3>1, <3>2, <3>3, <1>k
  <2>10. CASE Reenter(t)
    BY <2>10, <1>b DEF Reenter, Enter, kernelvars, schedvars
  <2>11. CASE CsStep(t) /\ UNCHANGED schedvars
    <3> USE <2>11, <1>b DEF schedvars
    <3>1. \A u \in Thread : <<u, "schedule">> \in fresh' => <<u, "schedule">> \in fresh
      <4>1. CASE EnterSync(t) \/ EnterRead(t) \/ EnterTake(t) \/ EnterContend(t)
        BY <4>1 DEF EnterSync, EnterRead, EnterTake, EnterContend, Sync, ReadLock, Drop, kernelvars
      <4>2. CASE ExitSync(t) \/ ExitRead(t) \/ ExitRelease(t)
        BY <4>2 DEF ExitSync, ExitRead, ExitRelease, Sync, ReadLock, Drop, kernelvars
      <4>3. CASE EnterDefer(t) \/ ExitHandover(t)
        BY <4>3 DEF EnterDefer, ExitHandover, Switch, Accepted, Refused, kernelvars
      <4> QED BY <2>11, <4>1, <4>2, <4>3 DEF CsStep
    <3> QED BY <3>1
  <2> QED BY <1>1, <2>1, <2>2, <2>3, <2>4, <2>5, <2>6, <2>7, <2>8, <2>9, <2>10, <2>11 DEF Library
<1>2. ASSUME NEW t \in App, Caller(t) PROVE SwitchInv'
  <2>1. PICK name, u : Start(t, name, u)
    BY <1>2 DEF Caller
  <2> QED BY <2>1, <1>k DEF Start, Enter, kernelvars, queuevars
<1>3. ASSUME NEW t \in App, Maker(t) PROVE SwitchInv'
  <2>1. CASE \E u \in App : MayMake(t) /\ Alloc(t, u)
    BY <2>1, <1>d DEF Alloc, slcsvars, kernelvars
  <2>2. CASE \E u \in App : MayMove(t, u) /\ ParamSet(t, u)
    BY <2>2, <1>d DEF ParamSet, slcsvars, kernelvars
  <2>3. CASE \E p \in Prios : Place(t, p)
    BY <2>3, <1>d DEF Place, slcsvars, kernelvars
  <2> QED BY <1>3, <2>1, <2>2, <2>3 DEF Maker
<1>4. CASE SchedLoop
  BY <1>4, <1>k DEF SchedLoop, Start, Enter, kernelvars, queuevars
<1>5. CASE Timer
  BY <1>5, <1>b DEF Timer, schedvars, Interrupt
<1> QED BY <1>1, <1>2, <1>3, <1>4, <1>5 DEF SchedNext

\* The thread in a library call has the processor, and is not the one that moves another.
LEMMA LibraryMoves ==
  ASSUME ControlInv, NEW t \in Thread, Library(t)
  PROVE  /\ curr = t /\ stage[t] # "place"
         /\ \A u \in App : /\ stage'[u] = "place" <=> stage[u] = "place"
                           /\ stage[u] = "place" => call'[u] = call[u]
         /\ UNCHANGED Moving
<1> USE SchedFacts DEF In, Become, Inside, App
<1>1. curr = t /\ stage[t] # "place" /\ \A u \in App : stage'[u] = "place" <=> stage[u] = "place"
  <2>1. CASE BlockWoken(t) \/ Block(t) \/ Yield(t) \/ WakeupEarly(t) \/ Section(t) \/ Reschedule(t)
    BY <2>1 DEF BlockWoken, Block, Yield, WakeupEarly, Section, Reschedule
  <2>2. CASE Wakeup(t)
    BY <2>2 DEF Wakeup
  <2>3. CASE PickSync(t) \/ Choose(t) \/ Dispatched(t) \/ Return(t)
    BY <2>3 DEF PickSync, Choose, Dispatched, Return
  <2>4. CASE DispatchRefused(t)
    BY <2>4 DEF DispatchRefused
  <2>5. CASE Reenter(t)
    BY <2>5 DEF Reenter, schedvars
  <2>6. CASE CsStep(t) /\ UNCHANGED schedvars
    BY <2>6 DEF CsStep, EnterSync, EnterRead, EnterTake, EnterContend, EnterDefer, ExitSync, ExitRead,
                ExitRelease, ExitHandover, At, StageInv, schedvars
  <2> QED BY <2>1, <2>2, <2>3, <2>4, <2>5, <2>6 DEF Library
<1>2. \A u \in App \ {t} : call'[u] = call[u]
  BY DEF Library, BlockWoken, Block, Yield, WakeupEarly, Section, Reschedule, Wakeup, PickSync, Choose,
         Dispatched, Return, DispatchRefused, Reenter, schedvars
<1>3. \A u \in App : stage[u] = "place" => call'[u] = call[u]
  BY <1>1, <1>2
<1> QED BY <1>1, <1>3 DEF Moving

\* The thread that makes a call moves none.
LEMMA CallerMoves ==
  ASSUME ControlInv, NEW t \in App, Caller(t)
  PROVE  /\ curr = t /\ stage[t] = "own" /\ UNCHANGED <<state, threads, prio>>
         /\ \A u \in App : stage'[u] = "place" <=> stage[u] = "place"
         /\ UNCHANGED Moving
<1> USE SchedFacts DEF In, Become, App
<1>1. PICK name, u : Start(t, name, u)
  BY DEF Caller
<1>2. /\ curr = t /\ stage[t] = "own" /\ UNCHANGED <<state, threads, prio>>
      /\ \A v \in App : stage'[v] = "place" <=> stage[v] = "place"
      /\ \A v \in App \ {t} : call'[v] = call[v]
  <2>1. /\ curr = t /\ stage[t] = "own" /\ UNCHANGED <<state, threads, prio>>
        /\ stage' = [stage EXCEPT ![t] = "work"] /\ call' = [call EXCEPT ![t] = <<name, u>>]
    BY <1>1 DEF Start, queuevars
  <2> QED BY <2>1
<1>3. \A v \in App : stage[v] = "place" => call'[v] = call[v]
  BY <1>2
<1> QED BY <1>2, <1>3 DEF Moving

\* The scheduler thread changes no data of the library.
LEMMA SchedLibrary ==
  ASSUME ControlInv, Library(Sched)
  PROVE  UNCHANGED <<state, threads, prio>>
BY SchedFacts DEF Library, BlockWoken, Block, Yield, WakeupEarly, Section, Reschedule, Wakeup, PickSync,
   Choose, Dispatched, Return, DispatchRefused, Reenter, schedvars, queuevars, Inside

\* A run queue's head is chosen again when another thread leaves the queues.
LEMMA BestWithout ==
  ASSUME threads \in [Queues -> Seq(App)], SomeQueued, NEW u \in App, u # Best,
         \A p \in Queues : IsInjective(threads[p]),
         threads' = Unqueue(u)
  PROVE  SomeQueued' /\ Best' = Best
<1> DEFINE P == FirstQueue(threads)
           R == FirstQueue(threads')
<1>1. P \in Queues /\ threads[P] # <<>> /\ \A q \in Queues : threads[q] # <<>> => P <= q
  BY FirstQueueOK DEF SomeQueued
<1>2. Best = Head(threads[P])
  BY DEF Best, FirstQueue
<1>3. ASSUME NEW q \in Queues
      PROVE  threads'[q] = RemoveFirst(threads[q], u) /\ threads[q] \in Seq(App)
  BY DEF Unqueue
<1>4. threads'[P] # <<>> /\ Head(threads'[P]) = Best
  BY <1>1, <1>2, <1>3, RemoveFirstOK
<1>5. SomeQueued'
  BY <1>1, <1>4 DEF SomeQueued
<1>6. R \in Queues /\ threads'[R] # <<>> /\ \A q \in Queues : threads'[q] # <<>> => R <= q
  BY <1>5, FirstQueueOK DEF SomeQueued
<1> HIDE DEF R, P
<1>7. threads[R] # <<>>
  <2>1. ASSUME threads[R] = <<>> PROVE RemoveFirst(threads[R], u) = <<>>
    <3>1. Len(threads[R]) = 0
      BY <2>1
    <3>2. 1..0 = {}
      OBVIOUS
    <3> QED BY <1>3, <1>6, <2>1, <3>1, <3>2, RemoveFirstAt
  <2>2. threads'[R] = RemoveFirst(threads[R], u)
    BY <1>3, <1>6
  <2> QED BY <1>6, <2>1, <2>2
<1>8. R = P
  <2>1. P \in Nat /\ R \in Nat
    BY <1>1, <1>6, SchedAssumption DEF Queues
  <2>2. P <= R /\ R <= P
    BY <1>1, <1>4, <1>6, <1>7
  <2> QED BY <2>1, <2>2
<1>9. Best' = Head(threads'[R])
  BY DEF Best, FirstQueue, R
<1> QED BY <1>4, <1>5, <1>8, <1>9

\* While sl_thd_param_set moves a thread, the processor stays with the mover.
LEMMA PlaceStep ==
  ASSUME ControlInv, DataInv, SchedNext
  PROVE  PlaceInv'
<1> USE SchedFacts DEF In, Become, App
<1>0. PlaceInv /\ RunInv /\ QueueInv /\ (UNCHANGED threads => Best' = Best)
  BY BestSame DEF DataInv
<1>d. ASSUME curr # Sched, stage[curr] # "place",
             \A u \in App : stage'[u] = "place" => stage[u] = "place"
      PROVE  PlaceInv'
  BY <1>d, NoneMoved DEF PlaceInv
<1>k. ASSUME UNCHANGED <<state, threads>>,
             \A u \in App : stage'[u] = "place" => stage[u] = "place" /\ call'[u] = call[u],
             \A u \in App : stage[u] = "place" => curr' \in {u, Sched},
             lock' = lock \/ lock'.owner \in {NULL, Sched}
      PROVE  PlaceInv'
  BY <1>0, <1>k DEF PlaceInv
<1>1. ASSUME NEW t \in Thread, Library(t) PROVE PlaceInv'
  <2>0. /\ curr = t /\ stage[t] # "place"
        /\ \A u \in App : stage'[u] = "place" => stage[u] = "place" /\ call'[u] = call[u]
    BY <1>1, LibraryMoves
  <2>1. CASE t # Sched
    BY <2>0, <2>1, <1>d
  <2>2. CASE t = Sched
    <3>0. UNCHANGED <<state, threads>>
      BY <1>1, <2>2, SchedLibrary
    <3>1. CASE \A u \in App : stage[u] # "place"
      BY <3>1, <2>0 DEF PlaceInv
    <3>2. ASSUME NEW u \in App, stage[u] = "place" PROVE PlaceInv'
      <4>0. lock.owner \in {NULL, Sched} /\ Best = u /\ \A v \in App : stage[v] = "place" => v = u
        BY <1>0, <3>2 DEF PlaceInv
      <4>1. CASE Dispatched(t)
        <5>1. ~Wanted(t)
          BY <2>2 DEF Wanted
        <5>2. curr' = u
          BY <4>1, <4>0, <5>1, RightTarget DEF Dispatched, Accepted
        <5>3. UNCHANGED lock
          BY <4>1 DEF Dispatched, csvars
        <5> QED BY <5>2, <5>3, <4>0, <3>0, <2>0, <1>k
      <4>2. CASE ~Dispatched(t)
        <5>1. curr' = Sched /\ lock'.owner \in {NULL, Sched}
          <6>1. CASE Reschedule(t) \/ Section(t) \/ Choose(t) \/ Return(t) \/ Reenter(t)
            BY <6>1, <4>0, <2>2, <2>0
            DEF Reschedule, Section, Choose, Return, Reenter, Enter, Exit, slcsvars, csvars, kernelvars
          <6>2. CASE PickSync(t) \/ DispatchRefused(t)
            BY <6>2, <4>0, <2>2, <2>0 DEF PickSync, DispatchRefused, Sync, Refused, csvars, kernelvars
          <6>3. CASE EnterSync(t) \/ EnterRead(t) \/ ExitSync(t) \/ ExitRead(t)
            BY <6>3, <4>0, <2>2, <2>0
            DEF EnterSync, EnterRead, ExitSync, ExitRead, ReadLock, Sync, kernelvars
          <6>4. CASE EnterTake(t)
            BY <6>4, <4>0, <2>2, <2>0 DEF EnterTake, Cas, Drop, ControlInv, CsIInv, WordOK, Word
          <6>5. CASE EnterContend(t) \/ EnterDefer(t)
            <7>1. seen[t].owner = lock.owner /\ seen[t].owner \in Thread \ {t}
              BY <6>5, <2>2 DEF EnterContend, EnterDefer, At, OwnerInv, ControlInv, CsIInv, SeenInv
            <7> QED BY <7>1, <4>0, <2>2
          <6>6. CASE ExitRelease(t) \/ ExitHandover(t)
            BY <6>6, <4>0, <2>2, <2>0
            DEF ExitRelease, ExitHandover, Switch, Cas, Drop, Free, Accepted, Refused, kernelvars
          <6>7. ~(BlockWoken(t) \/ Block(t) \/ WakeupEarly(t) \/ Wakeup(t) \/ Yield(t))
            BY <2>2 DEF BlockWoken, Block, WakeupEarly, Wakeup, Yield, Inside
          <6> QED BY <1>1, <4>2, <6>1, <6>2, <6>3, <6>4, <6>5, <6>6, <6>7 DEF Library, CsStep
        <5> QED BY <5>1, <3>0, <2>0, <1>k
      <4> QED BY <4>1, <4>2
    <3> QED BY <3>1, <3>2
  <2> QED BY <2>1, <2>2
<1>2. ASSUME NEW t \in App, Caller(t) PROVE PlaceInv'
  BY <1>2, <1>d, CallerMoves
<1>3. ASSUME NEW t \in App, Maker(t) PROVE PlaceInv'
  <2>0. curr = t /\ t # Sched /\ UNCHANGED <<curr, lock>> /\ state[t] # FREE
    BY <1>3, <1>0 DEF Maker, Alloc, ParamSet, Place, slcsvars, kernelvars, csvars, RunInv
  <2>1. ASSUME stage[t] = "own"
        PROVE  lock.owner = NULL /\ \A v \in App : stage[v] # "place"
    BY <2>0, <2>1, NoneMoved DEF OwnerInv, OwnerHolds, StageInv, Holding, Leaving, ControlInv, CsIInv, WordOK, Word
  <2>2. ASSUME NEW u \in App, MayMake(t), Alloc(t, u) PROVE PlaceInv'
    <3>1. /\ stage[t] = "own" /\ state[u] = FREE /\ Best' = t
          /\ state' = [state EXCEPT ![u] = RUNNABLE]
          /\ call' = [call EXCEPT ![t] = <<"param_set", u>>] /\ stage' = [stage EXCEPT ![t] = "place"]
      BY <2>2, <1>0 DEF Alloc, MayMake
    <3> QED BY <3>1, <2>0, <2>1 DEF PlaceInv, DataInv, DataTypeOK
  <2>3. ASSUME NEW u \in App, MayMove(t, u), ParamSet(t, u) PROVE PlaceInv'
    <3>1. /\ stage[t] = "own" /\ u # t /\ state[u] \in {RUNNABLE, WOKEN} /\ Best = t /\ SomeQueued
          /\ state' = state /\ threads' = Unqueue(u)
          /\ call' = [call EXCEPT ![t] = <<"param_set", u>>] /\ stage' = [stage EXCEPT ![t] = "place"]
      BY <2>3 DEF ParamSet, MayMove, MayMake, TakenOff
    <3>2. Best' = t
      BY <3>1, <1>0, BestWithout DEF QueueInv, QueuesMatch
    <3> QED BY <3>1, <3>2, <2>0, <2>1 DEF PlaceInv
  <2>4. ASSUME NEW p \in Prios, Place(t, p) PROVE PlaceInv'
    <3>1. stage[t] = "place" /\ stage' = [stage EXCEPT ![t] = "own"]
      BY <2>4 DEF Place
    <3>2. \A v \in App : stage[v] = "place" => v = t
      BY <2>0, <1>0 DEF PlaceInv
    <3> QED BY <3>1, <3>2 DEF PlaceInv
  <2> QED BY <1>3, <2>2, <2>3, <2>4 DEF Maker
<1>4. CASE SchedLoop
  BY <1>4, <1>0, <1>k DEF SchedLoop, Start, Enter, kernelvars, queuevars, PlaceInv
<1>5. CASE Timer
  BY <1>5, <1>0 DEF Timer, schedvars, csvars, Interrupt, PlaceInv
<1> QED BY <1>1, <1>2, <1>3, <1>4, <1>5 DEF SchedNext

\* The run queues when a thread leaves them.
LEMMA UnqueueOK ==
  ASSUME threads \in [Queues -> Seq(App)], NEW u \in App,
         \A q \in Queues : IsInjective(threads[q])
  PROVE  \A q \in Queues : /\ ToSet(Unqueue(u)[q]) = ToSet(threads[q]) \ {u}
                           /\ IsInjective(Unqueue(u)[q])
                           /\ Unqueue(u)[q] \in Seq(App)
BY RemoveFirstOK DEF Unqueue

\* The run queues when a thread leaves them and joins one.
LEMMA RequeueOK ==
  ASSUME threads \in [Queues -> Seq(App)], NEW u \in App, NEW p \in Queues,
         \A q \in Queues : IsInjective(threads[q])
  PROVE  /\ \A q \in Queues :
              /\ ToSet(Requeue(u, p)[q]) =
                   (ToSet(threads[q]) \ {u}) \cup (IF q = p THEN {u} ELSE {})
              /\ IsInjective(Requeue(u, p)[q])
         /\ Requeue(u, p)[p] # <<>>
<1> DEFINE un == Unqueue(u)
<1>1. un \in [Queues -> Seq(App)] /\ \A q \in Queues : /\ ToSet(un[q]) = ToSet(threads[q]) \ {u}
                                                       /\ IsInjective(un[q])
  BY UnqueueOK, QueueTypes
<1>2. Requeue(u, p) = [un EXCEPT ![p] = Append(un[p], u)]
  BY DEF Requeue
<1> HIDE DEF un
<1>3. /\ Append(un[p], u) # <<>> /\ IsInjective(Append(un[p], u))
      /\ ToSet(Append(un[p], u)) = ToSet(un[p]) \cup {u}
  BY <1>1, AppendOK
<1> QED BY <1>1, <1>2, <1>3

\* When the run queues are empty only the thread that has blocked last goes on, and stays
\* in the critical section.
LEMMA LastStep ==
  ASSUME ControlInv, DataInv, SchedNext, UNCHANGED threads, LastBlocks
  PROVE  (SomeQueued \/ LastBlocks)'
<1> USE SchedFacts DEF In, Become, Inside, App
<1>0. PICK x \in App : /\ state[x] = BLOCKED /\ lock.owner = x
                       /\ stage[x] \in {"pick", "choose", "aborted"}
  BY DEF LastBlocks
<1>1. curr \in {x, Sched} /\ cs[x] = "in" /\ cs[Sched] \notin Holding /\ x # Sched
  BY <1>0 DEF OwnerInv, OwnerHolds, StageInv, Entering, Holding, Leaving
<1>2. ASSUME state'[x] = BLOCKED, lock'.owner = x, stage'[x] \in {"pick", "choose", "aborted"}
      PROVE  LastBlocks'
  BY <1>2 DEF LastBlocks
<1>3. ASSUME NEW t \in Thread, Library(t) PROVE (SomeQueued \/ LastBlocks)'
  <2>1. CASE t = x
    <3>1. curr = x /\ cs[x] = "in" /\ stage[x] \in {"pick", "choose"}
      BY <1>0, <1>1, <1>3, <2>1 DEF Library, BlockWoken, Block, Yield, WakeupEarly, Section, Reschedule,
         Wakeup, PickSync, Choose, Dispatched, Return, DispatchRefused, Reenter, Enter, CsStep, EnterSync,
         EnterRead, EnterTake, EnterContend, EnterDefer, ExitSync, ExitRead, ExitRelease, ExitHandover, At
    <3>2. PickSync(x) \/ Choose(x)
      BY <1>3, <2>1, <3>1 DEF Library, BlockWoken, Block, Yield, WakeupEarly, Section, Reschedule,
         Wakeup, Dispatched, Return, DispatchRefused, Reenter, Enter, CsStep, EnterSync,
         EnterRead, EnterTake, EnterContend, EnterDefer, ExitSync, ExitRead, ExitRelease, ExitHandover, At
    <3>3. CASE PickSync(x)
      BY <1>0, <1>2, <3>3 DEF PickSync, csvars
    <3>4. CASE Choose(x) /\ ~SomeQueued /\ ~Wanted(x)
      BY <1>0, <1>2, <3>4 DEF Choose, slcsvars, csvars
    <3>5. CASE SomeQueued
      BY <3>5 DEF SomeQueued
    <3>6. ~Wanted(x)
      BY <1>0 DEF DataInv, WakesInv, Owed, Wanted
    <3> QED BY <3>2, <3>3, <3>4, <3>5, <3>6
  <2>2. CASE t # x
    <3>1. t = Sched /\ curr = Sched
      BY <1>1, <1>3, <2>2, LibraryMoves
    <3>2. UNCHANGED state
      BY <1>3, <3>1, SchedLibrary
    <3>3. stage'[x] = stage[x]
      BY <1>1, <1>3, <3>1 DEF Library, BlockWoken, Block, Yield, WakeupEarly, Section, Reschedule,
         Wakeup, PickSync, Choose, Dispatched, Return, DispatchRefused, Reenter, schedvars
    <3>4. lock'.owner = x
      <4>1. CASE BlockWoken(t) \/ Block(t) \/ Yield(t) \/ WakeupEarly(t) \/ Wakeup(t) \/ Section(t)
                   \/ Reschedule(t)
        BY <1>0, <4>1 DEF BlockWoken, Block, Yield, WakeupEarly, Wakeup, Section, Reschedule, Exit,
           slcsvars, csvars
      <4>2. CASE PickSync(t) \/ Choose(t) \/ Dispatched(t) \/ Return(t) \/ DispatchRefused(t) \/ Reenter(t)
        BY <1>0, <4>2 DEF PickSync, Choose, Dispatched, Return, DispatchRefused, Reenter, Enter, Exit,
           slcsvars, csvars
      <4>3. CASE EnterSync(t) \/ EnterRead(t) \/ EnterDefer(t) \/ ExitHandover(t) \/ ExitSync(t)
                   \/ ExitRead(t)
        BY <1>0, <4>3 DEF EnterSync, EnterRead, EnterDefer, ExitHandover, ExitSync, ExitRead, ReadLock, Switch
      <4>4. CASE EnterTake(t)
        <5>1. seen[t].owner = NULL /\ lock.owner # NULL
          BY <1>0, <4>4 DEF EnterTake, At, ControlInv, CsIInv, SeenInv
        <5> QED BY <1>0, <4>4, <5>1 DEF EnterTake, Cas
      <4>5. CASE EnterContend(t)
        BY <1>0, <4>5 DEF EnterContend, Cas, ControlInv, CsIInv, WordOK, Word
      <4>6. ~ExitRelease(t)
        BY <1>1, <3>1 DEF ExitRelease, At, Holding, Leaving
      <4> QED BY <1>3, <4>1, <4>2, <4>3, <4>4, <4>5, <4>6 DEF Library, CsStep
    <3> QED BY <1>0, <1>2, <3>2, <3>3, <3>4
  <2> QED BY <2>1, <2>2
<1>4. ASSUME NEW t \in App, Caller(t) PROVE FALSE
  <2>1. curr = t /\ stage[t] = "own"
    BY <1>4, CallerMoves
  <2> QED BY <1>0, <1>1, <2>1
<1>5. ASSUME NEW t \in App, Maker(t) PROVE FALSE
  <2>1. curr = t /\ stage[t] \in {"own", "place"}
    BY <1>5 DEF Maker, Alloc, ParamSet, Place
  <2> QED BY <1>0, <1>1, <2>1
<1>6. CASE SchedLoop
  BY <1>0, <1>1, <1>2, <1>6 DEF SchedLoop, Start, Enter
<1>7. CASE Timer
  BY <1>0, <1>2, <1>7 DEF Timer, schedvars, csvars
<1> QED BY <1>3, <1>4, <1>5, <1>6, <1>7 DEF SchedNext

\* Every call leaves the run queues in order, and somebody on them, or is the last.
LEMMA QueueStep ==
  ASSUME ControlInv, DataInv, SchedNext
  PROVE  QueueInv'
<1> USE SchedFacts DEF In, Become, Inside, App
<1>0. /\ QueueInv /\ PlaceInv /\ WakesInv /\ RunInv /\ TargetInv
      /\ state \in [App -> {FREE, BLOCKED, WOKEN, RUNNABLE}]
      /\ prio \in [App -> Queues \cup {LOWEST}]
      /\ Prios \subseteq Queues
  BY DEF DataInv, DataTypeOK, QueueInv, Queues
<1>q. /\ \A p \in Queues : ToSet(threads[p]) =
           {t \in App \ Moving : prio[t] = p /\ state[t] \notin {FREE, BLOCKED}}
      /\ \A p \in Queues : IsInjective(threads[p])
      /\ \A t \in App \ Moving : prio[t] \in Queues
  BY <1>0 DEF QueueInv, QueuesMatch
<1> USE DEF FREE, BLOCKED, WOKEN, RUNNABLE
\* The run queues stay as they are, and so do the threads that belong on them.
<1>k. ASSUME UNCHANGED <<threads, prio, Moving>>,
             \A u \in App : state'[u] \in {FREE, BLOCKED} <=> state[u] \in {FREE, BLOCKED}
      PROVE  QueueInv'
  <2>1. (SomeQueued \/ LastBlocks)'
    <3>1. CASE SomeQueued
      BY <1>k, <3>1 DEF SomeQueued
    <3>2. CASE LastBlocks
      BY <1>k, <3>2, LastStep
    <3> QED BY <1>0, <3>1, <3>2 DEF QueueInv
  <2>2. QueuesMatch'
    BY <1>q, <1>k DEF QueuesMatch
  <2>3. (\A t \in App \ Moving : prio[t] \in Queues)'
    BY <1>q, <1>k
  <2> QED BY <2>1, <2>2, <2>3 DEF QueueInv
<1>1. ASSUME NEW t \in Thread, Library(t) PROVE QueueInv'
  <2>0. curr = t /\ stage[t] # "place" /\ UNCHANGED Moving
    BY <1>1, LibraryMoves
  <2>m. t # Sched => Moving = {}
    BY <2>0, NoneMoved
  <2>1. CASE BlockWoken(t)
    BY <2>1, <2>0, <1>k, <1>0 DEF BlockWoken, queuevars
  <2>2. CASE WakeupEarly(t)
    <3>1. call[t][2] \in App
      BY <2>2 DEF WakeupEarly
    <3> QED BY <2>2, <2>0, <3>1, <1>k, <1>0 DEF WakeupEarly, Noted, queuevars
  <2>3. CASE Block(t)
    <3>1. /\ t \in App /\ state' = [state EXCEPT ![t] = BLOCKED] /\ threads' = Unqueue(t)
          /\ prio' = prio /\ Moving = {} /\ Moving' = {}
      BY <2>3, <2>0, <2>m, <1>0 DEF Block, ModBlock
    <3>2. \A p \in Queues : /\ ToSet(threads'[p]) = ToSet(threads[p]) \ {t}
                            /\ IsInjective(threads'[p])
      BY <3>1, <1>q, UnqueueOK
    <3>3. QueuesMatch'
      BY <3>1, <3>2, <1>q, <1>0 DEF QueuesMatch
    <3>4. LastBlocks'
      <4>1. lock.owner = t
        BY <2>3 DEF Block, OwnerHolds, Holding
      <4>2. lock' = lock /\ stage' = [stage EXCEPT ![t] = "pick"] /\ state'[t] = BLOCKED
        BY <2>3, <3>1, <1>0 DEF Block, slcsvars, csvars
      <4> QED BY <3>1, <4>1, <4>2 DEF LastBlocks
    <3> QED BY <3>1, <3>3, <3>4, <1>q DEF QueueInv
  <2>4. ASSUME NEW u \in App, threads' = Requeue(u, prio[u]), prio' = prio, Moving = {}, Moving' = {},
               \A v \in App \ {u} : state'[v] = state[v], state'[u] \notin {FREE, BLOCKED}
        PROVE  QueueInv'
    <3>1. prio[u] \in Queues
      BY <1>q, <2>4
    <3>2. threads \in [Queues -> Seq(App)]
      BY SchedFacts
    <3>3. /\ \A q \in Queues :
               /\ ToSet(Requeue(u, prio[u])[q]) =
                    (ToSet(threads[q]) \ {u}) \cup (IF q = prio[u] THEN {u} ELSE {})
               /\ IsInjective(Requeue(u, prio[u])[q])
          /\ Requeue(u, prio[u])[prio[u]] # <<>>
      <4> HIDE DEF App
      <4> QED BY <3>1, <3>2, <1>q, RequeueOK
    <3>4. ASSUME NEW q \in Queues
          PROVE  /\ ToSet(threads'[q]) =
                      {v \in App : prio'[v] = q /\ state'[v] \notin {FREE, BLOCKED}}
                 /\ IsInjective(threads'[q])
      <4>1. ToSet(threads[q]) = {v \in App : prio[v] = q /\ state[v] \notin {FREE, BLOCKED}}
        BY <1>q, <2>4
      <4>2. /\ ToSet(threads'[q]) = (ToSet(threads[q]) \ {u}) \cup (IF q = prio[u] THEN {u} ELSE {})
            /\ IsInjective(threads'[q])
        BY <3>3, <2>4
      <4>3. \A v \in App \ {u} : state'[v] = state[v]
        BY <2>4
      <4> QED BY <4>1, <4>2, <4>3, <2>4
    <3>5. QueuesMatch'
      BY <2>4, <3>4 DEF QueuesMatch
    <3>6. SomeQueued'
      BY <2>4, <3>1, <3>3 DEF SomeQueued
    <3> QED BY <2>4, <3>5, <3>6, <1>q DEF QueueInv
  <2>5. CASE Wakeup(t)
    <3> DEFINE u == call[t][2]
    <3>a. t \in App /\ u \in App /\ Moving = {} /\ Moving' = {}
      BY <2>5, <2>0, <2>m DEF Wakeup
    <3>b. /\ state[u] # RUNNABLE /\ state' = [state EXCEPT ![u] = RUNNABLE]
          /\ call[t][1] = "wakeup" /\ stage[t] = "work"
      BY <2>5 DEF Wakeup
    <3>c. state[u] \in {BLOCKED, WOKEN}
      BY <3>a, <3>b, <1>0 DEF TargetInv
    <3>d. \/ ~Queued(u) /\ threads' = Requeue(u, prio[u]) /\ prio' = prio
          \/ Queued(u) /\ UNCHANGED <<threads, prio>>
      BY <2>5, Zenon DEF Wakeup, ModWakeup, queuevars
    <3> HIDE DEF u
    <3>1. CASE Queued(u)
      <4>1. state[u] = WOKEN
        BY <3>1, <3>a, <3>c, <1>q DEF Queued
      <4> QED BY <3>a, <3>b, <3>d, <3>1, <4>1, <1>k, <1>0
    <3>2. CASE ~Queued(u)
      BY <3>a, <3>b, <3>d, <3>2, <1>0, <2>4
    <3> QED BY <3>1, <3>2
  <2>6. CASE Yield(t)
    <3>1. /\ t \in App /\ Moving = {} /\ Moving' = {} /\ state' = state
          /\ threads' = Requeue(t, prio[t]) /\ prio' = prio
      BY <2>6, <2>0, <2>m DEF Yield, ModYield
    <3>2. state[t] \notin {FREE, BLOCKED}
      BY <2>6, <3>1, <1>0 DEF Yield, RunInv, WakesInv, Owed
    <3> QED BY <3>1, <3>2, <2>4
  <2>7. CASE Reschedule(t) \/ Section(t) \/ Reenter(t) \/ PickSync(t) \/ Choose(t) \/ Dispatched(t)
             \/ DispatchRefused(t) \/ Return(t) \/ (CsStep(t) /\ UNCHANGED schedvars)
    <3>1. UNCHANGED <<state, threads, prio>>
      BY <2>7 DEF Reschedule, Section, Reenter, PickSync, Choose, Dispatched, DispatchRefused, Return,
                  schedvars, queuevars
    <3> QED BY <3>1, <2>0, <1>k
  <2> QED BY <1>1, <2>1, <2>2, <2>3, <2>5, <2>6, <2>7 DEF Library
<1>2. ASSUME NEW t \in App, Caller(t) PROVE QueueInv'
  BY <1>2, <1>k, CallerMoves
<1>3. ASSUME NEW t \in App, Maker(t) PROVE QueueInv'
  <2>0. curr = t /\ t # Sched
    BY <1>3 DEF Maker, Alloc, ParamSet, Place
  <2>1. ASSUME NEW u \in App, stage[t] = "own",
               call' = [call EXCEPT ![t] = <<"param_set", u>>], stage' = [stage EXCEPT ![t] = "place"]
        PROVE  Moving = {} /\ Moving' = {u}
    <3>1. Moving = {} /\ \A v \in App : stage[v] # "place"
      BY <2>0, <2>1, NoneMoved
    <3>2. \A v \in App : stage'[v] = "place" <=> v = t
      BY <2>1, <3>1
    <3>3. call'[t][2] = u
      BY <2>1
    <3> QED BY <3>1, <3>2, <3>3 DEF Moving
  <2>2. ASSUME NEW u \in App, MayMake(t), Alloc(t, u) PROVE QueueInv'
    <3>1. /\ Moving = {} /\ Moving' = {u} /\ state[u] = FREE /\ threads' = threads
          /\ state' = [state EXCEPT ![u] = RUNNABLE] /\ prio' = [prio EXCEPT ![u] = LOWEST]
          /\ SomeQueued
      BY <2>1, <2>2 DEF Alloc, MayMake
    <3>2. QueuesMatch' /\ (\A v \in App \ Moving : prio[v] \in Queues)'
      BY <3>1, <1>q, <1>0 DEF QueuesMatch
    <3>3. SomeQueued'
      BY <3>1, <1>0 DEF SomeQueued
    <3> QED BY <3>2, <3>3 DEF QueueInv
  <2>3. ASSUME NEW u \in App, MayMove(t, u), ParamSet(t, u) PROVE QueueInv'
    <3>1. /\ Moving = {} /\ Moving' = {u} /\ threads' = Unqueue(u) /\ UNCHANGED <<state, prio>>
          /\ u # Best /\ SomeQueued
      BY <2>1, <2>3 DEF ParamSet, TakenOff, MayMove, MayMake
    <3>2. \A p \in Queues : /\ ToSet(threads'[p]) = ToSet(threads[p]) \ {u}
                            /\ IsInjective(threads'[p])
      BY <3>1, <1>q, UnqueueOK
    <3>3. QueuesMatch' /\ (\A v \in App \ Moving : prio[v] \in Queues)'
      BY <3>1, <3>2, <1>q, <1>0 DEF QueuesMatch
    <3>4. SomeQueued'
      BY <3>1, <1>0, <1>q, BestWithout
    <3> QED BY <3>3, <3>4 DEF QueueInv
  <2>4. ASSUME NEW p \in Prios, Place(t, p) PROVE QueueInv'
    <3> DEFINE u == call[t][2]
    <3>a. stage[t] = "place" /\ stage' = [stage EXCEPT ![t] = "own"]
      BY <2>4 DEF Place
    <3>1. /\ u \in App /\ state[u] \in {RUNNABLE, WOKEN}
          /\ \A v \in App : stage[v] = "place" <=> v = t
      BY <3>a, <2>0, <1>0 DEF PlaceInv
    <3>2. Moving = {u}
      <4>1. {v \in App : stage[v] = "place"} = {t}
        BY <3>1, <2>0
      <4> QED BY <4>1 DEF Moving
    <3>3. Moving' = {}
      <4>1. {v \in App : stage'[v] = "place"} = {}
        BY <3>a, <3>1
      <4> QED BY <4>1 DEF Moving
    <3>4. /\ prio' = [prio EXCEPT ![u] = p] /\ state' = state
          /\ threads' = [threads EXCEPT ![p] = Append(threads[p], u)]
      BY <2>4 DEF Place
    <3> HIDE DEF u
    <3>5. p \in Queues /\ \A q \in Queues : u \notin ToSet(threads[q])
      BY <1>0, <1>q, <3>2
    <3>6. /\ Append(threads[p], u) # <<>> /\ IsInjective(Append(threads[p], u))
          /\ ToSet(Append(threads[p], u)) = ToSet(threads[p]) \cup {u}
      <4>1. threads[p] \in Seq(App) /\ IsInjective(threads[p])
        BY SchedFacts, <3>5, <1>q
      <4> HIDE DEF App
      <4> QED BY <4>1, <3>1, <3>5, AppendOK
    <3>7. ASSUME NEW q \in Queues
          PROVE  /\ ToSet(threads'[q]) =
                      {v \in App : prio'[v] = q /\ state'[v] \notin {FREE, BLOCKED}}
                 /\ IsInjective(threads'[q])
      <4>1. ToSet(threads[q]) = {v \in App \ {u} : prio[v] = q /\ state[v] \notin {FREE, BLOCKED}}
        BY <1>q, <3>2
      <4>2. /\ ToSet(threads'[q]) = IF q = p THEN ToSet(threads[q]) \cup {u} ELSE ToSet(threads[q])
            /\ IsInjective(threads'[q])
        BY <3>4, <3>5, <3>6, <1>q
      <4> QED BY <4>1, <4>2, <3>1, <3>4, <1>0
    <3>8. QueuesMatch' /\ (\A v \in App \ Moving : prio[v] \in Queues)'
      BY <3>1, <3>2, <3>3, <3>4, <3>5, <3>7, <1>q, <1>0 DEF QueuesMatch
    <3>9. SomeQueued'
      BY <3>4, <3>5, <3>6 DEF SomeQueued
    <3> QED BY <3>8, <3>9 DEF QueueInv
  <2> QED BY <1>3, <2>2, <2>3, <2>4 DEF Maker
<1>4. CASE SchedLoop
  <2>1. UNCHANGED <<state, threads, prio>> /\ UNCHANGED Moving
    BY <1>4 DEF SchedLoop, Start, queuevars, Moving
  <2> QED BY <2>1, <1>k
<1>5. CASE Timer
  <2>1. UNCHANGED <<state, threads, prio>> /\ UNCHANGED Moving
    BY <1>5 DEF Timer, schedvars, Moving
  <2> QED BY <2>1, <1>k
<1> QED BY <1>1, <1>2, <1>3, <1>4, <1>5 DEF SchedNext

\* The library starts with every thread there is on its run queue.
LEMMA InitData == SchedInit => DataInv /\ StoppedInv
<1> SUFFICES ASSUME SchedInit PROVE DataInv /\ StoppedInv
  OBVIOUS
<1> USE KernelAssumption, SchedAssumption DEF SchedInit, CsInit, KernelInit, NoCall, App,
        FREE, BLOCKED, WOKEN, RUNNABLE
<1>1. DataTypeOK
  BY DEF DataTypeOK, Queues
<1>2. TargetInv /\ WakesInv /\ RunInv /\ PlaceInv /\ SwitchInv /\ StoppedInv
  BY DEF TargetInv, WakesInv, Owed, Twice, RunInv, PlaceInv, SwitchInv, StoppedInv
<1>3. Moving = {}
  BY DEF Moving
<1>4. QueuesMatch
  <2>1. ASSUME NEW p \in Queues
        PROVE  /\ ToSet(threads[p]) = {t \in App : prio[t] = p /\ state[t] \notin {FREE, BLOCKED}}
               /\ IsInjective(threads[p])
    BY FirstOK
  <2> QED BY <2>1, <1>3 DEF QueuesMatch
<1>5. SomeQueued
  <2>1. PICK t \in App : t \notin Young
    OBVIOUS
  <2>2. Prio[t] \in Queues /\ t \in ToSet(threads[Prio[t]])
    BY <2>1, FirstOK DEF Queues
  <2> QED BY <2>2 DEF SomeQueued, ToSet
<1>6. \A t \in App : prio[t] \in Queues
  BY DEF Queues
<1> QED BY <1>1, <1>2, <1>3, <1>4, <1>5, <1>6 DEF DataInv, QueueInv

\* The policy's assertions fail only when a thread is woken again or nobody is left.
LEMMA StoppedStep ==
  ASSUME ControlInv, DataInv, SchedNext
  PROVE  StoppedInv'
<1> USE DEF In, Become, App
<1>0. /\ \A t \in Thread : stage[t] # "aborted"
      /\ QueueInv /\ TargetInv /\ wakes \in [App -> Int]
      /\ state \in [App -> {FREE, BLOCKED, WOKEN, RUNNABLE}]
  BY DEF DataInv, DataTypeOK, SchedNext, Running
<1> USE SchedFacts, <1>0
<1>k. ASSUME \A t \in Thread : stage'[t] # "aborted" PROVE StoppedInv'
  BY <1>k DEF StoppedInv
<1>1. ASSUME NEW t \in Thread, Library(t) PROVE StoppedInv'
  <2>1. CASE BlockWoken(t) \/ Block(t) \/ Yield(t) \/ WakeupEarly(t) \/ Section(t) \/ Reschedule(t)
    BY <1>k, <2>1 DEF BlockWoken, Block, Yield, WakeupEarly, Section, Reschedule
  <2>2. CASE Wakeup(t)
    <3>1. /\ stage[t] = "work" /\ call[t][1] = "wakeup" /\ state[call[t][2]] # RUNNABLE
          /\ curr = t /\ t \in App /\ call[t][2] \in App /\ UNCHANGED call
      BY <2>2 DEF Wakeup, Inside
    <3>2. PICK v \in App : v = call[t][2]
      BY <3>1
    <3>3. CASE Queued(v)
      <4>1. Moving = {}
        BY <3>1, NoneMoved
      <4>2. state[v] = WOKEN
        BY <3>1, <3>2, <3>3, <4>1 DEF QueueInv, QueuesMatch, Queued
      <4>3. wakes[v] >= 1 /\ wakes' = [wakes EXCEPT ![v] = wakes[v] + 1]
        BY <2>2, <3>2, <4>2 DEF Wakeup, DataInv, WakesInv, WOKEN
      <4>4. stage' = [stage EXCEPT ![t] = "aborted"]
        BY <2>2, <3>2, <3>3 DEF Wakeup, ModWakeup
      <4> QED BY <3>1, <3>2, <4>3, <4>4 DEF StoppedInv
    <3>4. CASE ~Queued(v)
      <4>1. stage' = [stage EXCEPT ![t] = "pick"]
        BY <2>2, <3>2, <3>4 DEF Wakeup
      <4> QED BY <1>k, <4>1
    <3> QED BY <3>3, <3>4
  <2>3. CASE Choose(t)
    <3>1. CASE stage' = [stage EXCEPT ![t] = "switch"]
      BY <1>k, <3>1
    <3>2. CASE stage' = [stage EXCEPT ![t] = "aborted"]
      <4>1. ~SomeQueued /\ curr = t /\ stage[t] = "choose" /\ cs[t] = "in" /\ UNCHANGED state
        BY <2>3, <3>2 DEF Choose, StageInv
      <4>2. t # Sched
        BY <4>1 DEF QueueInv, LastBlocks, OwnerHolds, Holding
      <4>3. Moving = {}
        BY <4>1, <4>2, NoneMoved
      <4>4. ASSUME NEW u \in App PROVE state[u] \in {FREE, BLOCKED}
        <5>1. prio[u] \in Queues /\ threads[prio[u]] = <<>>
          BY <4>1, <4>3 DEF QueueInv, SomeQueued
        <5>2. ToSet(threads[prio[u]]) = {}
          BY <5>1 DEF ToSet
        <5> QED BY <4>3, <5>1, <5>2 DEF QueueInv, QueuesMatch
      <4> QED BY <3>2, <4>1, <4>4 DEF StoppedInv
    <3> QED BY <2>3, <3>1, <3>2 DEF Choose
  <2>4. CASE PickSync(t) \/ Dispatched(t) \/ DispatchRefused(t) \/ Return(t)
    BY <1>k, <2>4 DEF PickSync, Dispatched, DispatchRefused, Return
  <2>5. CASE Reenter(t) \/ (CsStep(t) /\ UNCHANGED schedvars)
    BY <1>k, <2>5 DEF Reenter, schedvars
  <2> QED BY <1>1, <2>1, <2>2, <2>3, <2>4, <2>5 DEF Library
<1>2. ASSUME NEW t \in App, Caller(t) PROVE StoppedInv'
  BY <1>2, <1>k DEF Caller, Start
<1>3. ASSUME NEW t \in App, Maker(t) PROVE StoppedInv'
  BY <1>3, <1>k DEF Maker, Alloc, ParamSet, Place
<1>4. CASE SchedLoop
  BY <1>4, <1>k DEF SchedLoop, Start
<1>5. CASE Timer
  BY <1>5, <1>k DEF Timer, schedvars
<1> QED BY <1>1, <1>2, <1>3, <1>4, <1>5 DEF SchedNext

\* The data part of the invariant is inductive under the control part.
LEMMA DataStep ==
  ASSUME ControlInv, DataInv, StoppedInv, [SchedNext]_allvars
  PROVE  DataInv' /\ StoppedInv'
<1>1. CASE SchedNext
  BY <1>1, ControlStep, DataTypeStep, TargetStep, WakesStep, RunStep, PlaceStep, QueueStep, SwitchStep,
     StoppedStep
  DEF DataInv
<1>2. CASE UNCHANGED allvars
  <2>1. UNCHANGED <<curr, fresh, lock, cs, state, threads, prio, call, stage, next, wakes>>
    BY <1>2 DEF allvars, slcsvars, kernelvars, csvars, schedvars
  <2>2. UNCHANGED <<Best, SomeQueued, LastBlocks>>
    BY <2>1, BestSame DEF LastBlocks
  <2>3. UNCHANGED Moving
    BY <2>1 DEF Moving
  <2>4. StoppedInv'
    BY <2>1 DEF StoppedInv
  <2>5. DataTypeOK' /\ TargetInv' /\ WakesInv' /\ RunInv'
    BY <2>1 DEF DataInv, DataTypeOK, TargetInv, WakesInv, Owed, Twice, RunInv
  <2>6. PlaceInv' /\ SwitchInv'
    BY <2>1, <2>2 DEF DataInv, PlaceInv, SwitchInv, Wanted
  <2>7. QueueInv'
    BY <2>1, <2>2, <2>3 DEF DataInv, QueueInv, QueuesMatch
  <2> QED BY <2>4, <2>5, <2>6, <2>7 DEF DataInv
<1> QED BY <1>1, <1>2

\* Who has the processor, who is inside the critical section and whose token is good go
\* together as ControlInv says, for any number of threads and priorities.
THEOREM ControlInvariance == SchedSpec => []ControlInv
<1>1. SchedInit => ControlInv
  BY InitControl
<1>2. ControlInv /\ [SchedNext]_allvars => ControlInv'
  BY ControlStep
<1> QED BY <1>1, <1>2, PTL DEF SchedSpec

\* Only the scheduler thread ever finds the critical section taken: the timer takes the
\* processor from its owner for nobody else.
THEOREM OnlySchedWaits == SchedSpec => [](\A t \in App : cs[t] \notin {"contend", "defer"})
<1>1. ControlInv => \A t \in App : cs[t] \notin {"contend", "defer"}
  BY DEF ControlInv, OwnerInv
<1> QED BY <1>1, ControlInvariance, PTL

\* So do the states of the threads, the run queues and the wakeups.
THEOREM DataInvariance == SchedSpec => [](ControlInv /\ DataInv /\ StoppedInv)
<1>1. SchedInit => ControlInv /\ DataInv /\ StoppedInv
  BY InitControl, InitData
<1>2. ControlInv /\ DataInv /\ StoppedInv /\ [SchedNext]_allvars
      => (ControlInv /\ DataInv /\ StoppedInv)'
  BY ControlStep, DataStep
<1> QED BY <1>1, <1>2, PTL DEF SchedSpec

\* A thread that blocks is not blocked; sl_mod_wakeup's assertion fails only when a thread is
\* woken again before it has used up a wakeup, and that of sl_mod_schedule only when every
\* thread of the application is blocked.
THEOREM SchedAsserts == SchedSpec => []AssertsFailOnly
<1>1. ControlInv /\ DataInv /\ StoppedInv => AssertsFailOnly
  BY SchedFacts DEF AssertsFailOnly, StoppedInv, DataInv, WakesInv, Owed, Inside, In, App
<1> QED BY <1>1, DataInvariance, PTL

\* Every thread is on its run queue and no other, once, exactly when it can run, but for
\* the one that sl_thd_param_set is moving.
THEOREM SchedQueues == SchedSpec => []QueuesMatch
<1>1. DataInv => QueuesMatch
  BY DEF DataInv, QueueInv
<1> QED BY <1>1, DataInvariance, PTL

\* No wakeup is lost and none counts twice, however sl_thd_wakeup and sl_thd_block meet.
THEOREM SchedWakeups == SchedSpec => []WakeupsCount
<1>1. DataInv => WakeupsCount
  BY DEF DataInv, DataTypeOK, WakesInv, WakeupsCount, FREE, BLOCKED, WOKEN, RUNNABLE
<1> QED BY <1>1, DataInvariance, PTL

\* Type correctness of the library; at most two wakeups of a thread are due, a third where
\* an assertion has failed.
THEOREM SchedTypes == SchedSpec => []SchedTypeOK
<1>1. ControlInv /\ DataInv => SchedTypeOK
  <2> SUFFICES ASSUME ControlInv, DataInv PROVE SchedTypeOK
    OBVIOUS
  <2>1. wakes \in [App -> 0..3]
    BY DEF DataInv, DataTypeOK, WakesInv, FREE, BLOCKED, WOKEN, RUNNABLE
  <2> QED BY <2>1 DEF ControlInv, ControlTypeOK, DataInv, DataTypeOK, SchedTypeOK
<1> QED BY <1>1, DataInvariance, PTL

\* The switch that the kernel accepts is to the thread the policy would choose now, or
\* to the one that sl_thd_yield names and that can run.
THEOREM SchedSwitch == SchedSpec => NoStaleSwitch
<1> DEFINE A == \A t \in Thread :
                  stage[t] = "switch" /\ stage'[t] = "away" =>
                    next[t] = IF Wanted(t) THEN call[t][2] ELSE Best
<1>1. ControlInv /\ DataInv /\ [SchedNext]_allvars => [A]_allvars
  <2> SUFFICES ASSUME ControlInv, DataInv, SchedNext, NEW t \in Thread,
                      stage[t] = "switch", stage'[t] = "away"
               PROVE  next[t] = IF Wanted(t) THEN call[t][2] ELSE Best
    OBVIOUS
  <2>1. Dispatched(t)
    <3> USE SchedFacts DEF In, Become, Inside, App
    <3>1. ASSUME NEW u \in Thread, Library(u) PROVE u = t /\ Dispatched(t)
      BY <3>1 DEF Library, BlockWoken, Block, Yield, WakeupEarly, Section, Reschedule, Wakeup, PickSync,
              Choose, DispatchRefused, Dispatched, Return, Reenter, schedvars
    <3>2. ASSUME NEW u \in App, Caller(u) PROVE FALSE
      BY <3>2 DEF Caller, Start
    <3>3. ASSUME NEW u \in App, Maker(u) PROVE FALSE
      BY <3>3 DEF Maker, Alloc, ParamSet, Place
    <3>4. ~SchedLoop /\ ~Timer
      BY DEF SchedLoop, Start, Timer, schedvars
    <3> QED BY <3>1, <3>2, <3>3, <3>4 DEF SchedNext
  <2> QED BY <2>1, RightTarget
<1> QED BY <1>1, DataInvariance, PTL DEF SchedSpec, NoStaleSwitch

-----------------------------------------------------------------------------
(* The abstract scheduler.                                                 *)

LevelNow == [t \in Placed |-> prio[t]]
AsleepNow == {t \in App : state[t] = BLOCKED}
AskedNow == [t \in App |-> IF call[t][1] = "switchto" THEN call[t][2] ELSE NULL]
PromiseKept == [SC!Next]_(SC!schvars)

\* What the steps below need of the data part.
LEMMA PromiseFacts ==
  ASSUME ControlInv, DataInv
  PROVE  /\ state \in [App -> {FREE, BLOCKED, WOKEN, RUNNABLE}]
         /\ prio \in [App -> Queues \cup {LOWEST}]
         /\ wakes \in [App -> Int] /\ NULL \notin Thread /\ Thread = App \cup {Sched}
         /\ TargetInv /\ WakesInv /\ RunInv /\ PlaceInv /\ QueueInv /\ QueuesMatch
         /\ \A t \in Thread : lock.owner = t <=> cs[t] \in Holding
         /\ lock.owner \in Thread \cup {NULL}
<1>1. Thread = App \cup {Sched}
  BY KernelAssumption DEF App
<1> QED
  BY <1>1, NullAssumption
  DEF DataInv, DataTypeOK, QueueInv, ControlInv, CsIInv, OwnerHolds, WordOK, Word

\* A step that leaves what the abstract scheduler sees is a stutter.
LEMMA Stutters ==
  ASSUME curr' = curr, lock'.owner = lock.owner, UNCHANGED <<threads, wakes>>,
         LevelNow' = LevelNow, AsleepNow' = AsleepNow, AskedNow' = AskedNow
  PROVE  PromiseKept
BY DEF PromiseKept, SC!schvars, LevelNow, AsleepNow, AskedNow

\* Who sleeps, and the level of each thread, change with the data of the library only.
LEMMA SameThreads ==
  ASSUME UNCHANGED <<state, prio, Moving>>
  PROVE  LevelNow' = LevelNow /\ AsleepNow' = AsleepNow
<1>1. Placed' = Placed
  BY DEF Placed
<1> QED BY <1>1 DEF LevelNow, AsleepNow

\* sl_cs_enter and sl_cs_exit: the monitor is entered at the compare and swap that takes the
\* word and left at the one that clears it.
LEMMA SectionMaps ==
  ASSUME ControlInv, DataInv, NEW t \in Thread, CsStep(t), UNCHANGED schedvars
  PROVE  PromiseKept
<1> USE SchedFacts, PromiseFacts DEF At, Goto
<1>1. UNCHANGED <<threads, wakes>> /\ LevelNow' = LevelNow /\ AsleepNow' = AsleepNow /\ AskedNow' = AskedNow
  <2>1. UNCHANGED <<state, prio, threads, wakes, call, Moving>>
    BY DEF schedvars, Moving
  <2> QED BY <2>1, SameThreads DEF AskedNow
<1>2. ASSUME SC!Enter(t) \/ SC!Leave(t) \/ SC!Preempt \/ SC!Lend PROVE PromiseKept
  BY <1>2 DEF PromiseKept, SC!Next
<1>3. /\ seen \in [Thread -> Word] /\ lock \in Word
      /\ cs[t] = "take" => seen[t].owner = NULL
  BY DEF ControlInv, CsIInv, WordOK, SeenInv
<1> USE <1>1, <1>3 DEF LevelNow, AsleepNow, AskedNow
<1>4. CASE EnterSync(t) \/ EnterRead(t) \/ ExitSync(t) \/ ExitRead(t)
  BY <1>4, Stutters DEF EnterSync, EnterRead, ExitSync, ExitRead, ReadLock, Sync, kernelvars
<1>5. CASE EnterContend(t)
  <2>1. lock'.owner = lock.owner
    BY <1>5 DEF EnterContend, Cas, Word
  <2> QED BY <1>5, <2>1, Stutters DEF EnterContend, kernelvars
<1>6. CASE EnterTake(t)
  <2>1. curr = t /\ curr' = curr
    BY <1>6 DEF EnterTake, Drop
  <2>2. CASE lock # seen[t]
    BY <1>6, <2>1, <2>2, Stutters DEF EnterTake, Cas
  <2>3. CASE lock = seen[t]
    <3>1. lock.owner = NULL /\ lock'.owner = t
      BY <1>6, <2>3 DEF EnterTake, Cas, Word
    <3>2. SC!Enter(t)
      BY <2>1, <3>1 DEF SC!Enter
    <3> QED BY <3>2, <1>2
  <2> QED BY <2>2, <2>3
<1>7. CASE ExitRelease(t)
  <2>1. curr = t /\ curr' = curr /\ lock.owner = t
    BY <1>7 DEF ExitRelease, Drop, kernelvars, Holding, Leaving
  <2>2. CASE lock # seen[t]
    BY <1>7, <2>1, <2>2, Stutters DEF ExitRelease, Cas
  <2>3. CASE lock = seen[t]
    <3>1. lock'.owner = NULL
      BY <1>7, <2>3 DEF ExitRelease, Cas, Free
    <3>2. SC!Leave(t)
      BY <2>1, <3>1 DEF SC!Leave
    <3> QED BY <3>2, <1>2
  <2> QED BY <2>2, <2>3
<1>8. CASE EnterDefer(t)
  <2>1. t = Sched /\ curr = Sched /\ cs[t] = "defer" /\ lock' = lock
    BY <1>8 DEF EnterDefer, Switch, OwnerInv, App
  <2>2. seen[t].owner = lock.owner /\ lock.owner \in App
    BY <2>1 DEF OwnerInv, ControlInv, CsIInv, SeenInv, App
  <2>3. curr' = curr \/ curr' = lock.owner
    BY <1>8, <2>1, <2>2 DEF EnterDefer, Switch, Accepted, Refused, kernelvars
  <2>4. curr' = lock.owner => SC!Lend
    BY <2>1, <2>2 DEF SC!Lend
  <2> QED BY <2>1, <2>3, <2>4, <1>2, Stutters
<1>9. CASE ExitHandover(t)
  <2>1. lock' = lock /\ (curr' = curr \/ curr' = Sched)
    BY <1>9 DEF ExitHandover, Switch, Accepted, Refused, kernelvars
  <2>2. curr' = Sched => SC!Preempt
    BY <2>1 DEF SC!Preempt
  <2> QED BY <2>1, <2>2, <1>2, Stutters
<1> QED BY <1>4, <1>5, <1>6, <1>7, <1>8, <1>9 DEF CsStep

\* The abstract scheduler takes threads off queues the way the policy does.
LEMMA SameRemove ==
  ASSUME NEW u
  PROVE  SC!Without(u) = Unqueue(u)
<1>1. ASSUME NEW s PROVE SC!RemoveFirst(s, u) = RemoveFirst(s, u)
  BY Zenon DEF SC!RemoveFirst, RemoveFirst, SC!SelectInSeq, SelectInSeq, SC!RemoveAt, RemoveAt,
     SC!Min, Min
<1> QED BY <1>1, Zenon DEF SC!Without, Unqueue

\* Taking a thread off run queues it is not on leaves them alone.
LEMMA NotQueued ==
  ASSUME threads \in [Queues -> Seq(App)], NEW u \in App, ~Queued(u)
  PROVE  Unqueue(u) = threads
<1>1. ASSUME NEW p \in Queues PROVE RemoveFirst(threads[p], u) = threads[p]
  <2>1. threads[p] \in Seq(App) /\ u \notin ToSet(threads[p])
    BY DEF Queued
  <2>2. \A i \in 1..Len(threads[p]) : threads[p][i] # u
    BY <2>1, LenProperties DEF ToSet
  <2> QED BY <2>1, <2>2, RemoveFirstAt
<1> QED BY <1>1 DEF Unqueue

\* What the calls do inside the critical section: each is one step of the abstract scheduler.
LEMMA WorkMaps ==
  ASSUME ControlInv, DataInv, NEW t \in Thread,
         BlockWoken(t) \/ Block(t) \/ WakeupEarly(t) \/ Wakeup(t) \/ Yield(t),
         \A u \in Thread : stage[u] # "aborted"
  PROVE  PromiseKept
<1> USE SchedFacts, PromiseFacts DEF In, Become, Inside, FREE, BLOCKED, WOKEN, RUNNABLE
<1>1. curr = t /\ stage[t] = "work" /\ cs[t] = "in" /\ t \in App
  BY DEF BlockWoken, Block, WakeupEarly, Wakeup, Yield
<1>2. /\ Library(t) /\ UNCHANGED call /\ curr' = curr /\ lock' = lock
      /\ UNCHANGED prio /\ AskedNow' = AskedNow
  BY DEF Library, BlockWoken, Block, WakeupEarly, Wakeup, Yield, Exit, slcsvars, csvars, kernelvars,
         queuevars, ModBlock, ModWakeup, ModYield, AskedNow
<1>3. UNCHANGED Moving /\ Moving = {}
  BY <1>1, <1>2, LibraryMoves, NoneMoved DEF App
<1>4. lock.owner = t
  BY <1>1 DEF Holding
<1>5. state[t] \notin {FREE, BLOCKED}
  BY <1>1 DEF WakesInv, RunInv, Owed, App
<1>6. Placed = {u \in App : state[u] # FREE} /\ Placed' = {u \in App : state'[u] # FREE}
  BY <1>3 DEF Placed
<1>p. SC!Placed = Placed /\ \A u \in Placed : LevelNow[u] = prio[u] /\ prio[u] \in Queues
  BY <1>3, <1>6 DEF SC!Placed, LevelNow, QueueInv
<1>7. ASSUME NEW u \in App, SC!Sleep(u) \/ SC!Yield(u) \/ SC!Wake(t, u) PROVE PromiseKept
  BY <1>1, <1>7 DEF PromiseKept, SC!Next
<1>8. ASSUME \A u \in App : state'[u] = FREE <=> state[u] = FREE
      PROVE  LevelNow' = LevelNow
  BY <1>2, <1>6, <1>8 DEF LevelNow
<1>9. CASE BlockWoken(t)
  <2>1. state[t] = WOKEN /\ state' = [state EXCEPT ![t] = RUNNABLE] /\ UNCHANGED <<threads, wakes>>
    BY <1>9 DEF BlockWoken, queuevars
  <2>2. AsleepNow' = AsleepNow
    BY <2>1, <1>1 DEF AsleepNow
  <2>3. LevelNow' = LevelNow
    BY <2>1, <1>1, <1>8
  <2> QED BY <1>2, <2>1, <2>2, <2>3, Stutters
<1>10. CASE Block(t)
  <2>1. /\ state[t] = RUNNABLE /\ state' = [state EXCEPT ![t] = BLOCKED]
        /\ threads' = Unqueue(t) /\ wakes' = wakes
    BY <1>10 DEF Block, ModBlock
  <2>2. wakes[t] = 0
    <3>1. ~Twice(t) /\ ~Owed(t)
      BY <1>1 DEF Twice, Owed, App
    <3> QED BY <2>1, <1>1, <3>1 DEF WakesInv
  <2>3. AsleepNow' = AsleepNow \cup {t} /\ t \in Placed \ AsleepNow
    BY <2>1, <1>1, <1>6 DEF AsleepNow
  <2>4. LevelNow' = LevelNow
    BY <2>1, <1>1, <1>8
  <2>5. threads' = SC!Without(t)
    BY <2>1, SameRemove
  <2>6. SC!Sleep(t)
    BY <1>1, <1>2, <1>4, <1>p, <2>1, <2>2, <2>3, <2>4, <2>5
    DEF SC!Sleep, SC!InMonitor, LevelNow, AsleepNow, AskedNow
  <2> QED BY <1>1, <1>7, <2>6
<1>11. ASSUME WakeupEarly(t) \/ Wakeup(t) PROVE PromiseKept
  <2>1. PICK u \in App : u = call[t][2] /\ call[t][1] = "wakeup"
    BY <1>1, <1>11 DEF WakeupEarly, Wakeup
  <2>2. wakes' = [wakes EXCEPT ![u] = wakes[u] + 1]
    BY <1>11, <2>1 DEF WakeupEarly, Wakeup
  <2>3. state[u] \in {RUNNABLE, WOKEN, BLOCKED}
    BY <1>1, <2>1 DEF TargetInv
  <2>q. Queued(u) <=> state[u] \in {RUNNABLE, WOKEN}
    BY <1>3, <2>1, <2>3 DEF QueueInv, QueuesMatch, Queued
  <2>4. CASE state[u] \in {RUNNABLE, WOKEN}
    <3>0. \E s \in {RUNNABLE, WOKEN} : state' = [state EXCEPT ![u] = s]
      BY <1>11, <2>1 DEF WakeupEarly, Wakeup, Noted
    <3>1. (\A v \in App \ {u} : state'[v] = state[v]) /\ state'[u] \in {RUNNABLE, WOKEN}
      BY <3>0, <2>1
    <3>t. threads' = threads
      BY <1>11, <2>1, <2>4, <2>q DEF WakeupEarly, Wakeup, ModWakeup, queuevars
    <3>2. LevelNow' = LevelNow
      BY <3>1, <2>1, <2>4, <1>8
    <3>3. AsleepNow' = AsleepNow \ {u} /\ u \notin AsleepNow /\ u \in Placed
      BY <3>1, <2>1, <2>4, <1>6 DEF AsleepNow
    <3>4. SC!Wake(t, u)
      BY <1>1, <1>2, <1>4, <1>p, <2>2, <3>t, <3>2, <3>3
      DEF SC!Wake, SC!InMonitor, LevelNow, AsleepNow, AskedNow
    <3> QED BY <2>1, <3>4, <1>7
  <2>5. CASE state[u] = BLOCKED
    <3>1. /\ state' = [state EXCEPT ![u] = RUNNABLE]
          /\ ModWakeup(u)
      BY <1>1, <1>11, <2>1, <2>5, <2>q DEF WakeupEarly, Wakeup
    <3>2. ~Queued(u) /\ threads' = Requeue(u, prio[u])
      BY <3>1 DEF ModWakeup
    <3>3. LevelNow' = LevelNow
      BY <3>1, <2>1, <2>5, <1>8
    <3>4. AsleepNow' = AsleepNow \ {u} /\ u \in AsleepNow /\ u \in Placed
      BY <3>1, <2>1, <2>5, <1>6 DEF AsleepNow
    <3>5. prio[u] \in Queues /\ LevelNow[u] = prio[u]
      BY <3>4, <1>p
    <3>6. Unqueue(u) = threads
      BY <2>1, <3>2, NotQueued
    <3>7. threads' = SC!Added(threads, u, LevelNow[u])
      BY <3>2, <3>5, <3>6 DEF Requeue, SC!Added
    <3>8. SC!Wake(t, u)
      BY <1>1, <1>2, <1>4, <1>p, <2>2, <3>3, <3>4, <3>7
      DEF SC!Wake, SC!InMonitor, LevelNow, AsleepNow, AskedNow
    <3> QED BY <2>1, <3>8, <1>7
  <2> QED BY <2>3, <2>4, <2>5
<1>12. CASE Yield(t)
  <2>1. threads' = Requeue(t, prio[t]) /\ state' = state /\ wakes' = wakes
    BY <1>12 DEF Yield, ModYield
  <2>2. LevelNow' = LevelNow /\ AsleepNow' = AsleepNow
    BY <2>1, <1>2, <1>3, SameThreads
  <2>3. t \in Placed \ AsleepNow
    BY <1>1, <1>5, <1>6 DEF AsleepNow
  <2>4. threads' = SC!Added(SC!Without(t), t, LevelNow[t])
    BY <2>1, <2>3, <1>p, SameRemove DEF Requeue, SC!Added
  <2>5. SC!Yield(t)
    BY <1>1, <1>2, <1>4, <1>p, <2>1, <2>2, <2>3, <2>4
    DEF SC!Yield, SC!InMonitor, LevelNow, AsleepNow, AskedNow
  <2> QED BY <1>1, <1>7, <2>5
<1> QED BY <1>9, <1>10, <1>11, <1>12

\* The best thread is the one the policy chooses.
LEMMA BestMaps ==
  ASSUME ControlInv, SomeQueued
  PROVE  SC!Best(Best)
<1> DEFINE p == FirstQueue(threads)
<1>1. p \in Queues /\ threads[p] # <<>> /\ \A q \in Queues : threads[q] # <<>> => p <= q
  BY SchedFacts, FirstQueueOK DEF SomeQueued
<1>2. Best = Head(threads[p])
  BY DEF Best, FirstQueue
<1> HIDE DEF p
<1> QED BY <1>1, <1>2 DEF SC!Best

\* A thread that is made, not blocked and not being moved is ready.
LEMMA ReadyMaps ==
  ASSUME ControlInv, QueueInv, NEW u \in App \ Moving, state[u] \notin {FREE, BLOCKED}
  PROVE  SC!Ready(u)
<1>1. prio[u] \in Queues /\ u \in ToSet(threads[prio[u]])
  BY DEF QueueInv, QueuesMatch
<1> QED BY <1>1 DEF SC!Ready, SC!ToSet, ToSet

\* sl_cs_exit_schedule: one step of the abstract scheduler, the switch.
LEMMA SwitchMaps ==
  ASSUME ControlInv, DataInv, NEW t \in Thread, Dispatched(t)
  PROVE  PromiseKept
<1> USE DEF In, Become
<1>0. /\ QueueInv /\ PlaceInv /\ TokenInv /\ OwnerInv /\ StageInv /\ NULL \notin Thread
      /\ \A u \in Thread : lock.owner = u <=> cs[u] \in Holding
      /\ lock.owner \in Thread \cup {NULL} /\ Thread = App \cup {Sched}
  BY SchedFacts, PromiseFacts
<1>1. /\ curr = t /\ stage[t] = "switch" /\ cs[t] = "out" /\ curr' = next[t] /\ lock' = lock
      /\ UNCHANGED <<state, threads, prio, call, wakes>>
  BY DEF Dispatched, Accepted, csvars, queuevars
<1>2. UNCHANGED Moving
  BY LibraryMoves DEF Library
<1>3. LevelNow' = LevelNow /\ AsleepNow' = AsleepNow /\ AskedNow' = AskedNow
  BY <1>1, <1>2, SameThreads DEF AskedNow
<1>4. lock.owner = NULL
  BY <1>0, <1>1 DEF OwnerInv, Holding, Leaving
<1>5. next[t] \in App /\ next[t] = IF Wanted(t) THEN call[t][2] ELSE Best
  BY RightTarget
<1>6. PICK u \in App : u = next[t]
  BY <1>5
<1>7. SC!Best(u) \/ (t \in App /\ AskedNow[t] = u /\ SC!Ready(u))
  <2>1. CASE Wanted(t)
    <3>1. call[t][1] = "switchto" /\ state[u] = RUNNABLE /\ u = call[t][2]
      BY <1>5, <1>6, <2>1 DEF Wanted
    <3>2. t # Sched
      BY <3>1, SchedFacts
    <3>3. Moving = {}
      BY <1>1, <3>2, NoneMoved
    <3>4. SC!Ready(u)
      BY <1>0, <3>1, <3>3, ReadyMaps DEF RUNNABLE, FREE, BLOCKED
    <3> QED BY <1>0, <3>1, <3>2, <3>4 DEF AskedNow
  <2>2. CASE ~Wanted(t)
    <3>1. u = Best /\ Best \in App
      BY <1>0, <1>5, <1>6, <2>2
    <3>2. SC!Best(Best)
      BY <1>0, <1>4, QueuedOutside, BestMaps DEF App
    <3> QED BY <3>1, <3>2 DEF SC!Best
  <2> QED BY <2>1, <2>2
<1>8. SC!Dispatch(u)
  BY <1>1, <1>3, <1>4, <1>6, <1>7 DEF SC!Dispatch, LevelNow, AsleepNow, AskedNow
<1> QED BY <1>8 DEF PromiseKept, SC!Next

\* The rest of a call changes at most what its thread is owed or asks for.
LEMMA ReturnMaps ==
  ASSUME ControlInv, DataInv, NEW t \in Thread,
         \/ Reschedule(t) \/ Section(t) \/ Reenter(t) \/ PickSync(t) \/ Choose(t)
         \/ DispatchRefused(t) \/ Return(t)
  PROVE  PromiseKept
<1> USE DEF In, Become
<1>0. /\ WakesInv /\ RunInv /\ StageInv /\ CallInv /\ TargetInv /\ call \in [Thread -> Calls \X Thread]
      /\ state \in [App -> {FREE, BLOCKED, WOKEN, RUNNABLE}] /\ wakes \in [App -> Int]
      /\ call[Sched][1] = "loop" /\ Thread = App \cup {Sched}
  BY SchedFacts, PromiseFacts
<1>1. curr = t /\ curr' = curr /\ lock' = lock /\ UNCHANGED <<state, threads, prio>>
  BY DEF Reschedule, Section, Reenter, PickSync, Choose, DispatchRefused, Return, Inside, Enter, Exit,
         Sync, Refused, schedvars, slcsvars, csvars, kernelvars, queuevars
<1>2. UNCHANGED Moving
  BY LibraryMoves DEF Library
<1>3. LevelNow' = LevelNow /\ AsleepNow' = AsleepNow
  BY <1>1, <1>2, SameThreads
<1>4. CASE UNCHANGED <<call, wakes>>
  BY <1>1, <1>3, <1>4, Stutters DEF AskedNow
<1>5. ASSUME UNCHANGED wakes, NEW c, c[1] # "switchto", call' = [call EXCEPT ![t] = c]
      PROVE  PromiseKept
  <2>1. CASE t = Sched
    <3>1. AskedNow' = AskedNow
      BY <1>0, <1>5, <2>1 DEF AskedNow, App
    <3> QED BY <1>1, <1>3, <1>5, <3>1, Stutters
  <2>2. CASE t \in App
    <3>1. AskedNow' = [AskedNow EXCEPT ![t] = NULL]
      BY <1>0, <1>5, <2>2 DEF AskedNow, App
    <3>2. SC!Ask(t, NULL)
      BY <1>1, <1>3, <1>5, <3>1 DEF SC!Ask, LevelNow, AsleepNow, AskedNow
    <3> QED BY <2>2, <3>2 DEF PromiseKept, SC!Next
  <2> QED BY <1>0, <2>1, <2>2
<1>6. CASE Reschedule(t) \/ Section(t) \/ Reenter(t) \/ PickSync(t) \/ Choose(t)
  BY <1>4, <1>6 DEF Reschedule, Section, Reenter, PickSync, Choose, schedvars
<1>7. CASE DispatchRefused(t)
  <2>1. UNCHANGED wakes
    BY <1>7 DEF DispatchRefused
  <2>2. CASE call[t][1] = "switchto"
    BY <1>5, <1>7, <2>1, <2>2 DEF DispatchRefused
  <2>3. CASE call[t][1] # "switchto"
    BY <1>0, <1>4, <1>7, <2>1, <2>3 DEF DispatchRefused
  <2> QED BY <2>2, <2>3
<1>8. CASE Return(t)
  <2>1. /\ call' = [call EXCEPT ![t] = NoCall]
        /\ wakes' = IF call[t][1] = "block" THEN [wakes EXCEPT ![t] = wakes[t] - 1] ELSE wakes
        /\ stage[t] \in {"return", "away"}
    BY <1>8 DEF Return
  <2>2. CASE call[t][1] # "block"
    BY <1>5, <2>1, <2>2 DEF NoCall
  <2>3. CASE call[t][1] = "block"
    <3>1. t \in App /\ t # Sched
      BY <1>0, <2>3 DEF App
    <3>2. AskedNow' = AskedNow
      BY <1>0, <2>1, <2>3 DEF AskedNow, NoCall, App
    <3>3. Owed(t) /\ state[t] \notin {FREE, BLOCKED}
      BY <1>0, <1>1, <2>1, <2>3, <3>1 DEF Owed, WakesInv, RunInv
    <3>4. wakes[t] > 0
      BY <1>0, <3>1, <3>3 DEF WakesInv, FREE, BLOCKED, WOKEN, RUNNABLE
    <3>5. Moving = {}
      BY <1>1, <2>1, <3>1, NoneMoved
    <3>6. t \in SC!Placed \ AsleepNow
      BY <3>1, <3>3, <3>5 DEF SC!Placed, Placed, AsleepNow
    <3>7. SC!Return(t)
      BY <1>1, <1>3, <2>1, <2>3, <3>2, <3>4, <3>6 DEF SC!Return, LevelNow, AsleepNow, AskedNow
    <3> QED BY <3>1, <3>7 DEF PromiseKept, SC!Next
  <2> QED BY <2>2, <2>3
<1> QED BY <1>6, <1>7, <1>8

\* A call begins outside the monitor; sl_thd_yield(u) asks for u.
LEMMA CallMaps ==
  ASSUME ControlInv, DataInv, NEW t \in Thread, NEW name, NEW u \in Thread, Start(t, name, u),
         call[t] = NoCall, t = Sched => name = "loop", name = "switchto" => u \in App
  PROVE  PromiseKept
<1> USE DEF In, Become
<1>0. call \in [Thread -> Calls \X Thread] /\ Thread = App \cup {Sched} /\ stage[t] = "own"
  BY SchedFacts, PromiseFacts DEF Start
<1>1. /\ curr = t /\ curr' = curr /\ lock' = lock /\ UNCHANGED <<state, threads, prio, wakes>>
      /\ call' = [call EXCEPT ![t] = <<name, u>>] /\ stage' = [stage EXCEPT ![t] = "work"]
  BY DEF Start, Enter, kernelvars, queuevars
<1>2. UNCHANGED Moving
  <2>1. \A v \in App : stage'[v] = "place" <=> stage[v] = "place"
    BY <1>0, <1>1, SchedFacts
  <2>2. \A v \in App : stage[v] = "place" => call'[v] = call[v]
    BY <1>0, <1>1, SchedFacts
  <2> QED BY <2>1, <2>2 DEF Moving
<1>3. LevelNow' = LevelNow /\ AsleepNow' = AsleepNow
  BY <1>1, <1>2, SameThreads
<1>4. CASE name # "switchto"
  <2>1. AskedNow' = AskedNow
    BY <1>0, <1>1, <1>4 DEF AskedNow, NoCall, App
  <2> QED BY <1>1, <1>3, <2>1, Stutters
<1>5. CASE name = "switchto"
  <2>1. t \in App /\ u \in App
    BY <1>0, <1>5
  <2>2. AskedNow' = [AskedNow EXCEPT ![t] = u]
    BY <1>0, <1>1, <1>5, <2>1 DEF AskedNow, App
  <2>3. SC!Ask(t, u)
    BY <1>1, <1>3, <2>2 DEF SC!Ask, LevelNow, AsleepNow, AskedNow
  <2> QED BY <2>1, <2>3 DEF PromiseKept, SC!Next
<1> QED BY <1>4, <1>5

\* A thread that is made or moved has no level until it is put on a run queue.
LEMMA MakerMaps ==
  ASSUME ControlInv, DataInv, NEW t \in App, Maker(t)
  PROVE  PromiseKept
<1> USE DEF In, Become
<1>0. /\ call \in [Thread -> Calls \X Thread] /\ Thread = App \cup {Sched} /\ Sched \notin App
      /\ stage \in [Thread -> Stages] /\ t \in Thread /\ NULL \notin Thread
      /\ state \in [App -> {FREE, BLOCKED, WOKEN, RUNNABLE}] /\ prio \in [App -> Queues \cup {LOWEST}]
      /\ TargetInv /\ PlaceInv /\ QueueInv /\ StageInv /\ CallInv
      /\ threads \in [Queues -> Seq(App)]
      /\ \A u \in Thread : lock.owner = u <=> cs[u] \in Holding
      /\ Prios \subseteq Queues
  BY SchedFacts, PromiseFacts DEF App, Queues
<1>1. curr = t /\ curr' = curr /\ lock' = lock /\ wakes' = wakes /\ stage[t] \in {"own", "place"}
  BY DEF Maker, Alloc, ParamSet, Place, slcsvars, csvars, kernelvars
<1>2. lock.owner # t
  BY <1>0, <1>1 DEF StageInv, Holding, Leaving
<1>3. \A v \in App : stage[v] = "place" => v = t
  BY <1>0, <1>1 DEF PlaceInv
<1>4. AskedNow' = AskedNow
  <2>1. PICK c : c[1] # "switchto" /\ call' = [call EXCEPT ![t] = c]
    BY DEF Maker, Alloc, ParamSet, Place, NoCall
  <2>2. call[t][1] # "switchto"
    BY <1>0, <1>1 DEF TargetInv, CallInv, NoCall
  <2> QED BY <1>0, <2>1, <2>2 DEF AskedNow
<1>5. SC!Placed = Placed
  BY DEF SC!Placed
<1>m. ASSUME NEW u \in App, stage[t] = "own",
             call' = [call EXCEPT ![t] = <<"param_set", u>>], stage' = [stage EXCEPT ![t] = "place"]
      PROVE  Moving = {} /\ Moving' = {u}
  <2>1. \A v \in App : stage[v] # "place"
    BY <1>3, <1>m
  <2>2. {v \in App : stage'[v] = "place"} = {t}
    BY <1>0, <1>m, <2>1
  <2>3. call'[t][2] = u
    BY <1>0, <1>m
  <2> QED BY <2>1, <2>2, <2>3 DEF Moving
<1>6. ASSUME NEW u \in App, MayMake(t), Alloc(t, u) PROVE PromiseKept
  <2>1. /\ state[u] = FREE /\ state' = [state EXCEPT ![u] = RUNNABLE]
        /\ prio' = [prio EXCEPT ![u] = LOWEST] /\ threads' = threads
    BY <1>6 DEF Alloc
  <2>2. Moving = {} /\ Moving' = {u}
    BY <1>6, <1>m DEF Alloc
  <2>3. Placed' = Placed /\ u \notin Placed
    BY <1>0, <2>1, <2>2 DEF Placed, FREE, RUNNABLE
  <2>4. LevelNow' = LevelNow
    <3>1. \A v \in Placed : prio'[v] = prio[v]
      BY <1>0, <2>1, <2>3 DEF Placed
    <3> QED BY <2>3, <3>1 DEF LevelNow
  <2>5. AsleepNow' = AsleepNow
    BY <1>0, <2>1 DEF AsleepNow, FREE, RUNNABLE, BLOCKED
  <2> QED BY <1>1, <1>4, <2>1, <2>4, <2>5, Stutters
<1>7. ASSUME NEW u \in App, MayMove(t, u), ParamSet(t, u) PROVE PromiseKept
  <2>1. /\ threads' = Unqueue(u) /\ UNCHANGED <<state, prio>>
        /\ state[u] \in {RUNNABLE, WOKEN} /\ u # t /\ Best = t /\ SomeQueued
    BY <1>7 DEF ParamSet, TakenOff, MayMove, MayMake
  <2>2. Moving = {} /\ Moving' = {u}
    BY <1>7, <1>m DEF ParamSet
  <2>3. Placed' = Placed \ {u} /\ u \in Placed \ AsleepNow
    BY <2>1, <2>2 DEF Placed, AsleepNow, RUNNABLE, WOKEN, FREE, BLOCKED
  <2>4. LevelNow' = [v \in Placed \ {u} |-> LevelNow[v]] /\ AsleepNow' = AsleepNow
    BY <2>1, <2>3 DEF LevelNow, AsleepNow
  <2>5. threads' = SC!Without(u)
    BY <2>1, SameRemove
  <2>6. SC!Best(t)
    BY <1>0, <2>1, BestMaps DEF SC!Best
  <2>7. SC!TakeOff(t, u)
    BY <1>1, <1>2, <1>4, <1>5, <2>1, <2>3, <2>4, <2>5, <2>6
    DEF SC!TakeOff, LevelNow, AsleepNow, AskedNow
  <2> QED BY <2>7 DEF PromiseKept, SC!Next
<1>8. ASSUME NEW p \in Prios, Place(t, p) PROVE PromiseKept
  <2>1. PICK u \in App : u = call[t][2]
    BY <1>0, <1>8, SchedFacts DEF Place
  <2>2. /\ stage[t] = "place" /\ stage' = [stage EXCEPT ![t] = "own"]
        /\ prio' = [prio EXCEPT ![u] = p] /\ state' = state
        /\ threads' = [threads EXCEPT ![p] = Append(threads[p], u)]
    BY <1>8, <2>1 DEF Place
  <2>3. state[u] \in {RUNNABLE, WOKEN} /\ u # t /\ Best = t /\ p \in Queues
    BY <1>0, <2>1, <2>2 DEF PlaceInv
  <2>4. Moving = {u} /\ Moving' = {}
    <3>1. {v \in App : stage[v] = "place"} = {t} /\ {v \in App : stage'[v] = "place"} = {}
      BY <1>0, <1>3, <2>2
    <3> QED BY <2>1, <3>1 DEF Moving
  <2>5. Placed' = Placed \cup {u} /\ u \notin Placed
    BY <2>2, <2>3, <2>4 DEF Placed, RUNNABLE, WOKEN, FREE
  <2>6. AsleepNow' = AsleepNow
    BY <2>2 DEF AsleepNow
  <2>7. LevelNow' = [v \in Placed \cup {u} |-> IF v = u THEN p ELSE LevelNow[v]]
    <3>1. \A v \in Placed : prio'[v] = prio[v] /\ v # u
      BY <1>0, <2>2, <2>5 DEF Placed
    <3>2. prio'[u] = p
      BY <1>0, <2>2
    <3> QED BY <2>5, <3>1, <3>2 DEF LevelNow
  <2>8. threads' = SC!Added(threads, u, p)
    BY <2>2 DEF SC!Added
  <2>9. SC!Best(t)
    <3>1. lock.owner \notin App
      BY <1>0, <2>2 DEF PlaceInv
    <3> QED BY <1>0, <2>3, <3>1, QueuedOutside, BestMaps DEF SC!Best
  <2>10. SC!PutOn(t, u, p)
    BY <1>1, <1>2, <1>4, <1>5, <2>5, <2>6, <2>7, <2>8, <2>9
    DEF SC!PutOn, LevelNow, AsleepNow, AskedNow
  <2> QED BY <2>3, <2>10 DEF PromiseKept, SC!Next
<1> QED BY <1>6, <1>7, <1>8 DEF Maker

\* Every step of the library is one of the abstract scheduler, or leaves what it sees.
LEMMA PromiseStep ==
  ASSUME ControlInv, DataInv, [SchedNext]_allvars
  PROVE  PromiseKept
<1>0. /\ call[Sched] = NoCall /\ TargetInv /\ Thread = App \cup {Sched} /\ Sched \notin App
      /\ NoCall[1] = "loop"
  BY SchedFacts, PromiseFacts DEF CallInv, App, NoCall
<1>1. ASSUME NEW t \in Thread, Library(t), SchedNext PROVE PromiseKept
  <2>1. \A u \in Thread : stage[u] # "aborted"
    BY <1>1 DEF SchedNext, Running
  <2> QED BY <1>1, <2>1, WorkMaps, SectionMaps, SwitchMaps, ReturnMaps DEF Library
<1>2. ASSUME NEW t \in App, Caller(t) PROVE PromiseKept
  <2>1. PICK name : \E v \in App : Start(t, name, v)
    BY <1>2 DEF Caller
  <2>u. PICK u \in App : Start(t, name, u)
    BY <2>1
  <2>2. t # Sched /\ t \in Thread /\ u \in Thread /\ call[t] = NoCall
    BY <1>0, <2>u DEF TargetInv, Start, In
  <2> QED BY <2>u, <2>2, CallMaps
<1>3. ASSUME NEW t \in App, Maker(t) PROVE PromiseKept
  BY <1>3, MakerMaps
<1>4. CASE SchedLoop
  BY <1>0, <1>4, CallMaps, KernelAssumption DEF SchedLoop
<1>5. CASE Timer
  <2>1. UNCHANGED <<state, prio, threads, wakes, call, stage, lock>> /\ curr' = Sched
    BY <1>5 DEF Timer, Interrupt, schedvars, csvars
  <2>2. UNCHANGED Moving /\ AskedNow' = AskedNow
    BY <2>1 DEF Moving, AskedNow
  <2>3. LevelNow' = LevelNow /\ AsleepNow' = AsleepNow
    BY <2>1, <2>2, SameThreads
  <2>4. SC!Preempt
    BY <2>1, <2>2, <2>3 DEF SC!Preempt, LevelNow, AsleepNow, AskedNow
  <2> QED BY <2>4 DEF PromiseKept, SC!Next
<1>6. CASE UNCHANGED allvars
  <2>1. UNCHANGED <<state, prio, threads, wakes, call, stage, lock, curr>>
    BY <1>6 DEF allvars, slcsvars, kernelvars, csvars, schedvars
  <2>2. UNCHANGED Moving /\ AskedNow' = AskedNow
    BY <2>1 DEF Moving, AskedNow
  <2> QED BY <2>1, <2>2, SameThreads, Stutters
<1> QED BY <1>1, <1>2, <1>3, <1>4, <1>5, <1>6 DEF SchedNext

\* At the start every thread there is has a level, is on its queue, and none sleeps.
LEMMA PromiseInit == SchedInit => SC!Init
<1> SUFFICES ASSUME SchedInit PROVE SC!Init
  OBVIOUS
<1>a. stage = [t \in Thread |-> "own"]
  BY DEF SchedInit
<1>b. ASSUME NEW t \in App PROVE stage[t] # "place"
  <2>1. stage[t] = "own"
    BY <1>a, Zenon DEF App
  <2> QED BY <2>1
<1> USE DEF SchedInit, CsInit, KernelInit, FREE, BLOCKED, RUNNABLE
<1>1. ControlInv /\ DataInv
  BY InitControl, InitData
<1>2. QueuesMatch /\ Moving = {} /\ \A t \in App : prio[t] \in Queues
  <2>1. Moving = {}
    BY <1>b DEF Moving
  <2> QED BY <1>1, <2>1 DEF DataInv, QueueInv
<1>3. curr = Sched /\ lock.owner = NULL
  BY DEF Free
<1>4. Placed = {t \in App : state[t] # FREE} /\ Placed \subseteq App
  BY <1>2 DEF Placed
<1>5. LevelNow \in [Placed -> Queues] /\ SC!Placed = Placed
  BY <1>2, <1>4 DEF LevelNow, SC!Placed
<1>6. AsleepNow = {}
  BY DEF AsleepNow
<1>7. ASSUME NEW p \in Queues
      PROVE  /\ SC!ToSet(threads[p]) = {t \in SC!Placed : LevelNow[t] = p}
             /\ SC!IsInjective(threads[p])
  <2>1. /\ ToSet(threads[p]) = {t \in App : prio[t] = p /\ state[t] \notin {FREE, BLOCKED}}
        /\ IsInjective(threads[p])
    BY <1>2 DEF QueuesMatch
  <2>2. {t \in Placed : LevelNow[t] = p} = {t \in App : prio[t] = p /\ state[t] \notin {FREE, BLOCKED}}
    BY <1>4 DEF LevelNow
  <2>3. SC!ToSet(threads[p]) = ToSet(threads[p]) /\ SC!IsInjective(threads[p]) = IsInjective(threads[p])
    BY DEF SC!ToSet, ToSet, SC!IsInjective, IsInjective
  <2> QED BY <1>5, <2>1, <2>2, <2>3
<1>8. AskedNow = [t \in App |-> NULL]
  BY DEF AskedNow, NoCall, App
<1>9. wakes = [t \in App |-> 0]
  OBVIOUS
<1> QED
  BY <1>3, <1>4, <1>5, <1>6, <1>7, <1>8, <1>9
  DEF SC!Init, LevelNow, AsleepNow, AskedNow

\* The library implements the abstract scheduler, for any threads and priorities and
\* with a timer that fires anywhere: the lock word, the tokens, the refused switches, the
\* WOKEN state and the retries are not to be seen.
THEOREM KeepsSchedulerPromise == SchedSpec => SchedulerPromise
<1>1. ControlInv /\ DataInv /\ [SchedNext]_allvars => [SC!Next]_(SC!schvars)
  BY PromiseStep DEF PromiseKept
<1> QED BY <1>1, PromiseInit, DataInvariance, PTL DEF SchedSpec, SchedulerPromise, SC!Spec
=============================================================================
