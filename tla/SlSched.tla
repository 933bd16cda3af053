------------------------------- MODULE SlSched -------------------------------
(***************************************************************************)
(* The scheduling library (scheddev/sl.c, sl.h) with the fixed priority    *)
(* policy (sl_mod_fprr.c): kernel threads that block, wake each other and  *)
(* yield, the loop of the scheduler thread, and the timer.                 *)
(*                                                                         *)
(* The library's data is changed inside the critical section of SlCs, each *)
(* call's changes in one action.  Finding the next thread and switching to *)
(* it are apart: the critical section is left in between, and what keeps a *)
(* late switch from being carried out is the scheduler token, taken first. *)
(*                                                                         *)
(* Threads are made, and given another priority, outside the critical       *)
(* section (lwt_kthd_create, sl_thd_param_set).                             *)
(*                                                                         *)
(* The scheduler thread is on no run queue; the kernel switches to it when *)
(* the timer expires.  Threads of the kernel that wait in the kernel, and  *)
(* the notifications cos_sched_rcv gives of them, are not modelled.        *)
(*                                                                         *)
(* An assertion that fails stops the program.                              *)
(***************************************************************************)
EXTENDS SlCs, SequencesExt

CONSTANTS Prio,      \* the first priority of each thread, 0 the highest
          Prios,     \* the priorities that are given at run time
          LOWEST,    \* SL_FPRR_LOWEST
          Young      \* threads that are made at run time

App == Thread \ {Sched}
ASSUME SchedAssumption ==
  /\ IsFiniteSet(Thread)
  /\ Prio \in [App -> Nat]
  /\ Prios \subseteq Nat
  /\ Young \subseteq App
  /\ App \ Young # {}   \* sl_mod_schedule finds a thread from the start

FREE     == "SL_THD_FREE"
BLOCKED  == "SL_THD_BLOCKED"
WOKEN    == "SL_THD_WOKEN"
RUNNABLE == "SL_THD_RUNNABLE"

VARIABLES
  state,     \* sl_thd.state
  threads,   \* the run queues, one per priority
  prio,      \* sl_thd_policy.priority
  call,      \* the library call a thread is in and the thread it names
  stage,     \* where it is in it
  next,      \* the thread sl_cs_exit_schedule has decided to switch to
  wakes      \* history: wakeups of a thread less its returns from sl_thd_block

schedvars == <<state, threads, prio, call, stage, next, wakes>>
queuevars == <<threads, prio>>
allvars == <<slcsvars, schedvars>>

Queues == {Prio[t] : t \in App} \cup Prios
Queued(t) == \E p \in Queues : t \in ToSet(threads[p])

\* own: outside the library; place: in sl_thd_param_set; work: entering the critical
\* section, or inside it to do what the call is for; pick, choose, switch:
\* sl_cs_exit_schedule; away: its switch has been carried out; return: in the
\* sl_cs_exit a call ends with.
Stages == {"own", "place", "work", "pick", "choose", "switch", "away", "return", "aborted"}
Calls  == {"param_set", "block", "wakeup", "yield", "switchto", "cs", "loop"}

NoCall == <<"loop", Sched>>

SchedTypeOK ==
  /\ CsTypeOK
  /\ state \in [App -> {FREE, BLOCKED, WOKEN, RUNNABLE}]
  /\ threads \in [Queues -> Seq(App)]
  /\ prio \in [App -> Queues \cup {LOWEST}]
  /\ call \in [Thread -> Calls \X Thread]
  /\ stage \in [Thread -> Stages]
  /\ next \in [Thread -> Thread]
  /\ wakes \in [App -> 0..3]

\* sl_init, and each thread there is from the start allocated and put on the run queue
\* of its priority; the calling thread is the scheduler thread and goes into
\* sl_sched_loop.
First == [p \in Queues |-> SetToSeq({t \in App \ Young : Prio[t] = p})]
SchedInit ==
  /\ CsInit
  /\ state = [t \in App |-> IF t \in Young THEN FREE ELSE RUNNABLE]
  /\ threads = First
  /\ prio = Prio
  /\ call = [t \in Thread |-> NoCall]
  /\ stage = [t \in Thread |-> "own"]
  /\ next = [t \in Thread |-> Sched]
  /\ wakes = [t \in App |-> 0]

In(t, s) == curr = t /\ stage[t] = s
Become(t, s) == stage' = [stage EXCEPT ![t] = s]

-----------------------------------------------------------------------------
(* The policy, sl_mod_fprr.c *)

\* sl_mod_schedule, when some thread is on a run queue; it asserts that one is.
SomeQueued == \E p \in Queues : threads[p] # <<>>
Best ==
  Head(threads[CHOOSE p \in Queues :
    threads[p] # <<>> /\ \A q \in Queues : threads[q] # <<>> => p <= q])

BugStaysQueued(t) == threads
Unqueue(t) == [p \in Queues |-> RemoveFirst(threads[p], t)]
Requeue(t, p) == [Unqueue(t) EXCEPT ![p] = Append(@, t)]
ModBlock(t) == threads' = Unqueue(t) /\ UNCHANGED prio
ModWakeup(t) == ~Queued(t) /\ threads' = Requeue(t, prio[t]) /\ UNCHANGED prio
ModYield(t) == threads' = Requeue(t, prio[t]) /\ UNCHANGED prio

-----------------------------------------------------------------------------
(* Making a thread, and its priority: outside the critical section. *)

\* sl_thd_alloc: the thread can run, but is on no run queue.
Alloc(t, u) ==
  /\ In(t, "own")
  /\ state[u] = FREE
  /\ state' = [state EXCEPT ![u] = RUNNABLE]
  /\ prio' = [prio EXCEPT ![u] = LOWEST]
  /\ call' = [call EXCEPT ![t] = <<"param_set", u>>]
  /\ Become(t, "place")
  /\ UNCHANGED <<slcsvars, threads, next, wakes>>

\* sl_thd_param_set takes a thread off its run queue ...
BugStays(u) == threads
TakenOff(u) == Unqueue(u)
ParamSet(t, u) ==
  /\ In(t, "own")
  /\ threads' = TakenOff(u)
  /\ call' = [call EXCEPT ![t] = <<"param_set", u>>]
  /\ Become(t, "place")
  /\ UNCHANGED <<slcsvars, state, prio, next, wakes>>

\* ... and puts it at the end of another.
Place(t, p) ==
  LET u == call[t][2] IN
  /\ In(t, "place")
  /\ prio' = [prio EXCEPT ![u] = p]
  /\ threads' = [threads EXCEPT ![p] = Append(@, u)]
  /\ call' = [call EXCEPT ![t] = NoCall]
  /\ Become(t, "own")
  /\ UNCHANGED <<slcsvars, state, next, wakes>>

-----------------------------------------------------------------------------
(* The calls.  Start enters the critical section, Work is what is done in it. *)

Start(t, name, u) ==
  /\ In(t, "own")
  /\ Enter(t)
  /\ call' = [call EXCEPT ![t] = <<name, u>>]
  /\ Become(t, "work")
  /\ UNCHANGED <<state, queuevars, next, wakes>>

Inside(t, name) == In(t, "work") /\ cs[t] = "in" /\ call[t][1] = name

\* sl_thd_block: a wakeup that came first is used up.
BlockWoken(t) ==
  /\ Inside(t, "block")
  /\ state[t] = WOKEN
  /\ state' = [state EXCEPT ![t] = RUNNABLE]
  /\ Exit(t)
  /\ Become(t, "return")
  /\ UNCHANGED <<queuevars, call, next, wakes>>
Block(t) ==
  /\ Inside(t, "block")
  /\ state[t] = RUNNABLE
  /\ state' = [state EXCEPT ![t] = BLOCKED]
  /\ ModBlock(t)
  /\ Become(t, "pick")
  /\ UNCHANGED <<slcsvars, call, next, wakes>>

BugNotNoted(u) == state
Noted(u) == [state EXCEPT ![u] = WOKEN]

\* sl_thd_wakeup: a thread that is not blocked yet will not block.
WakeupEarly(t) ==
  LET u == call[t][2] IN
  /\ Inside(t, "wakeup")
  /\ state[u] = RUNNABLE
  /\ state' = Noted(u)
  /\ wakes' = [wakes EXCEPT ![u] = @ + 1]
  /\ Exit(t)
  /\ Become(t, "return")
  /\ UNCHANGED <<queuevars, call, next>>
Wakeup(t) ==
  LET u == call[t][2] IN
  /\ Inside(t, "wakeup")
  /\ state[u] # RUNNABLE
  /\ state' = [state EXCEPT ![u] = RUNNABLE]
  /\ wakes' = [wakes EXCEPT ![u] = @ + 1]
  /\ \/ ModWakeup(u) /\ Become(t, "pick")
     \/ Queued(u) /\ UNCHANGED queuevars /\ Become(t, "aborted")
  /\ UNCHANGED <<slcsvars, call, next>>

\* sl_thd_yield(0)
Yield(t) ==
  /\ Inside(t, "yield")
  /\ ModYield(t)
  /\ Become(t, "pick")
  /\ UNCHANGED <<slcsvars, state, call, next, wakes>>

\* sl_thd_yield(u), and one round of sl_sched_loop: the critical section is only
\* entered for sl_cs_exit_schedule.
Reschedule(t) ==
  /\ Inside(t, "switchto") \/ Inside(t, "loop")
  /\ Become(t, "pick")
  /\ UNCHANGED <<slcsvars, state, queuevars, call, next, wakes>>

\* sl_cs_enter and sl_cs_exit around something else.
Section(t) ==
  /\ Inside(t, "cs")
  /\ Exit(t)
  /\ Become(t, "return")
  /\ UNCHANGED <<state, queuevars, call, next, wakes>>

-----------------------------------------------------------------------------
(* sl_cs_exit_schedule *)

\* The critical section is entered again when a switch has been refused.
Reenter(t) ==
  /\ In(t, "pick")
  /\ Enter(t)
  /\ UNCHANGED schedvars

\* The token first ...
PickSync(t) ==
  /\ In(t, "pick")
  /\ cs[t] = "in"
  /\ Sync(<<t, "schedule">>)
  /\ Become(t, "choose")
  /\ UNCHANGED <<csvars, state, queuevars, call, next, wakes>>

\* ... then the thread to switch to, and out of the critical section ...
Wanted(t) == call[t][1] = "switchto" /\ state[call[t][2]] = RUNNABLE
Choose(t) ==
  /\ In(t, "choose")
  /\ \/ /\ Wanted(t)
        /\ next' = [next EXCEPT ![t] = call[t][2]]
        /\ Exit(t)
        /\ Become(t, "switch")
     \/ /\ ~Wanted(t)
        /\ SomeQueued
        /\ next' = [next EXCEPT ![t] = Best]
        /\ Exit(t)
        /\ Become(t, "switch")
     \/ /\ ~Wanted(t)
        /\ ~SomeQueued
        /\ Become(t, "aborted")
        /\ UNCHANGED <<slcsvars, next>>
  /\ UNCHANGED <<state, queuevars, call, wakes>>

BugSyncAtSwitch(t) ==
  /\ In(t, "switch")
  /\ cs[t] = "out"
  /\ curr' = next[t] /\ fresh' = {} /\ before' = {}
  /\ Become(t, "away")
  /\ UNCHANGED <<csvars, state, queuevars, call, next, wakes>>

\* ... and the switch.  It is tried again until it is carried out, a switch to a
\* named thread only once; the scheduler thread goes around its loop.
Dispatched(t) ==
  /\ In(t, "switch")
  /\ cs[t] = "out"
  /\ Accepted(<<t, "schedule">>, next[t])
  /\ Become(t, "away")
  /\ UNCHANGED <<csvars, state, queuevars, call, next, wakes>>
DispatchRefused(t) ==
  /\ In(t, "switch")
  /\ cs[t] = "out"
  /\ Refused(<<t, "schedule">>)
  /\ Become(t, IF t = Sched THEN "own" ELSE "pick")
  /\ call' = [call EXCEPT ![t] = IF @[1] = "switchto" THEN <<"cs", t>> ELSE @]
  /\ UNCHANGED <<csvars, state, queuevars, next, wakes>>

\* The call returns: at the end of its sl_cs_exit, or when a thread that has given
\* the processor away has it again.
Return(t) ==
  /\ In(t, "return") \/ In(t, "away")
  /\ cs[t] = "out"
  /\ Become(t, "own")
  /\ call' = [call EXCEPT ![t] = NoCall]
  /\ next' = [next EXCEPT ![t] = Sched]
  /\ wakes' = IF call[t][1] = "block" THEN [wakes EXCEPT ![t] = @ - 1] ELSE wakes
  /\ UNCHANGED <<slcsvars, state, queuevars>>

-----------------------------------------------------------------------------
Library(t) ==
  \/ BlockWoken(t) \/ Block(t) \/ WakeupEarly(t) \/ Wakeup(t) \/ Yield(t)
  \/ Reschedule(t) \/ Section(t)
  \/ Reenter(t) \/ PickSync(t) \/ Choose(t) \/ Dispatched(t) \/ DispatchRefused(t)
  \/ Return(t)
  \/ CsStep(t) /\ UNCHANGED schedvars

\* Threads are made and moved by the thread the policy would choose, so that nobody
\* else changes the run queues meanwhile; a blocked one is not moved.
MayMake(t) == In(t, "own") /\ SomeQueued /\ Best = t
MayMove(t, u) == MayMake(t) /\ u # t /\ u \in Young /\ state[u] \in {RUNNABLE, WOKEN}

Caller(t) ==
  \/ Start(t, "block", t)
  \/ \E u \in App : state[u] # FREE /\ Start(t, "wakeup", u)
  \/ Start(t, "yield", t)
  \/ \E u \in App \ {t} : state[u] # FREE /\ Start(t, "switchto", u)
  \/ Start(t, "cs", t)

Maker(t) ==
  \/ \E u \in App : MayMake(t) /\ Alloc(t, u)
  \/ \E u \in App : MayMove(t, u) /\ ParamSet(t, u)
  \/ \E p \in Prios : Place(t, p)

\* A round of sl_sched_loop.
SchedLoop == Start(Sched, "loop", Sched)

\* The timer.
Timer == curr # Sched /\ Interrupt(Sched) /\ UNCHANGED <<csvars, schedvars>>

\* No assertion has failed.
Running == \A t \in Thread : stage[t] # "aborted"

SchedNext ==
  /\ Running
  /\ \/ \E t \in Thread : Library(t)
     \/ \E t \in App : Caller(t)
     \/ \E t \in App : Maker(t)
     \/ SchedLoop
     \/ Timer
SchedSpec == SchedInit /\ [][SchedNext]_allvars

-----------------------------------------------------------------------------
(* Properties *)

\* What sl_thd_block asserts (sl.c:67) always holds.  Two other assertions can fail,
\* and each in one case only: that of sl_mod_wakeup when a thread is woken again before
\* it has used up a wakeup, that of sl_mod_schedule when nobody is left to run.
AssertsFailOnly ==
  \A t \in Thread :
    /\ Inside(t, "block") => state[t] # BLOCKED
    /\ stage[t] = "aborted" =>
         \/ call[t][1] = "wakeup" /\ wakes[call[t][2]] >= 2
         \/ \A u \in App : state[u] \in {FREE, BLOCKED}

\* A thread is on its run queue and no other, once, exactly when it is made and not
\* blocked, but for the one that sl_thd_param_set is moving.
Moving == {call[t][2] : t \in {u \in App : stage[u] = "place"}}
QueuesMatch ==
  \A p \in Queues :
    /\ ToSet(threads[p]) =
         {t \in App \ Moving : prio[t] = p /\ state[t] \notin {FREE, BLOCKED}}
    /\ IsInjective(threads[p])

\* Every wakeup counts once: none is lost, so a thread with one to its credit does
\* not stay blocked, and sl_thd_block returns only to a thread that was woken.
WakeupsCount ==
  \A t \in App : wakes[t] >= 0 /\ (state[t] = BLOCKED => wakes[t] = 0)

\* A switch that is carried out is the one the policy would choose now, however long
\* ago it was decided.
NoStaleSwitch ==
  [][\A t \in Thread :
       stage[t] = "switch" /\ stage'[t] = "away" =>
         next[t] = IF Wanted(t) THEN call[t][2] ELSE Best]_allvars

\* The library is a monitor with queues and permits (Scheduler): each call takes
\* effect in one step inside the critical section, a thread sleeps only when it is owed
\* no wakeup, and the thread that is switched to is at that time the best of the run
\* queues, or the one its caller named.
Placed == {t \in App : state[t] # FREE} \ Moving
SC == INSTANCE Scheduler WITH
  Level   <- Queues,
  running <- curr,
  inside  <- lock.owner,
  queue   <- threads,
  level   <- [t \in Placed |-> prio[t]],
  asleep  <- {t \in App : state[t] = BLOCKED},
  permits <- wakes,
  asked   <- [t \in App |-> IF call[t][1] = "switchto" THEN call[t][2] ELSE NULL]
SchedulerPromise == SC!Spec

\* Whoever is inside the critical section leaves it, so that it is free again and again,
\* though the timer takes the processor away at any time: those kept out lend theirs.
\* Only a failed assertion stops the owner.
OwnerLeaves == []<>(lock.owner = NULL \/ ~Running)

\* The release of a contended section switches to the scheduler thread.
ContentionHandedOver ==
  [][\A t \in Thread :
       cs[t] = "handover" /\ cs'[t] = "out" => curr' = Sched]_allvars
=============================================================================
