------------------------------- MODULE SlTimer -------------------------------
(***************************************************************************)
(* The periodic timer (scheddev/sl_timer_mod_periodic.c, sl_timeout_* of   *)
(* sl.h and sl.c) under the scheduler of SlSched.                          *)
(*                                                                         *)
(* The library computes the next expiry, timer_next, whenever it schedules *)
(* and finds it has passed.  The kernel is told of it only with a switch,  *)
(* which sets the timer for the thread switched to: those that a contended *)
(* critical section makes, too, and these look at no clock before.         *)
(*                                                                         *)
(* Only the time from now on matters, so that the clock stands still and   *)
(* what it is compared with moves.  A step of the library takes no time or *)
(* one unit of it, so that the timer can expire between any two.           *)
(***************************************************************************)
EXTENDS SlSched

CONSTANTS PERIOD,   \* sl_timeout_period_get
          MaxLate   \* bound on how late the library schedules

ASSUME TimerAssumption ==
  /\ PERIOD \in Nat \ {0}
  /\ MaxLate \in Nat

VARIABLES
  timer_next,  \* sl_global.timer_next, and timeout_next, from now on
  timer,       \* what is left of the kernel's timer: one number, or none if it is off
  phase        \* history: the time since the first expiry, less whole periods

timervars == <<timer_next, timer, phase>>
timedvars == <<allvars, timervars>>

TimerTypeOK ==
  /\ SchedTypeOK
  /\ timer_next \in (-MaxLate)..PERIOD
  /\ timer \in {{}} \cup {{n} : n \in 0..PERIOD}
  /\ phase \in 0..(PERIOD - 1)

\* sl_timeout_mod_init: the first expiry is one period away.
TimedInit ==
  /\ SchedInit
  /\ timer_next = PERIOD
  /\ timer = {}
  /\ phase = 0

-----------------------------------------------------------------------------
\* sl_timeout_mod_expended: the end of the period that now lies in, be it the one
\* after timer_next or a later one.
BugFromNow(left) == PERIOD
BugSign(left) == PERIOD + ((-left) % PERIOD)
Expended(left) == PERIOD - ((-left) % PERIOD)

\* The clock is looked at once the token is taken, before the next thread is chosen.
Looks(t) == stage[t] = "pick" /\ stage'[t] = "choose"
NextExpiry(t) == IF Looks(t) /\ timer_next <= 0 THEN Expended(timer_next) ELSE timer_next

\* Every cos_defswitch that is carried out sets the timer.
BugSetsTimer(t) == stage[t] = "switch" /\ cs[t] = "out" /\ <<t, "schedule">> \in fresh
SetsTimer(t) ==
  \/ cs[t] \in {"defer", "handover"} /\ <<t, "cs">> \in fresh
  \/ stage[t] = "switch" /\ cs[t] = "out" /\ <<t, "schedule">> \in fresh

\* A timer set to the past expires as soon as the thread has made a step.
Soonest(left) == IF left <= 0 THEN 1 ELSE left

\* The time d goes by, and the timer is set if sets is true.
Elapse(left, sets, d) ==
  /\ timer_next' = left - d
  /\ timer_next' >= -MaxLate
  /\ timer' = IF sets THEN {Soonest(timer_next')} ELSE {n - d : n \in timer}
  /\ phase' = (phase + d) % PERIOD

-----------------------------------------------------------------------------
Expired == timer = {0}

TimedLibrary(t) ==
  /\ ~Expired
  /\ Library(t)
  /\ \E d \in {0, 1} : Elapse(NextExpiry(t), SetsTimer(t), d)

TimedCall ==
  /\ ~Expired
  /\ (\E t \in App : Caller(t)) \/ SchedLoop
  /\ Elapse(timer_next, FALSE, 0)

\* A thread in its own code.
OwnCode ==
  /\ ~Expired
  /\ curr # Sched /\ stage[curr] = "own"
  /\ Elapse(timer_next, FALSE, 1)
  /\ UNCHANGED allvars

\* The timer expires: the processor goes to the scheduler thread.
Fires ==
  /\ Expired
  /\ Interrupt(Sched)
  /\ timer' = {}
  /\ UNCHANGED <<csvars, schedvars, timer_next, phase>>

TimedNext ==
  /\ Running
  /\ (\E t \in Thread : TimedLibrary(t)) \/ TimedCall \/ OwnCode \/ Fires
TimedSpec == TimedInit /\ [][TimedNext]_timedvars

(* Until an assertion fails some step is possible, and the processor does    *)
(* not stand still.  No thread is promised a turn: who gets one is decided   *)
(* by the clock, the policy and the switches.                                *)
TimedFairness == <>[]Running => []<><<TimedNext>>_timedvars
TimedFairSpec == TimedSpec /\ TimedFairness

-----------------------------------------------------------------------------
(* Properties *)

\* No thread has the processor for longer than a period: whoever is in its own code
\* has the timer before it, also when the library gave it the processor, or left it
\* there, on its way through a contended critical section.
TimerIsSet == curr # Sched /\ stage[curr] = "own" => \E n \in timer : n <= PERIOD

\* The expiries do not drift: however late the library schedules, and though it misses
\* whole periods, they are whole periods after the first.
PeriodsKept == (timer_next + phase) % PERIOD = 0
=============================================================================
