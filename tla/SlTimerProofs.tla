---------------------------- MODULE SlTimerProofs ----------------------------
(***************************************************************************)
(* The scheduler with a clock is the scheduler: SlSched leaves open when   *)
(* the timer expires, and SlTimer only decides it.                         *)
(***************************************************************************)
EXTENDS SlTimer, SlSchedProofs

\* A step with the clock is a step without it, or none: the timer that expires while
\* the scheduler thread runs changes nothing.
LEMMA TimedStep == ASSUME TimedNext PROVE SchedNext \/ UNCHANGED allvars
<1>r. Running
  BY DEF TimedNext
<1>1. ASSUME NEW t \in Thread, TimedLibrary(t) PROVE SchedNext
  BY <1>r, <1>1 DEF TimedLibrary, SchedNext
<1>2. CASE TimedCall
  BY <1>r, <1>2 DEF TimedCall, SchedNext
<1>3. CASE OwnCode
  BY <1>3 DEF OwnCode
<1>4. CASE Fires
  <2>1. CASE curr = Sched
    BY <1>4, <2>1 DEF Fires, Interrupt, allvars, slcsvars, kernelvars, csvars, schedvars, queuevars
  <2>2. CASE curr # Sched
    <3>1. Timer
      BY <1>4, <2>2 DEF Fires, Timer
    <3> QED BY <1>r, <3>1 DEF SchedNext
  <2> QED BY <2>1, <2>2
<1> QED BY <1>1, <1>2, <1>3, <1>4 DEF TimedNext

\* What holds of the scheduler whenever its timer expires holds of it with the
\* periodic timer.
THEOREM TimedIsSched == TimedSpec => SchedSpec
<1>1. TimedInit => SchedInit
  BY DEF TimedInit
<1>2. [TimedNext]_timedvars => [SchedNext]_allvars
  <2>1. CASE TimedNext
    BY <2>1, TimedStep
  <2>2. CASE UNCHANGED timedvars
    BY <2>2 DEF timedvars
  <2> QED BY <2>1, <2>2
<1> QED BY <1>1, <1>2, PTL DEF TimedSpec, SchedSpec

\* Exclusion in the critical section of sl, with the periodic timer.
THEOREM TimedExclusion == TimedSpec => []MutualExclusion
<1> QED BY TimedIsSched, SchedExclusion, PTL

\* With the periodic timer too the library is a monitor with queues and permits.
THEOREM TimedPromise == TimedSpec => SchedulerPromise
<1> QED BY TimedIsSched, KeepsSchedulerPromise, PTL

-----------------------------------------------------------------------------
(* Whole periods.                                                          *)

\* Division with remainder.
LEMMA DivMod ==
  ASSUME NEW p \in Nat \ {0}, NEW x \in Int
  PROVE  x \div p \in Int /\ x % p \in 0..(p - 1) /\ x = p * (x \div p) + (x % p)
OBVIOUS

\* One multiple of p or more is at least p.
LEMMA Multiple ==
  ASSUME NEW p \in Nat \ {0}, NEW d \in Int, d >= 1
  PROVE  p * d >= p
OBVIOUS

\* The remainder is unique.
LEMMA OneRemainder ==
  ASSUME NEW p \in Nat \ {0}, NEW q \in Int, NEW r \in 0..(p - 1),
         NEW k \in Int, NEW s \in 0..(p - 1), p * q + r = p * k + s
  PROVE  r = s
<1>1. p * q \in Int /\ p * k \in Int
  OBVIOUS
<1>2. CASE q - k >= 1
  <2>1. p * (q - k) >= p
    BY <1>2, Multiple
  <2>2. p * (q - k) = p * q - p * k
    OBVIOUS
  <2> QED BY <1>1, <2>1, <2>2
<1>3. CASE k - q >= 1
  <2>1. p * (k - q) >= p
    BY <1>3, Multiple
  <2>2. p * (k - q) = p * k - p * q
    OBVIOUS
  <2> QED BY <1>1, <2>1, <2>2
<1>4. CASE q = k
  BY <1>1, <1>4
<1> QED BY <1>2, <1>3, <1>4

\* What is a whole number of periods leaves no remainder.
LEMMA WholePeriods ==
  ASSUME NEW p \in Nat \ {0}, NEW q \in Int, NEW x \in Int, x = p * q
  PROVE  x % p = 0
<1>1. x \div p \in Int /\ x % p \in 0..(p - 1) /\ x = p * (x \div p) + (x % p)
  BY DivMod
<1>2. 0 \in 0..(p - 1) /\ x = p * q + 0
  OBVIOUS
<1>3. p * q + 0 = p * (x \div p) + (x % p)
  BY <1>1, <1>2
<1>4. 0 = x % p
  BY <1>1, <1>2, <1>3, OneRemainder
<1> QED BY <1>4

\* The time to an expiry that is moved by k periods, less the time d that goes by, and
\* the phase, from which m periods are taken.
LEMMA PeriodsAdd ==
  ASSUME NEW p \in Nat \ {0}, NEW k \in Int, NEW l \in Int, NEW m \in Int, NEW d \in Int,
         NEW next0 \in Int, NEW next1 \in Int, NEW phase0 \in Int, NEW phase1 \in Int,
         NEW left \in Int, left = next0 + p * k, next1 = left - d,
         next0 + phase0 = p * l, phase0 + d = p * m + phase1
  PROVE  next1 + phase1 = p * (k + l - m)
<1> DEFINE a == p * k
           b == p * l
           c == p * m
<1>1. p * (k + l - m) = a + b - c /\ a \in Int /\ b \in Int /\ c \in Int
  OBVIOUS
<1>2. left = next0 + a /\ next0 + phase0 = b /\ phase0 + d = c + phase1
  OBVIOUS
<1> HIDE DEF a, b, c
<1>3. next1 + phase1 = a + b - c
  BY <1>1, <1>2
<1> QED BY <1>1, <1>3

\* sl_timeout_mod_expended moves an expiry that has passed by whole periods, to one at
\* most a period away that has not.
LEMMA ExpendedOK ==
  ASSUME NEW left \in Int, left <= 0
  PROVE  /\ Expended(left) \in 1..PERIOD
         /\ \E k \in Int : Expended(left) = left + PERIOD * k
<1> DEFINE x == -left
<1>1. PERIOD \in Nat \ {0} /\ x \in Int
  BY TimerAssumption
<1>2. /\ x \div PERIOD \in Int /\ x % PERIOD \in 0..(PERIOD - 1)
      /\ x = PERIOD * (x \div PERIOD) + (x % PERIOD)
  BY <1>1, DivMod
<1>3. Expended(left) = PERIOD - (x % PERIOD)
  BY DEF Expended
<1>4. Expended(left) \in 1..PERIOD
  BY <1>1, <1>2, <1>3
<1>5. Expended(left) = left + PERIOD * ((x \div PERIOD) + 1)
  <2> DEFINE q == x \div PERIOD
             m == PERIOD * q
  <2>1. PERIOD * (q + 1) = m + PERIOD /\ m \in Int
    BY <1>1, <1>2
  <2> HIDE DEF m
  <2>2. x = m + (x % PERIOD)
    BY <1>2 DEF m
  <2> QED BY <1>1, <1>2, <1>3, <2>1, <2>2
<1> QED BY <1>2, <1>4, <1>5

-----------------------------------------------------------------------------
(* The invariant of the timer.  It is off only while the scheduler thread  *)
(* runs: whatever gives the processor away sets it.                        *)

ClockTypeOK ==
  /\ timer_next \in (-MaxLate)..PERIOD
  /\ timer \in {{}} \cup {{n} : n \in 0..PERIOD}
  /\ phase \in 0..(PERIOD - 1)
TimerOn == curr # Sched => timer # {}
Whole == \E k \in Int : timer_next + phase = PERIOD * k
ClockInv == ClockTypeOK /\ TimerOn /\ Whole

\* Time going by keeps the clock's types, and the expiries whole periods apart.
LEMMA ElapseOK ==
  ASSUME ClockInv, ~Expired, NEW left \in Int, left <= PERIOD, NEW sets \in BOOLEAN,
         NEW d \in {0, 1}, Elapse(left, sets, d),
         \E k \in Int : left = timer_next + PERIOD * k
  PROVE  ClockTypeOK' /\ Whole' /\ (timer # {} \/ sets => timer' # {})
<1>0. /\ timer_next \in Int /\ phase \in 0..(PERIOD - 1) /\ PERIOD \in Nat \ {0} /\ MaxLate \in Nat
      /\ timer_next' = left - d /\ timer_next' >= -MaxLate
      /\ phase' = (phase + d) % PERIOD
      /\ timer' = IF sets THEN {Soonest(timer_next')} ELSE {n - d : n \in timer}
  BY TimerAssumption DEF ClockInv, ClockTypeOK, Elapse
<1>1. /\ (phase + d) \div PERIOD \in Int /\ phase' \in 0..(PERIOD - 1)
      /\ phase + d = PERIOD * ((phase + d) \div PERIOD) + phase'
  BY <1>0, DivMod
<1>2. timer_next' \in (-MaxLate)..PERIOD
  BY <1>0
<1>3. /\ timer' \in {{}} \cup {{n} : n \in 0..PERIOD}
      /\ timer # {} \/ sets => timer' # {}
  <2>1. CASE sets
    <3>1. Soonest(timer_next') \in 0..PERIOD
      BY <1>0, <1>2 DEF Soonest
    <3> QED BY <1>0, <2>1, <3>1
  <2>2. CASE ~sets /\ timer = {}
    BY <1>0, <2>2
  <2>3. CASE ~sets /\ timer # {}
    <3>1. PICK n \in 0..PERIOD : timer = {n}
      BY <2>3 DEF ClockInv, ClockTypeOK
    <3>2. n # 0
      BY <3>1 DEF Expired
    <3>3. timer' = {n - d}
      BY <1>0, <2>3, <3>1
    <3>4. n - d \in 0..PERIOD
      BY <1>0, <3>2
    <3> QED BY <3>3, <3>4
  <2> QED BY <2>1, <2>2, <2>3
<1>4. Whole'
  <2>1. PICK k \in Int : left = timer_next + PERIOD * k
    OBVIOUS
  <2>2. PICK l \in Int : timer_next + phase = PERIOD * l
    BY DEF ClockInv, Whole
  <2>3. PICK m \in Int : phase + d = PERIOD * m + phase'
    BY <1>1
  <2>4. /\ timer_next' = left - d /\ timer_next \in Int /\ timer_next' \in Int
        /\ phase \in Int /\ phase' \in Int /\ d \in Int
    BY <1>0, <1>1
  <2>5. timer_next' + phase' = PERIOD * (k + l - m) /\ k + l - m \in Int
    BY <1>0, <2>1, <2>2, <2>3, <2>4, PeriodsAdd
  <2> QED BY <2>5 DEF Whole
<1> QED BY <1>1, <1>2, <1>3, <1>4 DEF ClockTypeOK

\* Only a switch that is carried out gives the processor to another thread, and every
\* one of these sets the timer.
LEMMA SwitchSetsTimer ==
  ASSUME NEW t \in Thread, Library(t), curr' # curr
  PROVE  SetsTimer(t)
<1>1. CASE CsStep(t)
  BY <1>1 DEF CsStep, EnterSync, EnterRead, EnterTake, EnterContend, EnterDefer, ExitSync,
     ExitRead, ExitRelease, ExitHandover, Switch, Accepted, Refused, Sync, Drop, ReadLock, At,
     kernelvars, SetsTimer
<1>2. CASE Dispatched(t)
  BY <1>2 DEF Dispatched, Accepted, In, SetsTimer
<1>3. CASE ~CsStep(t) /\ ~Dispatched(t)
  BY <1>3 DEF Library, BlockWoken, Block, WakeupEarly, Wakeup, Yield, Reschedule, Section, Reenter,
     PickSync, Choose, DispatchRefused, Return, Enter, Exit, Sync, Refused, slcsvars, kernelvars
<1> QED BY <1>1, <1>2, <1>3

\* The clock's invariant is inductive.
LEMMA ClockStep ==
  ASSUME ClockInv, [TimedNext]_timedvars
  PROVE  ClockInv'
<1>0. PERIOD \in Nat \ {0} /\ MaxLate \in Nat /\ timer_next \in Int /\ timer_next <= PERIOD
  BY TimerAssumption DEF ClockInv, ClockTypeOK
<1>z. \E k \in Int : timer_next = timer_next + PERIOD * k
  <2>1. timer_next = timer_next + PERIOD * 0
    BY <1>0
  <2> QED BY <2>1
<1>1. ASSUME NEW t \in Thread, TimedLibrary(t) PROVE ClockInv'
  <2> DEFINE left == NextExpiry(t)
  <2>1. left \in Int /\ left <= PERIOD /\ \E k \in Int : left = timer_next + PERIOD * k
    BY <1>0, <1>z, ExpendedOK DEF NextExpiry
  <2>2. PICK d \in {0, 1} : Elapse(left, SetsTimer(t), d)
    BY <1>1 DEF TimedLibrary
  <2>3. SetsTimer(t) \in BOOLEAN /\ ~Expired /\ Library(t)
    BY <1>1 DEF TimedLibrary, SetsTimer
  <2> HIDE DEF left
  <2>4. ClockTypeOK' /\ Whole' /\ (timer # {} \/ SetsTimer(t) => timer' # {})
    BY <2>1, <2>2, <2>3, ElapseOK
  <2>5. TimerOn'
    BY <2>3, <2>4, SwitchSetsTimer DEF ClockInv, TimerOn
  <2> QED BY <2>4, <2>5 DEF ClockInv
<1>2. ASSUME NEW d \in {0, 1}, ~Expired, Elapse(timer_next, FALSE, d), UNCHANGED curr
      PROVE  ClockInv'
  <2>1. ClockTypeOK' /\ Whole' /\ (timer # {} => timer' # {})
    <3>1. FALSE \in BOOLEAN
      OBVIOUS
    <3> QED BY <1>0, <1>z, <1>2, <3>1, ElapseOK
  <2> QED BY <1>2, <2>1 DEF ClockInv, TimerOn
<1>3. CASE TimedCall
  <2>1. UNCHANGED curr
    BY <1>3 DEF TimedCall, Caller, SchedLoop, Start, Enter, kernelvars
  <2> QED BY <1>2, <1>3, <2>1 DEF TimedCall
<1>4. CASE OwnCode
  BY <1>2, <1>4 DEF OwnCode, allvars, slcsvars, kernelvars
<1>5. CASE Fires
  BY <1>5 DEF Fires, Interrupt, ClockInv, ClockTypeOK, TimerOn, Whole
<1>6. CASE UNCHANGED timedvars
  BY <1>6 DEF timedvars, timervars, allvars, slcsvars, kernelvars, ClockInv, ClockTypeOK, TimerOn, Whole
<1> QED BY <1>1, <1>3, <1>4, <1>5, <1>6 DEF TimedNext

\* The timer is on whenever a thread of the application runs, and the expiries are
\* whole periods apart, for every period.
THEOREM ClockInvariance == TimedSpec => []ClockInv
<1>1. TimedInit => ClockInv
  <2> SUFFICES ASSUME TimedInit PROVE ClockInv
    OBVIOUS
  <2>1. PERIOD \in Nat \ {0} /\ MaxLate \in Nat
    BY TimerAssumption
  <2>2. timer_next + phase = PERIOD * 1
    BY <2>1 DEF TimedInit
  <2>3. curr = Sched
    BY DEF TimedInit, SchedInit, CsInit, KernelInit
  <2> QED BY <2>1, <2>2, <2>3 DEF TimedInit, ClockInv, ClockTypeOK, TimerOn, Whole
<1>2. ClockInv /\ [TimedNext]_timedvars => ClockInv'
  BY ClockStep
<1> QED BY <1>1, <1>2, PTL DEF TimedSpec

\* No thread runs its own code for longer than a period.
THEOREM TimerAlwaysSet == TimedSpec => []TimerIsSet
<1>1. ClockInv => TimerIsSet
  <2> SUFFICES ASSUME ClockInv, curr # Sched PROVE \E n \in timer : n <= PERIOD
    BY DEF TimerIsSet
  <2>1. PICK n \in 0..PERIOD : timer = {n}
    BY DEF ClockInv, ClockTypeOK, TimerOn
  <2> QED BY <2>1
<1> QED BY <1>1, ClockInvariance, PTL

\* The expiries do not drift, whatever the period and however late the library looks.
THEOREM TimerKeepsPeriods == TimedSpec => []PeriodsKept
<1>1. ClockInv => PeriodsKept
  <2> SUFFICES ASSUME ClockInv PROVE PeriodsKept
    OBVIOUS
  <2>1. PERIOD \in Nat \ {0} /\ timer_next + phase \in Int
    BY TimerAssumption DEF ClockInv, ClockTypeOK
  <2>2. PICK k \in Int : timer_next + phase = PERIOD * k
    BY DEF ClockInv, Whole
  <2> QED BY <2>1, <2>2, WholePeriods DEF PeriodsKept
<1> QED BY <1>1, ClockInvariance, PTL

\* Type correctness of the scheduler with the timer.
THEOREM TimedTypes == TimedSpec => []TimerTypeOK
<1>1. ClockInv /\ SchedTypeOK => TimerTypeOK
  BY DEF ClockInv, ClockTypeOK, TimerTypeOK
<1> QED BY <1>1, ClockInvariance, TimedIsSched, SchedTypes, PTL

\* The assertions of the scheduler fail only as they may, and its queues and wakeups are right, whenever
\* the timer expires.
THEOREM TimedScheduler == TimedSpec => [](AssertsFailOnly /\ QueuesMatch /\ WakeupsCount)
BY TimedIsSched, SchedAsserts, SchedQueues, SchedWakeups, PTL
=============================================================================
