-------------------------------- MODULE Lwt --------------------------------
(***************************************************************************)
(* The thread part of the lightweight thread library (scheddev/lwt.c):     *)
(* creation, join, yield and death of the cooperative threads of one       *)
(* kernel thread.                                                          *)
(*                                                                         *)
(* The threads are cooperative: the one lwt_head points at runs until it   *)
(* calls the library, and the processor changes hands only in              *)
(* __lwt_dispatch.  An action is therefore everything a thread does from   *)
(* one library call up to the dispatch in it, or up to the return to the   *)
(* caller; what lwt_join does after its dispatch is an action of its own.  *)
(*                                                                         *)
(* lwt_head = NULL says that no lwt will run again: the scan for the next  *)
(* ACTIVE thread never leaves its loop, or an assertion has aborted.       *)
(***************************************************************************)
EXTENDS Integers, FiniteSets, PsList

CONSTANTS Thread,    \* the struct _lwt_t blocks kalloc can hand out
          Main,      \* the block __init_thread_head allocates
          Value,     \* what thread functions return
          NULL,
          UINT_MAX   \* the largest value of a counter, 2^32-1 in the code

ASSUME LwtAssumption ==
  /\ IsFiniteSet(Thread)
  /\ Main \in Thread
  /\ NULL \notin Thread \cup Value
  /\ UINT_MAX \in Nat
  /\ Cardinality(Thread) <= UINT_MAX

ACTIVE  == "LWT_ACTIVE"
BLOCKED == "LWT_BLOCKED"
DEAD    == "LWT_DEAD"
FREE    == "free"        \* the block belongs to kalloc, its fields mean nothing
Status  == {ACTIVE, BLOCKED, DEAD, FREE}

JOIN   == "LWT_JOIN"
NOJOIN == "LWT_NOJOIN"
Flags  == {JOIN, NOJOIN}

VARIABLES
  lwt_head,    \* the running thread, which is also the cursor into the ring
  list,        \* links of the ring of threads, see PsList
  status,
  lwt_nojoin,
  target,      \* the thread to wake when this one dies, set by its joiner
  return_val,
  gcounter,    \* runable, blocked and died counters
  joinee,      \* argument of the lwt_join a thread is suspended in, or NULL
  handle,      \* the thread whose code holds the lwt_t of this one, or NULL
  got          \* what the last lwt_join to return gave its caller

vars == <<lwt_head, list, status, lwt_nojoin, target, return_val, gcounter,
          joinee, handle, got>>

Live == {t \in Thread : status[t] # FREE}

TypeOK ==
  /\ lwt_head \in Thread \cup {NULL}
  /\ list \in [n : [Thread -> Thread], p : [Thread -> Thread]]
  /\ status \in [Thread -> Status]
  /\ lwt_nojoin \in [Thread -> Flags]
  /\ target \in [Thread -> Thread \cup {NULL}]
  /\ return_val \in [Thread -> Value \cup {NULL}]
  /\ gcounter \in [runable : 0..UINT_MAX, blocked : 0..UINT_MAX, died : 0..UINT_MAX]
  /\ joinee \in [Thread -> Thread \cup {NULL}]
  /\ handle \in [Thread -> Thread \cup {NULL}]
  /\ got \in Value \cup {NULL}

-----------------------------------------------------------------------------
(* Counters are unsigned and wrap around. *)
Inc(c) == IF c = UINT_MAX THEN 0 ELSE c + 1
Dec(c) == IF c = 0 THEN UINT_MAX ELSE c - 1

\* m is the first ACTIVE thread the scan that starts after h meets.
FirstActive(links, st, h, m) ==
  /\ st[m] = ACTIVE
  /\ \E k \in 1..Cardinality(Thread) :
       /\ m = ListWalk(links, h, k)
       /\ \A j \in 1..(k-1) : st[ListWalk(links, h, j)] # ACTIVE

\* Where the do-while of __lwt_schedule and lwt_die stops.
ScanFrom(links, st, h) ==
  IF \E m \in Thread : FirstActive(links, st, h, m)
  THEN CHOOSE m \in Thread : FirstActive(links, st, h, m)
  ELSE NULL

\* __lwt_schedule with every scan starting over from the first thread.
BugScheduleFromMain(st) == lwt_head' = ScanFrom(list, st, Main)

\* __lwt_schedule, called by lwt_head when the statuses are st.
Schedule(st) == lwt_head' = ScanFrom(list, st, lwt_head)

\* The thread lwt_head is in its own code, about to call the library.
InCaller == lwt_head # NULL /\ joinee[lwt_head] = NULL

-----------------------------------------------------------------------------
(* lwt_init -> __init_thread_head: the calling context becomes a thread. *)
Init ==
  /\ lwt_head = Main
  /\ list = ListInit(Thread)
  /\ status = [t \in Thread |-> IF t = Main THEN ACTIVE ELSE FREE]
  /\ lwt_nojoin = [t \in Thread |-> JOIN]
  /\ target = [t \in Thread |-> NULL]
  /\ return_val = [t \in Thread |-> NULL]
  /\ gcounter = [runable |-> 1, blocked |-> 0, died |-> 0]
  /\ joinee = [t \in Thread |-> NULL]
  /\ handle = [t \in Thread |-> NULL]
  /\ got = NULL

\* Where lwt_create links its new thread: right before lwt_head.
Placed(t) == ListAdd(list, ListPrev(list, lwt_head), t)

\* What lwt_create makes of the block t that kalloc finds; t will be the last of
\* the current round to run.
Make(t, flags) ==
  /\ InCaller
  /\ status[t] = FREE
  /\ status' = [status EXCEPT ![t] = ACTIVE]
  /\ lwt_nojoin' = [lwt_nojoin EXCEPT ![t] = flags]
  /\ target' = [target EXCEPT ![t] = NULL]
  /\ return_val' = [return_val EXCEPT ![t] = NULL]
  /\ gcounter' = [gcounter EXCEPT !.runable = Inc(@)]
  /\ list' = Placed(t)
  /\ UNCHANGED <<lwt_head, joinee, got>>

\* lwt_create, by a caller that keeps the lwt_t.
Create(t, flags) == Make(t, flags) /\ handle' = [handle EXCEPT ![t] = lwt_head]

\* lwt_yield(NULL)
Yield ==
  /\ InCaller
  /\ Schedule(status)
  /\ UNCHANGED <<list, status, lwt_nojoin, target, return_val, gcounter,
                 joinee, handle, got>>

\* lwt_yield(t): straight to t, when t is ACTIVE.
YieldTo(t) ==
  /\ InCaller
  /\ status[t] = ACTIVE
  /\ lwt_head' = t
  /\ UNCHANGED <<list, status, lwt_nojoin, target, return_val, gcounter,
                 joinee, handle, got>>

-----------------------------------------------------------------------------
(* lwt_join *)

\* kfree of the block of t, after ps_list_rem_d has taken t out of the ring.
GiveBack(t) ==
  /\ list' = ListRem(list, t)
  /\ status' = [status EXCEPT ![t] = FREE]
  /\ lwt_nojoin' = [lwt_nojoin EXCEPT ![t] = JOIN]
  /\ target' = [target EXCEPT ![t] = NULL]
  /\ return_val' = [return_val EXCEPT ![t] = NULL]

\* The end of lwt_join: the result is fetched and t given back.
Reclaim(t) ==
  /\ got' = return_val[t]
  /\ GiveBack(t)
  /\ gcounter' = [gcounter EXCEPT !.died = Dec(@)]
  /\ joinee' = [joinee EXCEPT ![lwt_head] = NULL]
  /\ handle' = [handle EXCEPT ![t] = NULL]
  /\ UNCHANGED lwt_head

\* A thread created with LWT_NOJOIN cannot be joined; an ACTIVE one is waited for.
BugJoinIgnoresFlag(t) == FALSE
Refuses(t) == lwt_nojoin[t] = NOJOIN
BugJoinNeverWaits(t) == FALSE
MustWait(t) == status[t] = ACTIVE

JoinRefused(t) ==
  /\ Refuses(t)
  /\ got' = NULL
  /\ UNCHANGED <<lwt_head, list, status, lwt_nojoin, target, return_val,
                 gcounter, joinee, handle>>

\* The caller blocks ...
Blocks(t) ==
  /\ ~Refuses(t)
  /\ MustWait(t)
  /\ target' = [target EXCEPT ![t] = lwt_head]
  /\ status' = [status EXCEPT ![lwt_head] = BLOCKED]
  /\ gcounter' = [gcounter EXCEPT !.blocked = Inc(@), !.runable = Dec(@)]
  /\ joinee' = [joinee EXCEPT ![lwt_head] = t]
  /\ UNCHANGED <<list, lwt_nojoin, return_val, handle, got>>

\* ... and the scheduler picks another thread.
JoinBlocks(t) == Blocks(t) /\ Schedule(status')

\* The result of t is taken at once.
JoinAtOnce(t) ==
  /\ ~Refuses(t)
  /\ ~MustWait(t)
  /\ Reclaim(t)

\* Callers join the threads they hold the handle of.
Join(t) ==
  /\ InCaller
  /\ handle[t] = lwt_head
  /\ JoinRefused(t) \/ JoinBlocks(t) \/ JoinAtOnce(t)

\* The suspended lwt_join runs again.
JoinResume ==
  /\ lwt_head # NULL
  /\ joinee[lwt_head] # NULL
  /\ Reclaim(joinee[lwt_head])

-----------------------------------------------------------------------------
(* lwt_die, called by __lwt_start with what the thread function returned,  *)
(* or by the thread itself.  The handles the thread held die with it.      *)

HandlesAfter(t) == [u \in Thread |-> IF handle[u] = t THEN NULL ELSE handle[u]]

\* The thread gives back its own block.  The assertion after the scan aborts
\* when the scan has come back to the dying thread.
DieNojoin ==
  /\ InCaller
  /\ lwt_head # Main
  /\ lwt_nojoin[lwt_head] = NOJOIN
  /\ gcounter' = [gcounter EXCEPT !.runable = Dec(@)]
  /\ lwt_head' = LET next == ScanFrom(list, status, lwt_head)
                 IN  IF next = lwt_head THEN NULL ELSE next
  /\ GiveBack(lwt_head)
  /\ handle' = [HandlesAfter(lwt_head) EXCEPT ![lwt_head] = NULL]
  /\ UNCHANGED <<joinee, got>>

\* The statuses and the counters once the joiner of t, if any, is awake, and
\* the result a dying thread leaves.
BugNobodyWoken(t) == status
Woken(t) ==
  IF target[t] = NULL THEN status ELSE [status EXCEPT ![target[t]] = ACTIVE]
BugAlwaysUnblocks(t) ==
  [gcounter EXCEPT !.blocked = @ - 1, !.died = Inc(@)]
BugWokenNotCounted(t) ==
  [gcounter EXCEPT !.runable = Dec(@), !.died = Inc(@)]
CountersAfterDeath(t) ==
  IF target[t] = NULL
  THEN [gcounter EXCEPT !.runable = Dec(@), !.died = Inc(@)]
  ELSE [gcounter EXCEPT !.runable = Inc(Dec(@)), !.blocked = Dec(@), !.died = Inc(@)]
BugResultDropped(v) == return_val
ResultKept(v) == [return_val EXCEPT ![lwt_head] = v]

\* The thread wakes its joiner and stays in the ring until it is joined.
DieJoin(v) ==
  /\ InCaller
  /\ lwt_head # Main
  /\ lwt_nojoin[lwt_head] = JOIN
  /\ return_val' = ResultKept(v)
  /\ gcounter' = CountersAfterDeath(lwt_head)
  /\ status' = [Woken(lwt_head) EXCEPT ![lwt_head] = DEAD]
  /\ Schedule(status')
  /\ handle' = HandlesAfter(lwt_head)
  /\ UNCHANGED <<list, lwt_nojoin, target, joinee, got>>

Die == DieNojoin \/ \E v \in Value : DieJoin(v)

-----------------------------------------------------------------------------
(* What a caller may join: a thread that runs or has ended, or one that    *)
(* lwt_join refuses.  Joining a child that is itself BLOCKED in a join is  *)
(* what WildSpec adds.                                                     *)
Joinable(t) == status[t] \in {ACTIVE, DEAD} \/ lwt_nojoin[t] = NOJOIN

Calls ==
  \/ \E t \in Thread, flags \in Flags : Create(t, flags)
  \/ Yield
  \/ \E t \in Thread : Joinable(t) /\ Join(t)
  \/ JoinResume
  \/ Die

Next == Calls \/ \E t \in Thread : YieldTo(t)
Spec == Init /\ [][Next]_vars

WildNext == Next \/ \E t \in Thread : Join(t)
WildSpec == Init /\ [][WildNext]_vars

(* Whoever runs gives up the processor in the end.  A directed yield lets   *)
(* two threads keep it between them, so progress is stated for callers that *)
(* some day stop using it.                                                  *)
Fairness == WF_vars(Yield) /\ WF_vars(JoinResume)
FairSpec == Spec /\ Fairness
DirectedYieldsEnd == <>[][Calls]_vars

-----------------------------------------------------------------------------
(* Properties *)

\* lwt_info tells the truth: the three counters lwt_create, lwt_join and lwt_die
\* maintain are the numbers of threads that can run, that wait for a thread
\* that has not died, and that have died and not been joined.
CountersAccurate ==
  /\ gcounter.runable = Cardinality({t \in Thread : status[t] = ACTIVE})
  /\ gcounter.blocked = Cardinality({t \in Thread : status[t] = BLOCKED})
  /\ gcounter.died = Cardinality({t \in Thread : status[t] = DEAD})

\* The ring through lwt_head holds the threads that have not been reclaimed and
\* no other block, linked the same way in both directions.
RingIsLive ==
  lwt_head # NULL =>
    /\ ListOK(list, Thread)
    /\ {ListWalk(list, lwt_head, k) : k \in 1..Cardinality(Thread)} = Live

\* No joiner is lost: a BLOCKED thread is suspended in lwt_join on a thread that
\* has not ended and that will wake it, and when it runs again that thread has.
NoLostJoiner ==
  \A t \in Thread :
    /\ status[t] = BLOCKED =>
         /\ joinee[t] # NULL
         /\ target[joinee[t]] = t
         /\ status[joinee[t]] \in {ACTIVE, BLOCKED}
    /\ status[t] = ACTIVE /\ joinee[t] # NULL => status[joinee[t]] = DEAD

\* The scheduler always finds a thread to run, and the assertion in lwt_die that
\* the dying thread is not the only one left never fails.
NeverStuck == lwt_head # NULL

\* Memory is given back only for a thread that has ended: a joinable one that is
\* DEAD, or a LWT_NOJOIN one that is giving itself back.
ReclaimOnlyEnded ==
  [][\A t \in Thread :
       status[t] # FREE /\ status'[t] = FREE =>
         \/ status[t] = DEAD
         \/ lwt_nojoin[t] = NOJOIN /\ t = lwt_head]_vars

\* The library implements the fork/join promise.
FJ == INSTANCE ForkJoin WITH
  phase <- [t \in Thread |-> IF status[t] = FREE THEN "free"
                             ELSE IF status[t] = DEAD THEN "done"
                             ELSE IF joinee[t] # NULL THEN "joining"
                             ELSE "running"],
  detached <- {t \in Thread : lwt_nojoin[t] = NOJOIN},
  awaits <- joinee,
  result <- return_val,
  got <- got
ForkJoinPromise == FJ!Spec

\* The inductive invariant.  The cursor is on a thread that can run; the links
\* are consistent and a block kalloc owns is on no list ...
HeadInv == lwt_head # NULL => status[lwt_head] = ACTIVE
LinkInv ==
  /\ ListOK(list, Thread)
  /\ \A t \in Thread : status[t] = FREE => ListSingleton(list, t)

\* ... t is suspended in lwt_join(u), on the thread it holds the handle of ...
Suspended(t, u) ==
  /\ handle[u] = t
  /\ target[u] = t
  /\ lwt_nojoin[u] = JOIN
  /\ \/ status[t] = BLOCKED /\ status[u] \in {ACTIVE, BLOCKED}
     \/ status[t] = ACTIVE /\ status[u] = DEAD

\* ... every wait is recorded at both of its ends, and only there ...
JoinInv ==
  \A t \in Thread :
    /\ status[t] = BLOCKED => joinee[t] # NULL
    /\ joinee[t] # NULL => Suspended(t, joinee[t])
    /\ target[t] # NULL => joinee[target[t]] = t

\* ... a handle is held by another thread, still running, on a block that has not
\* been given back; and what is in the fields of a block follows its status.
HandleInv ==
  \A t \in Thread :
    handle[t] # NULL =>
      /\ handle[t] # t
      /\ status[t] # FREE
      /\ status[handle[t]] \in {ACTIVE, BLOCKED}
BlockInv ==
  \A t \in Thread :
    /\ status[t] # DEAD => return_val[t] = NULL
    /\ status[t] \in {DEAD, FREE} => lwt_nojoin[t] = JOIN

IInv ==
  /\ TypeOK
  /\ HeadInv
  /\ LinkInv
  /\ JoinInv
  /\ HandleInv
  /\ BlockInv
  /\ CountersAccurate

\* Every thread that can run does: lwt_create appends at the end of the round and
\* __lwt_schedule goes around the ring.
NoStarvation ==
  DirectedYieldsEnd => \A t \in Thread : status[t] = ACTIVE ~> lwt_head = t

\* Every join returns, if a thread that runs again and again ends.
ThreadsEnd == \A t \in Thread : SF_vars(lwt_head = t /\ Die)
JoinsReturn ==
  DirectedYieldsEnd /\ ThreadsEnd =>
    \A t \in Thread : joinee[t] # NULL ~> joinee[t] = NULL
=============================================================================
