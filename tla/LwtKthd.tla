------------------------------ MODULE LwtKthd ------------------------------
(***************************************************************************)
(* Kernel threads of lwts (scheddev/lwt.c, the part after the groups):     *)
(* each runs the ring of its own lwts inside the critical section of the   *)
(* scheduler, blocks when none of them can run, and is woken by lwt_snd    *)
(* of another.  Lwts are also sent from one kernel thread to another.      *)
(*                                                                         *)
(* The lwts are those of LwtChan, with one lwt_head for all.  Of the       *)
(* scheduler, SlSched has the steps: here a call of it is one step, as its *)
(* critical section excludes others and a stale switch is refused, and the *)
(* scheduler thread defers to the owner of the critical section.  Outside  *)
(* of it the timer comes between any two steps of __lwt_kthd_entry.        *)
(***************************************************************************)
EXTENDS LwtChan, SequencesExt

CONSTANTS Kthd,     \* the kernel threads lwt_kthd_create makes
          Sched,    \* the scheduler thread, which runs cos_init
          ThdChan,  \* the channels lwts are sent over
          Home,     \* the kernel thread whose lwts receive from a channel
          Rank      \* the order in which blocks and kernel threads are taken

ASSUME KthdAssumption ==
  /\ Sched \notin Kthd
  /\ NULL \notin Kthd \cup {Sched}
  /\ ThdChan \subseteq Chan
  /\ Home \in [Chan -> Kthd]
  /\ Thread \subseteq Data
  /\ Rank \in [Thread \cup Kthd -> Nat]

VARIABLES
  curr,     \* the kernel thread that has the processor, NULL after an assertion
  owner,    \* the owner of the critical section, or NULL
  sl_state, \* sl_thd.state
  threads,  \* the run queue
  at,       \* where a kernel thread is in __lwt_kthd_entry: none: not created; init,
            \* first: in what comes before the loop; enter: about to enter the
            \* critical section; ring: its lwts run; count, block, yield: the three
            \* steps after it has left
  head,     \* parm->lwt, the first of the ring of a kernel thread
  tid       \* the kernel thread an lwt belongs to

slvars == <<owner, sl_state, threads, at, head>>
kvars == <<curr, slvars, tid>>
kthdvars == <<cvars, kvars>>

\* The main thread has not called lwt_init: it has made the channels with no lwt
\* for receiver.
KthdInit ==
  /\ lwt_head = NULL
  /\ list = ListInit(Thread)
  /\ status = [t \in Thread |-> FREE]
  /\ lwt_nojoin = [t \in Thread |-> JOIN]
  /\ target = [t \in Thread |-> NULL]
  /\ return_val = [t \in Thread |-> NULL]
  /\ gcounter = [runable |-> 0, blocked |-> 0, died |-> 0]
  /\ joinee = [t \in Thread |-> NULL]
  /\ handle = [t \in Thread |-> NULL]
  /\ got = NULL
  /\ ChanStart
  /\ curr = Sched
  /\ owner = NULL
  /\ sl_state = [k \in Kthd |-> "SL_THD_FREE"]
  /\ threads = <<>>
  /\ at = [k \in Kthd |-> "none"]
  /\ head = [k \in Kthd |-> NULL]
  /\ tid = [t \in Thread |-> NULL]

\* Blocks of memory are alike, and so are kernel threads: of those that are left the
\* lowest is taken.
Lowest(x, left) == x \in left /\ \A y \in left : Rank[x] <= Rank[y]
Fits(t) == Lowest(t, {u \in Thread : status[u] = FREE})

In(k, s) == curr = k /\ at[k] = s
Become(k, s) == at' = [at EXCEPT ![k] = s]

\* The lwts of k, once it has a ring.
Ring(k) == {ListWalk(list, head[k], i) : i \in 1..Cardinality(Thread)}

-----------------------------------------------------------------------------
(* The scheduler *)

\* lwt_kthd_create gives every kernel thread the same priority, so that the policy
\* runs the first of one queue.
Best(q) == IF q = <<>> THEN NULL ELSE Head(q)

\* lwt_kthd_create, by the main thread before it goes into sl_sched_loop or by an lwt.
KthdCreate(k) ==
  /\ Lowest(k, {u \in Kthd : at[u] = "none"})
  /\ sl_state' = [sl_state EXCEPT ![k] = "SL_THD_RUNNABLE"]
  /\ threads' = Append(threads, k)
  /\ Become(k, "init")
  /\ UNCHANGED <<cvars, curr, owner, head, tid>>

\* The timer expires.  The scheduler thread cannot enter a critical section that has
\* an owner and switches to that one; else it switches to the best thread.  It is
\* also how the first kernel thread comes to run.
Timer ==
  /\ threads # <<>>
  /\ curr # NULL
  /\ curr' = IF owner # NULL THEN owner ELSE Best(threads)
  /\ UNCHANGED <<cvars, slvars, tid>>

-----------------------------------------------------------------------------
(* __lwt_kthd_entry *)

\* __init_thread_head: the block is put into lwt_head at once.  It is never joined
\* and never dies.
InitHead(k, h) ==
  /\ In(k, "init")
  /\ Fits(h)
  /\ lwt_head' = h
  /\ status' = [status EXCEPT ![h] = ACTIVE]
  /\ gcounter' = [gcounter EXCEPT !.runable = Inc(@)]
  /\ tid' = [tid EXCEPT ![h] = k]
  /\ Become(k, "first")
  /\ UNCHANGED <<list, lwt_nojoin, target, return_val, joinee, handle, got, chanvars,
                 curr, owner, sl_state, threads, head>>

\* lwt_create.  Lwts are made as LWT_NOJOIN, and nobody keeps the lwt_t.
KMake(t) ==
  /\ Fits(t)
  /\ Make(t, NOJOIN)
  /\ tid' = [tid EXCEPT ![t] = tid[lwt_head]]
  /\ UNCHANGED handle

\* parm->lwt, then the lwt that will run the function of the kernel thread.  Both
\* are read from lwt_head.
CreateFirst(k, t) ==
  /\ In(k, "first")
  /\ head' = [head EXCEPT ![k] = lwt_head]
  /\ KMake(t)
  /\ Become(k, "enter")
  /\ UNCHANGED <<chanvars, curr, owner, sl_state, threads>>

\* One round of the ring starts: lwt_head is set, and the first dispatch follows.
BugKeepsLwtHead(k) == lwt_head
HeadOf(k) == head[k]
EnterRing(k) ==
  /\ In(k, "enter")
  /\ owner = NULL
  /\ owner' = k
  /\ lwt_head' = ScanFrom(list, status, HeadOf(k))
  /\ Become(k, "ring")
  /\ UNCHANGED <<joinvars, status, gcounter, chanvars, curr, sl_state, threads, head, tid>>

\* The scan has come back to the head of the ring.  An sl_cs_exit that finds the
\* section contended switches to the scheduler thread, as Timer does.
LeaveRing(k) ==
  /\ In(k, "ring")
  /\ lwt_head = head[k]
  /\ owner' = NULL
  /\ Become(k, "count")
  /\ UNCHANGED <<cvars, curr, sl_state, threads, head, tid>>

\* How many lwts can run is found out when others may ...
CountActive(k) ==
  /\ In(k, "count")
  /\ Become(k, IF {t \in Ring(k) : status[t] = ACTIVE} = {head[k]} THEN "block" ELSE "yield")
  /\ UNCHANGED <<cvars, curr, owner, sl_state, threads, head, tid>>

\* ... and acted on later.  With nobody else to run, an assertion of the policy fails.
Block(k) ==
  /\ In(k, "block")
  /\ owner = NULL
  /\ sl_state' = [sl_state EXCEPT ![k] = "SL_THD_BLOCKED"]
  /\ threads' = RemoveFirst(threads, k)
  /\ Become(k, "yield")
  /\ curr' = Best(threads')
  /\ UNCHANGED <<cvars, owner, head, tid>>

\* sl_thd_yield(0), after sl_thd_block has returned or in its place.
YieldKthd(k) ==
  /\ In(k, "yield")
  /\ owner = NULL
  /\ threads' = Append(RemoveFirst(threads, k), k)
  /\ Become(k, "enter")
  /\ curr' = Best(threads')
  /\ UNCHANGED <<cvars, owner, sl_state, head, tid>>

-----------------------------------------------------------------------------
(* What the running lwt calls *)

InLwt == curr \in Kthd /\ at[curr] = "ring" /\ lwt_head # head[curr]

\* lwt_snd also wakes the kernel thread of the receiver, if that has blocked.
BugNoKernelWake(k) == UNCHANGED <<sl_state, threads>>
KernelWake(k) ==
  IF sl_state[k] = "SL_THD_BLOCKED"
  THEN /\ k \notin ToSet(threads)
       /\ sl_state' = [sl_state EXCEPT ![k] = "SL_THD_RUNNABLE"]
       /\ threads' = Append(threads, k)
  ELSE UNCHANGED <<sl_state, threads>>
WakeAfter(st, c) ==
  /\ IF SndMustWait(st, c) THEN UNCHANGED <<sl_state, threads>>
     ELSE KernelWake(tid[rcv_thd[c]])
  /\ UNCHANGED <<curr, owner, at, head, tid>>

KSnd(c, v) == InLwt /\ Snd(c, v) /\ WakeAfter(status, c)

\* lwt_snd_thd: the lwt that is sent stops running first.
BugStaysActive(t) == status
Departed(t) == [status EXCEPT ![t] = BLOCKED]
SndThd(c, t) ==
  /\ InLwt
  /\ t # lwt_head
  /\ SndWith(Departed(t), [gcounter EXCEPT !.runable = Dec(@)], c, t)
  /\ WakeAfter(Departed(t), c)

KSndResume == InLwt /\ SndResume /\ WakeAfter(status, call[lwt_head].chan)

\* lwt_yield(t): only to an lwt of the same kernel thread, else as lwt_yield(NULL).
SameKthd(t) == tid[t] = tid[lwt_head]
KYieldTo(t) ==
  /\ InLwt /\ InOwnCode
  /\ status[t] = ACTIVE
  /\ IF SameKthd(t) THEN lwt_head' = t ELSE Schedule(status)
  /\ UNCHANGED <<joinvars, status, gcounter, chanvars, kvars>>

\* The end of lwt_rcv_thd: t goes into the ring of its new kernel thread, last in
\* the round, and can run again.
BugStaysInRing(t) == list
Moved(t) == LET l == ListRem(list, t) IN ListAdd(l, ListPrev(l, lwt_head), t)
Arrives(t, st) ==
  /\ tid' = [tid EXCEPT ![t] = tid[lwt_head]]
  /\ list' = Moved(t)
  /\ status' = [st EXCEPT ![t] = ACTIVE]
  /\ UNCHANGED <<lwt_head, lwt_nojoin, target, return_val, joinee, handle, got>>

RcvThd(c) ==
  /\ InLwt
  /\ IF IsEmpty(c) THEN Rcv(c) /\ UNCHANGED kvars
     ELSE /\ InOwnCode
          /\ rcv_thd' = [rcv_thd EXCEPT ![c] = lwt_head]
          /\ RcvTakes(c)
          /\ Arrives(received', status)
          /\ gcounter' = [gcounter EXCEPT !.runable = Inc(@)]
          /\ UNCHANGED <<ccounter, call, curr, slvars>>
RcvThdResume ==
  /\ InLwt
  /\ Within(RcvCalls)
  /\ LET c == call[lwt_head].chan IN
       /\ c \in ThdChan
       /\ IF IsEmpty(c) THEN Waits /\ UNCHANGED kvars
          ELSE /\ RcvTakes(c)
               /\ Arrives(received', ReceiverWoken(status, c))
               /\ call' = [call EXCEPT ![lwt_head] = NULL]
               /\ gcounter' = [gcounter EXCEPT !.runable = Inc(Inc(@))]
               /\ ccounter' = [ccounter EXCEPT !.nrcving = Dec(@)]
               /\ UNCHANGED <<rcv_thd, curr, slvars>>

-----------------------------------------------------------------------------
(* The protocol the callers keep, beside that of LwtChan.                  *)

\* A channel the main thread has made is received from by one lwt, the first of its
\* home that tries, and an lwt waits for one unbuffered channel at most.
MayTake(c) ==
  /\ curr = Home[c]
  /\ rcv_thd[c] \in {NULL, lwt_head}
  /\ \A d \in Chan \ {c} : IsReceiver(d) => ~Unbuffered(d)

\* An lwt is sent while it is in its own code and not the receiver of a channel.
MaySend(t) ==
  /\ SameKthd(t)
  /\ status[t] = ACTIVE
  /\ t # head[tid[t]]
  /\ call[t] = NULL
  /\ \A c \in Chan : rcv_thd[c] # t

\* Memory does not run out before every kernel thread has its first two blocks.
MemoryLeft ==
  Cardinality({t \in Thread : status[t] = FREE}) >
    2 * Cardinality({k \in Kthd : at[k] \in {"none", "init"}})
      + Cardinality({k \in Kthd : at[k] = "first"})

KCreate(t) ==
  /\ InLwt /\ InOwnCode
  /\ MemoryLeft
  /\ KMake(t)
  /\ UNCHANGED <<chanvars, curr, slvars>>

KYield == InLwt /\ InOwnCode /\ Yield /\ UNCHANGED <<chanvars, kvars>>

LwtCalls ==
  \/ KYield
  \/ InLwt /\ InOwnCode /\ ~OwnsChannel /\ DieNojoin /\ UNCHANGED <<chanvars, kvars>>
  \/ \E t \in Thread : KCreate(t)
  \/ \E c \in Chan \ ThdChan, v \in Data \ Thread : MaySnd(c) /\ KSnd(c, v)
  \/ \E c \in Chan \ ThdChan : InLwt /\ MayTake(c) /\ Rcv(c) /\ UNCHANGED kvars
  \/ \E c \in ThdChan, t \in Thread : InLwt /\ MaySnd(c) /\ MaySend(t) /\ SndThd(c, t)
  \/ \E c \in ThdChan : InLwt /\ MayTake(c) /\ RcvThd(c)

LwtResumes ==
  \/ KSndResume
  \/ /\ InLwt
     /\ RcvResume
     /\ call[lwt_head].chan \notin ThdChan
     /\ UNCHANGED kvars
  \/ RcvThdResume

\* The main thread creates kernel threads before any of them runs.
Booting == curr = Sched /\ \A k \in Kthd : at[k] \in {"none", "init"}

KthdStep(k) ==
  \/ \E h \in Thread : InitHead(k, h)
  \/ \E t \in Thread : CreateFirst(k, t)
  \/ EnterRing(k) \/ LeaveRing(k) \/ CountActive(k) \/ Block(k) \/ YieldKthd(k)

KthdCalls ==
  \/ \E k \in Kthd : (Booting \/ InLwt) /\ KthdCreate(k)
  \/ \E k \in Kthd : KthdStep(k)
  \/ LwtCalls
  \/ LwtResumes
  \/ Timer
KthdNext == KthdCalls \/ \E t \in Thread : KYieldTo(t)
KthdSpec == KthdInit /\ [][KthdNext]_kthdvars

(* The kernel thread that has the processor goes on, and an lwt in its own     *)
(* code yields in the end; the timer starts the first kernel thread.  Directed *)
(* yields, which can keep one ring going for ever, happen finitely often.      *)
GoesOn == (\E k \in Kthd : KthdStep(k)) \/ KYield \/ LwtResumes
KthdFairness == WF_kthdvars(GoesOn) /\ WF_kthdvars(Timer)
KthdFairSpec == KthdSpec /\ KthdFairness
DirectedEnds == <>[][KthdCalls]_kthdvars

-----------------------------------------------------------------------------
(* Properties *)

\* Lwts in transit from one kernel thread to another: in a message that has not been
\* received, or in a call that has yet to send it.
InTransit ==
  {t \in Thread : \E c \in ThdChan :
     \/ \E u \in Thread : call[u] = SndCall(c, t)
     \/ t \in ToSet(Messages(c))}

\* lwt_head, the one variable all kernel threads share, is an lwt of the kernel
\* thread in the critical section and can run: no other kernel thread has moved it
\* meanwhile, as the documentation fears of a preemption.
HeadIsMine ==
  \A k \in Kthd : at[k] \in {"first", "ring"} =>
    /\ lwt_head \in Thread
    /\ tid[lwt_head] = k
    /\ status[lwt_head] = ACTIVE

\* The ring of a kernel thread holds its own lwts and no other, an lwt in transit
\* that of the one it comes from.
RingsApart ==
  \A k \in Kthd : head[k] # NULL =>
    /\ ListOK(list, Thread)
    /\ Ring(k) = {t \in Thread : status[t] # FREE /\ tid[t] = k}

\* A kernel thread sleeps only while none of its lwts can run.
NoSleepingWork ==
  \A k \in Kthd : sl_state[k] = "SL_THD_BLOCKED" =>
    \A t \in Ring(k) : status[t] = ACTIVE => t = head[k]

\* An lwt in transit does not run, and goes on in the kernel thread that received it.
TransitFrozen ==
  [][\A t \in InTransit :
       /\ lwt_head' # t
       /\ t \notin InTransit' => tid'[t] = tid'[lwt_head'] ]_kthdvars

\* A receiver gets its message, whichever kernel thread the sender is on: the one of
\* the receiver is woken, enters the critical section and comes around its ring.
Pending(c) == rcv_thd[c] # NULL /\ call[rcv_thd[c]] = RcvCall(c) /\ ~IsEmpty(c)
MessagesTaken == DirectedEnds => \A c \in Chan : Pending(c) ~> ~Pending(c)
=============================================================================
