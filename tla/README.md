# Verification of the lwt library and its scheduling library

This directory holds TLA+ models of two cooperating C libraries for the Composite
operating system: **lwt**, lightweight cooperative threads with channels
(`src/scheddev/lwt.c`), and **sl**, the user-level scheduler of kernel threads they
run on (`src/scheddev/sl.c`, `sl.h`, `sl_mod_fprr.c`). TLC checks the models on
small instances and TLAPS proves the central results for every instance.

## 1. The system

| Component | State | Operations | Modules |
|---|---|---|---|
| lwt threads (`scheddev/lwt.c`) | the ring of threads through the cursor `lwt_head`; per thread `status`, `lwt_nojoin`, `target`, `return_val`; counters | `lwt_init`, `lwt_create`, `lwt_yield`, `lwt_join`, `lwt_die` | `Lwt`, `ForkJoin`, `LwtProofs` |
| intrusive list (`include/ps_list.h`) | links | init, add, remove | `PsList`, `LwtProofs` |
| channels (`scheddev/lwt.c`) | per channel `rcv_thd`, `data_buffer`, `snd_thds`; counters | `lwt_chan`, `lwt_snd`, `lwt_rcv` | `LwtChan`, `Channel`, `LwtChanProofs` |
| channel groups (`scheddev/lwt.c`) | `cgrp`, `events`, the links of the event queue | `lwt_cgrp_add`, `_rem`, `_wait` | `LwtChan`, `LwtChanProofs` |
| channel and group lifetime (`lwt.c:318-336, 511-573`) | `snd_cnt`, `n_chan`, `nchan_counter`, the blocks in use, `struct __kthd_parm_t` | `lwt_chan_deref`, `lwt_snd_chan`, `lwt_rcv_chan`, `lwt_create_chan`, `lwt_kthd_create`, `lwt_cgrp`, `lwt_cgrp_free` | `LwtHeap`, `LwtHeapProofs` |
| kernel threads of lwts (`lwt.c:622-692`) | a ring per kernel thread, `tid`, one `lwt_head` for all | `__lwt_kthd_entry`, `lwt_kthd_create`, `lwt_snd_thd`, `lwt_rcv_thd`, `lwt_yield` and `lwt_snd` between them | `LwtKthd`, `LwtKthdProofs` |
| allocator (`scheddev/kalloc.c`, `src/kalloc.c`) | free list in address order | `kinit`, `kalloc`, `kfree` | `Kalloc`, `Allocator`, `KallocProofs` |
| first version of the library (`src/lwt.c`) | as lwt threads, channels, groups | the same calls | `LwtV1`, `LwtV1Proofs` |
| critical section (`sl.h:91-137`, `sl.c:20-49`) | the lock word: owner and contention bit | `sl_cs_enter`, `sl_cs_exit` | `SlCs`, `SlSchedProofs` |
| scheduler core (`sl.c`, `sl.h`) | `sl_thd.state`, scheduler token | `sl_thd_alloc`, `sl_thd_param_set`, `sl_thd_block`, `sl_thd_wakeup`, `sl_thd_yield`, `sl_cs_exit_schedule`, `sl_cs_exit_switchto`, `sl_sched_loop` | `SlSched`, `Scheduler`, `SlSchedProofs` |
| policy (`sl_mod_fprr.c`) | a run queue per priority | schedule, block, wakeup, yield, set priority | `SlSched` |
| kernel (not in the repository) | the running thread, tokens | `cos_sched_sync`, `cos_defswitch`, interrupts | `CosKernel` |
| timer policy (`sl_timer_mod_periodic.c`, `sl.h:251-277`) | `timer_next`, `timeout_next` | `sl_timeout_period`, `sl_timeout_mod_expended` | `SlTimer`, `SlTimerProofs` |
| thread backend (`sl_thd_static_backend.c`) | a table | | not modelled |

**How the parts interact.** Lwts of one kernel thread are cooperative: the one
`lwt_head` points at runs until it calls the library, and `__lwt_dispatch` is the
only place where the processor changes hands between them. Channels add two ways to wait: a
loop that tests a condition and yields while the thread stays ACTIVE (senders), and
the same loop while it is WAITING and skipped by the scheduler (receivers), until a
sender sets `rcv_thd->status`. Kernel threads take turns at the library: each runs its
ring inside the critical section of sl, leaves it, counts what is left to run, and
blocks or yields. A receiver on another kernel thread is also woken through the run
queues of sl. Threads, channels, nodes and groups live in memory from `kalloc`, and
references to channels travel in messages. sl's own data is guarded by a lock word; kernel threads
are preempted anywhere, and a switch decided inside the critical section is carried
out after it has been left, under a *scheduler token* that makes the kernel refuse
it when another decision came in between.

**What is hard here.**
- joins: who is woken by a death, and that memory is given back once and only after it;
- the ring is changed at the very cursor the scheduler scans from;
- channel waits and join waits set and clear the same status word;
- the event queue of a group is kept by senders and receivers of different channels;
- a channel is freed by whoever lets go last, known only by a count of senders;
- the free list trusts the lengths its callers give back, and what it reads in runs that are
  too short for their own header;
- kernel threads share `lwt_head`, and count their work outside the critical section;
- a thread is in a message, and on the ring of its sender, until it is received;
- preemption between the read of the lock word and the compare and swap, and between
  choosing a thread and switching to it; refused switches and their retries;
- a wakeup that comes before the block it is for;
- threads are made and change run queues outside the critical section.

## 2. Modules

### Lwt (with PsList and ForkJoin)
One action per library call, up to the dispatch in it or to its return:
`Create`, `Yield`, `YieldTo`, `Join` (refused, blocking, at once), `JoinResume` (the
part of `lwt_join` after its dispatch), `Die` (`DieNojoin`, `DieJoin`). Variables have
the names of the fields. `FREE` marks a block `kalloc` owns. Three variables are not
fields: `joinee[t]` is the argument on the stack of a suspended `lwt_join`;
`handle[t]` is the thread whose code holds the `lwt_t` returned by `lwt_create`;
`got` is what the last join returned. The counters are unsigned and wrap at
`UINT_MAX`. `lwt_head = NULL` stands for a scan that never ends or a failed
assertion, which `NeverStuck` excludes.

The ring is modelled by its `n` and `p` links with the operators of `PsList`, so that an
insertion or a removal in the wrong place shows as a broken ring.

`ForkJoin` is what the calls promise, without ring, scheduler, status or counters;
`ForkJoinPromise` says that `Lwt` implements it under the mapping in `FJ`.

*Rules for callers* (the specification does not hold without them, and `WildSpec`
shows what happens): a thread joins only threads it created and has not joined, and
none that is itself blocked in a join (`Joinable`); the initial thread does not die.

### LwtChan (with Channel)
Extends `Lwt` with channels and groups on one kernel thread. `call[t]` is the call a
thread has yielded in; `Snd`, `Rcv`, `CgrpWait` are the first pass through a call and
`SndResume`, `RcvResume`, `CgrpWaitResume` one round of its loop. A call that does not
have to wait is one action. The sender's branch that wakes another kernel thread
(`lwt.c:409-415`) is never taken with one kernel thread; `LwtKthd` adds it. `SndWith`
takes the statuses and counters it starts from, as `lwt_snd_thd` changes them first.
`DirectedYield` is `lwt_yield` with an argument. `CgrpRem` is called only where the
assertion at `lwt.c:586` holds, that no sender waits on the channel.
The allocation of channels and groups is in `LwtHeap`.
`Channel` is a bounded fifo; `ChannelPromise` says that every channel implements it.

*Rules for callers*: a thread sends on the channels of others and receives on its
own (`MaySnd`, `MayRcv`); a receiver that owns an unbuffered channel does not wait on
another of its channels; channels are empty when they join a group (`MayAdd`) and
waited for through the group afterwards; the owner of a channel neither dies nor
joins a running thread (`MayJoin`). `TwoChannelsSpec` drops the rule about unbuffered
channels. `MayJoin` is needed because `lwt_snd` makes its receiver ACTIVE whatever it
is doing (`lwt.c:408`): a receiver blocked in `lwt_join` would come back early and free
a child that runs. `MayAdd` is needed because only `lwt_snd` posts events: a channel
that joins a group with a message in it is not in the event queue (`lwt.c:575-582`).

### LwtKthd
Extends `LwtChan` with kernel threads. `at[k]` is where a kernel thread is in
`__lwt_kthd_entry`, one action per step: the block of its own (`InitHead`), its first lwt
(`CreateFirst`), `EnterRing` and `LeaveRing` around the round of its ring in the critical
section, then outside of it `CountActive`, `Block`, `YieldKthd`. `curr` has the
processor; `Timer` may give it to another between any two steps, or, while the critical
section has an owner, back to the owner, since the scheduler thread defers to it. A call
of sl is one step here: `SlSched` has the steps, and shows that a switch carried
out late is not a stale one. All kernel threads share `lwt_head`, as in the code.
`KSnd`, `SndThd`, `RcvThd` and their `Resume` actions are the calls of `LwtChan` with
the wakeup of a kernel thread and the moves of threads; a thread sent over a channel
stays in the ring it comes from, BLOCKED, until it is received.

Two things that look like races are none because of facts elsewhere in the code, and the
model is built on them. A kernel thread counts its ACTIVE lwts after it has left the
critical section and blocks on the result (`lwt.c:637-649`), and a new one writes
`lwt_head` and takes memory outside it (`lwt.c:624-627`). A message or another write of
`lwt_head` in between would be harmful; but every kernel thread has priority 10
(`lwt.c:663`) and the policy does not rotate ("No RR yet", `sl_mod_fprr.c:12`), so
the timer returns to the first of the one run queue, and only a call of its own
takes a kernel thread from there. With different priorities, or round robin, both would
be open. When every kernel thread has blocked, an assertion of the policy fails (the
second case of `AssertsFailOnly`); `curr` is `NULL` then.

Lwts of several kernel threads use no groups and make no channels of their own in this module, which
`test_kthd_multiwait` (`unit_schedlib.c`) does. `lwt_snd_chan` of the caller's own channel (`lwt.c:511-520`) is
`KSnd` with the channel as the datum, and `lwt_rcv_chan` is `lwt_rcv`; the reference counts of these are in `LwtHeap`. A
channel whose receiver changes from one kernel thread to another is not modelled.

*Rules for callers*: those of `LwtChan`; lwts are `LWT_NOJOIN` (a join across kernel
threads would not wake the kernel thread of the joiner); the channels are made by the main
thread before any lwt exists, so that they are received from before they are sent
on (`MayTake`, `rcv_thd` is not set before); a thread that is sent is in its own code and
receives from no channel (`MaySend`); memory lasts until each kernel thread has
started (`MemoryLeft`).

### Kalloc (with Allocator), LwtHeap
`Kalloc` has the free list as a sequence of runs with address and length, counted in
words of four bytes where lengths are the real ones. `Freed` is `kfree`: where its walk along the list stops, and with which of the runs
there the block is joined. `TakeFrom` is the loop of `kalloc`, which cuts a block off the end
of the first run that is long enough. The two versions of the file differ when there is none:
one gives page after page to `kfree` (`AllocPages`), the other returns what `malloc` gives
(`AllocMalloc`); `lib` is which of the two this is. `Allocator` is what an allocator promises, and
`AllocatorPromise` says that `Kalloc` keeps it: blocks never overlap, and the
system is asked for memory only when no free interval is long enough, however
freed blocks were cut. `memory` is a history variable.

A free run keeps its own `struct run`, 8 bytes, at its start, and `kalloc` leaves remainders that are
shorter (`kalloc.c:94`). With 4 bytes left, `len` is the first word of the block just handed out; with 2, as
the 52 + 3074 = 3126 bytes of an lwt with the default `STACK_SIZE` leave them, a part of `next` is there too. No
choice of `STACK_SIZE` helps: a group has 12 bytes and an unbuffered channel 60. `Write(b)` is the owner of such
a block filling it. The model follows what becomes of `len`, which is enough for blocks
to overlap (run `kalloc_overlay`), and not `next`, after which the list may be anything. `intact` says
that no owner has done so yet: `KInv` is `intact => KallocOK`, and `AllocatorPromise` asks only steps from
such states to be steps of `Allocator`. The lengths themselves
are not restricted beyond having room for a header (`KallocAssumption`): the smallest block, a group, has
12 bytes. The assertions of `kalloc` and `kfree` on the length (`kalloc.c:34`, `kalloc.c:86`) are guards.

`LwtHeap` is the library as a client of `Kalloc`: what it allocates and frees, with the
reference counts of channels and the channel counts of groups. `holds[c][t]` counts the
references to a channel the code of a thread has. When threads wait is left to
`LwtChan`: a call that would wait is not made. `parm[k]` is the block that `lwt_kthd_create` asks for and
nobody gives back; `KthdHead` and `KthdFirst` are the two lwts a new kernel thread
makes, of which the second gets the channel (`lwt.c:622-627`). `lwt_kthd_create` does not count that reference:
a channel that was handed over (`handed`) may be given back while the kernel thread still has it, and
`RefsCounted` is about the others. The model ends with the first write over a header (`intact`), and has no
calls on a channel that has been given back.

*Rules for callers*: whoever lets go of a channel last leaves no message in it and
has taken it out of its group (`MayDeref`); a thread that ends has let go of its channels and
is the receiver of none (`Ends`); on an unbuffered channel the receiver is another thread (`SndChan`).
`lwt_snd_chan` makes the caller the receiver of the channel it sends, whoever that was (`lwt.c:517`), and so does the
model. A channel whose last reference is not its receiver's is never freed, although the
comment (`lwt.c:313-316`) says that a channel without references is: the model has that behaviour, and
`RefsCounted` asks for the other direction, that no channel is freed while somebody has it.

### LwtV1
The first version of the library, on the operators of `Lwt` and `LwtChan` where it does
the same, with its own actions where it does not: `lwt_join` dispatches the thread it waits
for and no other (`V1JoinBlocks`), `lwt_rcv` goes through WAITING even when there is a
message and takes the maker of a channel for its receiver (`V1Rcv`), and scans and counters
are in another order. `V1YieldTo` is `lwt_yield` with an argument. The directed yield of a join means that two threads that create and
join keep all others from running, which is why no liveness is stated of it.

*Rules for callers*: those of `LwtChan`; besides, a `LWT_NOJOIN` thread does not end.
Its death (`src/lwt.c:128-136`) gives `&tmp`, a piece of the stack it runs on, to `kfree`,
keeps its block, and goes to the next thread of the ring whatever its status.

### CosKernel, SlCs
`CosKernel` is the kernel as sl uses it: one processor, tokens, a switch that is
accepted or refused, interrupts. Tokens are kept as the set that would still be
accepted and the order in which they were taken; numbers would be unbounded.

`SlCs` is the lock at the grain of one read, one compare and swap or one switch.
`cs[t]` is the place of a thread in `sl_cs_enter` and `sl_cs_exit`; `seen[t]` is its
local copy of the word. By itself (`CsSpec`) it is proved about with an interrupt that may
give the processor to any thread at any step; TLC runs it as part of `SlSched`.

### SlSched
Extends `SlCs` with thread states, run queues, library calls and the timer.
`stage[t]` is where a thread is in its call: `work` in the critical section, then
`pick`, `choose`, `switch` for the three parts of `sl_cs_exit_schedule` (token,
choice and release, switch), `away` once the switch was carried out, `aborted` after a failed assertion. Data that the
critical section guards changes in one action per call; entering and leaving it and the
switch are separate steps, with the timer in between. An assertion that fails stops the program (`Running`).
`wakes` is a history variable.

Two assertions can fail, and `AssertsFailOnly` says when. `sl_mod_schedule` asserts
(`sl_mod_fprr.c:29`) when every run queue is empty: the idle thread is on none, so that this happens as soon as the last
thread of the application blocks, and the fallback in `sl.h:200` is never reached.
`sl_mod_wakeup` asserts that its thread is on no queue (`sl_mod_fprr.c:43`): `sl_thd_wakeup` lets a thread through that
is WOKEN already, as its check `assert(t->state = SL_THD_BLOCKED)` is an assignment (`sl.c:92`). Threads block, and wake each other, whenever they like.

Making a thread and setting its priority are outside the critical section in the code, and
are here: `Alloc` and `ParamSet` start, with the thread on no run queue, and `Place` puts
it on one; the timer and other threads come in between.

The notifications that `cos_sched_rcv` delivers and `sl_thd_free` are not modelled. When
the timer fires is left open here; `SlTimer` decides it.

*Rules for callers*: threads are made and moved by the one the
policy would choose, and neither it nor a blocked thread is moved (`MayMake`,
`MayMove`). While a thread is on no run queue and
others run, one of them can switch to it by name, it can block, and it is queued afterwards
although blocked; a thread that moves itself and is preempted between
removal and insertion is lost.

`Scheduler` is what the library promises, without lock word, tokens, refused switches,
WOKEN threads and retries: a monitor that one thread is in at a time (`inside`), a queue of
ready threads for each level, wakeups as permits (`permits`), and threads asleep. A
thread goes to sleep only without a permit, comes back by using one up, and the processor is
given only while nobody is in the monitor, to the head of the best queue or to the ready
thread the one before has asked for. `SlSched` implements it (`SchedulerPromise`): `inside` is the owner in
the lock word, so that the monitor is entered and left at a compare and swap, `permits`
is `wakes`, `asked` is the thread that `sl_thd_yield` names, and a thread has a `level` unless it is
being made or moved. The guards of `Sleep` and `Return` make `WakeupsCount`, that no
wakeup is lost and none counts twice, a consequence.

### SlTimer
Extends `SlSched` with a clock and the periodic timer. Only the time from now on matters: `timer_next`
and `timer` say how much is left until an expiry, and negative is the past, so that
the state space is finite. Each action is one of `SlSched` with the time it takes: a step
of the library 0 or 1, a step of a thread in its own code (`OwnCode`) 1. So the timer can expire
between any two steps, also between the look at the clock (`sl.h:183`) and the switch
(`sl.h:209`). `Expended` is `sl_timeout_mod_expended`. The kernel's timer is set by each switch that is
carried out, the ones of a contended section (`sl.c:33`, `sl.c:46`) too, which look at no
clock and may hand over an expiry that has passed. `phase` is a history variable.

*Assumption about the kernel*: a timeout in the past makes the timer expire after one step
(`Soonest`). If the kernel took it for "no timeout", `TimerIsSet` would fail, and for that no
contention is needed: the expiry may pass between the look at the clock and the switch.
The policy counts in cycles throughout: `sl_usec2cyc` turns the period into cycles once, by an exact
multiplication (`sl.h:283-285`), the clock is `sl_now()`, and `sl_cyc2usec`, which divides, is not called. Only what the kernel
is given is rounded, by its own `tcap_cyc2time` (`sl.h:272`); `timer` is when it fires.
That a switch cannot be refused for ever (`sl.h:218` tries again while its token is
outdated) is no property of this module: it depends on how long the steps are
and how late the timer comes, which the repository does not say.

## 3. Runs

| Run | Instance | Question |
|---|---|---|
| `lwt` | 4 threads, 1 value | `CountersAccurate`, `RingIsLive`, `NoLostJoiner`, `NeverStuck`, `ReclaimOnlyEnded`, the inductive invariant, and the refinement of `ForkJoin`; `NoStarvation`: the scan reaches every ACTIVE thread; `JoinsReturn` |
| `lwt_wild` | 3 threads | *violated*: a join of a blocked thread |
| `chan_sync` | 3 threads, 2 values, an unbuffered channel | `Synchronous`, the five counters, fork and join with channel waits; `ReceiverReturns`: a receiver whose channel has a message comes out of its call |
| `chan_group` | 2 threads, an unbuffered channel and one of size 2, a group, 2 messages | `NoLostWakeup`, `EventsComplete`, the refinement of `Channel` |
| `chan_two` | as `chan_group` | *violated*: two messages wait on an unbuffered channel |
| `kthd` | 2 kernel threads, 5 blocks, a channel of size 1 for lwts one way and an unbuffered one for messages the other way | `HeadIsMine`: nobody else has moved the shared `lwt_head`; `RingsApart`; `NoSleepingWork`; `TransitFrozen`: an lwt in a message does not run; `MessagesTaken`: a receiver gets its message from another kernel thread |
| `heap` | 3 threads, 2 channels, a group, a kernel thread, 28 words in both versions | `KInv`, the invariant of the free list, and the refinement of `Allocator`; `RefsCounted`, `BlocksMatch`, `ChansCounted` |
| `kalloc_overlay` | blocks of 3, 4 and 15 words (a group, a node, an unbuffered channel), 40 words | *violated*: two blocks overlap after a run that is shorter than its header |
| `v1` | 3 threads, a channel, a group | `NoLostWakeup` and the refinement of `ForkJoin` for the first version |
| `sched_safety` | the scheduler thread, a thread, and one made at run time and moved between 2 priorities | `MutualExclusion`, `NotRecursive`, `MarkSeen`, `AssertsFailOnly`, `QueuesMatch`, `NoStaleSwitch`, and the refinement of `Scheduler` |
| `sched_timer` | the scheduler thread and 2 threads of different priorities; a period of 2, a clock looked at up to 1 late | `TimerIsSet`: whoever is in its own code has the timer before it; `PeriodsKept`: the expiries do not drift when the library looks at the clock late; `OwnerLeaves`: the owner of the critical section gets out of it |
| `sched_handover` | 2 threads of different priorities and the scheduler thread | *violated*: the release of a contended section does not always switch to the scheduler thread |

**Why the bounds are enough.** Four lwts allow a chain of two joins beside a third
thread that inserts and removes ring nodes, and reuse of freed blocks. `UINT_MAX = 7`
keeps a counter that goes below zero visible and is larger than any true count. A
buffer of size 2 has three slots, so full, empty and wrapped differ; with an unbuffered
channel in the same group the event queue gets two members in either order. The lock needs a
holder, a waiter and an intruder that outdates the waiter's token: three threads. Two
application threads with the scheduler thread and the timer give every order of block,
wakeup, and refused switch; as one is moved between the priorities, they share a run
queue at times and rotate in it. Two kernel threads need four blocks, and a fifth is the
lwt that is made and sent; a third kernel thread would only lengthen the one queue. In the
heap the pool holds two threads, so that the third takes pages or a `malloc`, and
lengths from 3 to 7 make every joining of neighbours, every exact and inexact fit, and remainders of
one word happen; groups, nodes and parameters have their real lengths, 3, 4 and 4 words, and
threads and channels are scaled down. In `kalloc_overlay` all three lengths are real; `MaxSnd` bounds the references to a channel, `MaxMem` the addresses. A
timer period of 2 is shorter than any library call, so that the timer comes in every call and anywhere in
it, and `MaxLate = 1` lets the library come late by a part of a period; whole periods that are missed are
covered by the proof (`TimerKeepsPeriods`) and not by the run. In `lwt` one value tells a result that
was handed over from none; `chan_sync`, whose state is smaller, has two. `TypeOK` and `SchedTypeOK` are checked as parts of `IInv` and `TimerTypeOK`.
Symmetry is used for interchangeable blocks, values and messages, in runs without
liveness properties only. `CHECK_DEADLOCK FALSE` appears in the channel runs and in `kthd` and `v1`: a program
whose threads all wait for messages nobody will send has stopped, and the scan of
`__lwt_schedule` spins for ever. In `heap` it is memory that may run out (`MaxMem`), or the model that ends at a
header written over, and in the runs of the scheduler an assertion that fails. The runs of threads alone keep
the deadlock test.

**Fairness.** Lwts are cooperative, so fairness is about callers. `FairSpec`: the
running thread gives up the processor eventually (`WF` of `Yield` and `JoinResume`). By directed
yields two threads can keep the processor between them, so that `NoStarvation` and `JoinsReturn` have the hypothesis
`DirectedYieldsEnd`, that there are finitely many of them. `JoinsReturn` has another one, `ThreadsEnd`: a thread that runs again and
again ends (`SF` of `Die`). `ChanFairSpec`: a suspended call goes on around its loop and a thread in its own code
yields; `NamingEnds` is the hypothesis about directed yields. A sender may still starve behind another one, which is how the code behaves.
`KthdFairSpec`: the kernel thread that has the processor goes on, an lwt in its own code
yields in the end, and the timer fires again (it starts the first kernel thread).
`MessagesTaken` has as hypothesis `DirectedEnds`, that directed yields happen finitely
often: two lwts can keep one ring going with them for ever.
`TimedFairSpec`: the processor does not stand still until an assertion fails; some step is always possible
until then, so that this is `WF` of `TimedNext` without the cost of an `ENABLED`. No thread is promised a turn, nor is
a step of its library call: a thread that gets the processor with the timer set has at
least one step before it expires, and the rest follows from who switches to whom.
There is no fairness about callers. `OwnerLeaves` asks for it until an assertion fails, which stops the
program.

## 4. Where the code and its documentation disagree

1. `lwt_wild` (`lwt.c:94`): `lwt_join` takes every thread that is not ACTIVE for an
   ended one. Joining a thread that is blocked in a join frees it alive and takes
   `died_counter` below zero.
2. `chan_two` (`lwt.c:463`): `lwt_rcv` on an unbuffered channel with two waiting
   messages frees the node it keeps and leaks the one it has unlinked. The message read
   next comes from freed memory.
3. `sched_handover` (`sl.c:46`): the token for the handover is taken before the word is
   read; a waiter that marks the word in between outdates it, the kernel refuses the
   switch and the result is ignored.
4. `kalloc_overlay` (`kalloc.c:94`): a remainder of 4 bytes stays in the free list with its length
   in the block handed out behind it, and `kalloc` trusts what the owner writes there. The
   memory of a channel is then given to another caller. The lengths of the library do that for
   every `STACK_SIZE`.

Each of these is a run that TLC finds violated. Three more are seen in what the passing runs have to say:

- `lwt_kthd_create` hands a channel over without counting the reference (`lwt.c:661`), and the channel is given
  back when its maker lets go, which the comment of `lwt_chan_deref` (`lwt.c:313-316`) rules out. `RefsCounted`
  is stated without these channels and fails with them;
- `sl_mod_schedule` asserts when every thread of the application is blocked (`sl_mod_fprr.c:29`), where its
  caller expects `NULL` and would take the idle thread (`sl.h:200`);
- the check that a woken thread was BLOCKED is an assignment (`sl.c:92`); a second wakeup in a row gets past it, and
  an assertion of the policy fails (`sl_mod_fprr.c:43`). `AssertsFailOnly` has these two as its cases.

Behaviour outside the rules for callers, such as a message to a joining receiver, is described with
the rule it breaks in section 2.

## 5. Proofs

All proofs are checked by TLAPS to the last leaf. Each inductive invariant was first
checked by TLC on the instances of section 3. The assumptions are those the modules name:

- `LwtAssumption`: finitely many blocks of threads, `Main` among them, and no more than a counter
  can count; `ChanAssumption`, `CallAssumption`: finitely many channels, and `NULL` is no channel,
  datum or call; `HeapAssumption`: finitely many threads, channels, groups and kernel threads, and `Lens` has the
  lengths of their blocks;
- `KernelAssumption` (`Sched` is a thread), `NullAssumption`, `SchedAssumption`: finitely many
  threads, of which one of the application is there from the start (`sl_mod_schedule` asserts that
  it finds one); `TimerAssumption`: the period is not 0;
- `KallocAssumption`: every length has room for the header of a run.

**Lists** (in `LwtProofs`). `ListInitOK`, `ListAddOK`, `ListRemOK`: insertion next to a node
and removal keep forward and backward links inverse to each other. A ring is stated without
walking it: `OneRing` says that a set closed under the links has no smaller closed part but the
empty one. It is kept by insertion and removal, and `WalkExists` and `ListWalkStep` lead from it to
what a walk of `ListNext` meets.

**Threads** (`LwtProofs`). `Invariance` proves `IInv`. None of the properties is
inductive alone: that a death wakes the right joiner needs both ends of every wait recorded
(`JoinInv`), that a join finds a block that has not been reused needs the handles (`HandleInv`),
that the counters do not wrap needs the cursor to be on an ACTIVE thread (`HeadInv`), and a
removed node must be alone (`LinkInv`). From it follow `TypeCorrect`, `CountersExact`,
`JoinersKept`, `LinksConsistent` and the action property `ReclaimSafe`. `KeepsPromise` proves
the refinement of `ForkJoin`, one lemma per action. `RunInvariance` adds `RunInv`: the blocks in
use are one ring, the initial thread has not ended, and waits form no cycle. Then
some thread is always ACTIVE and the scan finds it: `AlwaysRuns` (no scan goes on for ever, and the
assertion in `lwt_die` never fails) and `RingComplete`. All of it covers directed yields too.

**Channels and groups** (`LwtChanProofs`). `ChanInvariance` proves `CInv`, for any numbers of threads,
channels and groups and any capacities. The invariant of the threads has to be stated again
with the WAITING status (`ThreadInv`); `CallInv` and `ProtocolInv` say in which call a thread of each status is and
what its caller has promised. `MessageInv` is the fact that is easy to miss: an
unbuffered channel is sent on only while its receiver is WAITING for it, and the send makes the receiver
ACTIVE, so that it never holds two. `EventInv` says that the event queue of a group is one ring of
exactly its channels that hold a message. From it follow `ChanTypeCorrect` (indices stay in their ring
buffers), `ChanCountersExact`, `WakeupsKept`, `QueuesComplete` and `ReceivesWhatWasSent`.
`ChannelsKeepPromise` proves that every channel implements the bounded fifo `Channel`; its lemmas
are about a ring buffer with one spare slot, whose indices are followed by cases in
place of remainders. `SendsMeetReceivers` proves `Synchronous`, and `ChanKeepsForkJoin` the refinement of `ForkJoin`
although channel waits and joins share the status word.

**Kernel threads** (`LwtKthdProofs`). `KthdInvariance` proves `KInv`, for any numbers of kernel threads,
lwts and channels and with a timer that may fire at any step outside the critical section. Its parts hold each
other up:

- `QueueInv`: the kernel thread that runs is the first of the run queue, and one that is
  between entering the section and its call of the scheduler is the one that runs;
- `LwtsInv`: the lwts of each kernel thread are one ring, those in transit from it
  included, and the head it has saved is on that ring and ACTIVE. `lwt_head` is on the
  ring of whoever is inside, which is `HeadKept`, and from the rings follows `RingsKeptApart`;
- `ReceiveInv`: the receiver of a channel is up, and WAITING only when the channel is empty;
- `TransitInv`: an lwt that has been sent is in one message or one pending send, and nowhere
  else: not a head, not a receiver, not in a call. Without it the receiver might link in a thread that is
  on another ring, or that runs. `TransitKept` follows from it;
- `SleepInv`: a kernel thread that sleeps, or has counted its lwts and is about to, has
  no ACTIVE lwt but its head. A message to it in between would break that; none can come, because
  between the count and the block the kernel thread stays the first of the run queue, and a timer gives
  the processor back to it (`QueueInv`). `SleepsOnlyIdle` follows.

The rings are handled by the same lemmas as the single one, applied to each closed part of the links: a
step touches the ring of one kernel thread (`RingElsewhere`), except for the receipt of an lwt, which
takes it out of one and puts it into another (`MovedRings`). `ChannelsAcrossKthds` proves that every channel
is still a bounded fifo; run `kthd` leaves that property out to stay short.

**First version** (`LwtV1Proofs`). Every step of `LwtV1` is a step of `LwtChan` (`SameSteps`), except for the join
that dispatches its target, for which a lemma of `LwtChanProofs` is stated for any next head
(`Blocks`). That includes the receive that goes through WAITING with a message there: it is back to ACTIVE
in the same call (`SameRcv`). So `CInv` is invariant here too (`V1Invariance`), and with it `V1WakeupsKept`,
`V1CountersExact`, `V1QueuesComplete`, `V1SendsMeetReceivers`, and the promises `V1KeepsForkJoin` and
`V1ChannelsKeepPromise` (run `chan_group` checks that one, on the newer version).

**Memory of the library** (`LwtHeapProofs`). `HeapInvariance` proves `HInv`: every
thread, channel, group, node and set of parameters has a block and no two have the same (`UnitInv`), and
references are counted as the elements of a set of places that hold one (`RefInv`), in a thread or in a message, for channels that `lwt_kthd_create` has not handed over. Since
`Refs(c)` is `snd_cnt + 1` for as long as there is one, who finds the count at 0 lets the
last one go: `ReferencesCounted`. A channel that was handed over stays out of this until its name is used
again, which needs that nobody has the old one. `BlocksAreMatched`: what is handed out is what these
things have, and as many as they are. `ChannelsCounted`. `HeapUsesKalloc`: every step is a step of the
allocator or leaves it alone, so that what is proved of `KallocSpec`, whose callers give back
what they were given, holds of the library (`HeapKeepsPromise`); like that, it holds until an owner has written over a header.

**Allocator** (`KallocProofs`). `FreeListInvariant` proves `KInv`, that the allocator's state is in order (`KallocOK`) for as long
as `intact`, in the addresses of
runs. What `kfree` and `kalloc` do to the list is first stated of a list by itself: `Good`
says it is in address order with gaps, and the lemmas `FreedGood` (by where the walk stops
and which neighbours are joined) and `TakeGood` (by whether the run is used up) show that
both keep it and which words the list then covers. The invariant follows with one
step per case of `kalloc`; paging is `kfree` of a page at the top of memory. That every word is in
one run or one block is needed for it: otherwise a freed block might overlap a run.
`KeepsAllocatorPromise` proves the refinement of `Allocator`. Its hard part is `RoomHasFit`: a
free interval of `n` words lies in a single run, as runs that touch have been joined, so
that first fit finds it and no memory is asked for in vain.

**Critical section** (in `SlSchedProofs`). `CsInvariance` proves `CsIInv`, that the word names
the thread inside (`OwnerHolds`) and that an entering thread acts on what it has read
(`SeenInv`); exclusion follows because a word names one owner. From it
`Exclusion`, `NeverRecursive` and `MarksSeen`. The kernel's tokens play no part: exclusion
rests on compare and swap alone, and the proof makes no assumption about who runs when.

**Scheduling library** (`SlSchedProofs`). Every step of `SlSched` is a step of the
critical section or leaves it alone (`LibraryStep`), so that `SchedExclusion` holds for any number of
threads and priorities, also while threads are made and moved. The rest is
one invariant in two parts. `ControlInv`, by itself inductive: a token that is still good was taken after the last
switch, so that only the scheduler thread, which the timer brings in, can have run since;
and while a thread is inside the critical section it has the processor or the scheduler thread has. That
gives `OnlySchedWaits`: no thread of the application ever finds the section taken. `DataInv` builds on
it: some thread is on a run queue, unless the last one has just blocked and is about to look for
another (`LastBlocks`); the
number of wakeups a thread is owed follows from its state (`WakesInv`); while a thread is between run
queues only its mover runs and stays the best (`PlaceInv`); what was decided holds while the token
does (`SwitchInv`). A failed assertion stops the program, in one of the two states `StoppedInv` names. From it `SchedAsserts`, `SchedQueues`, `SchedWakeups`, `SchedTypes` and the
action property `SchedSwitch`. `KeepsSchedulerPromise` proves the refinement of `Scheduler`, one lemma for each
kind of step: `SectionMaps` (the lock), `WorkMaps` (what a call does inside), `SwitchMaps`,
`ReturnMaps`, `CallMaps` and `MakerMaps`. It rests on both parts of the invariant: that a switch finds
nobody inside is `OwnerInv`, that it goes to the best thread as of now `SwitchInv` with `TokenInv`, and
that a return has a permit to use up `WakesInv`.

**Timer** (`SlTimerProofs`). `TimedIsSched`: with the clock, every step is a step of `SlSched` or a
stutter (the timer that expires while the scheduler thread runs). So what is proved with a
timer that may expire at any time holds with the periodic one: `TimedExclusion`, `TimedScheduler`, `TimedPromise`.
`ClockInvariance`: the timer is off only while the scheduler thread runs, as whatever gives the processor away
sets it, and `timer_next` plus the phase is a multiple of the period, also after expiries
that were missed. From it `TimerAlwaysSet`, `TimerKeepsPeriods` and `TimedTypes`.

**Only model-checked**: liveness (`NoStarvation`, `JoinsReturn`, `ReceiverReturns`,
`OwnerLeaves`, `MessagesTaken`), since TLAPS does not reason about fairness here. Every safety
property that a passing run checks is also a theorem.

## 6. What is not modelled, and the plan

What is left to do: `LwtKthd` over the steps of `Scheduler`, in place of its own `KernelWake`, `Block`,
`YieldKthd` and `Timer`, so that the two libraries are one composition; `SlSched` itself under two
kernel threads is beyond TLC. And groups and channels made by lwts of several kernel threads in `LwtKthd`, with
channels that change their receiver's kernel thread.

Left out for good:
- the notifications `cos_sched_rcv` delivers: what the kernel reports about threads that
  block in it is not in the repository;
- `sl_thd_free` and `sl_mod_thd_delete`: nothing calls them (the first does not call the
  second, so that a freed thread would stay on its run queue);
- the death of a `LWT_NOJOIN` thread in the first version, which is undefined behaviour;
- the thread backend, a table indexed by thread id;
- the assembly of `__lwt_dispatch` and the stacks; marks and ids, which are plain data;
  tcaps and budgets, which the kernel keeps; printing, tests and benchmarks, which were read for
  how callers use the library.
