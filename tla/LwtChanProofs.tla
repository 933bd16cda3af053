----------------------------- MODULE LwtChanProofs -----------------------------
(***************************************************************************)
(* Theorems about LwtChan for every finite set of threads and channels,    *)
(* every capacity of the channels, every set of groups and of messages:    *)
(* types, counters, wakeups, event queues, synchronous sends, and the      *)
(* implementation of Channel and of ForkJoin.                              *)
(***************************************************************************)
EXTENDS LwtChan, LwtProofs, SequenceTheorems

(* The inductive invariant: the threads, as in Lwt, with one more status.   *)

\* A thread that is neither blocked in lwt_join nor ended, and runs or waits.
Up == {ACTIVE, WAITING}

ThreadTypeOK ==
  /\ lwt_head \in Thread \cup {NULL}
  /\ status \in [Thread -> Status \cup {WAITING}]
  /\ lwt_nojoin \in [Thread -> Flags]
  /\ target \in [Thread -> Thread \cup {NULL}]
  /\ return_val \in [Thread -> Value \cup {NULL}]
  /\ joinee \in [Thread -> Thread \cup {NULL}]
  /\ handle \in [Thread -> Thread \cup {NULL}]

\* What a thread suspended in lwt_join(u) has, and what u has.
Joining(t, u) ==
  /\ handle[u] = t
  /\ target[u] = t
  /\ lwt_nojoin[u] = JOIN
  /\ \/ status[t] = BLOCKED /\ status[u] \in Up \cup {BLOCKED}
     \/ status[t] = ACTIVE /\ status[u] = DEAD

WaitInv ==
  \A t \in Thread :
    /\ status[t] = BLOCKED => joinee[t] # NULL
    /\ joinee[t] # NULL => Joining(t, joinee[t])
    /\ target[t] # NULL => joinee[target[t]] = t
HoldInv ==
  \A t \in Thread :
    handle[t] # NULL =>
      /\ handle[t] # t
      /\ status[t] # FREE
      /\ status[handle[t]] \in Up \cup {BLOCKED}
ThreadInv == ThreadTypeOK /\ HeadInv /\ WaitInv /\ HoldInv /\ BlockInv

(* The calls: a receiver keeps running or waiting, whoever is in a call too, *)
(* and only a receiver waits.                                               *)

RcvInv ==
  \A c \in Chan :
    IF rcv_thd[c] = NULL THEN cgrp[c] = NULL
    ELSE status[rcv_thd[c]] \in Up /\ joinee[rcv_thd[c]] = NULL
CallInv ==
  \A t \in Thread :
    /\ call[t] # NULL => status[t] \in Up /\ joinee[t] = NULL
    /\ \A c \in Chan, v \in Data : call[t] = SndCall(c, v) =>
         status[t] = ACTIVE /\ rcv_thd[c] # NULL

\* Whoever waits for one channel receives from no other unbuffered one; whoever waits
\* for a group receives from all its channels, and from no unbuffered one outside.
WaitsForOne(t, c) ==
  /\ rcv_thd[c] = t
  /\ cgrp[c] = NULL
  /\ \A d \in Chan \ {c} : rcv_thd[d] = t => ~Unbuffered(d)
WaitsForGroup(t, g) ==
  /\ Members(g) # {}
  /\ \A c \in Members(g) : rcv_thd[c] = t
  /\ \A c \in Chan : rcv_thd[c] = t /\ Unbuffered(c) => c \in Members(g)
ProtocolInv ==
  \A t \in Thread :
    /\ \A c \in Chan : call[t] = RcvCall(c) => WaitsForOne(t, c)
    /\ \A g \in Group : call[t] = WaitCall(g) => WaitsForGroup(t, g)

(* The messages: an unbuffered channel holds one, and its ring buffer is     *)
(* never used; the event queue of a group is one ring of its channels that   *)
(* are not empty.                                                           *)
HoldsMessage(c) == Len(snd_thds[c]) = 1 /\ snd_thds[c][1].data \in Data
MessageInv ==
  /\ DOMAIN data_buffer = Chan /\ DOMAIN snd_thds = Chan
  /\ \A c \in Chan :
       IF Unbuffered(c)
       THEN /\ snd_thds[c] = <<>> \/ HoldsMessage(c)
            /\ snd_thds[c] # <<>> => rcv_thd[c] # NULL
       ELSE snd_thds[c] = <<>>

Ready(g) == {c \in Members(g) : ~IsEmpty(c)}
EventInv ==
  \A g \in Group :
    /\ events[g] = NULL <=> Ready(g) = {}
    /\ events[g] # NULL => events[g] \in Ready(g) /\ OneRing(clinks, Ready(g))

CInv ==
  /\ ThreadInv
  /\ ChanTypeOK
  /\ RcvInv /\ CallInv /\ ProtocolInv
  /\ MessageInv
  /\ EventInv
  /\ ChanCountersAccurate
  /\ NoLostWakeup
  /\ ReceivedWasSent


-----------------------------------------------------------------------------
(* Counting threads and telling calls apart *)

\* A set of threads fits in a counter, which follows it when a thread joins or leaves.
LEMMA CountsThreads ==
  ASSUME NEW A \in SUBSET Thread
  PROVE  /\ Cardinality(A) \in 0..UINT_MAX
         /\ \A t \in Thread \ A : Cardinality(A \cup {t}) = Inc(Cardinality(A))
         /\ \A t \in A : Cardinality(A \ {t}) = Dec(Cardinality(A))
<1>1. ASSUME NEW B \in SUBSET Thread PROVE IsFiniteSet(B) /\ Cardinality(B) \in 0..UINT_MAX
  <2>1. IsFiniteSet(B) /\ Cardinality(B) <= Cardinality(Thread)
    BY FS_Subset, LwtAssumption
  <2>2. Cardinality(B) \in Nat /\ Cardinality(Thread) \in Nat
    BY <2>1, FS_CardinalityType, LwtAssumption
  <2> QED BY <2>1, <2>2, LwtAssumption
<1>2. ASSUME NEW t \in Thread \ A PROVE Cardinality(A \cup {t}) = Inc(Cardinality(A))
  <2>1. Cardinality(A \cup {t}) = Cardinality(A) + 1
    BY <1>1, FS_AddElement
  <2>2. Cardinality(A \cup {t}) \in 0..UINT_MAX /\ Cardinality(A) \in 0..UINT_MAX
    BY <1>1
  <2> QED BY <2>1, <2>2, LwtAssumption DEF Inc
<1>3. ASSUME NEW t \in A PROVE Cardinality(A \ {t}) = Dec(Cardinality(A))
  <2>1. Cardinality(A \ {t}) = Cardinality(A) - 1
    BY <1>1, FS_RemoveElement
  <2>2. Cardinality(A \ {t}) \in 0..UINT_MAX /\ Cardinality(A) \in 0..UINT_MAX
    BY <1>1
  <2> QED BY <2>1, <2>2, LwtAssumption DEF Dec
<1> QED BY <1>1, <1>2, <1>3

\* The threads each counter counts, when the statuses are st and the calls cl.
Runnable(st, cl) == {t \in Thread : st[t] \in Up /\ cl[t] \notin SndCalls \cup RcvCalls}
Having(st, x) == {t \in Thread : st[t] = x}
Calling(cl, calls) == {t \in Thread : cl[t] \in calls}

\* Counters that count these sets are accurate and have their types.
ThreadCounts(gc, st, cl) ==
  gc = [runable |-> Cardinality(Runnable(st, cl)),
        blocked |-> Cardinality(Having(st, BLOCKED)),
        died |-> Cardinality(Having(st, DEAD))]
CallCounts(cc, cl) ==
  cc = [nsnding |-> Cardinality(Calling(cl, SndCalls)),
        nrcving |-> Cardinality(Calling(cl, RcvCalls))]
CallCounterType == [nsnding : 0..UINT_MAX, nrcving : 0..UINT_MAX]

\* The counters are accurate when they count the sets ...
LEMMA AccurateCounts ==
  ASSUME ChanTypeOK, ChanCountersAccurate
  PROVE  ThreadCounts(gcounter, status, call) /\ CallCounts(ccounter, call)
<1>1. /\ gcounter.runable = Cardinality(Runnable(status, call))
      /\ gcounter.blocked = Cardinality(Having(status, BLOCKED))
      /\ gcounter.died = Cardinality(Having(status, DEAD))
      /\ ccounter.nsnding = Cardinality(Calling(call, SndCalls))
      /\ ccounter.nrcving = Cardinality(Calling(call, RcvCalls))
  BY DEF ChanCountersAccurate, Info, Counted, Runnable, Having, Calling, Up
<1>2. /\ gcounter \in [runable : 0..UINT_MAX, blocked : 0..UINT_MAX, died : 0..UINT_MAX]
      /\ ccounter \in [nsnding : 0..UINT_MAX, nrcving : 0..UINT_MAX]
  BY DEF ChanTypeOK
<1> QED BY <1>1, <1>2 DEF ThreadCounts, CallCounts

\* ... and only then; and then they have not wrapped around.
LEMMA CountsAccurate ==
  ASSUME ThreadCounts(gcounter', status', call'), CallCounts(ccounter', call')
  PROVE  ChanCountersAccurate' /\ gcounter' \in CounterType /\ ccounter' \in CallCounterType
<1>1. ChanCountersAccurate'
  BY DEF ThreadCounts, CallCounts, ChanCountersAccurate, Info, Counted, Runnable, Having, Calling, Up
<1>2. \A A \in SUBSET Thread : Cardinality(A) \in 0..UINT_MAX
  BY CountsThreads
<1>3. /\ Runnable(status', call') \in SUBSET Thread
      /\ \A x : Having(status', x) \in SUBSET Thread
      /\ \A calls : Calling(call', calls) \in SUBSET Thread
  BY DEF Runnable, Having, Calling
<1> QED BY <1>1, <1>2, <1>3 DEF ThreadCounts, CallCounts, CounterType, CallCounterType

\* Calls of different kinds or with different arguments are different.
LEMMA CallsApart ==
  /\ NULL \notin SndCalls /\ NULL \notin RcvCalls /\ NULL \notin WaitCalls
  /\ \A s \in SndCalls : s \notin RcvCalls /\ s \notin WaitCalls
                         /\ s = SndCall(s.chan, s.data) /\ s.chan \in Chan /\ s.data \in Data
  /\ \A r \in RcvCalls : r \notin WaitCalls /\ r = RcvCall(r.chan) /\ r.chan \in Chan
  /\ \A w \in WaitCalls : w = WaitCall(w.cgrp) /\ w.cgrp \in Group
  /\ \A c \in Chan : RcvCall(c) \in RcvCalls /\ \A v \in Data : SndCall(c, v) \in SndCalls
  /\ \A g \in Group : WaitCall(g) \in WaitCalls
<1> USE DEF SndCalls, RcvCalls, WaitCalls, SndCall, RcvCall, WaitCall
<1>1. NULL \notin SndCalls /\ NULL \notin RcvCalls /\ NULL \notin WaitCalls
  BY CallAssumption
<1>2. ASSUME NEW s \in SndCalls
      PROVE  s \notin RcvCalls /\ s \notin WaitCalls
             /\ s = SndCall(s.chan, s.data) /\ s.chan \in Chan /\ s.data \in Data
  <2>1. PICK c \in Chan, v \in Data : s = SndCall(c, v)
    OBVIOUS
  <2>2. s.op = "lwt_snd" /\ s.chan = c /\ s.data = v
    BY <2>1
  <2>3. \A r \in RcvCalls : r.op = "lwt_rcv"
    OBVIOUS
  <2>4. \A r \in WaitCalls : r.op = "lwt_cgrp_wait"
    OBVIOUS
  <2>5. s = SndCall(s.chan, s.data) /\ s.chan \in Chan /\ s.data \in Data
    BY <2>1, <2>2
  <2>6. "lwt_snd" # "lwt_rcv" /\ "lwt_snd" # "lwt_cgrp_wait"
    OBVIOUS
  <2> HIDE DEF SndCalls, RcvCalls, WaitCalls, SndCall, RcvCall, WaitCall
  <2> QED BY <2>2, <2>3, <2>4, <2>5, <2>6
<1>3. ASSUME NEW r \in RcvCalls PROVE r \notin WaitCalls /\ r = RcvCall(r.chan) /\ r.chan \in Chan
  <2>1. PICK c \in Chan : r = RcvCall(c)
    OBVIOUS
  <2>2. r.op = "lwt_rcv" /\ r.chan = c
    BY <2>1
  <2>3. \A w \in WaitCalls : w.op = "lwt_cgrp_wait"
    OBVIOUS
  <2> QED BY <2>1, <2>2, <2>3
<1>4. ASSUME NEW w \in WaitCalls PROVE w = WaitCall(w.cgrp) /\ w.cgrp \in Group
  <2>1. PICK g \in Group : w = WaitCall(g)
    OBVIOUS
  <2> QED BY <2>1
<1>5. /\ \A c \in Chan : RcvCall(c) \in RcvCalls /\ \A v \in Data : SndCall(c, v) \in SndCalls
      /\ \A g \in Group : WaitCall(g) \in WaitCalls
  OBVIOUS
<1> QED BY <1>1, <1>2, <1>3, <1>4, <1>5

-----------------------------------------------------------------------------
(* What threads do outside channels *)

\* A step of a thread that is in no call and receives from no channel leaves the
\* channels as they should be.
LEMMA Aside ==
  ASSUME CInv, UNCHANGED chanvars, status' \in [Thread -> Status \cup {WAITING}],
         \A t \in Thread : (call[t] # NULL \/ \E c \in Chan : rcv_thd[c] = t) =>
           status'[t] = status[t] /\ joinee'[t] = joinee[t],
         \A t \in Thread : status'[t] = WAITING => status[t] = WAITING
  PROVE  RcvInv' /\ CallInv' /\ ProtocolInv' /\ MessageInv' /\ EventInv' /\ NoLostWakeup'
<1> USE DEF CInv, chanvars
<1>1. RcvInv'
  <2>1. \A c \in Chan : rcv_thd[c] \in Thread \cup {NULL}
    BY DEF ChanTypeOK
  <2>2. \A c \in Chan : rcv_thd[c] # NULL =>
          status'[rcv_thd[c]] = status[rcv_thd[c]] /\ joinee'[rcv_thd[c]] = joinee[rcv_thd[c]]
    BY <2>1
  <2> QED BY <2>2 DEF RcvInv
<1>2. CallInv'
  BY CallsApart DEF CallInv
<1>3. ProtocolInv'
  BY DEF ProtocolInv, WaitsForOne, WaitsForGroup, Members
<1>4. MessageInv'
  BY DEF MessageInv, HoldsMessage
<1>5. EventInv'
  BY DEF EventInv, Ready, Members, IsEmpty
<1>6. NoLostWakeup'
  BY DEF NoLostWakeup, Members, IsEmpty
<1> QED BY <1>1, <1>2, <1>3, <1>4, <1>5, <1>6

\* Put together, with the counters.
LEMMA AsideKeeps ==
  ASSUME CInv, UNCHANGED chanvars, ThreadInv', ThreadCounts(gcounter', status', call),
         \A t \in Thread : (call[t] # NULL \/ \E c \in Chan : rcv_thd[c] = t) =>
           status'[t] = status[t] /\ joinee'[t] = joinee[t],
         \A t \in Thread : status'[t] = WAITING => status[t] = WAITING
  PROVE  CInv'
<1>1. status' \in [Thread -> Status \cup {WAITING}]
  BY DEF ThreadInv, ThreadTypeOK
<1>2. ChanCountersAccurate' /\ gcounter' \in CounterType
  <2>1. CallCounts(ccounter', call') /\ ThreadCounts(gcounter', status', call')
    BY AccurateCounts DEF CInv, chanvars
  <2> QED BY <2>1, CountsAccurate
<1>3. ChanTypeOK'
  BY <1>1, <1>2 DEF CInv, ChanTypeOK, CounterType, chanvars
<1>4. ReceivedWasSent'
  BY DEF CInv, ReceivedWasSent, chanvars
<1> QED BY <1>1, <1>2, <1>3, <1>4, Aside DEF CInv

\* The thread that has the processor is in its own code: it is in no call, and is
\* not suspended in lwt_join either.
LEMMA OwnCode ==
  ASSUME CInv, InOwnCode
  PROVE  /\ lwt_head \in Thread /\ status[lwt_head] = ACTIVE
         /\ joinee[lwt_head] = NULL /\ call[lwt_head] = NULL
         /\ ~OwnsChannel => \A c \in Chan : rcv_thd[c] # lwt_head
BY LwtAssumption DEF CInv, ThreadInv, ThreadTypeOK, HeadInv, InOwnCode, InCaller, OwnsChannel, IsReceiver

\* A thread in a call, or one that receives from a channel, is neither blocked nor
\* ended, and is not in lwt_join.
LEMMA CallersUp ==
  ASSUME CInv, NEW t \in Thread, call[t] # NULL \/ \E c \in Chan : rcv_thd[c] = t
  PROVE  status[t] \in Up /\ joinee[t] = NULL
<1>1. CASE call[t] # NULL
  BY <1>1 DEF CInv, CallInv
<1>2. ASSUME NEW c \in Chan, rcv_thd[c] = t PROVE status[t] \in Up /\ joinee[t] = NULL
  BY <1>2, LwtAssumption DEF CInv, RcvInv
<1> QED BY <1>1, <1>2

\* lwt_create
LEMMA ChanCreateStep ==
  ASSUME CInv, InOwnCode, NEW t \in Thread, NEW flags \in Flags, Create(t, flags), UNCHANGED chanvars
  PROVE  CInv'
<1> USE DEF Create, Make, InCaller, ACTIVE, BLOCKED, DEAD, FREE, WAITING, JOIN, NOJOIN, Status, Flags, Up
<1>1. lwt_head \in Thread /\ status[lwt_head] = ACTIVE /\ t # lwt_head
  BY OwnCode
<1>2. ThreadInv'
  <2> USE DEF CInv, ThreadInv, ThreadTypeOK
  <2>1. ThreadTypeOK'
    BY <1>1
  <2>2. HeadInv'
    BY <1>1 DEF HeadInv
  <2>3. WaitInv'
    BY <1>1 DEF WaitInv, Joining, BlockInv
  <2>4. HoldInv' /\ BlockInv'
    BY <1>1 DEF HoldInv, BlockInv
  <2> QED BY <2>1, <2>2, <2>3, <2>4
<1>3. call[t] = NULL /\ \A c \in Chan : rcv_thd[c] # t
  BY CallersUp
<1>4. ThreadCounts(gcounter', status', call)
  <2>1. ThreadCounts(gcounter, status, call)
    BY AccurateCounts DEF CInv
  <2>2. /\ Runnable(status', call) = Runnable(status, call) \cup {t}
        /\ t \in Thread \ Runnable(status, call)
    BY <1>3, CallsApart DEF Runnable, CInv, ThreadInv, ThreadTypeOK
  <2>3. Having(status', BLOCKED) = Having(status, BLOCKED) /\ Having(status', DEAD) = Having(status, DEAD)
    BY DEF Having, CInv, ThreadInv, ThreadTypeOK
  <2>4. Runnable(status, call) \in SUBSET Thread
    BY DEF Runnable
  <2>5. Cardinality(Runnable(status', call)) = Inc(Cardinality(Runnable(status, call)))
    BY <2>2, <2>4, CountsThreads
  <2> QED BY <2>1, <2>3, <2>5 DEF ThreadCounts
<1>5. \A o \in Thread : o # t => status'[o] = status[o]
  BY DEF CInv, ThreadInv, ThreadTypeOK
<1>6. \A o \in Thread : status'[o] = WAITING => status[o] = WAITING
  BY <1>5 DEF CInv, ThreadInv, ThreadTypeOK
<1> QED BY <1>2, <1>3, <1>4, <1>5, <1>6, AsideKeeps

\* Where a call to the scheduler leaves the processor.
LEMMA Scheduled ==
  ASSUME NEW st, Schedule(st)
  PROVE  lwt_head' \in Thread \cup {NULL} /\ (lwt_head' # NULL => st[lwt_head'] = ACTIVE)
BY ScanFinds DEF Schedule

\* The branch of lwt_join that waits, which no receiver takes, wherever it leaves the
\* processor.
LEMMA ChanJoinBlocksStep ==
  ASSUME CInv, InOwnCode, ~OwnsChannel, NEW t \in Thread, handle[t] = lwt_head,
         Blocks(t), UNCHANGED chanvars,
         lwt_head' \in Thread \cup {NULL}, lwt_head' # NULL => status'[lwt_head'] = ACTIVE
  PROVE  CInv'
<1> USE DEF Blocks, Refuses, MustWait, ACTIVE, BLOCKED, DEAD, FREE, WAITING, JOIN, NOJOIN, Status, Flags, Up
<1>1. /\ lwt_head \in Thread /\ status[lwt_head] = ACTIVE /\ joinee[lwt_head] = NULL
      /\ call[lwt_head] = NULL /\ \A c \in Chan : rcv_thd[c] # lwt_head
  BY OwnCode
<1>2. lwt_head # t /\ lwt_nojoin[t] = JOIN
  BY <1>1, LwtAssumption DEF CInv, ThreadInv, ThreadTypeOK, HoldInv
<1>3. ThreadInv'
  <2> USE DEF CInv, ThreadInv, ThreadTypeOK
  <2>1. ThreadTypeOK'
    BY <1>1
  <2>2. HeadInv'
    BY DEF HeadInv
  <2>3. WaitInv'
    BY <1>1, <1>2, LwtAssumption DEF WaitInv, Joining
  <2>4. HoldInv'
    BY <1>1, <1>2 DEF HoldInv
  <2>5. BlockInv'
    BY <1>1, <1>2 DEF BlockInv
  <2> QED BY <2>1, <2>2, <2>3, <2>4, <2>5
<1>4. ThreadCounts(gcounter', status', call)
  <2>1. ThreadCounts(gcounter, status, call)
    BY AccurateCounts DEF CInv
  <2>2. /\ Runnable(status', call) = Runnable(status, call) \ {lwt_head}
        /\ lwt_head \in Runnable(status, call)
    BY <1>1, CallsApart DEF Runnable, CInv, ThreadInv, ThreadTypeOK
  <2>3. /\ Having(status', BLOCKED) = Having(status, BLOCKED) \cup {lwt_head}
        /\ lwt_head \in Thread \ Having(status, BLOCKED)
        /\ Having(status', DEAD) = Having(status, DEAD)
    BY <1>1 DEF Having, CInv, ThreadInv, ThreadTypeOK
  <2>4. Runnable(status, call) \in SUBSET Thread /\ Having(status, BLOCKED) \in SUBSET Thread
    BY DEF Runnable, Having
  <2>5. /\ Cardinality(Runnable(status', call)) = Dec(Cardinality(Runnable(status, call)))
        /\ Cardinality(Having(status', BLOCKED)) = Inc(Cardinality(Having(status, BLOCKED)))
    BY <2>2, <2>3, <2>4, CountsThreads, ZenonT(40)
  <2> QED BY <2>1, <2>3, <2>5 DEF ThreadCounts
<1>5. \A o \in Thread : o # lwt_head => status'[o] = status[o] /\ joinee'[o] = joinee[o]
  BY DEF CInv, ThreadInv, ThreadTypeOK
<1>6. \A o \in Thread : status'[o] = WAITING => status[o] = WAITING
  BY <1>5 DEF CInv, ThreadInv, ThreadTypeOK
<1> QED BY <1>1, <1>3, <1>4, <1>5, <1>6, AsideKeeps

\* The end of lwt_join.
LEMMA ChanReclaimStep ==
  ASSUME CInv, NEW t \in Thread, lwt_head # NULL, status[t] = DEAD, handle[t] = lwt_head,
         joinee[lwt_head] \in {NULL, t}, Reclaim(t), UNCHANGED chanvars
  PROVE  CInv'
<1> USE DEF Reclaim, GiveBack, ACTIVE, BLOCKED, DEAD, FREE, WAITING, JOIN, NOJOIN, Status, Flags, Up
<1>1. lwt_head \in Thread /\ lwt_head # t /\ status[lwt_head] = ACTIVE
  BY DEF CInv, ThreadInv, ThreadTypeOK, HeadInv
<1>2. ThreadInv'
  <2> USE DEF CInv, ThreadInv, ThreadTypeOK
  <2>1. ThreadTypeOK'
    BY <1>1
  <2>2. HeadInv'
    BY <1>1 DEF HeadInv
  <2>3. WaitInv'
    BY <1>1 DEF WaitInv, Joining
  <2>4. HoldInv'
    BY <1>1 DEF HoldInv
  <2>5. BlockInv'
    BY <1>1 DEF BlockInv
  <2> QED BY <2>1, <2>2, <2>3, <2>4, <2>5
<1>3. call[t] = NULL /\ \A c \in Chan : rcv_thd[c] # t
  BY CallersUp
<1>4. ThreadCounts(gcounter', status', call)
  <2>1. ThreadCounts(gcounter, status, call)
    BY AccurateCounts DEF CInv
  <2>2. Runnable(status', call) = Runnable(status, call)
    BY DEF Runnable, CInv, ThreadInv, ThreadTypeOK
  <2>3. /\ Having(status', DEAD) = Having(status, DEAD) \ {t}
        /\ t \in Having(status, DEAD)
        /\ Having(status', BLOCKED) = Having(status, BLOCKED)
    BY DEF Having, CInv, ThreadInv, ThreadTypeOK
  <2>4. Having(status, DEAD) \in SUBSET Thread
    BY DEF Having
  <2>5. Cardinality(Having(status', DEAD)) = Dec(Cardinality(Having(status, DEAD)))
    BY <2>3, <2>4, CountsThreads
  <2> QED BY <2>1, <2>2, <2>3, <2>5 DEF ThreadCounts
<1>5. \A o \in Thread : o # t => status'[o] = status[o]
  BY DEF CInv, ThreadInv, ThreadTypeOK
<1>6. \A o \in Thread : status'[o] = WAITING => status[o] = WAITING
  BY <1>5 DEF CInv, ThreadInv, ThreadTypeOK
<1>7. \A o \in Thread : joinee'[o] # joinee[o] => o = lwt_head /\ joinee[o] # NULL
  BY <1>1 DEF CInv, ThreadInv, ThreadTypeOK
<1>8. \A o \in Thread : (call[o] # NULL \/ \E c \in Chan : rcv_thd[c] = o) => joinee'[o] = joinee[o]
  BY <1>7, CallersUp
<1> QED BY <1>2, <1>3, <1>4, <1>5, <1>6, <1>8, AsideKeeps

\* lwt_die of a thread created with LWT_NOJOIN.
LEMMA ChanDieNojoinStep ==
  ASSUME CInv, InOwnCode, ~OwnsChannel, DieNojoin, UNCHANGED chanvars
  PROVE  CInv'
<1> USE DEF DieNojoin, GiveBack, ACTIVE, BLOCKED, DEAD, FREE, WAITING, JOIN, NOJOIN, Status, Flags, Up
<1>1. /\ lwt_head \in Thread /\ status[lwt_head] = ACTIVE /\ joinee[lwt_head] = NULL
      /\ call[lwt_head] = NULL /\ \A c \in Chan : rcv_thd[c] # lwt_head
  BY OwnCode
<1>2. lwt_head' # NULL =>
        lwt_head' \in Thread /\ lwt_head' # lwt_head /\ status[lwt_head'] = ACTIVE
  <2> DEFINE next == ScanFrom(list, status, lwt_head)
  <2>1. next # NULL => next \in Thread /\ status[next] = ACTIVE
    BY ScanFinds
  <2>2. lwt_head' = IF next = lwt_head THEN NULL ELSE next
    OBVIOUS
  <2> HIDE DEF next
  <2> QED BY <2>1, <2>2
<1>3. ThreadInv'
  <2> USE DEF CInv, ThreadInv, ThreadTypeOK
  <2>1. handle' \in [Thread -> Thread \cup {NULL}]
        /\ \A o \in Thread : handle'[o] = IF o = lwt_head \/ handle[o] = lwt_head THEN NULL ELSE handle[o]
    BY <1>1, LwtAssumption DEF HandlesAfter
  <2>2. ThreadTypeOK'
    BY <1>1, <1>2, <2>1
  <2>3. HeadInv'
    BY <1>1, <1>2 DEF HeadInv
  <2>4. \A o \in Thread : joinee[o] # lwt_head /\ target[o] # lwt_head
    BY <1>1, LwtAssumption DEF WaitInv, Joining
  <2>5. WaitInv'
    <3>1. status' \in [Thread -> Status \cup {WAITING}]
          /\ \A o \in Thread : status'[o] = IF o = lwt_head THEN FREE ELSE status[o]
      BY <1>1
    <3>2. \A o \in Thread : /\ target'[o] = IF o = lwt_head THEN NULL ELSE target[o]
                            /\ lwt_nojoin'[o] = IF o = lwt_head THEN JOIN ELSE lwt_nojoin[o]
      BY <1>1
    <3>3. joinee' = joinee
      OBVIOUS
    <3>4. \A o \in Thread : joinee[o] # NULL => joinee[o] \in Thread /\ joinee[o] # lwt_head
      BY <2>4
    <3>5. \A o \in Thread : target'[o] # NULL => target'[o] \in Thread /\ target'[o] # lwt_head
      BY <2>4, <3>2
    <3> QED BY <1>1, <2>1, <2>4, <3>1, <3>2, <3>3, <3>4, <3>5 DEF WaitInv, Joining
  <2>6. HoldInv'
    BY <1>1, <2>1 DEF HoldInv
  <2>7. BlockInv'
    BY <1>1 DEF BlockInv
  <2> QED BY <2>2, <2>3, <2>5, <2>6, <2>7
<1>4. ThreadCounts(gcounter', status', call)
  <2>1. ThreadCounts(gcounter, status, call)
    BY AccurateCounts DEF CInv
  <2>2. /\ Runnable(status', call) = Runnable(status, call) \ {lwt_head}
        /\ lwt_head \in Runnable(status, call)
    BY <1>1, CallsApart DEF Runnable, CInv, ThreadInv, ThreadTypeOK
  <2>3. Having(status', BLOCKED) = Having(status, BLOCKED) /\ Having(status', DEAD) = Having(status, DEAD)
    BY <1>1 DEF Having, CInv, ThreadInv, ThreadTypeOK
  <2>4. Runnable(status, call) \in SUBSET Thread
    BY DEF Runnable
  <2>5. Cardinality(Runnable(status', call)) = Dec(Cardinality(Runnable(status, call)))
    BY <2>2, <2>4, CountsThreads
  <2> QED BY <2>1, <2>3, <2>5 DEF ThreadCounts
<1>5. \A o \in Thread : o # lwt_head => status'[o] = status[o]
  BY DEF CInv, ThreadInv, ThreadTypeOK
<1>6. \A o \in Thread : status'[o] = WAITING => status[o] = WAITING
  BY <1>5 DEF CInv, ThreadInv, ThreadTypeOK
<1> QED BY <1>1, <1>3, <1>4, <1>5, <1>6, AsideKeeps

\* lwt_die of a joinable thread; the joiner it wakes is in no call of a channel.
LEMMA ChanDieJoinStep ==
  ASSUME CInv, InOwnCode, ~OwnsChannel, NEW v \in Value, DieJoin(v), UNCHANGED chanvars
  PROVE  CInv'
<1> USE DEF DieJoin, Woken, ACTIVE, BLOCKED, DEAD, FREE, WAITING, JOIN, NOJOIN, Status, Flags, Up
<1> DEFINE j == target[lwt_head]
<1>1. /\ lwt_head \in Thread /\ status[lwt_head] = ACTIVE /\ joinee[lwt_head] = NULL
      /\ call[lwt_head] = NULL /\ \A c \in Chan : rcv_thd[c] # lwt_head
  BY OwnCode
<1>2. j # NULL => j \in Thread /\ joinee[j] = lwt_head /\ status[j] = BLOCKED /\ j # lwt_head
  BY <1>1, LwtAssumption DEF CInv, ThreadInv, ThreadTypeOK, WaitInv, Joining
<1>3. lwt_head' \in Thread \cup {NULL} /\ (lwt_head' # NULL => status'[lwt_head'] = ACTIVE)
  BY Scheduled
<1>4. status' \in [Thread -> Status \cup {WAITING}] /\ \A o \in Thread :
        status'[o] = IF o = lwt_head THEN DEAD ELSE IF o = j THEN ACTIVE ELSE status[o]
  BY <1>1, <1>2, LwtAssumption DEF CInv, ThreadInv, ThreadTypeOK
<1>5. handle' \in [Thread -> Thread \cup {NULL}] /\ \A o \in Thread :
        handle'[o] = IF handle[o] = lwt_head THEN NULL ELSE handle[o]
  BY DEF HandlesAfter, CInv, ThreadInv, ThreadTypeOK
<1>6. ThreadInv'
  <2> USE DEF CInv, ThreadInv, ThreadTypeOK
  <2>1. return_val' \in [Thread -> Value \cup {NULL}]
        /\ \A o \in Thread : o # lwt_head => return_val'[o] = return_val[o]
    BY <1>1 DEF ResultKept
  <2>2. ThreadTypeOK'
    BY <1>3, <1>4, <1>5, <2>1
  <2>3. HeadInv'
    BY <1>3 DEF HeadInv
  <2>4. WaitInv'
    BY <1>1, <1>2, <1>4, <1>5, LwtAssumption DEF WaitInv, Joining
  <2>5. HoldInv'
    BY <1>1, <1>2, <1>4, <1>5 DEF HoldInv
  <2>6. BlockInv'
    BY <1>1, <1>2, <1>4, <2>1 DEF BlockInv
  <2> QED BY <2>2, <2>3, <2>4, <2>5, <2>6
<1>7. j # NULL => call[j] = NULL /\ \A c \in Chan : rcv_thd[c] # j
  BY <1>2, CallersUp
<1>8. ThreadCounts(gcounter', status', call)
  <2> DEFINE R == Runnable(status, call)
  <2>1. ThreadCounts(gcounter, status, call)
    BY AccurateCounts DEF CInv
  <2>2. R \in SUBSET Thread /\ lwt_head \in R /\ R \ {lwt_head} \in SUBSET Thread
    BY <1>1, CallsApart DEF Runnable
  <2>3. /\ Having(status, DEAD) \in SUBSET Thread /\ Having(status, BLOCKED) \in SUBSET Thread
        /\ lwt_head \in Thread \ Having(status, DEAD)
        /\ Having(status', DEAD) = Having(status, DEAD) \cup {lwt_head}
    BY <1>1, <1>2, <1>4 DEF Having
  <2>4. Cardinality(Having(status', DEAD)) = Inc(Cardinality(Having(status, DEAD)))
    BY <2>3, CountsThreads
  <2>5. Cardinality(R \ {lwt_head}) = Dec(Cardinality(R))
    BY <2>2, CountsThreads
  <2>6. CASE j = NULL
    <3>1. gcounter' = [gcounter EXCEPT !.runable = Dec(@), !.died = Inc(@)]
      BY <2>6 DEF CountersAfterDeath
    <3>2. Runnable(status', call) = R \ {lwt_head} /\ Having(status', BLOCKED) = Having(status, BLOCKED)
      BY <1>1, <1>4, <2>6, LwtAssumption DEF Runnable, Having
    <3> QED BY <2>1, <2>4, <2>5, <3>1, <3>2 DEF ThreadCounts
  <2>7. CASE j # NULL
    <3>1. gcounter' = [gcounter EXCEPT !.runable = Inc(Dec(@)), !.blocked = Dec(@), !.died = Inc(@)]
      BY <2>7 DEF CountersAfterDeath
    <3>2. /\ Runnable(status', call) = (R \ {lwt_head}) \cup {j}
          /\ j \in Thread \ (R \ {lwt_head})
      BY <1>1, <1>2, <1>4, <1>7, <2>7, CallsApart DEF Runnable
    <3>3. Having(status', BLOCKED) = Having(status, BLOCKED) \ {j} /\ j \in Having(status, BLOCKED)
      BY <1>1, <1>2, <1>4, <2>7 DEF Having
    <3>4. Cardinality(Runnable(status', call)) = Inc(Cardinality(R \ {lwt_head}))
      BY <2>2, <3>2, CountsThreads
    <3>5. Cardinality(Having(status', BLOCKED)) = Dec(Cardinality(Having(status, BLOCKED)))
      BY <2>3, <3>3, CountsThreads
    <3> QED BY <2>1, <2>4, <2>5, <3>1, <3>4, <3>5 DEF ThreadCounts
  <2> QED BY <2>6, <2>7
<1>9. \A o \in Thread : o # lwt_head /\ o # j => status'[o] = status[o]
  BY <1>4
<1>10. \A o \in Thread : status'[o] = WAITING => status[o] = WAITING
  BY <1>4
<1>11. \A o \in Thread : (call[o] # NULL \/ \E c \in Chan : rcv_thd[c] = o) =>
         status'[o] = status[o] /\ joinee'[o] = joinee[o]
  BY <1>1, <1>7, <1>9, LwtAssumption
<1> QED BY <1>6, <1>8, <1>10, <1>11, AsideKeeps

\* A step that only moves lwt_head.
LEMMA HeadMoves ==
  ASSUME CInv, UNCHANGED <<joinvars, status, gcounter, chanvars>>,
         lwt_head' \in Thread \cup {NULL}, lwt_head' # NULL => status[lwt_head'] = ACTIVE
  PROVE  CInv'
<1> USE DEF joinvars, CInv
<1>1. ThreadInv'
  BY DEF ThreadInv, ThreadTypeOK, HeadInv, WaitInv, Joining, HoldInv, BlockInv
<1>2. ThreadCounts(gcounter', status', call)
  BY AccurateCounts
<1>3. ThreadTypeOK
  BY DEF ThreadInv
<1> QED BY <1>1, <1>2, <1>3, AsideKeeps DEF ThreadTypeOK

\* lwt_yield(t) goes to a thread that runs, and does nothing else.
LEMMA DirectedYieldStep ==
  ASSUME CInv, DirectedYield
  PROVE  CInv' /\ UNCHANGED FJ!fjvars
<1>1. PICK t \in Thread : YieldTo(t)
  BY DEF DirectedYield
<1>2. CInv'
  BY <1>1, HeadMoves DEF DirectedYield, YieldTo, joinvars
<1> QED BY <1>1, <1>2 DEF YieldTo, FJ!fjvars

\* Whatever a thread does outside channels.
LEMMA ThreadCallsStep ==
  ASSUME CInv, ThreadCalls
  PROVE  CInv'
<1>1. ASSUME InOwnCode, NEW t \in Thread, NEW flags \in Flags, Create(t, flags) PROVE CInv'
  BY <1>1, ChanCreateStep DEF ThreadCalls
<1>2. ASSUME Yield PROVE CInv'
  BY <1>2, Scheduled, HeadMoves DEF ThreadCalls, Yield, joinvars
<1>3. ASSUME InOwnCode, NEW t \in Thread, MayJoin(t), Join(t) PROVE CInv'
  <2>1. Joinable(t) /\ handle[t] = lwt_head /\ lwt_head # NULL /\ joinee[lwt_head] = NULL
    BY <1>3 DEF MayJoin, Join, InCaller
  <2>2. CASE JoinRefused(t)
    <3>1. UNCHANGED <<lwt_head, list, status, lwt_nojoin, target, return_val, gcounter, joinee, handle>>
      BY <2>2 DEF JoinRefused
    <3>2. ThreadInv'
      BY <3>1 DEF CInv, ThreadInv, ThreadTypeOK, HeadInv, WaitInv, Joining, HoldInv, BlockInv
    <3>3. ThreadCounts(gcounter', status', call)
      BY <3>1, AccurateCounts DEF CInv
    <3> QED BY <3>1, <3>2, <3>3, AsideKeeps DEF ThreadCalls
  <2>3. CASE JoinBlocks(t)
    <3>1. ~OwnsChannel
      BY <1>3, <2>3 DEF MayJoin, JoinBlocks, Blocks
    <3>2. Blocks(t) /\ lwt_head' \in Thread \cup {NULL}
          /\ (lwt_head' # NULL => status'[lwt_head'] = ACTIVE)
      BY <2>3, Scheduled DEF JoinBlocks
    <3> QED BY <1>3, <2>1, <3>1, <3>2, ChanJoinBlocksStep DEF ThreadCalls
  <2>4. CASE JoinAtOnce(t)
    <3>1. status[t] = DEAD
      BY <2>1, <2>4 DEF Joinable, JoinAtOnce, Refuses, MustWait
    <3> QED BY <2>1, <2>4, <3>1, ChanReclaimStep DEF ThreadCalls, JoinAtOnce
  <2> QED BY <1>3, <2>2, <2>3, <2>4 DEF Join
<1>4. ASSUME JoinResume PROVE CInv'
  <2> DEFINE u == joinee[lwt_head]
  <2>1. lwt_head \in Thread /\ status[lwt_head] = ACTIVE /\ u # NULL /\ u \in Thread
    BY <1>4 DEF CInv, ThreadInv, ThreadTypeOK, HeadInv, JoinResume
  <2>2. status[u] = DEAD /\ handle[u] = lwt_head
    BY <2>1 DEF CInv, ThreadInv, WaitInv, Joining, ACTIVE, BLOCKED
  <2> QED BY <1>4, <2>1, <2>2, ChanReclaimStep DEF ThreadCalls, JoinResume
<1>5. ASSUME InOwnCode, ~OwnsChannel, Die PROVE CInv'
  BY <1>5, ChanDieNojoinStep, ChanDieJoinStep DEF ThreadCalls, Die
<1> QED BY <1>1, <1>2, <1>3, <1>4, <1>5 DEF ThreadCalls

-----------------------------------------------------------------------------
(* Messages in the buffers *)

\* Quotient and remainder.
LEMMA Remainder ==
  ASSUME NEW s \in Nat \ {0}, NEW x \in Int
  PROVE  x \div s \in Int /\ x % s \in 0..(s - 1) /\ x = s * (x \div s) + (x % s)
OBVIOUS

\* Indices wrap around once.
LEMMA Wraps ==
  ASSUME NEW s \in Nat \ {0}, NEW x \in 0..(2 * s - 1)
  PROVE  x % s = IF x < s THEN x ELSE x - s
<1>0. x \in Int /\ 0 <= x /\ x < 2 * s
  OBVIOUS
<1>1. x = s * (x \div s) + (x % s) /\ x % s \in 0..(s-1) /\ x \div s \in Int
  BY <1>0, Remainder
<1> DEFINE q == x \div s
           r == x % s
<1>2. q \in Int /\ r \in Int /\ 0 <= r /\ r < s /\ x = s * q + r
  BY <1>1
<1> HIDE DEF q, r
<1>3. q < 2
  <2> SUFFICES ASSUME q >= 2 PROVE FALSE
    BY <1>2
  <2>1. s * q >= s * 2
    BY <1>2
  <2> QED BY <1>2, <2>1
<1>4. q >= 0
  <2> SUFFICES ASSUME q <= -1 PROVE FALSE
    BY <1>2
  <2>1. s * q <= s * (-1)
    BY <1>2
  <2> QED BY <1>2, <2>1
<1>5. CASE q = 0
  BY <1>2, <1>5 DEF r
<1>6. CASE q = 1
  BY <1>2, <1>6 DEF r
<1> QED BY <1>2, <1>3, <1>4, <1>5, <1>6

\* The next index, without a remainder.
LEMMA NextIndex ==
  ASSUME NEW s \in Nat \ {0}, NEW a \in 0..(s-1)
  PROVE  (a + 1) % s = (IF a + 1 = s THEN 0 ELSE a + 1)
<1>1. PICK x \in 0..(2 * s - 1) : x = a + 1
  OBVIOUS
<1>2. x % s = IF x < s THEN x ELSE x - s
  BY Wraps
<1> QED BY <1>1, <1>2

\* Two indices are the same when the next ones are.
LEMMA NextApart ==
  ASSUME NEW s \in Nat \ {0}, NEW a \in 0..(s-1), NEW e \in 0..(s-1)
  PROVE  (a + 1) % s = (e + 1) % s <=> a = e
<1>1. (a + 1) % s = (IF a + 1 = s THEN 0 ELSE a + 1)
  BY NextIndex
<1>2. (e + 1) % s = (IF e + 1 = s THEN 0 ELSE e + 1)
  BY NextIndex
<1> QED BY <1>1, <1>2

\* The slots of a ring buffer with start a and end e that are in use.
Used(a, e, s) == IF e >= a THEN e - a ELSE e - a + s

\* Where the next index is, and how many slots are in use, without a remainder.
LEMMA Indices ==
  ASSUME NEW s \in Nat \ {0}, NEW a \in 0..(s-1), NEW e \in 0..(s-1)
  PROVE  /\ (e + 1) % s = (IF e + 1 = s THEN 0 ELSE e + 1)
         /\ (e + 1) % s \in 0..(s-1)
         /\ (e + s - a) % s = Used(a, e, s)
<1>0. e + s - a \in 0..(2 * s - 1)
  OBVIOUS
<1>1. (e + 1) % s = (IF e + 1 = s THEN 0 ELSE e + 1)
  BY NextIndex
<1>2. (e + s - a) % s = Used(a, e, s)
  <2>1. PICK x \in 0..(2 * s - 1) : x = e + s - a
    BY <1>0
  <2>2. x % s = IF x < s THEN x ELSE x - s
    BY Wraps
  <2>3. x < s <=> e < a
    BY <2>1
  <2>4. (IF x < s THEN x ELSE x - s) = Used(a, e, s)
    BY <2>1, <2>3 DEF Used
  <2> QED BY <2>1, <2>2, <2>4
<1>3. (e + 1) % s \in 0..(s-1)
  BY <1>1
<1> QED BY <1>1, <1>2, <1>3

\* A function on 1..n is a sequence of n elements.
LEMMA FunctionSequence ==
  ASSUME NEW S, NEW n \in Nat, NEW f \in [1..n -> S]
  PROVE  f \in Seq(S) /\ Len(f) = n
<1>1. f \in Seq(S)
  BY SeqDef
<1> QED BY <1>1, LenProperties

\* A sequence that is another one with an element after it is what Append gives.
LEMMA FunctionAppend ==
  ASSUME NEW S, NEW n \in Nat, NEW f \in [1..n -> S], NEW g \in [1..(n+1) -> S], NEW v \in S,
         g[n+1] = v, \A i \in 1..n : g[i] = f[i]
  PROVE  g = Append(f, v)
<1>1. f \in Seq(S) /\ Len(f) = n /\ g \in Seq(S) /\ Len(g) = n + 1
  BY FunctionSequence
<1>2. Append(f, v) \in Seq(S) /\ Len(Append(f, v)) = n + 1
      /\ \A i \in 1..(n+1) : Append(f, v)[i] = IF i = n + 1 THEN v ELSE f[i]
  BY <1>1, AppendProperties
<1>3. \A i \in 1..(n+1) : g[i] = Append(f, v)[i]
  BY <1>2
<1> QED BY <1>1, <1>2, <1>3, SeqEqual

\* A sequence and the same without its first element, as Head and Tail see them.
LEMMA FunctionTail ==
  ASSUME NEW S, NEW n \in Nat, NEW f \in [1..(n+1) -> S], NEW g \in [1..n -> S],
         \A i \in 1..n : g[i] = f[i+1]
  PROVE  f # <<>> /\ f[1] = Head(f) /\ g = Tail(f)
<1>1. f \in Seq(S) /\ Len(f) = n + 1 /\ g \in Seq(S) /\ Len(g) = n
  BY FunctionSequence
<1>2. f # <<>> /\ f[1] = Head(f)
  BY <1>1, HeadTailProperties, EmptySeq
<1>3. Tail(f) \in Seq(S) /\ Len(Tail(f)) = n /\ \A i \in 1..n : Tail(f)[i] = f[i+1]
  BY <1>1, <1>2, HeadTailProperties
<1>4. \A i \in 1..n : g[i] = Tail(f)[i]
  BY <1>3
<1> QED BY <1>1, <1>2, <1>3, <1>4, SeqEqual

\* What ring buffers and lists of nodes are.
Buffer(c) == [start : Slots(c), end : Slots(c), data : [Slots(c) -> Data \cup {NULL}]]
Nodes == Seq([thd : Thread, data : Data \cup {JUNK}])

\* A channel made with size 0 is unbuffered: its ring buffer has one slot.
LEMMA SizeOK ==
  ASSUME NEW c \in Chan
  PROVE  /\ Cap[c] \in Nat /\ Size(c) \in Nat \ {0} /\ Slots(c) = 0..(Size(c) - 1)
         /\ Unbuffered(c) <=> Cap[c] = 0
BY ChanAssumption DEF Size, Slots, Unbuffered

\* What a thread that does not have to wait in lwt_snd finds.
Room(c) == rcv_thd[c] # NULL /\ IF Unbuffered(c) THEN IsEmpty(c) ELSE ~Full(c)

\* Ring buffers and lists of nodes are what their channels allow.
BuffersOK ==
  /\ \A c \in Chan : data_buffer[c] \in Buffer(c) /\ snd_thds[c] \in Nodes
  /\ MessageInv

LEMMA BuffersAre == CInv => BuffersOK
BY DEF CInv, ChanTypeOK, Buffer, Nodes, BuffersOK

\* The receiver of an unbuffered channel is out of the ready threads only while it
\* waits for this channel, which is then empty.
LEMMA IdleReceiver ==
  ASSUME CInv, NEW c \in Chan, Unbuffered(c), rcv_thd[c] # NULL, status[rcv_thd[c]] # ACTIVE
  PROVE  /\ IsEmpty(c)
         /\ \/ call[rcv_thd[c]] = RcvCall(c)
            \/ cgrp[c] # NULL /\ call[rcv_thd[c]] = WaitCall(cgrp[c])
<1> DEFINE t == rcv_thd[c]
<1>1. t \in Thread /\ status[t] = WAITING
  BY DEF CInv, ChanTypeOK, RcvInv, Up
<1> HIDE DEF t
<1>2. CASE \E d \in Chan : call[t] = RcvCall(d) /\ IsEmpty(d) /\ rcv_thd[d] = t
  <2>1. PICK d \in Chan : call[t] = RcvCall(d) /\ IsEmpty(d) /\ rcv_thd[d] = t
    BY <1>2
  <2>2. WaitsForOne(t, d)
    BY <1>1, <2>1 DEF CInv, ProtocolInv
  <2>3. d = c
    BY <2>2 DEF WaitsForOne, t
  <2> QED BY <2>1, <2>3 DEF t
<1>3. CASE \E g \in Group : call[t] = WaitCall(g) /\ \A d \in Members(g) : IsEmpty(d) /\ rcv_thd[d] = t
  <2>1. PICK g \in Group : call[t] = WaitCall(g) /\ \A d \in Members(g) : IsEmpty(d) /\ rcv_thd[d] = t
    BY <1>3
  <2>2. WaitsForGroup(t, g)
    BY <1>1, <2>1 DEF CInv, ProtocolInv
  <2>3. c \in Members(g)
    BY <2>2 DEF WaitsForGroup, t
  <2>4. cgrp[c] = g /\ g # NULL
    BY <2>3, ChanAssumption DEF Members
  <2> QED BY <2>1, <2>3, <2>4 DEF t
<1> QED BY <1>1, <1>2, <1>3 DEF CInv, NoLostWakeup

\* A thread that does not have to wait has room.
LEMMA RoomToSend ==
  ASSUME CInv, NEW c \in Chan, rcv_thd[c] # NULL, ~SndMustWait(status, c)
  PROVE  Room(c)
BY IdleReceiver DEF Room, SndMustWait

\* Enqueue fills a slot of its channel, and disturbs nothing else.
LEMMA EnqueueOK ==
  ASSUME BuffersOK, NEW c \in Chan, NEW v \in Data, Room(c), Enqueue(c, v), lwt_head \in Thread,
         rcv_thd' = rcv_thd
  PROVE  /\ \A d \in Chan : data_buffer'[d] \in Buffer(d) /\ snd_thds'[d] \in Nodes
         /\ MessageInv'
         /\ \A d \in Chan : IsEmpty(d)' <=> (IsEmpty(d) /\ d # c)
         /\ HoldsOne(data_buffer', c) <=> IsEmpty(c)
<1> DEFINE b == data_buffer[c]
<1>1. /\ \A d \in Chan : data_buffer[d] \in Buffer(d) /\ snd_thds[d] \in Nodes
      /\ MessageInv
  BY DEF BuffersOK
<1>2. b.start \in 0..(Size(c)-1) /\ b.end \in 0..(Size(c)-1) /\ Size(c) \in Nat \ {0}
      /\ b.data \in [Slots(c) -> Data \cup {NULL}] /\ Slots(c) = 0..(Size(c)-1)
  BY <1>1, SizeOK DEF Buffer
<1>3. CASE Unbuffered(c)
  <2> DEFINE node == [thd |-> lwt_head, data |-> v]
  <2>1. snd_thds[c] = <<>> /\ rcv_thd[c] # NULL /\ UNCHANGED data_buffer
        /\ snd_thds' = [snd_thds EXCEPT ![c] = Append(@, node)]
    BY <1>3 DEF Room, Enqueue, IsEmpty
  <2>2. node \in [thd : Thread, data : Data \cup {JUNK}] /\ node.data \in Data
    OBVIOUS
  <2> HIDE DEF node
  <2>3. snd_thds'[c] = <<node>> /\ DOMAIN snd_thds' = Chan
        /\ \A d \in Chan : d # c => snd_thds'[d] = snd_thds[d]
    BY <1>1, <2>1 DEF MessageInv
  <2>4. <<node>> \in Nodes /\ Len(<<node>>) = 1 /\ <<node>>[1] = node /\ <<node>> # <<>>
    BY <2>2 DEF Nodes
  <2>5. \A d \in Chan : data_buffer'[d] \in Buffer(d) /\ snd_thds'[d] \in Nodes
    BY <1>1, <2>1, <2>3, <2>4
  <2>6. MessageInv'
    BY <1>1, <1>3, <2>1, <2>2, <2>3, <2>4 DEF MessageInv, HoldsMessage, Unbuffered, Size
  <2>7. \A d \in Chan : IsEmpty(d)' <=> (IsEmpty(d) /\ d # c)
    BY <1>3, <2>1, <2>3, <2>4 DEF IsEmpty, Unbuffered, Size
  <2>8. HoldsOne(data_buffer', c)
    <3>1. Size(c) = 1 /\ b.start = 0 /\ b.end = 0
      BY <1>2, <1>3 DEF Unbuffered
    <3> QED BY <2>1, <3>1 DEF HoldsOne
  <2> QED BY <1>3, <2>1, <2>5, <2>6, <2>7, <2>8 DEF IsEmpty
<1>4. CASE ~Unbuffered(c)
  <2>1. UNCHANGED snd_thds /\ NextSlot(c) # b.start
        /\ data_buffer' = [data_buffer EXCEPT ![c].data[b.end] = v, ![c].end = NextSlot(c)]
    BY <1>4 DEF Room, Enqueue, Full
  <2>2. NextSlot(c) = (b.end + 1) % Size(c) /\ NextSlot(c) \in 0..(Size(c)-1)
    BY <1>2, Indices DEF NextSlot
  <2>3. DOMAIN data_buffer' = Chan /\ (\A d \in Chan : d # c => data_buffer'[d] = data_buffer[d])
        /\ data_buffer'[c] = [b EXCEPT !.data[b.end] = v, !.end = NextSlot(c)]
    BY <1>1, <2>1 DEF MessageInv
  <2>4. data_buffer'[c] = [start |-> b.start, end |-> NextSlot(c), data |-> [b.data EXCEPT ![b.end] = v]]
    BY <1>1, <2>3 DEF Buffer
  <2>5. data_buffer'[c] \in Buffer(c)
    BY <1>2, <2>2, <2>4 DEF Buffer
  <2>6. \A d \in Chan : data_buffer'[d] \in Buffer(d) /\ snd_thds'[d] \in Nodes
    BY <1>1, <2>1, <2>3, <2>5
  <2>7. MessageInv'
    BY <1>1, <2>1, <2>3 DEF MessageInv, HoldsMessage, Unbuffered, Size
  <2>8. data_buffer'[c].start = b.start /\ data_buffer'[c].end = NextSlot(c)
    BY <2>4
  <2>9. \A d \in Chan : IsEmpty(d)' <=> (IsEmpty(d) /\ d # c)
    BY <1>4, <2>1, <2>3, <2>8 DEF IsEmpty, Unbuffered, Size
  <2>10. (b.start + 1) % Size(c) = (b.end + 1) % Size(c) <=> b.start = b.end
    <3> DEFINE s == Size(c)
               a == b.start
               e == b.end
    <3>1. s \in Nat \ {0} /\ a \in 0..(s-1) /\ e \in 0..(s-1)
      BY <1>2
    <3> SUFFICES (a + 1) % s = (e + 1) % s <=> a = e
      OBVIOUS
    <3> HIDE DEF s, a, e
    <3> QED BY <3>1, NextApart
  <2>11. HoldsOne(data_buffer', c) <=> IsEmpty(c)
    BY <1>4, <2>2, <2>8, <2>10 DEF HoldsOne, IsEmpty
  <2> QED BY <2>6, <2>7, <2>9, <2>11
<1> QED BY <1>3, <1>4



\* Dequeue empties a slot of its channel, and disturbs nothing else.
LEMMA DequeueOK ==
  ASSUME BuffersOK, NEW c \in Chan, ~IsEmpty(c), Dequeue(c), rcv_thd'[c] # NULL,
         \A d \in Chan : rcv_thd[d] # NULL => rcv_thd'[d] # NULL
  PROVE  /\ \A d \in Chan : data_buffer'[d] \in Buffer(d) /\ snd_thds'[d] \in Nodes
         /\ received' \in Data \cup {NULL}
         /\ MessageInv'
         /\ \A d \in Chan : d # c => (IsEmpty(d)' <=> IsEmpty(d))
         /\ Drained(data_buffer', c) <=> IsEmpty(c)'
<1> DEFINE b == data_buffer[c]
<1>1. /\ \A d \in Chan : data_buffer[d] \in Buffer(d) /\ snd_thds[d] \in Nodes
      /\ MessageInv
  BY DEF BuffersOK
<1>2. b.start \in 0..(Size(c)-1) /\ b.end \in 0..(Size(c)-1) /\ Size(c) \in Nat \ {0}
      /\ b.data \in [Slots(c) -> Data \cup {NULL}] /\ Slots(c) = 0..(Size(c)-1)
  BY <1>1, SizeOK DEF Buffer
<1>3. CASE Unbuffered(c)
  <2> DEFINE rest == Tail(snd_thds[c])
  <2>1. snd_thds[c] # <<>> /\ UNCHANGED data_buffer /\ received' = Head(snd_thds[c]).data
        /\ \E left \in FreedNode(rest) : snd_thds' = [snd_thds EXCEPT ![c] = left]
    BY <1>3 DEF Dequeue, IsEmpty
  <2>2. HoldsMessage(c) /\ snd_thds[c] \in Nodes
    BY <1>1, <1>3, <2>1 DEF MessageInv
  <2>3. rest = <<>> /\ Head(snd_thds[c]) = snd_thds[c][1]
    <3>1. Tail(snd_thds[c]) \in Nodes /\ Len(Tail(snd_thds[c])) = 0 /\ Head(snd_thds[c]) = snd_thds[c][1]
      BY <2>1, <2>2, HeadTailProperties DEF HoldsMessage, Nodes
    <3> QED BY <3>1, EmptySeq DEF Nodes
  <2>4. snd_thds' = [snd_thds EXCEPT ![c] = <<>>] /\ received' \in Data
    BY <2>1, <2>2, <2>3 DEF FreedNode, HoldsMessage
  <2>5. snd_thds'[c] = <<>> /\ DOMAIN snd_thds' = Chan
        /\ \A d \in Chan : d # c => snd_thds'[d] = snd_thds[d]
    BY <1>1, <2>4 DEF MessageInv
  <2>6. <<>> \in Nodes
    BY DEF Nodes
  <2>7. \A d \in Chan : data_buffer'[d] \in Buffer(d) /\ snd_thds'[d] \in Nodes
    BY <1>1, <2>1, <2>5, <2>6
  <2>8. MessageInv'
    BY <1>1, <2>1, <2>5 DEF MessageInv, HoldsMessage, Unbuffered, Size
  <2>9. \A d \in Chan : d # c => (IsEmpty(d)' <=> IsEmpty(d))
    BY <2>1, <2>5 DEF IsEmpty, Unbuffered, Size
  <2>10. Drained(data_buffer', c) /\ IsEmpty(c)'
    <3>1. Size(c) = 1 /\ b.start = 0 /\ b.end = 0
      BY <1>2, <1>3 DEF Unbuffered
    <3> QED BY <1>3, <2>1, <2>5, <3>1 DEF Drained, IsEmpty, Unbuffered, Size
  <2> QED BY <2>4, <2>7, <2>8, <2>9, <2>10
<1>4. CASE ~Unbuffered(c)
  <2>1. UNCHANGED snd_thds /\ received' = b.data[b.start]
        /\ data_buffer' = [data_buffer EXCEPT ![c].data[b.start] = NULL, ![c].start = (@ + 1) % Size(c)]
    BY <1>4 DEF Dequeue
  <2>2. (b.start + 1) % Size(c) \in 0..(Size(c)-1)
    BY <1>2, Indices
  <2>3. DOMAIN data_buffer' = Chan /\ (\A d \in Chan : d # c => data_buffer'[d] = data_buffer[d])
        /\ data_buffer'[c] = [b EXCEPT !.data[b.start] = NULL, !.start = (@ + 1) % Size(c)]
    BY <1>1, <2>1 DEF MessageInv
  <2>4. data_buffer'[c] = [start |-> (b.start + 1) % Size(c), end |-> b.end,
                           data |-> [b.data EXCEPT ![b.start] = NULL]]
    BY <1>1, <2>3 DEF Buffer
  <2>5. data_buffer'[c] \in Buffer(c)
    BY <1>2, <2>2, <2>4 DEF Buffer
  <2>6. \A d \in Chan : data_buffer'[d] \in Buffer(d) /\ snd_thds'[d] \in Nodes
    BY <1>1, <2>1, <2>3, <2>5
  <2>7. MessageInv'
    BY <1>1, <2>1, <2>3 DEF MessageInv, HoldsMessage, Unbuffered, Size
  <2>8. received' \in Data \cup {NULL}
    BY <1>2, <2>1
  <2>9. \A d \in Chan : d # c => (IsEmpty(d)' <=> IsEmpty(d))
    BY <2>1, <2>3 DEF IsEmpty, Unbuffered, Size
  <2>10. Drained(data_buffer', c) <=> IsEmpty(c)'
    BY <1>4 DEF Drained, IsEmpty, Unbuffered, Size
  <2> QED BY <2>6, <2>7, <2>8, <2>9, <2>10
<1> QED BY <1>3, <1>4

-----------------------------------------------------------------------------
(* Event queues *)

ChanLinks == [n : [Chan -> Chan \cup {NULL}], p : [Chan -> Chan \cup {NULL}]]

\* The event queues of the other groups are the same when the links of no channel
\* outside the group g change.
LEMMA OtherQueues ==
  ASSUME CInv, NEW g \in Group, NEW h \in Group, h # g, NEW links,
         \A d \in Chan : cgrp[d] # g =>
           links.n[d] = clinks.n[d] /\ links.p[d] = clinks.p[d],
         events[h] # NULL
  PROVE  OneRing(links, Ready(h))
<1>1. OneRing(clinks, Ready(h))
  BY DEF CInv, EventInv
<1>2. \A d \in Ready(h) : d \in Chan /\ cgrp[d] # g
  BY DEF Ready, Members
<1> QED BY <1>1, <1>2, RingSame

\* A channel that becomes ready joins the event queue of its group.
LEMMA PostEventOK ==
  ASSUME CInv, NEW c \in Chan, PostEvent(c), UNCHANGED cgrp,
         \A d \in Chan : IsEmpty(d)' <=> (IsEmpty(d) /\ d # c),
         HoldsOne(data_buffer', c) <=> IsEmpty(c)
  PROVE  EventInv' /\ events' \in [Group -> Chan \cup {NULL}] /\ clinks' \in ChanLinks
<1> DEFINE g == cgrp[c]
<1>1. /\ \A h \in Group : h # g => Ready(h)' = Ready(h)
      /\ Ready(g)' = Ready(g) \cup {c}
      /\ c \in Ready(g) <=> ~IsEmpty(c)
  BY DEF Ready, Members
<1>2. /\ EventInv /\ g \in Group \cup {NULL} /\ NULL \notin Group /\ NULL \notin Chan
      /\ events \in [Group -> Chan \cup {NULL}] /\ clinks \in ChanLinks
      /\ \A h \in Group : Ready(h) \in SUBSET Chan
  BY ChanAssumption DEF CInv, ChanTypeOK, ChanLinks, Ready, Members
<1>3. CASE g = NULL \/ ~IsEmpty(c)
  <2>1. UNCHANGED <<events, clinks>>
    BY <1>3 DEF PostEvent
  <2>2. \A h \in Group : Ready(h)' = Ready(h)
    BY <1>1, <1>2, <1>3
  <2> QED BY <1>2, <2>1, <2>2 DEF EventInv
<1>4. CASE g \in Group /\ IsEmpty(c) /\ events[g] = NULL
  <2>1. /\ events' = [events EXCEPT ![g] = c]
        /\ clinks' = [n |-> [clinks.n EXCEPT ![c] = c], p |-> [clinks.p EXCEPT ![c] = c]]
    BY <1>2, <1>4 DEF PostEvent
  <2>2. events' \in [Group -> Chan \cup {NULL}] /\ clinks' \in ChanLinks
        /\ clinks'.n[c] = c /\ clinks'.p[c] = c
        /\ \A d \in Chan : d # c => clinks'.n[d] = clinks.n[d] /\ clinks'.p[d] = clinks.p[d]
    BY <1>2, <2>1 DEF ChanLinks
  <2>3. Ready(g)' = {c}
    BY <1>1, <1>2, <1>4 DEF EventInv
  <2>4. events'[g] = c /\ OneRing(clinks', {c})
    BY <1>2, <1>4, <2>1, <2>2, RingOfOne
  <2>5. \A h \in Group : h # g /\ events[h] # NULL => OneRing(clinks', Ready(h))
    BY <1>4, <2>2, OtherQueues
  <2>6. \A h \in Group : h # g => events'[h] = events[h]
    BY <1>2, <2>1
  <2>7. ASSUME NEW h \in Group
        PROVE  /\ events'[h] = NULL <=> Ready(h)' = {}
               /\ events'[h] # NULL => events'[h] \in Ready(h)' /\ OneRing(clinks', Ready(h)')
    <3>1. CASE h = g
      BY <1>2, <2>3, <2>4, <3>1
    <3>2. CASE h # g
      BY <1>1, <1>2, <2>5, <2>6, <3>2 DEF EventInv
    <3> QED BY <3>1, <3>2
  <2> QED BY <2>2, <2>7 DEF EventInv
<1>5. CASE g \in Group /\ IsEmpty(c) /\ events[g] # NULL
  <2> DEFINE l == ListPrev(clinks, events[g])
  <2>1. UNCHANGED events /\ clinks' = ListAdd(clinks, l, c)
    BY <1>2, <1>5 DEF PostEvent
  <2>2. OneRing(clinks, Ready(g)) /\ events[g] \in Ready(g)
    BY <1>2, <1>5 DEF EventInv
  <2>3. l \in Ready(g) /\ clinks.n[l] \in Ready(g) /\ c \in Chan \ Ready(g)
    BY <1>1, <1>5, <2>2 DEF OneRing, Linked, ListPrev
  <2> HIDE DEF l
  <2>4. OneRing(clinks', Ready(g)')
    <3>1. OneRing(ListAdd(clinks, l, c), Ready(g) \cup {c})
      BY <1>2, <1>5, <2>2, <2>3, RingAdd DEF ChanLinks
    <3> QED BY <1>1, <2>1, <3>1
  <2>5. clinks' \in ChanLinks
    BY <1>2, <1>5, <2>1, <2>3 DEF ListAdd, ChanLinks
  <2>6. \A d \in Chan : cgrp[d] # g => clinks'.n[d] = clinks.n[d] /\ clinks'.p[d] = clinks.p[d]
    <3>1. \A d \in Chan : cgrp[d] # g => d # c /\ d # l /\ d # clinks.n[l]
      BY <2>3 DEF Ready, Members
    <3> QED BY <1>2, <2>1, <3>1 DEF ListAdd, ChanLinks
  <2>7. \A h \in Group : h # g /\ events[h] # NULL => OneRing(clinks', Ready(h))
    BY <1>5, <2>6, OtherQueues
  <2> QED BY <1>1, <1>2, <1>5, <2>1, <2>2, <2>4, <2>5, <2>7 DEF EventInv
<1> QED BY <1>2, <1>3, <1>4, <1>5

\* A channel that has no message left leaves the event queue of its group.
LEMMA DropEventOK ==
  ASSUME CInv, NEW c \in Chan, ~IsEmpty(c), DropEvent(c), UNCHANGED cgrp,
         \A d \in Chan : d # c => (IsEmpty(d)' <=> IsEmpty(d)),
         Drained(data_buffer', c) <=> IsEmpty(c)'
  PROVE  EventInv' /\ events' \in [Group -> Chan \cup {NULL}] /\ clinks' \in ChanLinks
<1> DEFINE g == cgrp[c]
<1>1. /\ \A h \in Group : h # g => Ready(h)' = Ready(h)
      /\ c \in Ready(g)
      /\ ~IsEmpty(c)' => Ready(g)' = Ready(g)
      /\ IsEmpty(c)' => Ready(g)' = Ready(g) \ {c}
  BY DEF Ready, Members
<1>2. /\ EventInv /\ g \in Group \cup {NULL} /\ NULL \notin Group /\ NULL \notin Chan
      /\ events \in [Group -> Chan \cup {NULL}] /\ clinks \in ChanLinks
      /\ \A h \in Group : Ready(h) \in SUBSET Chan
  BY ChanAssumption DEF CInv, ChanTypeOK, ChanLinks, Ready, Members
<1>3. CASE g = NULL \/ ~Drained(data_buffer', c)
  <2>1. UNCHANGED <<events, clinks>>
    BY <1>3 DEF DropEvent
  <2>2. \A h \in Group : Ready(h)' = Ready(h)
    BY <1>1, <1>2, <1>3
  <2> QED BY <1>2, <2>1, <2>2 DEF EventInv
<1>4. CASE g \in Group /\ Drained(data_buffer', c)
  <2>1. events[g] # NULL /\ OneRing(clinks, Ready(g))
    BY <1>1, <1>2, <1>4 DEF EventInv
  <2>2. Ready(g)' = Ready(g) \ {c}
    BY <1>1, <1>4
  <2>3. CASE ListSingleton(clinks, c)
    <3>1. events' = [events EXCEPT ![g] = NULL] /\ UNCHANGED clinks
      BY <1>2, <1>4, <2>1, <2>3 DEF DropEvent
    <3>2. Ready(g)' = {}
      <4>1. Ready(g) = {c}
        BY <1>1, <2>1, <2>3, RingOfOne DEF ListSingleton
      <4> QED BY <2>2, <4>1
    <3>3. events'[g] = NULL /\ \A h \in Group : h # g => events'[h] = events[h]
      BY <1>2, <1>4, <3>1
    <3>4. events' \in [Group -> Chan \cup {NULL}]
      BY <1>2, <3>1
    <3> QED BY <1>1, <1>2, <3>1, <3>2, <3>3, <3>4 DEF EventInv
  <2>4. CASE ~ListSingleton(clinks, c)
    <3>1. events' = [events EXCEPT ![g] = clinks.n[c]] /\ clinks' = ListRem(clinks, c)
      BY <1>2, <1>4, <2>1, <2>4 DEF DropEvent, ListNext
    <3>2. clinks.n[c] \in Ready(g) /\ clinks.p[c] \in Ready(g) /\ clinks.n[c] # c
      BY <1>1, <2>1, <2>4 DEF OneRing, Linked, ListSingleton
    <3>3. OneRing(clinks', Ready(g) \ {c})
      <4>1. Ready(g) # {c}
        BY <3>2
      <4>2. OneRing(ListRem(clinks, c), Ready(g) \ {c})
        BY <1>1, <1>2, <1>4, <2>1, <4>1, RingRem DEF ChanLinks
      <4> QED BY <3>1, <4>2
    <3>4. clinks' \in ChanLinks /\ events' \in [Group -> Chan \cup {NULL}]
      BY <1>2, <1>4, <3>1, <3>2 DEF ListRem, ChanLinks
    <3>5. events'[g] = clinks.n[c] /\ \A h \in Group : h # g => events'[h] = events[h]
      BY <1>2, <1>4, <3>1
    <3>6. \A d \in Chan : cgrp[d] # g => clinks'.n[d] = clinks.n[d] /\ clinks'.p[d] = clinks.p[d]
      <4>1. \A d \in Chan : cgrp[d] # g => d # c /\ d # clinks.n[c] /\ d # clinks.p[c]
        BY <3>2 DEF Ready, Members
      <4> QED BY <1>2, <3>1, <4>1 DEF ListRem, ChanLinks
    <3>7. \A h \in Group : h # g /\ events[h] # NULL => OneRing(clinks', Ready(h))
      BY <1>4, <3>6, OtherQueues
    <3>8. /\ events'[g] = NULL <=> Ready(g)' = {}
          /\ events'[g] # NULL => events'[g] \in Ready(g)' /\ OneRing(clinks', Ready(g)')
      BY <1>2, <1>4, <2>2, <3>2, <3>3, <3>5
    <3> QED BY <1>1, <1>2, <1>4, <3>4, <3>5, <3>7, <3>8 DEF EventInv
  <2> QED BY <2>3, <2>4
<1> QED BY <1>2, <1>3, <1>4

-----------------------------------------------------------------------------
(* The steps of channels *)

\* Channels change the status of threads between running and waiting only, which
\* lwt_join and lwt_die do not tell apart.
LEMMA ThreadsKept ==
  ASSUME CInv, UNCHANGED joinvars, status' \in [Thread -> Status \cup {WAITING}],
         lwt_head' \in Thread \cup {NULL}, lwt_head' # NULL => status'[lwt_head'] = ACTIVE,
         \A t \in Thread : status'[t] # status[t] =>
           status[t] \in Up /\ status'[t] \in Up /\ joinee[t] = NULL
  PROVE  ThreadInv'
<1> USE DEF CInv, ThreadInv, ThreadTypeOK, joinvars, ACTIVE, BLOCKED, DEAD, FREE, WAITING, Up
<1>1. ThreadTypeOK' /\ HeadInv'
  BY DEF HeadInv
<1>2. WaitInv'
  <2>1. ASSUME NEW t \in Thread, joinee[t] # NULL PROVE Joining(t, joinee[t])'
    BY <2>1 DEF WaitInv, Joining
  <2> QED BY <2>1 DEF WaitInv
<1>3. HoldInv'
  BY DEF HoldInv
<1>4. BlockInv'
  BY DEF BlockInv
<1> QED BY <1>1, <1>2, <1>3, <1>4

\* The parts of a step of a channel put together.
LEMMA Together ==
  ASSUME CInv, UNCHANGED joinvars, status' \in [Thread -> Status \cup {WAITING}],
         lwt_head' \in Thread \cup {NULL}, lwt_head' # NULL => status'[lwt_head'] = ACTIVE,
         \A t \in Thread : status'[t] # status[t] =>
           status[t] \in Up /\ status'[t] \in Up /\ joinee[t] = NULL,
         rcv_thd' \in [Chan -> Thread \cup {NULL}],
         \A d \in Chan : data_buffer'[d] \in Buffer(d) /\ snd_thds'[d] \in Nodes,
         cgrp' \in [Chan -> Group \cup {NULL}],
         events' \in [Group -> Chan \cup {NULL}], clinks' \in ChanLinks,
         call' \in [Thread -> SndCalls \cup RcvCalls \cup WaitCalls \cup {NULL}],
         received' \in Data \cup {NULL},
         ThreadCounts(gcounter', status', call'), CallCounts(ccounter', call'),
         RcvInv', CallInv', ProtocolInv', MessageInv', EventInv', NoLostWakeup'
  PROVE  CInv'
<1>1. ThreadInv'
  BY ThreadsKept
<1>2. ChanCountersAccurate' /\ gcounter' \in CounterType /\ ccounter' \in CallCounterType
  BY CountsAccurate
<1>3. ChanTypeOK'
  BY <1>2 DEF ChanTypeOK, CounterType, CallCounterType, Buffer, Nodes, ChanLinks, Slots
<1>4. ReceivedWasSent'
  BY ChanAssumption DEF ReceivedWasSent
<1> QED BY <1>1, <1>2, <1>3, <1>4 DEF CInv

\* What Together asks for of the variables a step leaves alone.
LEMMA Types ==
  ASSUME CInv
  PROVE  /\ status \in [Thread -> Status \cup {WAITING}]
         /\ lwt_head \in Thread \cup {NULL} /\ (lwt_head # NULL => status[lwt_head] = ACTIVE)
         /\ rcv_thd \in [Chan -> Thread \cup {NULL}]
         /\ \A d \in Chan : data_buffer[d] \in Buffer(d) /\ snd_thds[d] \in Nodes
         /\ cgrp \in [Chan -> Group \cup {NULL}]
         /\ events \in [Group -> Chan \cup {NULL}] /\ clinks \in ChanLinks
         /\ call \in [Thread -> SndCalls \cup RcvCalls \cup WaitCalls \cup {NULL}]
         /\ received \in Data \cup {NULL}
         /\ NULL \notin Thread /\ NULL \notin Chan /\ NULL \notin Group
BY ChanAssumption, LwtAssumption
   DEF CInv, ChanTypeOK, ThreadInv, ThreadTypeOK, HeadInv, Buffer, Nodes, ChanLinks, ReceivedWasSent

\* lwt_chan
LEMMA NewChanStep ==
  ASSUME CInv, NEW c \in Chan, NewChan(c)
  PROVE  CInv'
<1> USE DEF NewChan, vars
<1>1. /\ lwt_head \in Thread /\ status[lwt_head] = ACTIVE
      /\ joinee[lwt_head] = NULL /\ call[lwt_head] = NULL
  BY OwnCode
<1>2. rcv_thd' \in [Chan -> Thread \cup {NULL}] /\ rcv_thd[c] = NULL /\ cgrp[c] = NULL
      /\ \A d \in Chan : rcv_thd'[d] = IF d = c THEN lwt_head ELSE rcv_thd[d]
  BY <1>1, Types DEF CInv, RcvInv
<1>3. RcvInv'
  BY <1>1, <1>2 DEF CInv, RcvInv, Up
<1>4. CallInv'
  BY <1>1, <1>2, LwtAssumption DEF CInv, CallInv
<1>5. ProtocolInv'
  <2>1. ASSUME NEW t \in Thread, NEW d \in Chan, call[t] = RcvCall(d) PROVE WaitsForOne(t, d)'
    <3>1. WaitsForOne(t, d) /\ t # lwt_head /\ t # NULL
      BY <1>1, <2>1, CallsApart, Types DEF CInv, ProtocolInv
    <3> QED BY <1>2, <3>1 DEF WaitsForOne, Unbuffered, Size
  <2>2. ASSUME NEW t \in Thread, NEW g \in Group, call[t] = WaitCall(g) PROVE WaitsForGroup(t, g)'
    <3>1. WaitsForGroup(t, g) /\ t # lwt_head /\ t # NULL /\ g # NULL
      BY <1>1, <2>2, CallsApart, Types DEF CInv, ProtocolInv
    <3>2. Members(g)' = Members(g) /\ c \notin Members(g)
      BY <1>2, <3>1 DEF Members
    <3> QED BY <1>2, <3>1, <3>2 DEF WaitsForGroup, Unbuffered, Size, Members
  <2> QED BY <2>1, <2>2 DEF ProtocolInv
<1>6. MessageInv'
  BY <1>1, <1>2, LwtAssumption DEF CInv, MessageInv, HoldsMessage
<1>7. EventInv'
  BY DEF CInv, EventInv, Ready, Members, IsEmpty
<1>8. NoLostWakeup'
  <2> SUFFICES ASSUME NEW t \in Thread, status[t] = WAITING
               PROVE  \/ \E d \in Chan : call[t] = RcvCall(d) /\ IsEmpty(d) /\ rcv_thd'[d] = t
                      \/ \E g \in Group : /\ call[t] = WaitCall(g)
                                          /\ \A d \in Members(g) : IsEmpty(d) /\ rcv_thd'[d] = t
    BY DEF NoLostWakeup, IsEmpty, Members, Unbuffered, Size
  <2>1. t # NULL
    BY Types
  <2>2. \A g \in Group : c \notin Members(g)
    BY <1>2, Types DEF Members
  <2> QED BY <1>2, <2>1, <2>2 DEF CInv, NoLostWakeup, Members
<1>9. ThreadCounts(gcounter', status', call') /\ CallCounts(ccounter', call')
  BY AccurateCounts DEF CInv
<1> QED BY <1>2, <1>3, <1>4, <1>5, <1>6, <1>7, <1>8, <1>9, Types, Together DEF joinvars

\* What the call a thread is in says of it.
CallOK(t) ==
  /\ call[t] # NULL => status[t] \in Up /\ joinee[t] = NULL
  /\ \A c \in Chan, v \in Data : call[t] = SndCall(c, v) =>
       status[t] = ACTIVE /\ rcv_thd[c] # NULL
  /\ \A c \in Chan : call[t] = RcvCall(c) => WaitsForOne(t, c)
  /\ \A g \in Group : call[t] = WaitCall(g) => WaitsForGroup(t, g)
  /\ status[t] = WAITING =>
       \/ \E c \in Chan : call[t] = RcvCall(c) /\ IsEmpty(c) /\ rcv_thd[c] = t
       \/ \E g \in Group : /\ call[t] = WaitCall(g)
                           /\ \A c \in Members(g) : IsEmpty(c) /\ rcv_thd[c] = t

\* The invariants about calls say this of every thread.
LEMMA CallsOK ==
  /\ CInv => \A t \in Thread : CallOK(t)
  /\ (\A t \in Thread : CallOK(t)') => CallInv' /\ ProtocolInv' /\ NoLostWakeup'
<1>1. CInv => \A t \in Thread : CallOK(t)
  BY DEF CInv, CallInv, ProtocolInv, NoLostWakeup, CallOK
<1>2. (\A t \in Thread : CallOK(t)') => CallInv' /\ ProtocolInv' /\ NoLostWakeup'
  BY DEF CallInv, ProtocolInv, NoLostWakeup, CallOK
<1> QED BY <1>1, <1>2

\* A step that leaves every channel and its receiver alone, and every call but that
\* of lwt_head, who enters or leaves one.
LEMMA OtherCallsKept ==
  ASSUME CInv, UNCHANGED <<joinvars, rcv_thd, data_buffer, snd_thds, cgrp, events, clinks, received>>,
         NEW h \in Thread, joinee[h] = NULL,
         \A t \in Thread \ {h} : status'[t] = status[t] /\ call'[t] = call[t],
         status'[h] \in Up
  PROVE  /\ RcvInv' /\ MessageInv' /\ EventInv'
         /\ \A t \in Thread \ {h} : CallOK(t)'
<1> USE DEF joinvars
<1>1. RcvInv'
  <2>1. \A c \in Chan : rcv_thd[c] # NULL =>
          status'[rcv_thd[c]] \in Up /\ joinee[rcv_thd[c]] = NULL
    BY Types DEF CInv, RcvInv
  <2> QED BY <2>1 DEF CInv, RcvInv
<1>2. MessageInv' /\ EventInv'
  BY DEF CInv, MessageInv, HoldsMessage, EventInv, Ready, Members, IsEmpty
<1>3. (\A c \in Chan : IsEmpty(c)' <=> IsEmpty(c)) /\ \A g \in Group : Members(g)' = Members(g)
  BY DEF IsEmpty, Members
<1>4. ASSUME NEW t \in Thread \ {h} PROVE CallOK(t)'
  <2>1. CallOK(t)
    BY CallsOK
  <2>2. \A g \in Group : Members(g) \subseteq Chan
    BY DEF Members
  <2> QED BY <1>3, <2>1, <2>2 DEF CallOK, WaitsForOne, WaitsForGroup, Unbuffered, Size
<1> QED BY <1>1, <1>2, <1>4

\* A thread starts to wait in lwt_snd.
LEMMA SndSpinsStep ==
  ASSUME CInv, InOwnCode, NEW c \in Chan, NEW v \in Data, rcv_thd[c] # NULL,
         SndSpins(status, c, v), CountIn(gcounter, "nsnding")
  PROVE  CInv'
<1> USE DEF SndSpins, CountIn
<1>1. PICK h \in Thread : h = lwt_head /\ status[h] = ACTIVE /\ joinee[h] = NULL /\ call[h] = NULL
  BY OwnCode
<1>2. /\ call' \in [Thread -> SndCalls \cup RcvCalls \cup WaitCalls \cup {NULL}]
      /\ call'[h] = SndCall(c, v) /\ \A t \in Thread \ {h} : call'[t] = call[t]
      /\ call'[h] \in SndCalls
  BY <1>1, Types, CallsApart
<1>3. lwt_head' \in Thread \cup {NULL} /\ (lwt_head' # NULL => status'[lwt_head'] = ACTIVE)
  BY Scheduled
<1>4. RcvInv' /\ MessageInv' /\ EventInv' /\ \A t \in Thread \ {h} : CallOK(t)'
  BY <1>1, <1>2, OtherCallsKept DEF Up
<1>5. CallOK(h)'
  <2>1. \A d \in Chan, w \in Data : SndCall(c, v) = SndCall(d, w) => d = c
    BY DEF SndCall
  <2>2. /\ \A d \in Chan : call'[h] # RcvCall(d)
        /\ \A g \in Group : call'[h] # WaitCall(g)
        /\ \A d \in Chan, w \in Data : call'[h] = SndCall(d, w) => d = c
    BY <1>2, <2>1, CallsApart
  <2>3. status'[h] = ACTIVE /\ joinee'[h] = NULL /\ rcv_thd'[c] # NULL
    BY <1>1 DEF joinvars
  <2> QED BY <2>2, <2>3 DEF CallOK, Up, ACTIVE, WAITING
<1>6. ThreadCounts(gcounter', status', call') /\ CallCounts(ccounter', call')
  <2>1. ThreadCounts(gcounter, status, call) /\ CallCounts(ccounter, call)
    BY AccurateCounts DEF CInv
  <2>2. /\ Runnable(status', call') = Runnable(status, call) \ {h}
        /\ h \in Runnable(status, call) /\ Runnable(status, call) \in SUBSET Thread
    BY <1>1, <1>2, CallsApart DEF Runnable, Up
  <2>3. /\ Calling(call', SndCalls) = Calling(call, SndCalls) \cup {h}
        /\ h \in Thread \ Calling(call, SndCalls) /\ Calling(call, SndCalls) \in SUBSET Thread
    BY <1>1, <1>2, CallsApart DEF Calling
  <2>4. Calling(call', RcvCalls) = Calling(call, RcvCalls)
    BY <1>1, <1>2, CallsApart DEF Calling
  <2>5. /\ Cardinality(Runnable(status', call')) = Dec(Cardinality(Runnable(status, call)))
        /\ Cardinality(Calling(call', SndCalls)) = Inc(Cardinality(Calling(call, SndCalls)))
    BY <2>2, <2>3, CountsThreads, ZenonT(40)
  <2> QED BY <2>1, <2>4, <2>5 DEF ThreadCounts, CallCounts, Having
<1>7. CallInv' /\ ProtocolInv' /\ NoLostWakeup'
  BY <1>4, <1>5, CallsOK
<1> QED BY <1>2, <1>3, <1>4, <1>6, <1>7, Types, Together

\* A thread starts to wait in lwt_rcv.
LEMMA RcvWaitsStep ==
  ASSUME CInv, InOwnCode, NEW c \in Chan, MayRcv(c), IsEmpty(c),
         rcv_thd' = [rcv_thd EXCEPT ![c] = lwt_head],
         status' = [status EXCEPT ![lwt_head] = WAITING],
         call' = [call EXCEPT ![lwt_head] = RcvCall(c)],
         CountIn(gcounter, "nrcving"), Schedule(status'),
         UNCHANGED <<joinvars, data_buffer, snd_thds, cgrp, events, clinks, received>>
  PROVE  CInv'
<1> USE DEF CountIn
<1>1. PICK h \in Thread : h = lwt_head /\ status[h] = ACTIVE /\ joinee[h] = NULL /\ call[h] = NULL
  BY OwnCode
<1>2. /\ call' \in [Thread -> SndCalls \cup RcvCalls \cup WaitCalls \cup {NULL}]
      /\ call'[h] = RcvCall(c) /\ call'[h] \in RcvCalls
      /\ status' \in [Thread -> Status \cup {WAITING}] /\ status'[h] = WAITING
      /\ \A t \in Thread \ {h} : status'[t] = status[t] /\ call'[t] = call[t]
  BY <1>1, Types, CallsApart
<1>3. rcv_thd[c] = h /\ UNCHANGED rcv_thd
  BY <1>1, Types DEF MayRcv, IsReceiver
<1>4. lwt_head' \in Thread \cup {NULL} /\ (lwt_head' # NULL => status'[lwt_head'] = ACTIVE)
  BY Scheduled
<1>5. RcvInv' /\ MessageInv' /\ EventInv' /\ \A t \in Thread \ {h} : CallOK(t)'
  BY <1>1, <1>2, <1>3, OtherCallsKept DEF Up
<1>6. CallOK(h)'
  <2>1. \A d \in Chan : RcvCall(c) = RcvCall(d) => d = c
    BY DEF RcvCall
  <2>2. /\ \A d \in Chan : call'[h] = RcvCall(d) => d = c
        /\ \A g \in Group : call'[h] # WaitCall(g)
        /\ \A d \in Chan, w \in Data : call'[h] # SndCall(d, w)
    BY <1>2, <2>1, CallsApart
  <2>3. joinee'[h] = NULL
    BY <1>1 DEF joinvars
  <2>4. IsEmpty(c)' /\ rcv_thd'[c] = h
    BY <1>3 DEF IsEmpty
  <2>5. WaitsForOne(h, c)'
    BY <1>1, <1>3 DEF MayRcv, IsReceiver, WaitsForOne, Unbuffered, Size
  <2> QED BY <1>2, <2>2, <2>3, <2>4, <2>5 DEF CallOK, Up
<1>7. ThreadCounts(gcounter', status', call') /\ CallCounts(ccounter', call')
  <2>1. ThreadCounts(gcounter, status, call) /\ CallCounts(ccounter, call)
    BY AccurateCounts DEF CInv
  <2>2. /\ Runnable(status', call') = Runnable(status, call) \ {h}
        /\ h \in Runnable(status, call) /\ Runnable(status, call) \in SUBSET Thread
    BY <1>1, <1>2, CallsApart DEF Runnable, Up
  <2>3. /\ Calling(call', RcvCalls) = Calling(call, RcvCalls) \cup {h}
        /\ h \in Thread \ Calling(call, RcvCalls) /\ Calling(call, RcvCalls) \in SUBSET Thread
    BY <1>1, <1>2, CallsApart DEF Calling
  <2>4. Calling(call', SndCalls) = Calling(call, SndCalls)
    BY <1>1, <1>2, CallsApart DEF Calling
  <2>5. /\ Cardinality(Runnable(status', call')) = Dec(Cardinality(Runnable(status, call)))
        /\ Cardinality(Calling(call', RcvCalls)) = Inc(Cardinality(Calling(call, RcvCalls)))
    BY <2>2, <2>3, CountsThreads, ZenonT(40)
  <2>6. Having(status', BLOCKED) = Having(status, BLOCKED) /\ Having(status', DEAD) = Having(status, DEAD)
    BY <1>1, <1>2 DEF Having, ACTIVE, WAITING, BLOCKED, DEAD
  <2> QED BY <2>1, <2>4, <2>5, <2>6 DEF ThreadCounts, CallCounts
<1>8. CallInv' /\ ProtocolInv' /\ NoLostWakeup'
  BY <1>5, <1>6, CallsOK
<1>9. \A t \in Thread : status'[t] # status[t] =>
        status[t] \in Up /\ status'[t] \in Up /\ joinee[t] = NULL
  BY <1>1, <1>2 DEF Up
<1> QED BY <1>2, <1>3, <1>4, <1>5, <1>7, <1>8, <1>9, Types, Together

\* A thread starts to wait in lwt_cgrp_wait.
LEMMA CgrpWaitStep ==
  ASSUME CInv, NEW g \in Group, MayWait(g), CgrpWait(g)
  PROVE  CInv'
<1> USE DEF CgrpWait
<1>1. PICK h \in Thread : h = lwt_head /\ status[h] = ACTIVE /\ joinee[h] = NULL /\ call[h] = NULL
  BY OwnCode
<1>2. /\ call' \in [Thread -> SndCalls \cup RcvCalls \cup WaitCalls \cup {NULL}]
      /\ call'[h] = WaitCall(g) /\ call'[h] \in WaitCalls
      /\ status' \in [Thread -> Status \cup {WAITING}] /\ status'[h] = WAITING
      /\ \A t \in Thread \ {h} : status'[t] = status[t] /\ call'[t] = call[t]
  BY <1>1, Types, CallsApart
<1>3. lwt_head' \in Thread \cup {NULL} /\ (lwt_head' # NULL => status'[lwt_head'] = ACTIVE)
  BY Scheduled
<1>4. RcvInv' /\ MessageInv' /\ EventInv' /\ \A t \in Thread \ {h} : CallOK(t)'
  BY <1>1, <1>2, OtherCallsKept DEF Up
<1>5. CallOK(h)'
  <2>1. \A f \in Group : WaitCall(g) = WaitCall(f) => f = g
    BY DEF WaitCall
  <2>2. /\ \A f \in Group : call'[h] = WaitCall(f) => f = g
        /\ \A d \in Chan : call'[h] # RcvCall(d)
        /\ \A d \in Chan, w \in Data : call'[h] # SndCall(d, w)
    BY <1>2, <2>1, CallsApart
  <2>3. joinee'[h] = NULL
    BY <1>1 DEF joinvars
  <2>4. \A d \in Members(g)' : IsEmpty(d)' /\ rcv_thd'[d] = h
    <3>1. Ready(g) = {}
      BY DEF CInv, EventInv
    <3>2. \A d \in Members(g) : IsEmpty(d) /\ rcv_thd[d] = h
      BY <1>1, <3>1 DEF Ready, MayWait, IsReceiver
    <3> QED BY <3>2 DEF IsEmpty, Members
  <2>5. WaitsForGroup(h, g)'
    BY <1>1 DEF MayWait, IsReceiver, WaitsForGroup, Unbuffered, Size, Members
  <2> QED BY <1>2, <2>2, <2>3, <2>4, <2>5 DEF CallOK, Up
<1>6. ThreadCounts(gcounter', status', call') /\ CallCounts(ccounter', call')
  <2>1. ThreadCounts(gcounter, status, call) /\ CallCounts(ccounter, call)
    BY AccurateCounts DEF CInv
  <2>2. Runnable(status', call') = Runnable(status, call)
    BY <1>1, <1>2, CallsApart DEF Runnable, Up
  <2>3. Calling(call', RcvCalls) = Calling(call, RcvCalls) /\ Calling(call', SndCalls) = Calling(call, SndCalls)
    BY <1>1, <1>2, CallsApart DEF Calling
  <2>4. Having(status', BLOCKED) = Having(status, BLOCKED) /\ Having(status', DEAD) = Having(status, DEAD)
    BY <1>1, <1>2 DEF Having, ACTIVE, WAITING, BLOCKED, DEAD
  <2> QED BY <2>1, <2>2, <2>3, <2>4 DEF ThreadCounts, CallCounts
<1>7. CallInv' /\ ProtocolInv' /\ NoLostWakeup'
  BY <1>4, <1>5, CallsOK
<1>8. \A t \in Thread : status'[t] # status[t] =>
        status[t] \in Up /\ status'[t] \in Up /\ joinee[t] = NULL
  BY <1>1, <1>2 DEF Up
<1> QED BY <1>2, <1>3, <1>4, <1>6, <1>7, <1>8, Types, Together

\* lwt_cgrp_wait returns.
LEMMA CgrpWaitDoneStep ==
  ASSUME CInv, Within(WaitCalls),
         status' = [status EXCEPT ![lwt_head] = ACTIVE],
         call' = [call EXCEPT ![lwt_head] = NULL],
         UNCHANGED <<joinvars, lwt_head, gcounter, rcv_thd, data_buffer, snd_thds,
                     cgrp, events, clinks, ccounter, received>>
  PROVE  CInv'
<1>1. PICK h \in Thread : h = lwt_head /\ status[h] = ACTIVE /\ joinee[h] = NULL /\ call[h] \in WaitCalls
  BY Types DEF Within
<1>2. /\ call' \in [Thread -> SndCalls \cup RcvCalls \cup WaitCalls \cup {NULL}]
      /\ call'[h] = NULL /\ UNCHANGED status
      /\ \A t \in Thread \ {h} : call'[t] = call[t]
  BY <1>1, Types
<1>3. RcvInv' /\ MessageInv' /\ EventInv' /\ \A t \in Thread \ {h} : CallOK(t)'
  BY <1>1, <1>2, OtherCallsKept DEF Up
<1>4. CallOK(h)'
  <2>1. /\ \A f \in Group : call'[h] # WaitCall(f)
        /\ \A d \in Chan : call'[h] # RcvCall(d)
        /\ \A d \in Chan, w \in Data : call'[h] # SndCall(d, w)
    BY <1>2, CallsApart
  <2> QED BY <1>1, <1>2, <2>1 DEF CallOK, ACTIVE, WAITING
<1>5. ThreadCounts(gcounter', status', call') /\ CallCounts(ccounter', call')
  <2>1. ThreadCounts(gcounter, status, call) /\ CallCounts(ccounter, call)
    BY AccurateCounts DEF CInv
  <2>2. Runnable(status', call') = Runnable(status, call)
    BY <1>1, <1>2, CallsApart DEF Runnable, Up
  <2>3. Calling(call', RcvCalls) = Calling(call, RcvCalls) /\ Calling(call', SndCalls) = Calling(call, SndCalls)
    BY <1>1, <1>2, CallsApart DEF Calling
  <2> QED BY <1>2, <2>1, <2>2, <2>3 DEF ThreadCounts, CallCounts
<1>6. CallInv' /\ ProtocolInv' /\ NoLostWakeup'
  BY <1>3, <1>4, CallsOK
<1> QED BY <1>2, <1>3, <1>5, <1>6, Types, Together

\* lwt_cgrp_add
LEMMA CgrpAddStep ==
  ASSUME CInv, NEW g \in Group, NEW c \in Chan, MayAdd(g, c), CgrpAdd(g, c)
  PROVE  CInv'
<1> USE DEF CgrpAdd, vars
<1>1. PICK h \in Thread : h = lwt_head /\ status[h] = ACTIVE /\ joinee[h] = NULL /\ call[h] = NULL
  BY OwnCode
<1>2. rcv_thd[c] = h /\ IsEmpty(c) /\ cgrp[c] = NULL /\ \A d \in Members(g) : rcv_thd[d] = h
  BY <1>1 DEF MayAdd, IsReceiver
<1>3. cgrp' \in [Chan -> Group \cup {NULL}] /\ \A d \in Chan : cgrp'[d] = IF d = c THEN g ELSE cgrp[d]
  BY Types
<1>4. /\ \A d \in Chan : IsEmpty(d)' <=> IsEmpty(d)
      /\ Members(g)' = Members(g) \cup {c} /\ \A f \in Group : f # g => Members(f)' = Members(f)
      /\ \A f \in Group : c \notin Members(f)
  BY <1>2, <1>3, Types DEF IsEmpty, Members
<1>5. RcvInv'
  BY <1>1, <1>2, <1>3, Types DEF CInv, RcvInv
<1>6. MessageInv'
  BY DEF CInv, MessageInv, HoldsMessage
<1>7. EventInv'
  <2>1. ASSUME NEW f \in Group PROVE Ready(f)' = Ready(f)
    <3>1. \A d : d \in Members(f)' /\ ~IsEmpty(d)' <=> d \in Members(f) /\ ~IsEmpty(d)
      BY <1>2, <1>4 DEF Members
    <3> QED BY <3>1 DEF Ready
  <2> QED BY <2>1 DEF CInv, EventInv
<1>8. ASSUME NEW t \in Thread PROVE CallOK(t)'
  <2>1. CallOK(t) /\ \A f \in Group : Members(f) \subseteq Chan
    BY CallsOK DEF Members
  <2>2. CASE t = h
    BY <1>1, <2>2, CallsApart DEF CallOK, ACTIVE, WAITING
  <2>3. CASE t # h
    <3>1. \A d \in Chan : call[t] = RcvCall(d) => WaitsForOne(t, d)'
      BY <1>2, <1>3, <2>1, <2>3 DEF CallOK, WaitsForOne, Unbuffered, Size
    <3>2. \A f \in Group : call[t] = WaitCall(f) => f # g
      BY <1>2, <2>1, <2>3 DEF CallOK, WaitsForGroup
    <3>3. \A f \in Group : call[t] = WaitCall(f) => WaitsForGroup(t, f)'
      BY <1>4, <2>1, <3>2 DEF CallOK, WaitsForGroup, Unbuffered, Size
    <3> QED BY <1>4, <2>1, <3>1, <3>2, <3>3 DEF CallOK
  <2> QED BY <2>2, <2>3
<1>9. ThreadCounts(gcounter', status', call') /\ CallCounts(ccounter', call')
  BY AccurateCounts DEF CInv
<1>10. CallInv' /\ ProtocolInv' /\ NoLostWakeup'
  BY <1>8, CallsOK
<1> QED BY <1>3, <1>5, <1>6, <1>7, <1>9, <1>10, Types, Together DEF joinvars

\* lwt_cgrp_rem
LEMMA CgrpRemStep ==
  ASSUME CInv, NEW g \in Group, NEW c \in Chan, IsReceiver(c), CgrpRem(g, c)
  PROVE  CInv'
<1> USE DEF CgrpRem, vars
<1>1. PICK h \in Thread : h = lwt_head /\ status[h] = ACTIVE /\ joinee[h] = NULL /\ call[h] = NULL
  BY OwnCode
<1>2. rcv_thd[c] = h /\ IsEmpty(c) /\ cgrp[c] = g
  BY <1>1 DEF IsReceiver
<1>3. cgrp' \in [Chan -> Group \cup {NULL}] /\ \A d \in Chan : cgrp'[d] = IF d = c THEN NULL ELSE cgrp[d]
  BY Types
<1>4. /\ \A d \in Chan : IsEmpty(d)' <=> IsEmpty(d)
      /\ Members(g)' = Members(g) \ {c} /\ \A f \in Group : f # g => Members(f)' = Members(f)
      /\ c \in Members(g)
  BY <1>2, <1>3, Types DEF IsEmpty, Members
<1>5. RcvInv'
  BY <1>1, <1>2, <1>3, Types DEF CInv, RcvInv
<1>6. MessageInv'
  BY DEF CInv, MessageInv, HoldsMessage
<1>7. EventInv'
  <2>1. ASSUME NEW f \in Group PROVE Ready(f)' = Ready(f)
    <3>1. \A d : d \in Members(f)' /\ ~IsEmpty(d)' <=> d \in Members(f) /\ ~IsEmpty(d)
      BY <1>2, <1>4 DEF Members
    <3> QED BY <3>1 DEF Ready
  <2> QED BY <2>1 DEF CInv, EventInv
<1>8. ASSUME NEW t \in Thread PROVE CallOK(t)'
  <2>1. CallOK(t) /\ \A f \in Group : Members(f) \subseteq Chan
    BY CallsOK DEF Members
  <2>2. CASE t = h
    BY <1>1, <2>2, CallsApart DEF CallOK, ACTIVE, WAITING
  <2>3. CASE t # h
    <3>1. \A d \in Chan : call[t] = RcvCall(d) => WaitsForOne(t, d)'
      BY <1>2, <1>3, <2>1, <2>3 DEF CallOK, WaitsForOne, Unbuffered, Size
    <3>2. \A f \in Group : call[t] = WaitCall(f) => f # g
      BY <1>2, <1>4, <2>1, <2>3 DEF CallOK, WaitsForGroup
    <3>3. \A f \in Group : call[t] = WaitCall(f) => WaitsForGroup(t, f)'
      BY <1>4, <2>1, <3>2 DEF CallOK, WaitsForGroup, Unbuffered, Size
    <3> QED BY <1>4, <2>1, <3>1, <3>2, <3>3 DEF CallOK
  <2> QED BY <2>2, <2>3
<1>9. ThreadCounts(gcounter', status', call') /\ CallCounts(ccounter', call')
  BY AccurateCounts DEF CInv
<1>10. CallInv' /\ ProtocolInv' /\ NoLostWakeup'
  BY <1>8, CallsOK
<1> QED BY <1>3, <1>5, <1>6, <1>7, <1>9, <1>10, Types, Together DEF joinvars

\* lwt_snd returns; its receiver is made ready.
LEMMA SndDoneStep ==
  ASSUME CInv, NEW c \in Chan, NEW v \in Data, SndDone(status, c, v), rcv_thd[c] # NULL,
         lwt_head \in Thread, joinee[lwt_head] = NULL, call[lwt_head] \in SndCalls \cup {NULL},
         ThreadCounts(gcounter', status', call'), CallCounts(ccounter', call')
  PROVE  CInv'
<1> USE DEF SndDone
<1>1. PICK h \in Thread : h = lwt_head /\ status[h] = ACTIVE /\ joinee[h] = NULL
                          /\ call[h] \in SndCalls \cup {NULL}
  BY Types
<1>2. PICK r \in Thread : r = rcv_thd[c] /\ status[r] \in Up /\ joinee[r] = NULL
  BY Types DEF CInv, RcvInv
<1>3. /\ call' \in [Thread -> SndCalls \cup RcvCalls \cup WaitCalls \cup {NULL}]
      /\ \A t \in Thread : call'[t] = IF t = h THEN NULL ELSE call[t]
      /\ status' \in [Thread -> Status \cup {WAITING}]
      /\ \A t \in Thread : status'[t] = IF t = r THEN ACTIVE ELSE status[t]
  BY <1>1, <1>2, Types DEF ReceiverWoken, Status
<1>4. /\ \A d \in Chan : data_buffer'[d] \in Buffer(d) /\ snd_thds'[d] \in Nodes
      /\ MessageInv'
      /\ \A d \in Chan : IsEmpty(d)' <=> (IsEmpty(d) /\ d # c)
      /\ HoldsOne(data_buffer', c) <=> IsEmpty(c)
  BY BuffersAre, RoomToSend, EnqueueOK
<1>5. EventInv' /\ events' \in [Group -> Chan \cup {NULL}] /\ clinks' \in ChanLinks
  BY <1>4, PostEventOK
<1>6. RcvInv'
  <2>1. \A d \in Chan : rcv_thd[d] # NULL =>
          status'[rcv_thd[d]] \in Up /\ joinee'[rcv_thd[d]] = NULL
    BY <1>2, <1>3, Types DEF CInv, RcvInv, Up, joinvars
  <2> QED BY <2>1 DEF CInv, RcvInv
<1>7. ASSUME NEW t \in Thread PROVE CallOK(t)'
  <2>1. CallOK(t) /\ \A f \in Group : Members(f) \subseteq Chan
    BY CallsOK DEF Members
  <2>2. \A f \in Group : Members(f)' = Members(f)
    BY DEF Members
  <2>3. status'[t] = WAITING => t # r /\ t # h /\ status[t] = WAITING
    BY <1>1, <1>3 DEF ACTIVE, WAITING
  <2>4. CASE t = h
    BY <1>3, <2>3, <2>4, CallsApart DEF CallOK
  <2>5. CASE t # h
    <3>1. /\ call'[t] # NULL => status'[t] \in Up /\ joinee'[t] = NULL
          /\ \A d \in Chan, w \in Data : call'[t] = SndCall(d, w) =>
               status'[t] = ACTIVE /\ rcv_thd'[d] # NULL
      BY <1>3, <2>1, <2>5 DEF CallOK, Up, joinvars
    <3>2. /\ \A d \in Chan : call'[t] = RcvCall(d) => WaitsForOne(t, d)'
          /\ \A f \in Group : call'[t] = WaitCall(f) => WaitsForGroup(t, f)'
      BY <1>3, <2>1, <2>2, <2>5 DEF CallOK, WaitsForOne, WaitsForGroup, Unbuffered, Size
    <3>3. status'[t] = WAITING =>
            \/ \E d \in Chan : call'[t] = RcvCall(d) /\ IsEmpty(d)' /\ rcv_thd'[d] = t
            \/ \E g \in Group : /\ call'[t] = WaitCall(g)
                                /\ \A d \in Members(g)' : IsEmpty(d)' /\ rcv_thd'[d] = t
      BY <1>2, <1>3, <1>4, <2>1, <2>2, <2>3, <2>5 DEF CallOK
    <3> QED BY <3>1, <3>2, <3>3 DEF CallOK
  <2> QED BY <2>4, <2>5
<1>8. CallInv' /\ ProtocolInv' /\ NoLostWakeup'
  BY <1>7, CallsOK
<1>9. \A t \in Thread : status'[t] # status[t] =>
        status[t] \in Up /\ status'[t] \in Up /\ joinee[t] = NULL
  BY <1>2, <1>3 DEF Up
<1>10. lwt_head' \in Thread \cup {NULL} /\ (lwt_head' # NULL => status'[lwt_head'] = ACTIVE)
  BY <1>1, <1>3
<1> QED BY <1>3, <1>4, <1>5, <1>6, <1>8, <1>9, <1>10, Types, Together

\* lwt_rcv returns.
LEMMA RcvTakesStep ==
  ASSUME CInv, NEW c \in Chan, RcvTakes(c), rcv_thd[c] # NULL,
         lwt_head \in Thread, joinee[lwt_head] = NULL, call[lwt_head] \in RcvCalls \cup {NULL},
         UNCHANGED <<joinvars, lwt_head, rcv_thd, status>>,
         call' = [call EXCEPT ![lwt_head] = NULL],
         ThreadCounts(gcounter', status', call'), CallCounts(ccounter', call')
  PROVE  CInv'
<1> USE DEF RcvTakes
<1>1. PICK h \in Thread : h = lwt_head /\ status[h] = ACTIVE
  BY Types
<1>2. /\ call' \in [Thread -> SndCalls \cup RcvCalls \cup WaitCalls \cup {NULL}]
      /\ \A t \in Thread : call'[t] = IF t = h THEN NULL ELSE call[t]
  BY <1>1, Types
<1>3. /\ \A d \in Chan : data_buffer'[d] \in Buffer(d) /\ snd_thds'[d] \in Nodes
      /\ received' \in Data \cup {NULL}
      /\ MessageInv'
      /\ \A d \in Chan : d # c => (IsEmpty(d)' <=> IsEmpty(d))
      /\ Drained(data_buffer', c) <=> IsEmpty(c)'
  BY BuffersAre, DequeueOK
<1>4. EventInv' /\ events' \in [Group -> Chan \cup {NULL}] /\ clinks' \in ChanLinks
  BY <1>3, DropEventOK
<1>5. RcvInv'
  BY DEF CInv, RcvInv, joinvars
<1>6. ASSUME NEW t \in Thread PROVE CallOK(t)'
  <2>1. CallOK(t) /\ \A f \in Group : Members(f) \subseteq Chan
    BY CallsOK DEF Members
  <2>2. \A f \in Group : Members(f)' = Members(f)
    BY DEF Members
  <2>3. \A d \in Chan : IsEmpty(d) => IsEmpty(d)'
    BY <1>3
  <2>4. CASE t = h
    BY <1>1, <1>2, <2>4, CallsApart DEF CallOK, ACTIVE, WAITING
  <2>5. CASE t # h
    <3>1. /\ call'[t] # NULL => status'[t] \in Up /\ joinee'[t] = NULL
          /\ \A d \in Chan, w \in Data : call'[t] = SndCall(d, w) =>
               status'[t] = ACTIVE /\ rcv_thd'[d] # NULL
      BY <1>2, <2>1, <2>5 DEF CallOK, joinvars
    <3>2. /\ \A d \in Chan : call'[t] = RcvCall(d) => WaitsForOne(t, d)'
          /\ \A f \in Group : call'[t] = WaitCall(f) => WaitsForGroup(t, f)'
      BY <1>2, <2>1, <2>2, <2>5 DEF CallOK, WaitsForOne, WaitsForGroup, Unbuffered, Size
    <3>3. status'[t] = WAITING =>
            \/ \E d \in Chan : call'[t] = RcvCall(d) /\ IsEmpty(d)' /\ rcv_thd'[d] = t
            \/ \E g \in Group : /\ call'[t] = WaitCall(g)
                                /\ \A d \in Members(g)' : IsEmpty(d)' /\ rcv_thd'[d] = t
      BY <1>2, <2>1, <2>2, <2>3, <2>5 DEF CallOK
    <3> QED BY <3>1, <3>2, <3>3 DEF CallOK
  <2> QED BY <2>4, <2>5
<1>7. CallInv' /\ ProtocolInv' /\ NoLostWakeup'
  BY <1>6, CallsOK
<1> QED BY <1>2, <1>3, <1>4, <1>5, <1>7, Types, Together

\* Waking the receiver of a channel leaves every thread where the counters count it.
LEMMA WokenCounts ==
  ASSUME CInv, NEW c \in Chan, rcv_thd[c] # NULL, status' = ReceiverWoken(status, c), NEW cl
  PROVE  /\ Runnable(status', cl) = Runnable(status, cl)
         /\ Having(status', BLOCKED) = Having(status, BLOCKED)
         /\ Having(status', DEAD) = Having(status, DEAD)
<1>1. PICK r \in Thread : r = rcv_thd[c] /\ status[r] \in Up
  BY Types DEF CInv, RcvInv
<1>2. \A t \in Thread : status'[t] = IF t = r THEN ACTIVE ELSE status[t]
  BY <1>1, Types DEF ReceiverWoken
<1> QED BY <1>1, <1>2 DEF Runnable, Having, Up, ACTIVE, WAITING, BLOCKED, DEAD

\* A thread that leaves a call counts as runnable again.
LEMMA CountsOut ==
  ASSUME CInv, NEW h \in Thread, status[h] = ACTIVE, call' = [call EXCEPT ![h] = NULL],
         call[h] \in SndCalls \cup RcvCalls, NEW field \in {"nsnding", "nrcving"},
         (field = "nsnding" /\ call[h] \in SndCalls) \/ (field = "nrcving" /\ call[h] \in RcvCalls),
         CountOut(field),
         Runnable(status', call') = Runnable(status, call'),
         Having(status', BLOCKED) = Having(status, BLOCKED),
         Having(status', DEAD) = Having(status, DEAD)
  PROVE  ThreadCounts(gcounter', status', call') /\ CallCounts(ccounter', call')
<1> USE DEF CountOut
<1>1. ThreadCounts(gcounter, status, call) /\ CallCounts(ccounter, call)
  BY AccurateCounts DEF CInv
<1>2. \A t \in Thread : call'[t] = IF t = h THEN NULL ELSE call[t]
  BY Types
<1>3. /\ Runnable(status', call') = Runnable(status, call) \cup {h}
      /\ h \in Thread \ Runnable(status, call) /\ Runnable(status, call) \in SUBSET Thread
  BY <1>2, CallsApart DEF Runnable, Up
<1>4. Cardinality(Runnable(status', call')) = Inc(Cardinality(Runnable(status, call)))
  BY <1>3, CountsThreads
<1>5. ThreadCounts(gcounter', status', call')
  BY <1>1, <1>4 DEF ThreadCounts
<1>6. CASE field = "nsnding" /\ call[h] \in SndCalls
  <2>1. /\ Calling(call', SndCalls) = Calling(call, SndCalls) \ {h}
        /\ h \in Calling(call, SndCalls) /\ Calling(call, SndCalls) \in SUBSET Thread
        /\ Calling(call', RcvCalls) = Calling(call, RcvCalls)
    BY <1>2, <1>6, CallsApart DEF Calling
  <2>2. Cardinality(Calling(call', SndCalls)) = Dec(Cardinality(Calling(call, SndCalls)))
    BY <2>1, CountsThreads
  <2> QED BY <1>1, <1>5, <1>6, <2>1, <2>2 DEF CallCounts
<1>7. CASE field = "nrcving" /\ call[h] \in RcvCalls
  <2>1. /\ Calling(call', RcvCalls) = Calling(call, RcvCalls) \ {h}
        /\ h \in Calling(call, RcvCalls) /\ Calling(call, RcvCalls) \in SUBSET Thread
        /\ Calling(call', SndCalls) = Calling(call, SndCalls)
    BY <1>2, <1>7, CallsApart DEF Calling
  <2>2. Cardinality(Calling(call', RcvCalls)) = Dec(Cardinality(Calling(call, RcvCalls)))
    BY <2>1, CountsThreads
  <2> QED BY <1>1, <1>5, <1>7, <2>1, <2>2 DEF CallCounts
<1> QED BY <1>6, <1>7

\* lwt_snd, from its call.
LEMMA SndStep ==
  ASSUME CInv, NEW c \in Chan, NEW v \in Data, Snd(c, v)
  PROVE  CInv'
<1> USE DEF Snd, SndWith
<1>1. /\ lwt_head \in Thread /\ status[lwt_head] = ACTIVE
      /\ joinee[lwt_head] = NULL /\ call[lwt_head] = NULL
  BY OwnCode
<1>2. CASE SndSpins(status, c, v) /\ CountIn(gcounter, "nsnding")
  BY <1>2, SndSpinsStep
<1>3. CASE SndDone(status, c, v) /\ gcounter' = gcounter /\ UNCHANGED ccounter
  <2>1. call' = call
    BY <1>1, <1>3, Types DEF SndDone
  <2>2. ThreadCounts(gcounter', status', call') /\ CallCounts(ccounter', call')
    BY <1>3, <2>1, WokenCounts, AccurateCounts DEF CInv, SndDone, ThreadCounts
  <2> QED BY <1>1, <1>3, <2>2, SndDoneStep
<1> QED BY <1>2, <1>3

\* lwt_snd, from where it has yielded.
LEMMA SndResumeStep ==
  ASSUME CInv, SndResume
  PROVE  CInv'
<1>1. PICK h \in Thread : /\ h = lwt_head /\ status[h] = ACTIVE
                          /\ joinee[h] = NULL /\ call[h] \in SndCalls
  BY Types DEF SndResume, Within
<1>2. PICK c \in Chan, v \in Data : /\ c = call[h].chan /\ v = call[h].data
                                    /\ call[h] = SndCall(c, v)
  BY <1>1, CallsApart
<1>3. rcv_thd[c] # NULL
  BY <1>2 DEF CInv, CallInv
<1>4. CASE SndSpins(status, c, v) /\ UNCHANGED <<gcounter, ccounter>>
  <2>1. call' = call
    BY <1>1, <1>2, <1>4, Types DEF SndSpins
  <2>2. lwt_head' \in Thread \cup {NULL} /\ (lwt_head' # NULL => status[lwt_head'] = ACTIVE)
    BY <1>4, Scheduled DEF SndSpins
  <2> QED BY <1>4, <2>1, <2>2, HeadMoves DEF SndSpins, chanvars
<1>5. CASE SndDone(status, c, v) /\ CountOut("nsnding")
  <2>1. /\ call' = [call EXCEPT ![h] = NULL] /\ status' = ReceiverWoken(status, c)
    BY <1>1, <1>5 DEF SndDone
  <2>2. ThreadCounts(gcounter', status', call') /\ CallCounts(ccounter', call')
    BY <1>1, <1>3, <1>5, <2>1, WokenCounts, CountsOut
  <2> QED BY <1>1, <1>3, <1>5, <2>2, SndDoneStep
<1> QED BY <1>1, <1>2, <1>4, <1>5 DEF SndResume

\* lwt_rcv, from its call.
LEMMA RcvStep ==
  ASSUME CInv, NEW c \in Chan, MayRcv(c), Rcv(c)
  PROVE  CInv'
<1> USE DEF Rcv
<1>1. /\ lwt_head \in Thread /\ status[lwt_head] = ACTIVE
      /\ joinee[lwt_head] = NULL /\ call[lwt_head] = NULL
  BY OwnCode
<1>2. ASSUME RcvTakes(c), UNCHANGED <<vars, ccounter, call>> PROVE CInv'
  <2>1. UNCHANGED <<rcv_thd, status, gcounter, lwt_head, joinvars>> /\ rcv_thd[c] = lwt_head
        /\ call' = [call EXCEPT ![lwt_head] = NULL]
    BY <1>1, <1>2, Types DEF MayRcv, IsReceiver, vars, joinvars
  <2>2. ThreadCounts(gcounter', status', call') /\ CallCounts(ccounter', call')
    BY <1>2, <2>1, AccurateCounts DEF CInv
  <2> QED BY <1>1, <1>2, <2>1, <2>2, Types, RcvTakesStep
<1> QED BY <1>2, RcvWaitsStep

\* lwt_rcv, from where it has yielded.
LEMMA RcvResumeStep ==
  ASSUME CInv, RcvResume
  PROVE  CInv'
<1>1. PICK h \in Thread : /\ h = lwt_head /\ status[h] = ACTIVE
                          /\ joinee[h] = NULL /\ call[h] \in RcvCalls
  BY Types DEF RcvResume, Within
<1>2. PICK c \in Chan : c = call[h].chan /\ call[h] = RcvCall(c)
  BY <1>1, CallsApart
<1>3. rcv_thd[c] = h
  BY <1>2 DEF CInv, ProtocolInv, WaitsForOne
<1>4. CASE Waits
  BY <1>4, Scheduled, HeadMoves DEF Waits
<1>5. ASSUME RcvTakes(c), status' = ReceiverWoken(status, c),
             call' = [call EXCEPT ![lwt_head] = NULL], CountOut("nrcving"),
             UNCHANGED <<joinvars, lwt_head, rcv_thd>>
      PROVE  CInv'
  <2>1. status' = status
    BY <1>1, <1>3, <1>5, Types DEF ReceiverWoken
  <2>2. ThreadCounts(gcounter', status', call') /\ CallCounts(ccounter', call')
    BY <1>1, <1>5, <2>1, CountsOut
  <2> QED BY <1>1, <1>3, <1>5, <2>1, <2>2, Types, RcvTakesStep
<1> QED BY <1>1, <1>2, <1>4, <1>5 DEF RcvResume

\* lwt_cgrp_wait, from where it has yielded.
LEMMA CgrpWaitResumeStep ==
  ASSUME CInv, CgrpWaitResume
  PROVE  CInv'
<1>1. CASE Waits
  BY <1>1, Scheduled, HeadMoves DEF Waits
<1>2. CASE ~Waits
  BY <1>2, CgrpWaitDoneStep DEF CgrpWaitResume
<1> QED BY <1>1, <1>2

-----------------------------------------------------------------------------
(* The invariant *)

\* No channel is made yet, and the only thread is in its own code.
LEMMA InitCInv == ChanInit => CInv
<1> SUFFICES ASSUME ChanInit PROVE CInv
  OBVIOUS
<1> USE DEF ChanInit, ChanStart
<1>1. ThreadInv
  <2> USE LwtAssumption DEF Init, ACTIVE, BLOCKED, DEAD, FREE, WAITING, JOIN, NOJOIN, Status, Flags, Up
  <2>1. ThreadTypeOK /\ HeadInv /\ HoldInv /\ BlockInv
    BY DEF ThreadTypeOK, HeadInv, HoldInv, BlockInv
  <2>2. WaitInv
    BY DEF WaitInv, Joining
  <2> QED BY <2>1, <2>2 DEF ThreadInv
<1>2. \A c \in Chan : 0 \in Slots(c)
  BY ChanAssumption DEF Slots
<1>3. Cardinality(Thread) \in Nat /\ 1 <= Cardinality(Thread) /\ 1 <= UINT_MAX
  <2>1. Cardinality(Thread) \in Nat /\ Cardinality(Thread) # 0
    BY LwtAssumption, FS_CardinalityType, FS_EmptySet
  <2> QED BY <2>1, LwtAssumption
<1>4. ChanTypeOK
  <2>1. status \in [Thread -> Status \cup {WAITING}]
    BY DEF Init, Status
  <2>2. gcounter \in [runable : 0..UINT_MAX, blocked : 0..UINT_MAX, died : 0..UINT_MAX]
        /\ ccounter \in [nsnding : 0..UINT_MAX, nrcving : 0..UINT_MAX]
    BY <1>3, LwtAssumption DEF Init
  <2>3. ASSUME NEW c \in Chan
        PROVE  /\ data_buffer[c] \in [start : Slots(c), end : Slots(c),
                                      data : [Slots(c) -> Data \cup {NULL}]]
               /\ snd_thds[c] \in Seq([thd : Thread, data : Data \cup {JUNK}])
    BY <1>2
  <2> QED BY <2>1, <2>2, <2>3 DEF ChanTypeOK
<1>5. RcvInv /\ CallInv /\ ProtocolInv
  BY CallsApart DEF RcvInv, CallInv, ProtocolInv
<1>6. MessageInv
  BY DEF MessageInv
<1>7. EventInv
  BY ChanAssumption DEF EventInv, Ready, Members
<1>8. ChanCountersAccurate
  <2>1. /\ Counted(SndCalls) = 0 /\ Counted(RcvCalls) = 0
    BY CallsApart, FS_EmptySet DEF Counted
  <2>2. /\ {t \in Thread : status[t] \in {ACTIVE, WAITING} /\ call[t] \notin SndCalls \cup RcvCalls} = {Main}
        /\ {t \in Thread : status[t] = BLOCKED} = {}
        /\ {t \in Thread : status[t] = DEAD} = {}
    BY CallsApart, LwtAssumption DEF Init, ACTIVE, BLOCKED, DEAD, FREE, WAITING
  <2> QED BY <2>1, <2>2, FS_EmptySet, FS_Singleton DEF ChanCountersAccurate, Info, Init
<1>9. NoLostWakeup
  BY DEF NoLostWakeup, Init, ACTIVE, FREE, WAITING
<1>10. ReceivedWasSent
  BY ChanAssumption DEF ReceivedWasSent
<1> QED BY <1>1, <1>4, <1>5, <1>6, <1>7, <1>8, <1>9, <1>10 DEF CInv

\* Every step of a thread, in channels or not, keeps the invariant.
LEMMA NextCInv == CInv /\ [ChanNext]_cvars => CInv'
<1> SUFFICES ASSUME CInv, [ChanNext]_cvars PROVE CInv'
  OBVIOUS
<1>1. CASE ThreadCalls
  BY <1>1, ThreadCallsStep
<1>2. CASE ChanCalls
  BY <1>2, NewChanStep, SndStep, RcvStep, CgrpAddStep, CgrpRemStep, CgrpWaitStep DEF ChanCalls
<1>3. CASE ChanResumes
  BY <1>3, SndResumeStep, RcvResumeStep, CgrpWaitResumeStep DEF ChanResumes
<1>4. CASE UNCHANGED cvars
  <2>1. UNCHANGED <<joinvars, status, gcounter, chanvars, lwt_head>>
    BY <1>4 DEF cvars, vars, joinvars
  <2> QED BY <2>1, Types, HeadMoves
<1> QED BY <1>1, <1>2, <1>3, <1>4, DirectedYieldStep DEF ChanNext

\* The inductive invariant holds in every state the threads and their channels reach.
THEOREM ChanInvariance == ChanSpec => []CInv
BY InitCInv, NextCInv, PTL DEF ChanSpec

-----------------------------------------------------------------------------
(* What the properties say, from the invariant *)

\* Types hold, and the indices of every ring buffer stay inside it.
THEOREM ChanTypeCorrect == ChanSpec => []ChanTypeOK
BY ChanInvariance, PTL DEF CInv

\* The five counters of lwt_info tell the truth.
THEOREM ChanCountersExact == ChanSpec => []ChanCountersAccurate
BY ChanInvariance, PTL DEF CInv

\* The scheduler passes over a thread only while what it waits for has not come.
THEOREM WakeupsKept == ChanSpec => []NoLostWakeup
BY ChanInvariance, PTL DEF CInv

\* No thread that keeps the protocol receives what was never sent: the list of an
\* unbuffered channel has no second node, whose block would be given back too early.
THEOREM ReceivesWhatWasSent == ChanSpec => []ReceivedWasSent
BY ChanInvariance, PTL DEF CInv

\* A walk from the head of the event queue of a group, as long as there are channels,
\* meets the channels of the group that are not empty and no other.
LEMMA EventsAre == CInv => EventsComplete
<1> SUFFICES ASSUME CInv, NEW g \in Group
             PROVE  Queued(g) = {c \in Members(g) : ~IsEmpty(c)}
  BY DEF EventsComplete
<1>1. Ready(g) = {c \in Members(g) : ~IsEmpty(c)} /\ Ready(g) \in SUBSET Chan
  BY DEF Ready, Members
<1>2. CASE events[g] = NULL
  BY <1>1, <1>2 DEF Queued, CInv, EventInv
<1>3. CASE events[g] # NULL
  <2>1. IsFiniteSet(Ready(g)) /\ Cardinality(Ready(g)) <= Cardinality(Chan) /\ Cardinality(Chan) \in Nat
    BY <1>1, FS_Subset, FS_CardinalityType, ChanAssumption
  <2>2. events[g] \in Ready(g) /\ OneRing(clinks, Ready(g))
    BY <1>3 DEF CInv, EventInv
  <2>3. {ListWalk(clinks, events[g], k) : k \in 1..Cardinality(Chan)} = Ready(g)
    BY <2>1, <2>2, RingWalk
  <2> QED BY <1>1, <1>3, <2>3 DEF Queued
<1> QED BY <1>2, <1>3

\* An event queue holds the channels of its group that have a message to receive.
THEOREM QueuesComplete == ChanSpec => []EventsComplete
BY EventsAre, ChanInvariance, PTL

-----------------------------------------------------------------------------
(* Channel is implemented *)

\* The slot of the i-th message of a ring buffer with start a.
Slot(a, i, s) == (a + i - 1) % s

\* The index after i.
After(i, s) == (i + 1) % s

\* How many slots are in use once a message has come or has left.
LEMMA UsedAfter ==
  ASSUME NEW s \in Nat \ {0}, NEW a \in 0..(s-1), NEW e \in 0..(s-1)
  PROVE  /\ Used(a, e, s) \in 0..(s-1)
         /\ After(e, s) \in 0..(s-1)
         /\ Used(a, e, s) = s - 1 <=> After(e, s) = a
         /\ After(e, s) # a => Used(a, After(e, s), s) = Used(a, e, s) + 1
         /\ a # e => Used(a, e, s) # 0 /\ Used(After(a, s), e, s) = Used(a, e, s) - 1
<1>1. After(e, s) = (IF e + 1 = s THEN 0 ELSE e + 1) /\ After(a, s) = (IF a + 1 = s THEN 0 ELSE a + 1)
  BY NextIndex DEF After
<1> QED BY <1>1 DEF Used

\* The slots in use are not the next one to fill, which comes right after them; when
\* the oldest message leaves, the slots of the others are the ones they were.
LEMMA SlotsInUse ==
  ASSUME NEW s \in Nat \ {0}, NEW a \in 0..(s-1), NEW e \in 0..(s-1)
  PROVE  /\ \A i \in 1..s : Slot(a, i, s) \in 0..(s-1)
         /\ \A i \in 1..Used(a, e, s) : Slot(a, i, s) # e
         /\ Slot(a, Used(a, e, s) + 1, s) = e
         /\ Slot(a, 1, s) = a
         /\ \A i \in 1..(Used(a, e, s) - 1) :
              Slot(After(a, s), i, s) = Slot(a, i + 1, s) /\ Slot(a, i + 1, s) # a
<1>1. ASSUME NEW b \in 0..(s-1), NEW i \in 1..s
      PROVE  Slot(b, i, s) = IF b + i - 1 < s THEN b + i - 1 ELSE b + i - 1 - s
  <2>1. PICK x \in 0..(2 * s - 1) : x = b + i - 1
    OBVIOUS
  <2>2. x % s = IF x < s THEN x ELSE x - s
    BY Wraps
  <2> QED BY <2>1, <2>2 DEF Slot
<1>2. After(a, s) = (IF a + 1 = s THEN 0 ELSE a + 1) /\ After(a, s) \in 0..(s-1)
  BY NextIndex DEF After
<1> DEFINE u == Used(a, e, s)
<1>3. u \in 0..(s-1) /\ u = IF e >= a THEN e - a ELSE e - a + s
  BY DEF Used
<1> HIDE DEF u
<1>4. \A i \in 1..s : Slot(a, i, s) \in 0..(s-1)
  BY <1>1
<1>5. ASSUME NEW i \in 1..u PROVE Slot(a, i, s) # e
  <2>1. i \in 1..s
    BY <1>3
  <2> QED BY <1>1, <1>3, <2>1
<1>6. Slot(a, u + 1, s) = e
  <2>1. u + 1 \in 1..s
    BY <1>3
  <2>2. PICK i \in 1..s : i = u + 1
    BY <2>1
  <2>3. Slot(a, i, s) = e
    BY <1>1, <1>3, <2>2
  <2> QED BY <2>2, <2>3
<1>7. Slot(a, 1, s) = a
  <2>1. PICK i \in 1..s : i = 1
    OBVIOUS
  <2>2. Slot(a, i, s) = a
    BY <1>1, <2>1
  <2> QED BY <2>1, <2>2
<1>8. ASSUME NEW i \in 1..(u - 1)
      PROVE  Slot(After(a, s), i, s) = Slot(a, i + 1, s) /\ Slot(a, i + 1, s) # a
  <2>1. i \in 1..s /\ i + 1 \in 1..s
    BY <1>3
  <2>2. PICK b \in 0..(s-1) : b = After(a, s)
    BY <1>2
  <2>3. PICK j \in 1..s : j = i + 1
    BY <2>1
  <2>4. Slot(b, i, s) = IF b + i - 1 < s THEN b + i - 1 ELSE b + i - 1 - s
    BY <1>1, <2>1
  <2>5. Slot(a, j, s) = IF a + j - 1 < s THEN a + j - 1 ELSE a + j - 1 - s
    BY <1>1
  <2>6. b = IF a + 1 = s THEN 0 ELSE a + 1
    BY <1>2, <2>2
  <2>7. Slot(b, i, s) = Slot(a, j, s) /\ Slot(a, j, s) # a
    BY <1>3, <2>3, <2>4, <2>5, <2>6
  <2> QED BY <2>2, <2>3, <2>7
<1> QED BY <1>4, <1>5, <1>6, <1>7, <1>8 DEF u

\* The messages of a channel whose ring buffer is b and whose list is nodes, the
\* remainders written out.
MessagesIn(b, nodes, c) ==
  IF Unbuffered(c) THEN [i \in DOMAIN nodes |-> nodes[i].data]
  ELSE [i \in 1..Used(b.start, b.end, Size(c)) |-> b.data[Slot(b.start, i, Size(c))]]

\* They are the messages of the channel, before a step and after it.
LEMMA MessagesAre ==
  ASSUME NEW c \in Chan
  PROVE  /\ data_buffer[c] \in Buffer(c) => Messages(c) = MessagesIn(data_buffer[c], snd_thds[c], c)
         /\ data_buffer'[c] \in Buffer(c) => Messages(c)' = MessagesIn(data_buffer'[c], snd_thds'[c], c)
<1> DEFINE s == Size(c)
<1>1. s \in Nat \ {0} /\ Slots(c) = 0..(s-1)
  BY SizeOK
<1>2. ASSUME NEW b, b \in Buffer(c)
      PROVE  [i \in 1..((b.end + s - b.start) % s) |-> b.data[(b.start + i - 1) % s]]
             = [i \in 1..Used(b.start, b.end, s) |-> b.data[Slot(b.start, i, s)]]
  <2>1. \A a, e \in 0..(s-1) : (e + s - a) % s = Used(a, e, s)
    BY <1>1, Indices
  <2>2. b.start \in 0..(s-1) /\ b.end \in 0..(s-1)
    BY <1>1, <1>2 DEF Buffer
  <2>3. (b.end + s - b.start) % s = Used(b.start, b.end, s)
    BY <2>1, <2>2
  <2> QED BY <2>3 DEF Slot
<1>3. data_buffer[c] \in Buffer(c) => Messages(c) = MessagesIn(data_buffer[c], snd_thds[c], c)
  BY <1>2 DEF Messages, MessagesIn
<1>4. data_buffer'[c] \in Buffer(c) => Messages(c)' = MessagesIn(data_buffer'[c], snd_thds'[c], c)
  BY <1>2 DEF Messages, MessagesIn, Unbuffered, Size
<1> QED BY <1>3, <1>4

\* A channel that a step does not touch keeps its messages.
LEMMA SameMessages ==
  ASSUME NEW c \in Chan, data_buffer'[c] = data_buffer[c], snd_thds'[c] = snd_thds[c]
  PROVE  Messages(c)' = Messages(c)
BY DEF Messages, Unbuffered, Size

\* lwt_snd appends its message to those of its channel, and to no other.
LEMMA EnqueueAppends ==
  ASSUME BuffersOK, NEW c \in Chan, NEW v \in Data, Room(c), Enqueue(c, v), lwt_head \in Thread,
         rcv_thd' = rcv_thd
  PROVE  /\ Len(Messages(c)) < CH!Holds(c)
         /\ Messages(c)' = Append(Messages(c), v)
         /\ \A d \in Chan \ {c} : Messages(d)' = Messages(d) /\ snd_thds'[d] = snd_thds[d]
<1> DEFINE b == data_buffer[c]
           s == Size(c)
           Item == Data \cup {NULL}
<1>1. /\ \A d \in Chan : data_buffer[d] \in Buffer(d) /\ snd_thds[d] \in Nodes
      /\ \A d \in Chan : data_buffer'[d] \in Buffer(d) /\ snd_thds'[d] \in Nodes
      /\ MessageInv
  BY EnqueueOK DEF BuffersOK
<1>2. Messages(c) = MessagesIn(b, snd_thds[c], c)
      /\ Messages(c)' = MessagesIn(data_buffer'[c], snd_thds'[c], c)
  BY <1>1, MessagesAre
<1>3. s \in Nat \ {0} /\ Slots(c) = 0..(s-1) /\ s = Cap[c] + 1 /\ Cap[c] \in Nat
  BY SizeOK DEF Size
<1>4. CASE Unbuffered(c)
  <2> DEFINE node == [thd |-> lwt_head, data |-> v]
  <2>1. snd_thds[c] = <<>> /\ UNCHANGED data_buffer
        /\ snd_thds' = [snd_thds EXCEPT ![c] = Append(@, node)]
    BY <1>4 DEF Room, Enqueue, IsEmpty
  <2>2. snd_thds'[c] = <<node>> /\ \A d \in Chan : d # c => snd_thds'[d] = snd_thds[d]
    BY <1>1, <2>1 DEF MessageInv
  <2>3. Messages(c) = [i \in 1..0 |-> snd_thds[c][i].data]
    BY <1>2, <1>4, <2>1 DEF MessagesIn
  <2>4. Messages(c) \in [1..0 -> Item]
    BY <2>3
  <2>5. Messages(c)' = [i \in 1..1 |-> v]
    BY <1>2, <1>4, <2>2 DEF MessagesIn
  <2>6. Messages(c)' = Append(Messages(c), v) /\ Len(Messages(c)) = 0
    <3>1. Messages(c)' \in [1..(0+1) -> Item] /\ Messages(c)'[0+1] = v
      BY <2>5
    <3> DEFINE f == Messages(c)
               g == Messages(c)'
    <3>2. f \in [1..0 -> Item] /\ g \in [1..(0+1) -> Item] /\ g[0+1] = v
      BY <2>4, <3>1
    <3> HIDE DEF f, g, Item
    <3>3. v \in Item
      BY DEF Item
    <3>4. g = Append(f, v) /\ Len(f) = 0
      BY <3>2, <3>3, FunctionAppend, FunctionSequence
    <3> QED BY <3>4 DEF f, g
  <2>7. \A d \in Chan \ {c} : Messages(d)' = Messages(d) /\ snd_thds'[d] = snd_thds[d]
    BY <2>1, <2>2, SameMessages
  <2>8. CH!Holds(c) = 1
    BY <1>4, SizeOK DEF CH!Holds
  <2> QED BY <2>6, <2>7, <2>8
<1>5. CASE ~Unbuffered(c)
  <2>used. \A x, y \in 0..(s-1) :
          /\ Used(x, y, s) \in 0..(s-1)
          /\ After(y, s) # x => Used(x, After(y, s), s) = Used(x, y, s) + 1
          /\ Used(x, y, s) = s - 1 <=> After(y, s) = x
    BY SizeOK, UsedAfter
  <2>slots. \A x, y \in 0..(s-1) :
          /\ \A i \in 1..s : Slot(x, i, s) \in 0..(s-1)
          /\ \A i \in 1..Used(x, y, s) : Slot(x, i, s) # y
          /\ Slot(x, Used(x, y, s) + 1, s) = y
    BY SizeOK, SlotsInUse
  <2>0. PICK a, e \in 0..(s-1) : a = b.start /\ e = b.end
    BY <1>1, <1>3 DEF Buffer
  <2> DEFINE u == Used(a, e, s)
             f == Messages(c)
             g == Messages(c)'
  <2>1. UNCHANGED snd_thds /\ NextSlot(c) # a
        /\ data_buffer' = [data_buffer EXCEPT ![c].data[e] = v, ![c].end = NextSlot(c)]
    BY <1>5, <2>0 DEF Room, Enqueue, Full
  <2>2. a \in 0..(s-1) /\ e \in 0..(s-1) /\ b.data \in [0..(s-1) -> Item]
    BY <1>1, <1>3, <2>0 DEF Buffer
  <2>3. data_buffer'[c] = [start |-> a, end |-> NextSlot(c), data |-> [b.data EXCEPT ![e] = v]]
        /\ \A d \in Chan : d # c => data_buffer'[d] = data_buffer[d]
    BY <1>1, <2>0, <2>1 DEF MessageInv, Buffer
  <2>4. NextSlot(c) = After(e, s)
    BY <2>0 DEF NextSlot, After
  <2>5. u \in 0..(s-1) /\ Used(a, NextSlot(c), s) = u + 1
    BY <2>1, <2>4, <2>used
  <2>6. f = [i \in 1..u |-> b.data[Slot(a, i, s)]]
    BY <1>2, <1>5, <2>0 DEF MessagesIn
  <2>7. g = [i \in 1..(u+1) |-> [b.data EXCEPT ![e] = v][Slot(a, i, s)]]
    BY <1>2, <1>5, <2>0, <2>3, <2>5 DEF MessagesIn
  <2>8. /\ \A i \in 1..s : Slot(a, i, s) \in 0..(s-1)
        /\ \A i \in 1..u : Slot(a, i, s) # e
        /\ Slot(a, u + 1, s) = e
    BY <2>slots
  <2> HIDE DEF f, g, u, s, Item
  <2>9. u \in Nat /\ u + 1 \in 1..s /\ 1..u \subseteq 1..s /\ 1..(u+1) \subseteq 1..s /\ s \in Nat
    BY <1>3, <2>5
  <2>10. v \in Item
    BY DEF Item
  <2>11. f \in [1..u -> Item]
    BY <2>2, <2>6, <2>8, <2>9
  <2>12. g \in [1..(u+1) -> Item]
    BY <2>2, <2>7, <2>8, <2>9, <2>10
  <2>13. g[u+1] = v
    BY <2>2, <2>7, <2>8, <2>9
  <2>14. \A i \in 1..u : g[i] = f[i]
    BY <2>2, <2>6, <2>7, <2>8, <2>9
  <2>15. g = Append(f, v) /\ Len(f) = u
    BY <2>9, <2>10, <2>11, <2>12, <2>13, <2>14, FunctionAppend, FunctionSequence
  <2>16. u < CH!Holds(c)
    <3>1. u # s - 1
      <4>1. u = s - 1 => After(e, s) = a
        BY <2>used DEF u
      <4> QED BY <2>1, <2>4, <4>1
    <3>2. CH!Holds(c) = Cap[c] /\ Cap[c] # 0
      BY <1>5, SizeOK DEF CH!Holds
    <3>3. s = Cap[c] + 1
      BY <1>3 DEF s
    <3> QED BY <1>3, <2>5, <3>1, <3>2, <3>3
  <2>17. \A d \in Chan \ {c} : Messages(d)' = Messages(d) /\ snd_thds'[d] = snd_thds[d]
    BY <2>1, <2>3, SameMessages
  <2> QED BY <2>15, <2>16, <2>17 DEF f, g
<1> QED BY <1>4, <1>5

\* lwt_rcv takes the oldest message of its channel, and of no other.
LEMMA DequeueTakes ==
  ASSUME BuffersOK, NEW c \in Chan, ~IsEmpty(c), Dequeue(c), rcv_thd'[c] # NULL,
         \A d \in Chan : rcv_thd[d] # NULL => rcv_thd'[d] # NULL
  PROVE  /\ Messages(c) # <<>>
         /\ received' = Head(Messages(c))
         /\ Messages(c)' = Tail(Messages(c))
         /\ \A d \in Chan \ {c} : Messages(d)' = Messages(d)
         /\ \A d \in Chan : ~ (Len(snd_thds'[d]) > Len(snd_thds[d]))
<1> DEFINE b == data_buffer[c]
           s == Size(c)
           Item == Data \cup {NULL}
<1>1. /\ \A d \in Chan : data_buffer[d] \in Buffer(d) /\ snd_thds[d] \in Nodes
      /\ \A d \in Chan : data_buffer'[d] \in Buffer(d) /\ snd_thds'[d] \in Nodes
      /\ MessageInv
  BY DequeueOK DEF BuffersOK
<1>2. Messages(c) = MessagesIn(b, snd_thds[c], c)
      /\ Messages(c)' = MessagesIn(data_buffer'[c], snd_thds'[c], c)
  BY <1>1, MessagesAre
<1>3. s \in Nat \ {0} /\ Slots(c) = 0..(s-1)
  BY SizeOK
<1>4. \A d \in Chan : Len(snd_thds[d]) \in Nat
  BY <1>1, LenProperties DEF Nodes
<1>5. CASE Unbuffered(c)
  <2> DEFINE rest == Tail(snd_thds[c])
             f == Messages(c)
             g == Messages(c)'
  <2>1. snd_thds[c] # <<>> /\ UNCHANGED data_buffer /\ received' = Head(snd_thds[c]).data
        /\ \E left \in FreedNode(rest) : snd_thds' = [snd_thds EXCEPT ![c] = left]
    BY <1>5 DEF Dequeue, IsEmpty
  <2>2. HoldsMessage(c) /\ snd_thds[c] \in Nodes
    BY <1>1, <1>5, <2>1 DEF MessageInv
  <2>3. rest = <<>> /\ Head(snd_thds[c]) = snd_thds[c][1] /\ DOMAIN snd_thds[c] = 1..1
    <3>1. /\ Tail(snd_thds[c]) \in Nodes /\ Len(Tail(snd_thds[c])) = 0
          /\ Head(snd_thds[c]) = snd_thds[c][1] /\ DOMAIN snd_thds[c] = 1..1
      BY <2>1, <2>2, HeadTailProperties, LenProperties DEF HoldsMessage, Nodes
    <3> QED BY <3>1, EmptySeq DEF Nodes
  <2>4. snd_thds' = [snd_thds EXCEPT ![c] = <<>>] /\ received' = snd_thds[c][1].data
        /\ snd_thds[c][1].data \in Item
    BY <2>1, <2>2, <2>3 DEF FreedNode, HoldsMessage
  <2>5. snd_thds'[c] = <<>> /\ \A d \in Chan : d # c => snd_thds'[d] = snd_thds[d]
    BY <1>1, <2>4 DEF MessageInv
  <2>6. f = [i \in 1..1 |-> snd_thds[c][i].data]
    BY <1>2, <1>5, <2>3 DEF MessagesIn
  <2>7. g = [i \in 1..0 |-> snd_thds'[c][i].data]
    BY <1>2, <1>5, <2>5 DEF MessagesIn
  <2>8. f \in [1..(0+1) -> Item] /\ g \in [1..0 -> Item] /\ f[1] = received'
    <3>1. f \in [1..1 -> Item] /\ f[1] = received'
      BY <2>4, <2>6
    <3>2. g \in [1..0 -> Item]
      BY <2>7
    <3> QED BY <3>1, <3>2
  <2>9. f # <<>> /\ f[1] = Head(f) /\ g = Tail(f)
    <3>1. PICK n \in Nat : n = 0
      OBVIOUS
    <3>2. \A i \in 1..n : g[i] = f[i+1]
      BY <3>1
    <3>3. f \in [1..(n+1) -> Item] /\ g \in [1..n -> Item]
      BY <2>8, <3>1
    <3> HIDE DEF f, g, Item
    <3> QED BY <3>2, <3>3, FunctionTail
  <2>10. \A d \in Chan \ {c} : Messages(d)' = Messages(d)
    BY <2>1, <2>5, SameMessages
  <2>11. \A d \in Chan : ~ (Len(snd_thds'[d]) > Len(snd_thds[d]))
    <3>1. Len(snd_thds'[c]) = 0
      BY <2>5, EmptySeq
    <3> QED BY <1>4, <2>5, <3>1
  <2> QED BY <2>8, <2>9, <2>10, <2>11
<1>6. CASE ~Unbuffered(c)
  <2>used. \A x, y \in 0..(s-1) :
             /\ Used(x, y, s) \in 0..(s-1)
             /\ After(x, s) \in 0..(s-1)
             /\ x # y => Used(x, y, s) # 0 /\ Used(After(x, s), y, s) = Used(x, y, s) - 1
    BY SizeOK, UsedAfter
  <2>slots. \A x, y \in 0..(s-1) :
              /\ \A i \in 1..s : Slot(x, i, s) \in 0..(s-1)
              /\ Slot(x, 1, s) = x
              /\ \A i \in 1..(Used(x, y, s) - 1) :
                   Slot(After(x, s), i, s) = Slot(x, i + 1, s) /\ Slot(x, i + 1, s) # x
    BY SizeOK, SlotsInUse
  <2>0. PICK a, e \in 0..(s-1) : a = b.start /\ e = b.end
    BY <1>1, <1>3 DEF Buffer
  <2> DEFINE u == Used(a, e, s)
             f == Messages(c)
             g == Messages(c)'
  <2>1. UNCHANGED snd_thds /\ received' = b.data[a]
        /\ data_buffer' = [data_buffer EXCEPT ![c].data[a] = NULL, ![c].start = (@ + 1) % Size(c)]
    BY <1>6, <2>0 DEF Dequeue
  <2>2. a \in 0..(s-1) /\ e \in 0..(s-1) /\ b.data \in [0..(s-1) -> Item] /\ a # e
    BY <1>1, <1>3, <1>6, <2>0 DEF Buffer, IsEmpty
  <2>3. data_buffer'[c] = [start |-> After(a, s), end |-> e, data |-> [b.data EXCEPT ![a] = NULL]]
        /\ \A d \in Chan : d # c => data_buffer'[d] = data_buffer[d]
    BY <1>1, <2>0, <2>1 DEF MessageInv, Buffer, After
  <2>4. PICK n \in Nat : u = n + 1
    <3>1. u \in 0..(s-1) /\ u # 0
      BY <2>2, <2>used
    <3>2. u \in Nat \ {0}
      BY <1>3, <3>1
    <3> HIDE DEF u
    <3> QED BY <3>2
  <2>5. u \in 0..(s-1) /\ Used(After(a, s), e, s) = n
    <3>1. u \in 0..(s-1) /\ Used(After(a, s), e, s) = u - 1
      BY <2>2, <2>used
    <3> HIDE DEF u
    <3> QED BY <2>4, <3>1
  <2>6. f = [i \in 1..u |-> b.data[Slot(a, i, s)]]
    BY <1>2, <1>6, <2>0 DEF MessagesIn
  <2>7. g = [i \in 1..n |-> [b.data EXCEPT ![a] = NULL][Slot(After(a, s), i, s)]]
    BY <1>2, <1>6, <2>0, <2>3, <2>5 DEF MessagesIn
  <2>8. /\ \A i \in 1..s : Slot(a, i, s) \in 0..(s-1)
        /\ Slot(a, 1, s) = a
        /\ \A i \in 1..n : Slot(After(a, s), i, s) = Slot(a, i + 1, s) /\ Slot(a, i + 1, s) # a
    BY <2>4, <2>slots
  <2> HIDE DEF f, g, u, s, Item
  <2>9. 1..(n+1) \subseteq 1..s /\ s \in Nat /\ 1 \in 1..(n+1)
        /\ \A i \in 1..n : i + 1 \in 1..(n+1) /\ i + 1 \in 1..s
    BY <1>3, <2>4, <2>5
  <2>10. f \in [1..(n+1) -> Item]
    <3>1. \A i \in 1..(n+1) : b.data[Slot(a, i, s)] \in Item
      BY <2>2, <2>8, <2>9
    <3> QED BY <2>4, <2>6, <3>1
  <2>11. \A i \in 1..n : g[i] = f[i+1]
    BY <2>2, <2>4, <2>6, <2>7, <2>8, <2>9
  <2>12. g \in [1..n -> Item]
    <3>1. \A i \in 1..n : f[i+1] \in Item
      BY <2>9, <2>10
    <3> QED BY <2>7, <2>11, <3>1
  <2>13. f[1] = received'
    BY <2>1, <2>4, <2>6, <2>8, <2>9
  <2>14. f # <<>> /\ f[1] = Head(f) /\ g = Tail(f)
    BY <2>10, <2>11, <2>12, FunctionTail
  <2>15. \A d \in Chan \ {c} : Messages(d)' = Messages(d)
    BY <2>1, <2>3, SameMessages
  <2>16. \A d \in Chan : ~ (Len(snd_thds'[d]) > Len(snd_thds[d]))
    BY <1>4, <2>1
  <2> QED BY <2>13, <2>14, <2>15, <2>16 DEF f, g
<1> QED BY <1>5, <1>6

\* A step sends a message, or takes one, or leaves all of them alone.
Sends(c, v) ==
  /\ rcv_thd[c] # NULL /\ ~SndMustWait(status, c) /\ lwt_head \in Thread
  /\ Enqueue(c, v)
  /\ UNCHANGED <<rcv_thd, received>>
Takes(c) ==
  /\ ~IsEmpty(c) /\ rcv_thd[c] # NULL
  /\ Dequeue(c)
  /\ UNCHANGED rcv_thd

\* Whatever is running, in its own code or in a call, does one of the three.
LEMMA StepKinds ==
  ASSUME CInv, [ChanNext]_cvars
  PROVE  \/ \E c \in Chan, v \in Data : Sends(c, v)
         \/ \E c \in Chan : Takes(c)
         \/ UNCHANGED <<data_buffer, snd_thds, received>>
<1>1. CASE ThreadCalls \/ DirectedYield \/ UNCHANGED cvars
  BY <1>1 DEF ThreadCalls, DirectedYield, chanvars, cvars
<1>2. CASE ChanCalls
  <2>1. ASSUME NEW c \in Chan, NewChan(c) PROVE UNCHANGED <<data_buffer, snd_thds, received>>
    BY <2>1 DEF NewChan
  <2>2. ASSUME NEW c \in Chan, NEW v \in Data, Snd(c, v)
        PROVE  Sends(c, v) \/ UNCHANGED <<data_buffer, snd_thds, received>>
    BY <2>2, OwnCode DEF Snd, SndWith, SndDone, SndSpins, Sends
  <2>3. ASSUME NEW c \in Chan, MayRcv(c), Rcv(c)
        PROVE  Takes(c) \/ UNCHANGED <<data_buffer, snd_thds, received>>
    <3>1. lwt_head \in Thread /\ rcv_thd[c] = lwt_head /\ rcv_thd' = rcv_thd /\ lwt_head # NULL
      BY <2>3, OwnCode, Types DEF Rcv, MayRcv, IsReceiver
    <3> QED BY <2>3, <3>1 DEF Rcv, RcvTakes, Takes
  <2>4. ASSUME NEW g \in Group, NEW c \in Chan, CgrpAdd(g, c) \/ CgrpRem(g, c)
        PROVE  UNCHANGED <<data_buffer, snd_thds, received>>
    BY <2>4 DEF CgrpAdd, CgrpRem
  <2>5. ASSUME NEW g \in Group, CgrpWait(g) PROVE UNCHANGED <<data_buffer, snd_thds, received>>
    BY <2>5 DEF CgrpWait
  <2> QED BY <1>2, <2>1, <2>2, <2>3, <2>4, <2>5 DEF ChanCalls
<1>3. CASE SndResume
  <2>1. PICK h \in Thread : h = lwt_head /\ call[h] \in SndCalls
    BY <1>3, Types DEF SndResume, Within
  <2>2. PICK c \in Chan, v \in Data : c = call[h].chan /\ v = call[h].data /\ call[h] = SndCall(c, v)
    BY <2>1, CallsApart
  <2>3. rcv_thd[c] # NULL
    BY <2>2 DEF CInv, CallInv
  <2> QED BY <1>3, <2>1, <2>2, <2>3 DEF SndResume, SndDone, SndSpins, Sends
<1>4. CASE RcvResume
  <2>1. PICK h \in Thread : h = lwt_head /\ call[h] \in RcvCalls
    BY <1>4, Types DEF RcvResume, Within
  <2>2. PICK c \in Chan : c = call[h].chan /\ call[h] = RcvCall(c)
    BY <2>1, CallsApart
  <2>3. rcv_thd[c] # NULL
    <3>1. WaitsForOne(h, c)
      BY <2>2 DEF CInv, ProtocolInv
    <3> QED BY <2>1, <3>1, LwtAssumption DEF WaitsForOne
  <2> QED BY <1>4, <2>1, <2>2, <2>3 DEF RcvResume, Waits, chanvars, RcvTakes, Takes
<1>5. CASE CgrpWaitResume
  BY <1>5 DEF CgrpWaitResume, Waits, chanvars
<1> QED BY <1>1, <1>2, <1>3, <1>4, <1>5 DEF ChanNext, ChanResumes

\* What puts a message into a channel, what takes one out of it, and what leaves them
\* alone, in Channel.
LEMMA PutRefines ==
  ASSUME BuffersOK, NEW c \in Chan, NEW v \in Data, Room(c), Enqueue(c, v), lwt_head \in Thread,
         UNCHANGED <<rcv_thd, received>>
  PROVE  CH!Next
<1>1. /\ Len(Messages(c)) < CH!Holds(c)
      /\ Messages(c)' = Append(Messages(c), v)
      /\ \A d \in Chan \ {c} : Messages(d)' = Messages(d)
  BY EnqueueAppends
<1>2. [d \in Chan |-> Messages(d)'] = [[d \in Chan |-> Messages(d)] EXCEPT ![c] = Append(@, v)]
  BY <1>1
<1>3. CH!Put(c, v)
  BY <1>1, <1>2 DEF CH!Put
<1> QED BY <1>3 DEF CH!Next

LEMMA TakeRefines ==
  ASSUME BuffersOK, NEW c \in Chan, ~IsEmpty(c), Dequeue(c), rcv_thd[c] # NULL, UNCHANGED rcv_thd
  PROVE  CH!Next
<1>1. /\ Messages(c) # <<>>
      /\ received' = Head(Messages(c))
      /\ Messages(c)' = Tail(Messages(c))
      /\ \A d \in Chan \ {c} : Messages(d)' = Messages(d)
  BY DequeueTakes
<1>2. [d \in Chan |-> Messages(d)'] = [[d \in Chan |-> Messages(d)] EXCEPT ![c] = Tail(@)]
  BY <1>1
<1>3. CH!Take(c)
  BY <1>1, <1>2 DEF CH!Take
<1> QED BY <1>3 DEF CH!Next

LEMMA StillRefines ==
  ASSUME UNCHANGED <<data_buffer, snd_thds, received>>
  PROVE  UNCHANGED CH!chvars
<1>1. \A d \in Chan : Messages(d)' = Messages(d)
  BY SameMessages
<1> QED BY <1>1 DEF CH!chvars

\* Every step of LwtChan is a step of Channel or changes nothing there.
LEMMA ChanNextRefines == CInv /\ [ChanNext]_cvars => [CH!Next]_(CH!chvars)
<1> SUFFICES ASSUME CInv, [ChanNext]_cvars PROVE [CH!Next]_(CH!chvars)
  OBVIOUS
<1>1. ASSUME NEW c \in Chan, NEW v \in Data, Sends(c, v) PROVE CH!Next
  BY <1>1, BuffersAre, RoomToSend, PutRefines DEF Sends
<1>2. ASSUME NEW c \in Chan, Takes(c) PROVE CH!Next
  BY <1>2, BuffersAre, TakeRefines DEF Takes
<1> QED BY <1>1, <1>2, StepKinds, StillRefines

\* A channel that has just been made is empty.
LEMMA StartsEmpty == ChanStart => CH!Init
<1> SUFFICES ASSUME ChanStart PROVE CH!Init
  OBVIOUS
<1>1. ASSUME NEW c \in Chan PROVE Messages(c) = <<>>
  <2>1. /\ data_buffer[c] = [start |-> 0, end |-> 0, data |-> [i \in Slots(c) |-> NULL]]
        /\ snd_thds[c] = <<>>
    BY DEF ChanStart
  <2>2. 0 \in Slots(c) /\ 0 \in 0..(Size(c)-1)
    BY SizeOK
  <2>3. data_buffer[c] \in Buffer(c)
    BY <2>1, <2>2 DEF Buffer
  <2>4. Messages(c) = MessagesIn(data_buffer[c], snd_thds[c], c)
    BY <2>3, MessagesAre
  <2>5. Used(0, 0, Size(c)) = 0
    BY DEF Used
  <2>6. DOMAIN <<>> = 1..0
    OBVIOUS
  <2>7. CASE Unbuffered(c)
    <3>1. Messages(c) = [i \in 1..0 |-> snd_thds[c][i].data]
      BY <2>1, <2>4, <2>6, <2>7 DEF MessagesIn
    <3>2. Messages(c) \in [1..0 -> Data]
      BY <3>1
    <3>3. Messages(c) \in Seq(Data) /\ Len(Messages(c)) = 0
      BY <3>2, FunctionSequence
    <3> QED BY <3>3, EmptySeq
  <2>8. CASE ~Unbuffered(c)
    <3>1. Messages(c) = [i \in 1..0 |-> data_buffer[c].data[Slot(0, i, Size(c))]]
      BY <2>1, <2>4, <2>5, <2>8 DEF MessagesIn
    <3>2. Messages(c) \in [1..0 -> Data]
      BY <3>1
    <3>3. Messages(c) \in Seq(Data) /\ Len(Messages(c)) = 0
      BY <3>2, FunctionSequence
    <3> QED BY <3>3, EmptySeq
  <2> QED BY <2>7, <2>8
<1> QED BY <1>1 DEF CH!Init, ChanStart

\* Every channel delivers each message once, unchanged and in order, and never holds
\* more than the size it was made with.
THEOREM ChannelsKeepPromise == ChanSpec => ChannelPromise
<1>1. ChanInit => CH!Init
  BY StartsEmpty DEF ChanInit
<1>2. CInv /\ [ChanNext]_cvars => [CH!Next]_(CH!chvars)
  BY ChanNextRefines
<1> QED BY <1>1, <1>2, ChanInvariance, PTL DEF ChanSpec, ChannelPromise, CH!Spec

\* An unbuffered channel hands its message over only to a receiver that has come to
\* wait for it.
Met ==
  \A c \in Chan : Len(snd_thds'[c]) > Len(snd_thds[c]) =>
    call[rcv_thd[c]] \in {RcvCall(c)} \cup {WaitCall(g) : g \in {cgrp[c]} \ {NULL}}
LEMMA StepsMeet == CInv /\ [ChanNext]_cvars => Met
<1> SUFFICES ASSUME CInv, [ChanNext]_cvars, NEW d \in Chan, Len(snd_thds'[d]) > Len(snd_thds[d])
             PROVE  call[rcv_thd[d]] \in {RcvCall(d)} \cup {WaitCall(g) : g \in {cgrp[d]} \ {NULL}}
  BY DEF Met
<1>1. ~ (Len(snd_thds[d]) > Len(snd_thds[d]))
  <2>1. Len(snd_thds[d]) \in Nat
    BY Types, LenProperties DEF Nodes
  <2> QED BY <2>1
<1>2. ASSUME NEW c \in Chan, NEW v \in Data, Sends(c, v)
      PROVE  Unbuffered(d) /\ rcv_thd[d] # NULL /\ status[rcv_thd[d]] # ACTIVE
  <2>1. \A e \in Chan \ {c} : snd_thds'[e] = snd_thds[e]
    BY <1>2, BuffersAre, RoomToSend, EnqueueAppends DEF Sends
  <2>2. c = d
    BY <1>1, <2>1
  <2>3. ~Unbuffered(c) => UNCHANGED snd_thds
    BY <1>2 DEF Sends, Enqueue
  <2>4. Unbuffered(c)
    BY <1>1, <2>2, <2>3
  <2> QED BY <1>2, <2>2, <2>4 DEF Sends, SndMustWait
<1>3. \A c \in Chan : ~Takes(c)
  BY BuffersAre, DequeueTakes DEF Takes
<1>4. Unbuffered(d) /\ rcv_thd[d] # NULL /\ status[rcv_thd[d]] # ACTIVE
  BY <1>1, <1>2, <1>3, StepKinds
<1> QED BY <1>4, IdleReceiver

\* Sends on an unbuffered channel are synchronous.
THEOREM SendsMeetReceivers == ChanSpec => Synchronous
<1>1. CInv /\ [ChanNext]_cvars => [Met]_cvars
  BY StepsMeet
<1> QED BY <1>1, ChanInvariance, PTL DEF ChanSpec, Synchronous, Met

\* What a thread the running one joins is, and what reclaiming it does in ForkJoin.
LEMMA ChanReclaimIsReap ==
  ASSUME CInv, NEW t \in Thread, lwt_head # NULL, status[t] = DEAD,
         joinee[lwt_head] \in {NULL, t}, Reclaim(t)
  PROVE  lwt_head \in Thread \ {t} /\ FJ!Reap(lwt_head, t)
<1> USE DEF CInv, ThreadInv, ThreadTypeOK, Reclaim, GiveBack, Up, WAITING, ACTIVE, BLOCKED, DEAD,
        FREE, JOIN, NOJOIN, Status
<1>1. lwt_head \in Thread \ {t} /\ status[lwt_head] = ACTIVE
  BY DEF HeadInv
<1>2. joinee[t] = NULL /\ lwt_nojoin[t] = JOIN
  BY DEF WaitInv, Joining, BlockInv
<1> QED
  BY <1>1, <1>2 DEF FJ!Reap

\* A step that changes the status of threads only between running and waiting for a
\* message changes nothing in ForkJoin.
LEMMA WaitingIsRunning ==
  ASSUME CInv, UNCHANGED joinvars, status' \in [Thread -> Status \cup {WAITING}],
         \A t \in Thread : status'[t] = status[t] \/ (status[t] \in Up /\ status'[t] \in Up)
  PROVE  UNCHANGED FJ!fjvars
BY DEF joinvars, FJ!fjvars, Up, WAITING, ACTIVE, DEAD, FREE

\* The wait in lwt_join is that of ForkJoin.
LEMMA BlocksIsAwait ==
  ASSUME CInv, InOwnCode, NEW t \in Thread, handle[t] = lwt_head, Blocks(t)
  PROVE  lwt_head \in Thread \ {t} /\ FJ!Await(lwt_head, t)
<1> USE DEF CInv, ThreadInv, ThreadTypeOK
<1>1. lwt_head \in Thread \ {t} /\ status[lwt_head] = ACTIVE /\ joinee[lwt_head] = NULL
  BY OwnCode, LwtAssumption DEF HoldInv
<1> QED
  BY <1>1, LwtAssumption DEF FJ!Await, Blocks, Refuses, MustWait, Flags, Status, WAITING,
     ACTIVE, BLOCKED, DEAD, FREE, JOIN, NOJOIN

\* What a thread does outside channels is a step of ForkJoin or changes nothing there.
LEMMA ThreadsRefine == CInv /\ ThreadCalls => [FJ!Next]_(FJ!fjvars)
<1> SUFFICES ASSUME CInv, ThreadCalls PROVE [FJ!Next]_(FJ!fjvars)
  OBVIOUS
<1> USE DEF CInv, ThreadInv, ThreadTypeOK, Up
<1>1. ASSUME NEW t \in Thread, NEW flags \in Flags, InOwnCode, Create(t, flags) PROVE FJ!Fork(t)
  <2>1. joinee[t] = NULL /\ return_val[t] = NULL /\ lwt_nojoin[t] = JOIN
    BY <1>1 DEF Create, Make, WaitInv, Joining, BlockInv, ACTIVE, BLOCKED, DEAD, FREE
  <2> QED BY <1>1, <2>1 DEF FJ!Fork, Create, Make, Flags, WAITING, ACTIVE, BLOCKED, DEAD, FREE, JOIN, NOJOIN
<1>2. ASSUME Yield PROVE UNCHANGED FJ!fjvars
  BY <1>2 DEF Yield, FJ!fjvars
<1>3. ASSUME NEW t \in Thread, InOwnCode, MayJoin(t), Join(t) PROVE FJ!Next
  <2>1. lwt_head \in Thread \ {t} /\ status[lwt_head] = ACTIVE /\ joinee[lwt_head] = NULL
    BY <1>3, OwnCode, LwtAssumption DEF Join, HoldInv
  <2>2. CASE JoinRefused(t)
    <3>1. FJ!Refuse(lwt_head, t)
      BY <2>1, <2>2 DEF FJ!Refuse, JoinRefused, Refuses, ACTIVE, DEAD, FREE
    <3> QED BY <2>1, <3>1 DEF FJ!Next
  <2>3. CASE JoinBlocks(t)
    <3>1. FJ!Await(lwt_head, t)
      BY <1>3, <2>3, BlocksIsAwait DEF JoinBlocks, Join
    <3> QED BY <2>1, <3>1 DEF FJ!Next
  <2>4. CASE JoinAtOnce(t)
    <3>1. status[t] = DEAD
      BY <1>3, <2>4 DEF MayJoin, Joinable, JoinAtOnce, Refuses, MustWait
    <3>2. FJ!Reap(lwt_head, t)
      BY <2>1, <2>4, <3>1, LwtAssumption, ChanReclaimIsReap DEF JoinAtOnce
    <3> QED BY <2>1, <3>2 DEF FJ!Next
  <2> QED BY <1>3, <2>2, <2>3, <2>4 DEF Join
<1>4. ASSUME JoinResume PROVE FJ!Next
  <2> DEFINE u == joinee[lwt_head]
  <2>1. status[u] = DEAD /\ u \in Thread
    BY <1>4 DEF JoinResume, WaitInv, Joining, HeadInv, ACTIVE, BLOCKED
  <2> QED BY <1>4, <2>1, ChanReclaimIsReap DEF JoinResume, FJ!Next
<1>5. ASSUME InOwnCode, DieNojoin PROVE FJ!Next
  <2>1. lwt_head \in Thread /\ status[lwt_head] = ACTIVE /\ return_val[lwt_head] = NULL
    BY <1>5, OwnCode DEF BlockInv, ACTIVE, DEAD
  <2>2. PICK t \in Thread : t = lwt_head
    BY <2>1
  <2>3. FJ!Vanish(t)
    BY <1>5, <2>1, <2>2 DEF DieNojoin, InCaller, GiveBack, FJ!Vanish, WAITING, ACTIVE, BLOCKED,
       DEAD, FREE, JOIN, NOJOIN
  <2> QED BY <2>3 DEF FJ!Next
<1>6. ASSUME NEW v \in Value, InOwnCode, DieJoin(v) PROVE FJ!Next
  <2>1. lwt_head \in Thread /\ status[lwt_head] = ACTIVE /\ joinee[lwt_head] = NULL
    BY <1>6, OwnCode
  <2>2. target[lwt_head] # NULL => status[target[lwt_head]] = BLOCKED
    BY <2>1, LwtAssumption DEF WaitInv, Joining, ACTIVE, DEAD
  <2>3. FJ!Finish(lwt_head, v)
    BY <1>6, <2>1, <2>2 DEF DieJoin, Woken, ResultKept, FJ!Finish, WAITING, ACTIVE, BLOCKED, DEAD,
       FREE, JOIN, NOJOIN
  <2> QED BY <2>1, <2>3 DEF FJ!Next
<1> QED
  BY <1>1, <1>2, <1>3, <1>4, <1>5, <1>6 DEF ThreadCalls, Die, FJ!Next

\* A step on channels changes nothing in ForkJoin.
LEMMA ChannelsAside == CInv /\ (ChanCalls \/ ChanResumes) => UNCHANGED FJ!fjvars
<1> SUFFICES ASSUME CInv, ChanCalls \/ ChanResumes PROVE UNCHANGED FJ!fjvars
  OBVIOUS
<1> USE DEF CInv, ThreadInv, ThreadTypeOK
<1>1. ASSUME UNCHANGED vars PROVE UNCHANGED FJ!fjvars
  BY <1>1 DEF vars, FJ!fjvars
<1>2. \A c \in Chan : rcv_thd[c] # NULL => rcv_thd[c] \in Thread /\ status[rcv_thd[c]] \in Up
  BY DEF RcvInv, ChanTypeOK
<1>3. ASSUME NEW c \in Chan, rcv_thd[c] # NULL, UNCHANGED joinvars,
             status' = status \/ status' = ReceiverWoken(status, c)
      PROVE  UNCHANGED FJ!fjvars
  BY <1>2, <1>3, WaitingIsRunning DEF ReceiverWoken, Up, Status
<1>4. ASSUME NEW x \in {ACTIVE, WAITING}, lwt_head \in Thread, status[lwt_head] = ACTIVE,
             UNCHANGED joinvars, status' = [status EXCEPT ![lwt_head] = x]
      PROVE  UNCHANGED FJ!fjvars
  BY <1>4, WaitingIsRunning DEF Up, Status
<1>5. CASE ChanCalls
  <2>1. ASSUME NEW c \in Chan, NewChan(c) PROVE UNCHANGED FJ!fjvars
    BY <1>1, <2>1 DEF NewChan
  <2>2. ASSUME NEW c \in Chan, NEW v \in Data, Snd(c, v) PROVE UNCHANGED FJ!fjvars
    BY <1>3, <2>2 DEF Snd, SndWith, SndSpins, SndDone
  <2>3. ASSUME NEW c \in Chan, Rcv(c) PROVE UNCHANGED FJ!fjvars
    BY <1>1, <1>4, <2>3, OwnCode DEF Rcv
  <2>4. ASSUME NEW g \in Group, NEW c \in Chan, CgrpAdd(g, c) \/ CgrpRem(g, c)
        PROVE  UNCHANGED FJ!fjvars
    BY <1>1, <2>4 DEF CgrpAdd, CgrpRem
  <2>5. ASSUME NEW g \in Group, CgrpWait(g) PROVE UNCHANGED FJ!fjvars
    BY <1>4, <2>5, OwnCode DEF CgrpWait
  <2> QED BY <1>5, <2>1, <2>2, <2>3, <2>4, <2>5 DEF ChanCalls
<1>6. CASE ChanResumes
  <2> SUFFICES ASSUME NEW h \in Thread, h = lwt_head, SndResume \/ RcvResume \/ CgrpWaitResume
               PROVE  UNCHANGED FJ!fjvars
    BY <1>6 DEF ChanResumes, SndResume, RcvResume, CgrpWaitResume, Within
  <2>1. CASE SndResume
    <3>1. PICK c \in Chan, v \in Data : c = call[h].chan /\ v = call[h].data /\ call[h] = SndCall(c, v)
      BY <2>1, CallsApart DEF SndResume, Within
    <3>2. rcv_thd[c] # NULL
      BY <3>1 DEF CallInv
    <3> QED BY <1>3, <2>1, <3>1, <3>2 DEF SndResume, SndSpins, SndDone
  <2>2. CASE RcvResume
    <3>1. PICK c \in Chan : c = call[h].chan /\ call[h] = RcvCall(c)
      BY <2>2, CallsApart DEF RcvResume, Within
    <3>2. rcv_thd[c] # NULL
      <4>1. WaitsForOne(h, c)
        BY <3>1 DEF CInv, ProtocolInv
      <4> QED BY <4>1, LwtAssumption DEF WaitsForOne
    <3> QED BY <1>3, <2>2, <3>1, <3>2 DEF RcvResume, Waits
  <2>3. CASE CgrpWaitResume
    <3>1. status' = status \/ status' = [status EXCEPT ![lwt_head] = ACTIVE]
      BY <2>3 DEF CgrpWaitResume, Waits
    <3>2. status[lwt_head] = ACTIVE /\ UNCHANGED joinvars
      BY <2>3, LwtAssumption DEF CgrpWaitResume, Waits, HeadInv
    <3>3. CASE status' = status
      BY <3>2, <3>3, WaitingIsRunning
    <3> QED BY <1>4, <3>1, <3>2, <3>3
  <2> QED BY <2>1, <2>2, <2>3
<1> QED BY <1>5, <1>6

\* The library keeps the fork/join promise when its threads use channels too.
THEOREM ChanKeepsForkJoin == ChanSpec => ForkJoinPromise
<1>1. ChanInit => FJ!Init
  BY InitRefines DEF ChanInit
<1>2. CInv /\ [ChanNext]_cvars => [FJ!Next]_(FJ!fjvars)
  <2>1. UNCHANGED cvars => UNCHANGED FJ!fjvars
    BY DEF cvars, vars, FJ!fjvars
  <2> QED BY <2>1, ThreadsRefine, DirectedYieldStep, ChannelsAside DEF ChanNext
<1> QED
  BY <1>1, <1>2, ChanInvariance, PTL DEF ChanSpec, ForkJoinPromise, FJ!Spec
=============================================================================
