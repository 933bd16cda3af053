------------------------------ MODULE LwtChan ------------------------------
(***************************************************************************)
(* Channels and channel groups (scheddev/lwt.c), composed with the threads *)
(* of Lwt on one kernel thread.                                            *)
(*                                                                         *)
(* lwt_snd, lwt_rcv and lwt_cgrp_wait go around a loop that tests their    *)
(* condition and yields; call[t] holds the call thread t is in while it    *)
(* has yielded.  A call that does not have to wait is one step.            *)
(***************************************************************************)
EXTENDS Lwt, Sequences

CONSTANTS Chan,    \* channels
          Group,   \* channel groups
          Cap,     \* the argument of lwt_chan for each channel
          Data,    \* what is sent
          JUNK     \* what reading a block given back to kalloc yields

ASSUME ChanAssumption ==
  /\ IsFiniteSet(Chan)
  /\ Cap \in [Chan -> Nat]
  /\ NULL \notin Chan \cup Group \cup Data \cup {JUNK}
  /\ JUNK \notin Data

WAITING == "LWT_WAITING"

VARIABLES
  rcv_thd,      \* the receiver, NULL until lwt_chan has made the channel
  data_buffer,  \* [start, end, data] of the ring buffer
  snd_thds,     \* the list of <<thd, data>> nodes of an unbuffered channel
  cgrp,         \* the group of a channel, or NULL
  events,       \* the head of the event queue of a group, or NULL
  clinks,       \* links of the channels in event queues
  ccounter,     \* nsnding and nrcving counters
  call,         \* the call a thread has yielded in, or NULL
  received      \* what the last lwt_rcv to return gave back

chanvars == <<rcv_thd, data_buffer, snd_thds, cgrp, events, clinks, ccounter,
              call, received>>
cvars == <<vars, chanvars>>

\* What channel operations leave alone in the threads.
joinvars == <<list, lwt_nojoin, target, return_val, joinee, handle, got>>

Size(c) == Cap[c] + 1    \* data_buffer.size
Slots(c) == 0..Cap[c]
Unbuffered(c) == Size(c) = 1

SndCall(c, v) == [op |-> "lwt_snd", chan |-> c, data |-> v]
RcvCall(c)    == [op |-> "lwt_rcv", chan |-> c]
WaitCall(g)   == [op |-> "lwt_cgrp_wait", cgrp |-> g]
SndCalls  == {SndCall(c, v) : c \in Chan, v \in Data}
RcvCalls  == {RcvCall(c) : c \in Chan}
WaitCalls == {WaitCall(g) : g \in Group}

\* NULL, which stands for none, is not one of them.
ASSUME CallAssumption == NULL \notin SndCalls \cup RcvCalls \cup WaitCalls

\* The thread lwt_head is in its own code, or suspended in a call of a kind.
InOwnCode == InCaller /\ call[lwt_head] = NULL
Within(calls) == lwt_head # NULL /\ joinee[lwt_head] = NULL /\ call[lwt_head] \in calls

ChanStart ==
  /\ rcv_thd = [c \in Chan |-> NULL]
  /\ data_buffer = [c \in Chan |->
       [start |-> 0, end |-> 0, data |-> [i \in Slots(c) |-> NULL]]]
  /\ snd_thds = [c \in Chan |-> <<>>]
  /\ cgrp = [c \in Chan |-> NULL]
  /\ events = [g \in Group |-> NULL]
  /\ clinks = [n |-> [c \in Chan |-> NULL], p |-> [c \in Chan |-> NULL]]
  /\ ccounter = [nsnding |-> 0, nrcving |-> 0]
  /\ call = [t \in Thread |-> NULL]
  /\ received = NULL
ChanInit == Init /\ ChanStart

\* lwt_chan: the thread that makes a channel is taken for its receiver.
NewChan(c) ==
  /\ InOwnCode
  /\ rcv_thd[c] = NULL
  /\ rcv_thd' = [rcv_thd EXCEPT ![c] = lwt_head]
  /\ UNCHANGED <<vars, data_buffer, snd_thds, cgrp, events, clinks, ccounter,
                 call, received>>

BugCountOut(counter) ==
  /\ UNCHANGED gcounter
  /\ ccounter' = [ccounter EXCEPT ![counter] = Dec(@)]

\* What the two counters of a call do when it starts to wait and when it ends.
CountIn(gc, counter) ==
  /\ gcounter' = [gc EXCEPT !.runable = Dec(@)]
  /\ ccounter' = [ccounter EXCEPT ![counter] = Inc(@)]
CountOut(counter) ==
  /\ gcounter' = [gcounter EXCEPT !.runable = Inc(@)]
  /\ ccounter' = [ccounter EXCEPT ![counter] = Dec(@)]

-----------------------------------------------------------------------------
(* lwt_snd *)

BugNoWrap(c) == data_buffer[c].end + 1
NextSlot(c) == (data_buffer[c].end + 1) % Size(c)

BugFull(c) == data_buffer[c].end + 1 = data_buffer[c].start
Full(c) == NextSlot(c) = data_buffer[c].start

\* An unbuffered channel is waited for until its receiver has stopped running,
\* a buffered one until it has room.
BugNoRendezvous(st, c) == ~Unbuffered(c) /\ Full(c)
SndMustWait(st, c) ==
  IF Unbuffered(c) THEN st[rcv_thd[c]] = ACTIVE ELSE Full(c)

Enqueue(c, v) ==
  IF Unbuffered(c)
  THEN /\ snd_thds' = [snd_thds EXCEPT ![c] = Append(@, [thd |-> lwt_head, data |-> v])]
       /\ UNCHANGED data_buffer
  ELSE /\ data_buffer' = [data_buffer EXCEPT
            ![c].data[data_buffer[c].end] = v,
            ![c].end = NextSlot(c)]
       /\ UNCHANGED snd_thds

\* The channel joins the event queue of its group when it holds one message.
HoldsOne(buf, c) == (buf[c].start + 1) % Size(c) = buf[c].end
PostEvent(c) ==
  LET g == cgrp[c] IN
  IF g = NULL \/ ~HoldsOne(data_buffer', c)
  THEN UNCHANGED <<events, clinks>>
  ELSE IF events[g] = NULL
  THEN /\ events' = [events EXCEPT ![g] = c]
       /\ clinks' = [n |-> [clinks.n EXCEPT ![c] = c], p |-> [clinks.p EXCEPT ![c] = c]]
  ELSE /\ clinks' = ListAdd(clinks, ListPrev(clinks, events[g]), c)
       /\ UNCHANGED events

SndSpins(st, c, v) ==
  /\ SndMustWait(st, c)
  /\ call' = [call EXCEPT ![lwt_head] = SndCall(c, v)]
  /\ status' = st
  /\ Schedule(st)
  /\ UNCHANGED <<joinvars, rcv_thd, data_buffer, snd_thds, cgrp, events, clinks,
                 received>>

\* The receiver is made runnable whatever it is doing.
BugReceiverSleeps(st, c) == st
BugWakesAll(st, c) ==
  [t \in Thread |-> IF st[t] \in {WAITING, BLOCKED} THEN ACTIVE ELSE st[t]]
ReceiverWoken(st, c) == [st EXCEPT ![rcv_thd[c]] = ACTIVE]

SndDone(st, c, v) ==
  /\ ~SndMustWait(st, c)
  /\ Enqueue(c, v)
  /\ PostEvent(c)
  /\ status' = ReceiverWoken(st, c)
  /\ call' = [call EXCEPT ![lwt_head] = NULL]
  /\ UNCHANGED <<joinvars, lwt_head, rcv_thd, cgrp, received>>

\* lwt_snd called when the statuses are st and the counters gc.
SndWith(st, gc, c, v) ==
  /\ InOwnCode
  /\ rcv_thd[c] # NULL
  /\ \/ SndSpins(st, c, v) /\ CountIn(gc, "nsnding")
     \/ SndDone(st, c, v) /\ gcounter' = gc /\ UNCHANGED ccounter
Snd(c, v) == SndWith(status, gcounter, c, v)

SndResume ==
  /\ Within(SndCalls)
  /\ LET s == call[lwt_head] IN
       \/ SndSpins(status, s.chan, s.data) /\ UNCHANGED <<gcounter, ccounter>>
       \/ SndDone(status, s.chan, s.data) /\ CountOut("nsnding")

-----------------------------------------------------------------------------
(* lwt_rcv *)

IsEmpty(c) ==
  IF Unbuffered(c) THEN snd_thds[c] = <<>>
  ELSE data_buffer[c].start = data_buffer[c].end

\* What a list of nodes reads like once the block of the first is free: kfree
\* writes its own links over the data, unless it joins the block to the one
\* before.
FreedNode(nodes) ==
  IF nodes = <<>> THEN {nodes} ELSE {nodes, [nodes EXCEPT ![1].data = JUNK]}

\* An unbuffered channel gives up its first node.  When there are others, it is
\* the node after it that is given back to kalloc, while it stays in the list.
\* What stays in the slot of a buffered one is not kept: a read of it gives NULL.
Dequeue(c) ==
  IF Unbuffered(c)
  THEN LET rest == Tail(snd_thds[c]) IN
       /\ received' = Head(snd_thds[c]).data
       /\ \E left \in FreedNode(rest) : snd_thds' = [snd_thds EXCEPT ![c] = left]
       /\ UNCHANGED data_buffer
  ELSE LET b == data_buffer[c] IN
       /\ received' = b.data[b.start]
       /\ data_buffer' = [data_buffer EXCEPT
            ![c].data[b.start] = NULL,
            ![c].start = (@ + 1) % Size(c)]
       /\ UNCHANGED snd_thds

\* The channel leaves the event queue of its group when it has no message left.
BugDropAlways(buf, c) == TRUE
Drained(buf, c) == buf[c].start = buf[c].end
DropEvent(c) ==
  LET g == cgrp[c] IN
  IF g = NULL \/ ~Drained(data_buffer', c) \/ events[g] = NULL
  THEN UNCHANGED <<events, clinks>>
  ELSE IF ListSingleton(clinks, c)
  THEN events' = [events EXCEPT ![g] = NULL] /\ UNCHANGED clinks
  ELSE /\ events' = [events EXCEPT ![g] = ListNext(clinks, c)]
       /\ clinks' = ListRem(clinks, c)

RcvTakes(c) ==
  /\ ~IsEmpty(c)
  /\ Dequeue(c)
  /\ DropEvent(c)
  /\ UNCHANGED cgrp

\* The caller becomes the receiver, and waits if the channel is empty.
Rcv(c) ==
  /\ InOwnCode
  /\ rcv_thd' = [rcv_thd EXCEPT ![c] = lwt_head]
  /\ \/ /\ IsEmpty(c)
        /\ status' = [status EXCEPT ![lwt_head] = WAITING]
        /\ call' = [call EXCEPT ![lwt_head] = RcvCall(c)]
        /\ CountIn(gcounter, "nrcving")
        /\ Schedule(status')
        /\ UNCHANGED <<joinvars, data_buffer, snd_thds, cgrp, events, clinks, received>>
     \/ RcvTakes(c) /\ UNCHANGED <<vars, ccounter, call>>

\* The loop of a call that waits, when it still has to.
Waits == Schedule(status) /\ UNCHANGED <<joinvars, status, gcounter, chanvars>>

RcvResume ==
  /\ Within(RcvCalls)
  /\ LET c == call[lwt_head].chan IN
       \/ IsEmpty(c) /\ Waits
       \/ /\ RcvTakes(c)
          /\ status' = ReceiverWoken(status, c)
          /\ call' = [call EXCEPT ![lwt_head] = NULL]
          /\ CountOut("nrcving")
          /\ UNCHANGED <<joinvars, lwt_head, rcv_thd>>

-----------------------------------------------------------------------------
(* Groups *)

CgrpAdd(g, c) ==
  /\ InOwnCode
  /\ cgrp[c] = NULL
  /\ cgrp' = [cgrp EXCEPT ![c] = g]
  /\ UNCHANGED <<vars, rcv_thd, data_buffer, snd_thds, events, clinks, ccounter,
                 call, received>>

\* Refused, without a change of state, while a buffered channel holds messages; an
\* unbuffered one must not when this is called, an assertion says.
CgrpRem(g, c) ==
  /\ InOwnCode
  /\ IsEmpty(c)
  /\ cgrp[c] = g
  /\ cgrp' = [cgrp EXCEPT ![c] = NULL]
  /\ UNCHANGED <<vars, rcv_thd, data_buffer, snd_thds, events, clinks, ccounter,
                 call, received>>

\* lwt_cgrp_wait; it returns at once, changing nothing, when there is an event.
CgrpWait(g) ==
  /\ InOwnCode
  /\ events[g] = NULL
  /\ status' = [status EXCEPT ![lwt_head] = WAITING]
  /\ call' = [call EXCEPT ![lwt_head] = WaitCall(g)]
  /\ Schedule(status')
  /\ UNCHANGED <<joinvars, gcounter, rcv_thd, data_buffer, snd_thds, cgrp, events,
                 clinks, ccounter, received>>

CgrpWaitResume ==
  /\ Within(WaitCalls)
  /\ \/ events[call[lwt_head].cgrp] = NULL /\ Waits
     \/ /\ events[call[lwt_head].cgrp] # NULL
        /\ status' = [status EXCEPT ![lwt_head] = ACTIVE]
        /\ call' = [call EXCEPT ![lwt_head] = NULL]
        /\ UNCHANGED <<joinvars, lwt_head, gcounter, rcv_thd, data_buffer, snd_thds,
                       cgrp, events, clinks, ccounter, received>>

-----------------------------------------------------------------------------
(* The protocol the callers of channels keep.                              *)

\* The calling thread is the receiver of c, or of some channel.
IsReceiver(c) == rcv_thd[c] = lwt_head
OwnsChannel == \E c \in Chan : IsReceiver(c)

\* A thread sends on the channels of others.
MaySnd(c) == ~IsReceiver(c)

\* A thread waits for one channel only when no unbuffered channel of its own can
\* be sent on meanwhile; what a group has an event for it takes without waiting.
MayRcv(c) ==
  /\ IsReceiver(c)
  /\ IF cgrp[c] = NULL
     THEN \A d \in Chan \ {c} : IsReceiver(d) => ~Unbuffered(d)
     ELSE ~IsEmpty(c)

\* A group holds channels of one receiver, added while they are empty.
Members(g) == {c \in Chan : cgrp[c] = g}
MayAdd(g, c) ==
  /\ IsReceiver(c)
  /\ IsEmpty(c)
  /\ \A d \in Members(g) : IsReceiver(d)
MayWait(g) ==
  /\ Members(g) # {}
  /\ \A c \in Members(g) : IsReceiver(c)
  /\ \A c \in Chan : IsReceiver(c) /\ Unbuffered(c) => c \in Members(g)

\* The receiver of a channel does not die, and joins only what has ended.
MayJoin(t) == Joinable(t) /\ (OwnsChannel => ~MustWait(t))

ThreadCalls ==
  /\ UNCHANGED chanvars
  /\ \/ InOwnCode /\ \E t \in Thread, flags \in Flags : Create(t, flags)
     \/ InOwnCode /\ Yield
     \/ InOwnCode /\ \E t \in Thread : MayJoin(t) /\ Join(t)
     \/ InOwnCode /\ ~OwnsChannel /\ Die
     \/ JoinResume

\* lwt_yield(t), which passes over whoever is next in the ring.
DirectedYield ==
  /\ InOwnCode
  /\ \E t \in Thread : YieldTo(t)
  /\ UNCHANGED chanvars

ChanCalls ==
  \/ \E c \in Chan : NewChan(c)
  \/ \E c \in Chan, v \in Data : MaySnd(c) /\ Snd(c, v)
  \/ \E c \in Chan : MayRcv(c) /\ Rcv(c)
  \/ \E g \in Group, c \in Chan : MayAdd(g, c) /\ CgrpAdd(g, c)
  \/ \E g \in Group, c \in Chan : IsReceiver(c) /\ CgrpRem(g, c)
  \/ \E g \in Group : MayWait(g) /\ CgrpWait(g)

ChanResumes == SndResume \/ RcvResume \/ CgrpWaitResume

ChanNext == ThreadCalls \/ DirectedYield \/ ChanCalls \/ ChanResumes
ChanSpec == ChanInit /\ [][ChanNext]_cvars

(* Whoever runs keeps running: a suspended call goes around its loop, a     *)
(* thread in its own code yields in the end.  Two threads that name each    *)
(* other can keep the processor between them, so progress is stated for      *)
(* threads that some day stop naming the next one.                           *)
ChanFairness ==
  /\ WF_cvars(InOwnCode /\ Yield /\ UNCHANGED chanvars)
  /\ WF_cvars(JoinResume /\ UNCHANGED chanvars)
  /\ WF_cvars(ChanResumes)
ChanFairSpec == ChanSpec /\ ChanFairness
NamingEnds == <>[][ThreadCalls \/ ChanCalls \/ ChanResumes]_cvars

(* A receiver that leaves the protocol in one place: it waits for one of its  *)
(* channels while it has an unbuffered one.                                   *)
TwoChannelsSpec ==
  ChanInit /\ [][ChanNext \/ \E c \in Chan :
                               IsReceiver(c) /\ cgrp[c] = NULL /\ Rcv(c)]_cvars

-----------------------------------------------------------------------------
(* Properties *)

Messages(c) ==
  IF Unbuffered(c) THEN [i \in DOMAIN snd_thds[c] |-> snd_thds[c][i].data]
  ELSE LET b == data_buffer[c]
           n == (b.end + Size(c) - b.start) % Size(c)
       IN  [i \in 1..n |-> b.data[(b.start + i - 1) % Size(c)]]

\* The thread part keeps its types, with one more status, and the indices of
\* every ring buffer stay inside it.
ChanTypeOK ==
  /\ status \in [Thread -> Status \cup {WAITING}]
  /\ gcounter \in [runable : 0..UINT_MAX, blocked : 0..UINT_MAX, died : 0..UINT_MAX]
  /\ rcv_thd \in [Chan -> Thread \cup {NULL}]
  /\ \A c \in Chan :
       /\ data_buffer[c] \in [start : Slots(c), end : Slots(c),
                              data : [Slots(c) -> Data \cup {NULL}]]
       /\ snd_thds[c] \in Seq([thd : Thread, data : Data \cup {JUNK}])
  /\ cgrp \in [Chan -> Group \cup {NULL}]
  /\ events \in [Group -> Chan \cup {NULL}]
  /\ clinks \in [n : [Chan -> Chan \cup {NULL}], p : [Chan -> Chan \cup {NULL}]]
  /\ ccounter \in [nsnding : 0..UINT_MAX, nrcving : 0..UINT_MAX]
  /\ call \in [Thread -> SndCalls \cup RcvCalls \cup WaitCalls \cup {NULL}]
  /\ received \in Data \cup {JUNK, NULL}

\* lwt_info, but for the number of channels
Info ==
  [NTHD_RUNNABLE |-> gcounter.runable, NTHD_BLOCKED |-> gcounter.blocked,
   NTHD_ZOMBIES |-> gcounter.died,
   NSNDING |-> ccounter.nsnding, NRCVING |-> ccounter.nrcving]

\* lwt_info tells the truth about all five counters: a thread inside lwt_snd or
\* lwt_rcv counts as sending or receiving and not as runnable, any other that is
\* neither BLOCKED nor DEAD as runnable.
Counted(calls) == Cardinality({t \in Thread : call[t] \in calls})
ChanCountersAccurate ==
  /\ Info.NSNDING = Counted(SndCalls)
  /\ Info.NRCVING = Counted(RcvCalls)
  /\ Info.NTHD_RUNNABLE = Cardinality({t \in Thread :
       status[t] \in {ACTIVE, WAITING} /\ call[t] \notin SndCalls \cup RcvCalls})
  /\ Info.NTHD_BLOCKED = Cardinality({t \in Thread : status[t] = BLOCKED})
  /\ Info.NTHD_ZOMBIES = Cardinality({t \in Thread : status[t] = DEAD})

\* No wakeup is lost: the scheduler passes over a thread only while what it waits
\* for has not come, a message on its channel or an event in its group.
NoLostWakeup ==
  \A t \in Thread : status[t] = WAITING =>
    \/ \E c \in Chan : call[t] = RcvCall(c) /\ IsEmpty(c) /\ rcv_thd[c] = t
    \/ \E g \in Group :
         /\ call[t] = WaitCall(g)
         /\ \A c \in Members(g) : IsEmpty(c) /\ rcv_thd[c] = t

\* The event queue of a group holds the channels of the group that have a message
\* to receive, and these only.
Queued(g) ==
  IF events[g] = NULL THEN {}
  ELSE {ListWalk(clinks, events[g], k) : k \in 1..Cardinality(Chan)}
EventsComplete ==
  \A g \in Group : Queued(g) = {c \in Members(g) : ~IsEmpty(c)}

\* An unbuffered channel is synchronous: a message is handed over only to a
\* receiver that has come to wait for it, in lwt_rcv or in lwt_cgrp_wait.
Synchronous ==
  [][\A c \in Chan : Len(snd_thds'[c]) > Len(snd_thds[c]) =>
       call[rcv_thd[c]] \in {RcvCall(c)} \cup {WaitCall(g) : g \in {cgrp[c]} \ {NULL}}
    ]_cvars

\* Every channel delivers each message once, unchanged and in order, and holds no
\* more than the size it was made with.
CH == INSTANCE Channel WITH queue <- [c \in Chan |-> Messages(c)], received <- received
ChannelPromise == CH!Spec

\* What lwt_rcv returns was sent.
ReceivedWasSent == received # JUNK

\* A receiver gets its message: a thread inside lwt_rcv on a channel that holds
\* one comes out of it.
ReceiverReturns ==
  NamingEnds => \A t \in Thread, c \in Chan :
                  call[t] = RcvCall(c) /\ ~IsEmpty(c) ~> call[t] = NULL
=============================================================================
