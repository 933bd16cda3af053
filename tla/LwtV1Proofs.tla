----------------------------- MODULE LwtV1Proofs -----------------------------
(***************************************************************************)
(* Theorems about LwtV1 for every finite set of threads and channels: the  *)
(* invariant of LwtChan holds of the first version too, and with it the    *)
(* promises of both abstract specifications.  Its lwt_rcv, called under    *)
(* the protocol, is that of LwtChan, and its lwt_join differs only in the  *)
(* thread that runs next.                                                  *)
(***************************************************************************)
EXTENDS LwtV1, LwtChanProofs

\* lwt_rcv: the receiver the channel knows is the caller, which is running, so that the
\* two writes of its status amount to what LwtChan does.
LEMMA SameRcv ==
  ASSUME CInv, NEW c \in Chan, MayRcv(c), V1Rcv(c)
  PROVE  Rcv(c)
<1>1. lwt_head \in Thread /\ status[lwt_head] = ACTIVE /\ rcv_thd[c] = lwt_head
  BY OwnCode DEF V1Rcv, MayRcv, IsReceiver
<1>2. status \in [Thread -> Status \cup {WAITING}] /\ rcv_thd \in [Chan -> Thread \cup {NULL}]
  BY DEF CInv, ChanTypeOK
<1>3. /\ [rcv_thd EXCEPT ![c] = lwt_head] = rcv_thd
      /\ ReceiverWaits(status, c) = [status EXCEPT ![lwt_head] = WAITING]
      /\ ReceiverWoken(ReceiverWaits(status, c), c) = status
  BY <1>1, <1>2 DEF ReceiverWaits, ReceiverWoken
<1>4. ASSUME IsEmpty(c), status' = ReceiverWaits(status, c),
             call' = [call EXCEPT ![lwt_head] = RcvCall(c)], CountIn(gcounter, "nrcving"),
             V1Schedule(status'), UNCHANGED rcv_thd,
             UNCHANGED <<joinvars, data_buffer, snd_thds, cgrp, events, clinks, received>>
      PROVE  Rcv(c)
  BY <1>3, <1>4 DEF V1Rcv, V1Schedule, Rcv
<1>5. ASSUME RcvTakes(c), status' = ReceiverWoken(ReceiverWaits(status, c), c), UNCHANGED rcv_thd,
             UNCHANGED <<joinvars, lwt_head, gcounter, ccounter, call>>
      PROVE  Rcv(c)
  <2>1. UNCHANGED <<vars, ccounter, call>>
    BY <1>3, <1>5 DEF vars, joinvars
  <2> QED BY <1>3, <1>5, <2>1 DEF V1Rcv, Rcv
<1> QED BY <1>4, <1>5 DEF V1Rcv

\* The join that waits, and is left for the thread it waits for.
WaitsInJoin(t) ==
  /\ InOwnCode
  /\ ~OwnsChannel
  /\ handle[t] = lwt_head
  /\ V1JoinBlocks(t)
  /\ UNCHANGED chanvars

\* Every other step is one of LwtChan.
LEMMA SameSteps ==
  ASSUME CInv, [V1Next]_cvars
  PROVE  [ChanNext]_cvars \/ \E t \in Thread : WaitsInJoin(t)
<1>1. ASSUME NEW t \in Thread, NEW flags \in Flags, V1Create(t, flags) PROVE ThreadCalls
  BY <1>1 DEF V1Create, ThreadPart, ThreadCalls
<1>2. ASSUME V1Yield PROVE ThreadCalls
  BY <1>2 DEF V1Yield, V1Schedule, ThreadCalls, Yield, InOwnCode, joinvars
<1>3. ASSUME NEW t \in Thread, MayJoin(t), V1Join(t) PROVE ThreadCalls \/ WaitsInJoin(t)
  <2>1. InOwnCode /\ InCaller /\ handle[t] = lwt_head /\ UNCHANGED chanvars
    BY <1>3 DEF V1Join, ThreadPart, InOwnCode
  <2>2. CASE JoinRefused(t) \/ JoinAtOnce(t)
    BY <1>3, <2>1, <2>2 DEF ThreadCalls, Join
  <2>3. CASE V1JoinBlocks(t)
    BY <1>3, <2>1, <2>3 DEF WaitsInJoin, V1JoinBlocks, MayJoin
  <2> QED BY <1>3, <2>2, <2>3 DEF V1Join
<1>4. ASSUME V1JoinResume PROVE ThreadCalls
  BY <1>4 DEF V1JoinResume, ThreadPart, ThreadCalls
<1>5. ASSUME NEW v \in Value, ~OwnsChannel, V1Die(v) PROVE ThreadCalls
  <2>1. InOwnCode /\ UNCHANGED chanvars /\ DieJoin(v)
    BY <1>5 DEF V1Die, V1Schedule, DieJoin, InOwnCode
  <2> QED BY <1>5, <2>1 DEF ThreadCalls, Die
<1>6. ASSUME NEW c \in Chan, NewChan(c) PROVE ChanCalls
  BY <1>6 DEF ChanCalls
<1>7. ASSUME NEW c \in Chan, MayRcv(c), V1Rcv(c) PROVE ChanCalls
  BY <1>7, SameRcv DEF ChanCalls
<1>8. ASSUME NEW c \in Chan, NEW v \in Data, MaySnd(c), Snd(c, v) PROVE ChanCalls
  BY <1>8 DEF ChanCalls
<1>9. ASSUME NEW g \in Group, NEW c \in Chan,
             (MayAdd(g, c) /\ CgrpAdd(g, c)) \/ (IsReceiver(c) /\ CgrpRem(g, c))
      PROVE  ChanCalls
  BY <1>9 DEF ChanCalls
<1>10. ASSUME NEW g \in Group, MayWait(g), CgrpWait(g) PROVE ChanCalls
  BY <1>10 DEF ChanCalls
<1>11. V1SndResume \/ V1RcvResume \/ V1CgrpWaitResume => ChanResumes
  BY DEF V1SndResume, V1RcvResume, V1CgrpWaitResume, ChanResumes
<1>12. ASSUME NEW t \in Thread, V1YieldTo(t) PROVE DirectedYield
  BY <1>12 DEF V1YieldTo, ThreadPart, DirectedYield
<1> QED
  BY <1>1, <1>2, <1>3, <1>4, <1>5, <1>6, <1>7, <1>8, <1>9, <1>10, <1>11, <1>12
     DEF V1Next, ChanNext, V1NewChan, V1Snd, V1CgrpAdd, V1CgrpRem, V1CgrpWait

\* Blocked, the joiner leaves the processor to a thread that is running.
LEMMA JoinLeaves ==
  ASSUME CInv, NEW t \in Thread, WaitsInJoin(t)
  PROVE  /\ Blocks(t)
         /\ lwt_head' \in Thread \cup {NULL}
         /\ lwt_head' # NULL => status'[lwt_head'] = ACTIVE
<1> USE DEF WaitsInJoin, V1JoinBlocks
<1>1. t # lwt_head
  BY OwnCode, LwtAssumption DEF CInv, ThreadInv, HoldInv
<1>2. status \in [Thread -> Status \cup {WAITING}] /\ status[t] = ACTIVE
  BY DEF CInv, ChanTypeOK, MustWait
<1> QED BY <1>1, <1>2 DEF Blocks, JoinerBlocked

LEMMA V1NextCInv == CInv /\ [V1Next]_cvars => CInv'
<1> SUFFICES ASSUME CInv, [V1Next]_cvars PROVE CInv'
  OBVIOUS
<1>1. ASSUME NEW t \in Thread, WaitsInJoin(t) PROVE CInv'
  BY <1>1, JoinLeaves, ChanJoinBlocksStep DEF WaitsInJoin
<1> QED BY <1>1, SameSteps, NextCInv

\* The inductive invariant of LwtChan holds of the first version of the library.
THEOREM V1Invariance == V1Spec => []CInv
BY InitCInv, V1NextCInv, PTL DEF V1Spec, V1Init, ChanInit

\* In the first version too, whoever waits is passed over only while what it waits for
\* has not come, although its lwt_rcv waits before it looks.
THEOREM V1WakeupsKept == V1Spec => []NoLostWakeup
BY V1Invariance, PTL DEF CInv

\* Its five counters tell the truth about the threads.
THEOREM V1CountersExact == V1Spec => []ChanCountersAccurate
BY V1Invariance, PTL DEF CInv

\* Its event queues hold the channels with a message to receive.
THEOREM V1QueuesComplete == V1Spec => []EventsComplete
BY EventsAre, V1Invariance, PTL

\* Its sends on an unbuffered channel meet a receiver that has come to wait for it.
THEOREM V1SendsMeetReceivers == V1Spec => Synchronous
<1>1. CInv /\ [V1Next]_cvars => [Met]_cvars
  <2> SUFFICES ASSUME CInv, [V1Next]_cvars PROVE [Met]_cvars
    OBVIOUS
  <2>1. ASSUME NEW t \in Thread, WaitsInJoin(t) PROVE Met
    <3>1. \A c \in Chan : Len(snd_thds[c]) \in Nat /\ snd_thds'[c] = snd_thds[c]
      BY <2>1, Types, LenProperties DEF WaitsInJoin, chanvars, Nodes
    <3>2. \A n \in Nat : ~ (n > n)
      OBVIOUS
    <3> QED BY <3>1, <3>2 DEF Met
  <2> QED BY <2>1, SameSteps, StepsMeet
<1> QED BY <1>1, V1Invariance, PTL DEF V1Spec, Synchronous, Met

\* The first version implements ForkJoin: who runs after lwt_join makes no difference to
\* what is joined, awaited and given back.
THEOREM V1KeepsForkJoin == V1Spec => ForkJoinPromise
<1>1. V1Init => FJ!Init
  BY InitRefines DEF V1Init
<1>2. CInv /\ [V1Next]_cvars => [FJ!Next]_(FJ!fjvars)
  <2> SUFFICES ASSUME CInv, [V1Next]_cvars PROVE [FJ!Next]_(FJ!fjvars)
    OBVIOUS
  <2>1. ASSUME NEW t \in Thread, WaitsInJoin(t) PROVE FJ!Next
    <3>1. lwt_head \in Thread \ {t} /\ FJ!Await(lwt_head, t)
      BY <2>1, JoinLeaves, BlocksIsAwait DEF WaitsInJoin
    <3> QED BY <3>1 DEF FJ!Next
  <2>2. UNCHANGED cvars => UNCHANGED FJ!fjvars
    BY DEF cvars, vars, FJ!fjvars
  <2> QED BY <2>1, <2>2, SameSteps, ThreadsRefine, DirectedYieldStep, ChannelsAside DEF ChanNext
<1> QED
  BY <1>1, <1>2, V1Invariance, PTL DEF V1Spec, ForkJoinPromise, FJ!Spec

\* The channels of the first version are bounded and keep messages in order as well.
THEOREM V1ChannelsKeepPromise == V1Spec => ChannelPromise
<1>1. V1Init => CH!Init
  BY StartsEmpty DEF V1Init
<1>2. CInv /\ [V1Next]_cvars => [CH!Next]_(CH!chvars)
  <2> SUFFICES ASSUME CInv, [V1Next]_cvars PROVE [CH!Next]_(CH!chvars)
    OBVIOUS
  <2>1. ASSUME NEW t \in Thread, WaitsInJoin(t) PROVE UNCHANGED CH!chvars
    BY <2>1, StillRefines DEF WaitsInJoin, chanvars
  <2> QED BY <2>1, SameSteps, ChanNextRefines
<1> QED BY <1>1, <1>2, V1Invariance, PTL DEF V1Spec, ChannelPromise, CH!Spec
=============================================================================
