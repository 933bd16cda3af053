------------------------------- MODULE LwtV1 -------------------------------
(***************************************************************************)
(* The first version of the library (src/lwt.c): threads, channels and      *)
(* groups of one process, without kernel threads.                           *)
(*                                                                         *)
(* It is the library of Lwt and LwtChan but for three things: lwt_join      *)
(* gives the processor to the thread it waits for and to no other; lwt_rcv  *)
(* makes a receiver WAITING and counts it also when there is a message, and *)
(* takes the channel's maker for the receiver whoever calls it; and a       *)
(* LWT_NOJOIN thread that dies gives a part of its stack to the allocator   *)
(* in place of its block.                                                   *)
(***************************************************************************)
EXTENDS LwtChan

ThreadPart == UNCHANGED chanvars

\* lwt_init -> __init_thread_head
V1Init == Init /\ ChanStart

-----------------------------------------------------------------------------
(* Threads *)

V1Create(t, flags) == InOwnCode /\ Create(t, flags) /\ ThreadPart

V1Schedule(st) == Schedule(st)
V1Yield ==
  /\ InOwnCode
  /\ V1Schedule(status)
  /\ UNCHANGED <<joinvars, status, gcounter, chanvars>>
V1YieldTo(t) == InOwnCode /\ YieldTo(t) /\ ThreadPart

\* lwt_join: lwt_yield(t) dispatches t itself, wherever it is in the ring.
BugForgetsToBlock(t) == [status EXCEPT ![t] = ACTIVE]
JoinerBlocked(t) == [status EXCEPT ![lwt_head] = BLOCKED]
V1JoinBlocks(t) ==
  /\ ~Refuses(t)
  /\ MustWait(t)
  /\ target' = [target EXCEPT ![t] = lwt_head]
  /\ status' = JoinerBlocked(t)
  /\ gcounter' = [gcounter EXCEPT !.blocked = Inc(@), !.runable = Dec(@)]
  /\ joinee' = [joinee EXCEPT ![lwt_head] = t]
  /\ lwt_head' = t
  /\ UNCHANGED <<list, lwt_nojoin, return_val, handle, got>>

V1Join(t) ==
  /\ InOwnCode
  /\ handle[t] = lwt_head
  /\ JoinRefused(t) \/ V1JoinBlocks(t) \/ JoinAtOnce(t)
  /\ ThreadPart
V1JoinResume == JoinResume /\ ThreadPart

\* lwt_die of a thread that can be joined: the joiner is awake before the next thread
\* is looked for.
V1Die(v) ==
  /\ InOwnCode
  /\ lwt_head # Main
  /\ lwt_nojoin[lwt_head] = JOIN
  /\ return_val' = ResultKept(v)
  /\ gcounter' = CountersAfterDeath(lwt_head)
  /\ status' = [Woken(lwt_head) EXCEPT ![lwt_head] = DEAD]
  /\ V1Schedule(status')
  /\ handle' = HandlesAfter(lwt_head)
  /\ UNCHANGED <<list, lwt_nojoin, target, joinee, got, chanvars>>

-----------------------------------------------------------------------------
(* Channels *)

V1NewChan(c) == NewChan(c)
V1Snd(c, v) == Snd(c, v)
V1SndResume == SndResume

\* lwt_rcv: the receiver the channel knows is WAITING from its first statement on, to
\* be made ACTIVE by a sender or at the end.
ReceiverWaits(st, c) == [st EXCEPT ![rcv_thd[c]] = WAITING]
V1Rcv(c) ==
  /\ InOwnCode
  /\ \/ /\ IsEmpty(c)
        /\ status' = ReceiverWaits(status, c)
        /\ call' = [call EXCEPT ![lwt_head] = RcvCall(c)]
        /\ CountIn(gcounter, "nrcving")
        /\ V1Schedule(status')
        /\ UNCHANGED <<joinvars, data_buffer, snd_thds, cgrp, events, clinks, received>>
     \/ /\ RcvTakes(c)
        /\ status' = ReceiverWoken(ReceiverWaits(status, c), c)
        /\ UNCHANGED <<joinvars, lwt_head, gcounter, ccounter, call>>
  /\ UNCHANGED rcv_thd
V1RcvResume == RcvResume

-----------------------------------------------------------------------------
(* Groups *)

V1CgrpAdd(g, c) == CgrpAdd(g, c)
V1CgrpRem(g, c) == CgrpRem(g, c)
V1CgrpWait(g) == CgrpWait(g)
V1CgrpWaitResume == CgrpWaitResume

-----------------------------------------------------------------------------
(* The callers keep the protocol of LwtChan; besides, a LWT_NOJOIN thread    *)
(* does not end.                                                            *)
V1Next ==
  \/ \E t \in Thread, flags \in Flags : V1Create(t, flags)
  \/ V1Yield
  \/ \E t \in Thread : V1YieldTo(t)
  \/ \E t \in Thread : MayJoin(t) /\ V1Join(t)
  \/ V1JoinResume
  \/ \E v \in Value : ~OwnsChannel /\ V1Die(v)
  \/ \E c \in Chan : V1NewChan(c) \/ (MayRcv(c) /\ V1Rcv(c))
  \/ \E c \in Chan, v \in Data : MaySnd(c) /\ V1Snd(c, v)
  \/ V1SndResume
  \/ V1RcvResume
  \/ \E g \in Group, c \in Chan :
       \/ MayAdd(g, c) /\ V1CgrpAdd(g, c)
       \/ IsReceiver(c) /\ V1CgrpRem(g, c)
  \/ \E g \in Group : MayWait(g) /\ V1CgrpWait(g)
  \/ V1CgrpWaitResume
V1Spec == V1Init /\ [][V1Next]_cvars
=============================================================================
