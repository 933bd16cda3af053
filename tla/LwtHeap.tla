------------------------------ MODULE LwtHeap ------------------------------
(***************************************************************************)
(* What the library (scheddev/lwt.c, and src/lwt.c in the same way) keeps   *)
(* in the memory of Kalloc, and for how long: threads, channels with their  *)
(* counts of senders, the nodes of unbuffered channels, and groups with     *)
(* their counts of channels, and the parameters of kernel threads.          *)
(*                                                                         *)
(* References to channels travel: to a new thread (lwt_create_chan), to a   *)
(* new kernel thread (lwt_kthd_create, which does not count them), in       *)
(* messages (lwt_snd_chan, lwt_rcv_chan), and until lwt_chan_deref.  When   *)
(* threads wait is LwtChan's subject; here a thread calls lwt_snd when it   *)
(* need not wait.  Any thread may be the running one at any step.  Nobody   *)
(* uses a channel that has been given back, and the model ends where an     *)
(* owner writes over the header of a free run.                              *)
(***************************************************************************)
EXTENDS Kalloc

CONSTANTS Thread, Main, Chan, Group, Kthd, NULL,
          Cap,         \* the argument of lwt_chan for each channel
          LwtLen,      \* sizeof(struct _lwt_t) + STACK_SIZE, in words
          ChanHead,    \* sizeof(struct lwt_channel)
          SlotLen,     \* sizeof(void *)
          NodeLen,     \* sizeof(struct clist_head)
          GroupLen,    \* sizeof(struct cgroup)
          ParmLen,     \* sizeof(struct __kthd_parm_t)
          MaxSnd       \* bound on snd_cnt

VARIABLES
  thd,     \* the address of the block of a thread, or NULL
  chan,    \* struct lwt_channel: address, snd_cnt, rcv_thd and cgrp; or NULL
  group,   \* struct cgroup: address and n_chan; or NULL
  waiting, \* the messages of a channel, with the address of the node or NULL
  holds,   \* how many references to a channel the code of a thread holds
  nchan,   \* nchan_counter
  parm,    \* struct __kthd_parm_t of a kernel thread: address, c and lwt; or NULL
  handed   \* history: the channels that lwt_kthd_create has handed over

heapvars == <<kallocvars, thd, chan, group, waiting, holds, nchan, parm, handed>>

Unbuffered(c) == Cap[c] = 0
ChanLen(c) == ChanHead + (Cap[c] + 1) * SlotLen

\* What is at the address of a channel, of a group, and in a message.
Channel == [at : Nat, snd_cnt : Nat, rcv_thd : Thread, cgrp : Group \cup {NULL}]
Cgroup  == [at : Nat, n_chan : Nat]
Message == [at : Nat \cup {NULL}, data : Chan]
Parm    == [at : Nat, c : Chan \cup {NULL}, lwt : Thread \cup {NULL}]

ASSUME HeapAssumption ==
  /\ IsFiniteSet(Thread) /\ IsFiniteSet(Chan) /\ IsFiniteSet(Group)
  /\ IsFiniteSet(Kthd)
  /\ NULL \notin Nat \cup Thread \cup Chan \cup Group \cup Channel \cup Cgroup \cup Parm
  /\ Main \in Thread
  /\ Cap \in [Chan -> Nat]
  /\ MaxSnd \in Nat
  /\ {LwtLen, NodeLen, GroupLen, ParmLen} \cup {ChanLen(c) : c \in Chan} \subseteq Lens

HeapInit ==
  /\ KallocInit
  /\ thd = [t \in Thread |-> NULL]
  /\ chan = [c \in Chan |-> NULL]
  /\ group = [g \in Group |-> NULL]
  /\ waiting = [c \in Chan |-> <<>>]
  /\ holds = [c \in Chan |-> [t \in Thread |-> 0]]
  /\ nchan = 0
  /\ parm = [k \in Kthd |-> NULL]
  /\ handed = {}

\* What kalloc returns.
NewAt == (CHOOSE b \in blocks' : b \notin blocks).at

Exists(c) == chan[c] # NULL
Holds(t, c) == thd[t] # NULL /\ Exists(c) /\ holds[c][t] > 0
Receives(t, c) == Exists(c) /\ chan[c].rcv_thd = t

\* The references to c: in the code of threads, in messages, and in the parameters of
\* kernel threads.
Messages == UNION {{<<c, i>> : i \in DOMAIN waiting[c]} : c \in Chan}
Held(c) == UNION {{<<t, i>> : i \in 1..holds[c][t]} : t \in Thread}
Carried(c) == {m \in Messages : waiting[m[1]][m[2]].data = c}
Refs(c) == Cardinality(Held(c)) + Cardinality(Carried(c))
Pending(c) == \E k \in Kthd : parm[k] # NULL /\ parm[k].c = c

-----------------------------------------------------------------------------
(* Threads *)

\* lwt_init -> __init_thread_head
LwtInit ==
  /\ thd[Main] = NULL
  /\ KAlloc(LwtLen)
  /\ thd' = [thd EXCEPT ![Main] = NewAt]
  /\ UNCHANGED <<chan, group, waiting, holds, nchan, parm, handed>>

\* lwt_create_chan: the new thread has a reference, counted as a sender's.
BugNotCounted(c) == chan
OneMoreSender(c) == [chan EXCEPT ![c].snd_cnt = @ + 1]
CreateChan(t, u, c) ==
  /\ Holds(t, c)
  /\ thd[u] = NULL
  /\ chan[c].snd_cnt < MaxSnd
  /\ KAlloc(LwtLen)
  /\ thd' = [thd EXCEPT ![u] = NewAt]
  /\ chan' = OneMoreSender(c)
  /\ holds' = [holds EXCEPT ![c][u] = @ + 1]
  /\ UNCHANGED <<group, waiting, nchan, parm, handed>>

\* The end of a thread: lwt_join, or lwt_die if it is LWT_NOJOIN, gives back its
\* block.  It has given up its references.  The first thread of a kernel thread never ends.
Ends(t) ==
  /\ t # Main
  /\ thd[t] # NULL
  /\ \A c \in Chan : holds[c][t] = 0 /\ ~Receives(t, c)
  /\ \A k \in Kthd : parm[k] # NULL => parm[k].lwt # t
  /\ KFree(thd[t], LwtLen)
  /\ thd' = [thd EXCEPT ![t] = NULL]
  /\ UNCHANGED <<chan, group, waiting, holds, nchan, parm, handed>>

-----------------------------------------------------------------------------
(* Kernel threads *)

\* lwt_kthd_create: the reference to c is not counted, and the block never given back.
KthdCreate(t, k, c) ==
  /\ Holds(t, c)
  /\ parm[k] = NULL
  /\ KAlloc(ParmLen)
  /\ parm' = [parm EXCEPT ![k] = [at |-> NewAt, c |-> c, lwt |-> NULL]]
  /\ handed' = handed \cup {c}
  /\ UNCHANGED <<thd, chan, group, waiting, holds, nchan>>

\* __lwt_kthd_entry -> __init_thread_head
KthdHead(k, u) ==
  /\ parm[k] # NULL
  /\ parm[k].lwt = NULL
  /\ thd[u] = NULL
  /\ KAlloc(LwtLen)
  /\ thd' = [thd EXCEPT ![u] = NewAt]
  /\ parm' = [parm EXCEPT ![k].lwt = u]
  /\ UNCHANGED <<chan, group, waiting, holds, nchan, handed>>

\* __lwt_kthd_entry -> lwt_create: the lwt of the kernel thread gets the reference,
\* whether or not there still is such a channel.  The entry reads parm->c once.
KthdFirst(k, u) ==
  /\ parm[k] # NULL
  /\ parm[k].lwt # NULL
  /\ parm[k].c # NULL
  /\ thd[u] = NULL
  /\ KAlloc(LwtLen)
  /\ thd' = [thd EXCEPT ![u] = NewAt]
  /\ holds' = [holds EXCEPT ![parm[k].c][u] = @ + 1]
  /\ parm' = [parm EXCEPT ![k].c = NULL]
  /\ UNCHANGED <<chan, group, waiting, nchan, handed>>

-----------------------------------------------------------------------------
(* Channels *)

\* lwt_chan.  A name is used again when the channel that had it has been given back and
\* nobody has a reference to that one any more.
NewChan(t, c) ==
  /\ thd[t] # NULL
  /\ ~Exists(c)
  /\ Refs(c) = 0
  /\ ~Pending(c)
  /\ KAlloc(ChanLen(c))
  /\ chan' = [chan EXCEPT ![c] = [at |-> NewAt, snd_cnt |-> 0, rcv_thd |-> t, cgrp |-> NULL]]
  /\ holds' = [holds EXCEPT ![c][t] = 1]
  /\ nchan' = nchan + 1
  /\ handed' = handed \ {c}
  /\ UNCHANGED <<thd, group, waiting, parm>>

\* lwt_snd_chan: x is counted before it is sent on c, and the sender becomes its
\* receiver.  Without a buffer, the receiver of c must be another thread, that waits.
SndChan(t, c, x) ==
  /\ Holds(t, c)
  /\ Holds(t, x)
  /\ chan[x].snd_cnt < MaxSnd
  /\ chan' = [OneMoreSender(x) EXCEPT ![x].rcv_thd = t]
  /\ IF Unbuffered(c)
     THEN /\ chan'[c].rcv_thd # t
          /\ waiting[c] = <<>>
          /\ KAlloc(NodeLen)
          /\ waiting' = [waiting EXCEPT ![c] = <<[at |-> NewAt, data |-> x]>>]
     ELSE /\ Len(waiting[c]) < Cap[c]
          /\ waiting' = [waiting EXCEPT ![c] = Append(@, [at |-> NULL, data |-> x])]
          /\ UNCHANGED kallocvars
  /\ UNCHANGED <<thd, group, holds, nchan, parm, handed>>

\* lwt_rcv_chan: whoever calls it becomes the receiver.
RcvChan(t, c) ==
  /\ Holds(t, c)
  /\ waiting[c] # <<>>
  /\ LET m == Head(waiting[c]) IN
       /\ IF Unbuffered(c) THEN KFree(m.at, NodeLen) ELSE UNCHANGED kallocvars
       /\ holds' = [holds EXCEPT ![m.data][t] = @ + 1]
  /\ waiting' = [waiting EXCEPT ![c] = Tail(@)]
  /\ chan' = [chan EXCEPT ![c].rcv_thd = t]
  /\ UNCHANGED <<thd, group, nchan, parm, handed>>

\* The length lwt_chan_deref works out from data_buffer.size.
BugSlotForgotten(c) == ChanHead + Cap[c] * SlotLen
FreedLen(c) == ChanLen(c)

\* lwt_chan_deref.  The first holders to let go are taken for the senders; the last
\* one gives the channel back if it is the receiver, and else it stays for ever.
Deref(t, c) ==
  /\ Holds(t, c)
  /\ holds' = [holds EXCEPT ![c][t] = @ - 1]
  /\ \/ /\ chan[c].snd_cnt > 0
        /\ chan' = [chan EXCEPT ![c].snd_cnt = @ - 1]
        /\ UNCHANGED <<kallocvars, nchan>>
     \/ /\ chan[c].snd_cnt = 0
        /\ Receives(t, c)
        /\ KFree(chan[c].at, FreedLen(c))
        /\ chan' = [chan EXCEPT ![c] = NULL]
        /\ nchan' = nchan - 1
     \/ /\ chan[c].snd_cnt = 0
        /\ ~Receives(t, c)
        /\ UNCHANGED <<kallocvars, chan, nchan>>
  /\ UNCHANGED <<thd, group, waiting, parm, handed>>

-----------------------------------------------------------------------------
(* Groups *)

\* lwt_cgrp
NewGroup(g) ==
  /\ group[g] = NULL
  /\ KAlloc(GroupLen)
  /\ group' = [group EXCEPT ![g] = [at |-> NewAt, n_chan |-> 0]]
  /\ UNCHANGED <<thd, chan, waiting, holds, nchan, parm, handed>>

\* lwt_cgrp_free, refused while the group has channels or events.
HasEvents(g) == \E c \in Chan : Exists(c) /\ chan[c].cgrp = g /\ waiting[c] # <<>>
FreeGroup(g) ==
  /\ group[g] # NULL
  /\ ~HasEvents(g)
  /\ group[g].n_chan = 0
  /\ KFree(group[g].at, GroupLen)
  /\ group' = [group EXCEPT ![g] = NULL]
  /\ UNCHANGED <<thd, chan, waiting, holds, nchan, parm, handed>>

\* lwt_cgrp_add, refused when the channel is in a group.
AddToGroup(t, g, c) ==
  /\ Holds(t, c)
  /\ group[g] # NULL
  /\ chan[c].cgrp = NULL
  /\ group' = [group EXCEPT ![g].n_chan = @ + 1]
  /\ chan' = [chan EXCEPT ![c].cgrp = g]
  /\ UNCHANGED <<kallocvars, thd, waiting, holds, nchan, parm, handed>>

\* lwt_cgrp_rem, refused while the channel has a message.
BugStaysCounted(g) == group
OneLess(g) == [group EXCEPT ![g].n_chan = @ - 1]
RemFromGroup(t, g, c) ==
  /\ Holds(t, c)
  /\ waiting[c] = <<>>
  /\ chan[c].cgrp = g
  /\ group' = OneLess(g)
  /\ chan' = [chan EXCEPT ![c].cgrp = NULL]
  /\ UNCHANGED <<kallocvars, thd, waiting, holds, nchan, parm, handed>>

-----------------------------------------------------------------------------
\* The last to let go of a channel leaves no message in it, and takes it out of its
\* group first.
MayDeref(t, c) ==
  chan[c].snd_cnt = 0 => waiting[c] = <<>> /\ chan[c].cgrp = NULL

\* An owner fills its block: a thread its stack, lwt_chan its record, and so on.
Fill(b) ==
  Write(b) /\ UNCHANGED <<thd, chan, group, waiting, holds, nchan, parm, handed>>

HeapNext ==
  /\ intact
  /\ \/ LwtInit
     \/ \E t, u \in Thread, c \in Chan : u # Main /\ CreateChan(t, u, c)
     \/ \E t \in Thread : Ends(t)
     \/ \E t \in Thread, k \in Kthd, c \in Chan : KthdCreate(t, k, c)
     \/ \E k \in Kthd, u \in Thread \ {Main} : KthdHead(k, u) \/ KthdFirst(k, u)
     \/ \E t \in Thread, c \in Chan :
          \/ NewChan(t, c)
          \/ \E x \in Chan : SndChan(t, c, x)
          \/ RcvChan(t, c)
          \/ Holds(t, c) /\ MayDeref(t, c) /\ Deref(t, c)
     \/ \E g \in Group : (thd[Main] # NULL /\ NewGroup(g)) \/ FreeGroup(g)
     \/ \E t \in Thread, g \in Group, c \in Chan :
          AddToGroup(t, g, c) \/ RemFromGroup(t, g, c)
     \/ \E b \in blocks : Fill(b)
HeapSpec == HeapInit /\ [][HeapNext]_heapvars

-----------------------------------------------------------------------------
(* Properties *)

\* A channel that lwt_kthd_create has not handed over is not given back while somebody
\* has a reference to it, and its count of senders is that of the references other
\* than one.
RefsCounted ==
  \A c \in Chan \ handed : Refs(c) > 0 => Exists(c) /\ Refs(c) = chan[c].snd_cnt + 1

\* The blocks handed out are those of the threads, channels, nodes, groups and
\* parameters there are, no two in one place: nothing is given back twice, or with another length
\* than it was asked for.
ThreadBlocks == {Piece(thd[t], LwtLen) : t \in {u \in Thread : thd[u] # NULL}}
ChanBlocks   == {Piece(chan[c].at, ChanLen(c)) : c \in {d \in Chan : Exists(d)}}
GroupBlocks  == {Piece(group[g].at, GroupLen) : g \in {h \in Group : group[h] # NULL}}
NodeBlocks   ==
  {Piece(waiting[m[1]][m[2]].at, NodeLen) : m \in {n \in Messages : Unbuffered(n[1])}}
ParmBlocks   == {Piece(parm[k].at, ParmLen) : k \in {j \in Kthd : parm[j] # NULL}}
BlocksMatch ==
  /\ blocks = ThreadBlocks \cup ChanBlocks \cup GroupBlocks \cup NodeBlocks \cup ParmBlocks
  /\ Cardinality(blocks) =
       Cardinality({t \in Thread : thd[t] # NULL}) + Cardinality({c \in Chan : Exists(c)})
         + Cardinality({g \in Group : group[g] # NULL})
         + Cardinality({m \in Messages : Unbuffered(m[1])})
         + Cardinality({k \in Kthd : parm[k] # NULL})

\* lwt_info knows how many channels there are and n_chan how many are in a group; the
\* group of a channel has not been given back.
ChansCounted ==
  /\ nchan = Cardinality({c \in Chan : Exists(c)})
  /\ \A g \in Group : group[g] # NULL =>
       group[g].n_chan = Cardinality({c \in Chan : Exists(c) /\ chan[c].cgrp = g})
  /\ \A c \in Chan : Exists(c) /\ chan[c].cgrp # NULL => group[chan[c].cgrp] # NULL
=============================================================================
