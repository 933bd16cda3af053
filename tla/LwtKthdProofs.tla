--------------------------- MODULE LwtKthdProofs ---------------------------
(***************************************************************************)
(* Theorems about LwtKthd for every finite set of lwts, every set of       *)
(* kernel threads and of channels: lwt_head is the running kernel thread's *)
(* own, the rings of kernel threads are apart, a kernel thread sleeps only *)
(* without work, and an lwt in transit does not run.                       *)
(***************************************************************************)
EXTENDS LwtKthd, LwtChanProofs

(* The inductive invariant.  Its types first: no lwt is DEAD, since all end *)
(* on their own, and no channel is in a group.                              *)
Places == {"none", "init", "first", "enter", "ring", "count", "block", "yield"}
KthdTypeOK ==
  /\ lwt_head \in Thread \cup {NULL}
  /\ status \in [Thread -> {ACTIVE, BLOCKED, WAITING, FREE}]
  /\ rcv_thd \in [Chan -> Thread \cup {NULL}]
  /\ call \in [Thread -> SndCalls \cup RcvCalls \cup {NULL}]
  /\ cgrp = [c \in Chan |-> NULL]
  /\ curr \in Kthd \cup {Sched, NULL}
  /\ owner \in Kthd \cup {NULL}
  /\ sl_state \in [Kthd -> {"SL_THD_FREE", "SL_THD_RUNNABLE", "SL_THD_BLOCKED"}]
  /\ threads \in Seq(Kthd)
  /\ at \in [Kthd -> Places]
  /\ head \in [Kthd -> Thread \cup {NULL}]
  /\ tid \in [Thread -> Kthd \cup {NULL}]

\* The kernel thread that runs is the first of the run queue, which holds each at most
\* once; one that is between entering the section and calling the scheduler runs.
QueueInv ==
  /\ IsInjective(threads)
  /\ curr \in Kthd => threads # <<>> /\ curr = Head(threads)
  /\ \A k \in Kthd :
       /\ at[k] \in {"first", "ring", "count", "block"} => curr = k
       /\ owner = k <=> at[k] = "ring"
       /\ at[k] = "none" => k \notin ToSet(threads)
       /\ sl_state[k] = "SL_THD_BLOCKED" => at[k] = "yield" /\ k \notin ToSet(threads)

\* The lwts of a kernel thread, those in transit from it included.
Mine(k) == {t \in Thread : status[t] # FREE /\ tid[t] = k}

\* They make one ring, with a head that never stops running; lwt_head is on the ring
\* of the kernel thread that uses it.
LwtsInv ==
  /\ LinkInv /\ HeadInv
  /\ \A t \in Thread : status[t] # FREE => tid[t] \in Kthd
  /\ \A k \in Kthd :
       /\ OneRing(list, Mine(k))
       /\ at[k] \in {"none", "init"} => Mine(k) = {}
       /\ at[k] = "first" => Mine(k) = {lwt_head}
       /\ at[k] = "ring" => lwt_head \in Mine(k)
       /\ head[k] = NULL <=> at[k] \in {"none", "init", "first"}
       /\ head[k] # NULL => head[k] \in Mine(k) /\ status[head[k]] = ACTIVE

\* The receiver of a channel is up, and waits only for a channel that is empty, the
\* only unbuffered one it receives from.
ReceiveInv ==
  /\ \A c \in Chan : IF rcv_thd[c] = NULL THEN IsEmpty(c) ELSE status[rcv_thd[c]] \in Up
  /\ \A t \in Thread :
       /\ call[t] # NULL => status[t] \in Up
       /\ \A c \in Chan, v \in Data : call[t] = SndCall(c, v) => rcv_thd[c] # NULL
       /\ \A c \in Chan : call[t] = RcvCall(c) => WaitsForOne(t, c)
       /\ status[t] = WAITING => \E c \in Chan : call[t] = RcvCall(c) /\ IsEmpty(c)

\* What is sent over a channel of lwts is an lwt, which is in one place only and does
\* nothing else meanwhile.
Sending(u, t) == \E c \in ThdChan : call[u] = SndCall(c, t)
OnePlace ==
  /\ \A t, u, w \in Thread : Sending(u, t) /\ Sending(w, t) => u = w
  /\ \A t, u \in Thread, c \in ThdChan : Sending(u, t) => t \notin ToSet(Messages(c))
  /\ \A c \in ThdChan : IsInjective(Messages(c))
  /\ \A c, d \in ThdChan : c # d => ToSet(Messages(c)) \cap ToSet(Messages(d)) = {}
Still(t) ==
  /\ status[t] = BLOCKED /\ call[t] = NULL
  /\ \A k \in Kthd : head[k] # t
  /\ \A c \in Chan : rcv_thd[c] # t
TransitInv ==
  /\ \A c \in ThdChan : Messages(c) \in Seq(Thread)
  /\ \A c \in ThdChan, v \in Data, u \in Thread : call[u] = SndCall(c, v) => v \in Thread
  /\ OnePlace
  /\ \A t \in InTransit : Still(t)

\* A kernel thread that sleeps, or is about to, has no lwt to run but its head.
Asleep(k) == sl_state[k] = "SL_THD_BLOCKED" \/ at[k] = "block"
SleepInv ==
  \A k \in Kthd : Asleep(k) => \A t \in Mine(k) : status[t] = ACTIVE => t = head[k]

KInv ==
  /\ KthdTypeOK
  /\ QueueInv
  /\ LwtsInv
  /\ BuffersOK
  /\ ReceiveInv
  /\ TransitInv
  /\ SleepInv

-----------------------------------------------------------------------------
(* The run queue *)

\* What Append does to the elements of a queue and to its head.
LEMMA QueueAppend ==
  ASSUME NEW S, NEW q \in Seq(S), NEW x \in S
  PROVE  /\ Append(q, x) \in Seq(S) /\ Append(q, x) # <<>>
         /\ ToSet(Append(q, x)) = ToSet(q) \cup {x}
         /\ q # <<>> => Head(Append(q, x)) = Head(q)
         /\ IsInjective(q) /\ x \notin ToSet(q) => IsInjective(Append(q, x))
<1> DEFINE n == Len(q)
           r == Append(q, x)
<1>1. n \in Nat /\ DOMAIN q = 1..n /\ q \in [1..n -> S]
  BY LenProperties
<1>2. /\ r \in Seq(S) /\ Len(r) = n + 1 /\ DOMAIN r = 1..(n+1)
      /\ \A i \in 1..(n+1) : r[i] = IF i = n + 1 THEN x ELSE q[i]
  BY <1>1, AppendProperties, LenProperties
<1> HIDE DEF n, r
<1>3. r # <<>>
  BY <1>1, <1>2, EmptySeq
<1>4. ToSet(r) = ToSet(q) \cup {x}
  <2>1. /\ \A i \in 1..n : i \in 1..(n+1) /\ r[i] = q[i]
        /\ n + 1 \in 1..(n+1) /\ r[n+1] = x
        /\ \A i \in 1..(n+1) : i = n + 1 \/ (i \in 1..n /\ r[i] = q[i])
    BY <1>1, <1>2
  <2> QED BY <1>1, <1>2, <2>1 DEF ToSet
<1>5. q # <<>> => Head(r) = Head(q)
  <2> SUFFICES ASSUME q # <<>> PROVE Head(r) = Head(q)
    OBVIOUS
  <2>1. Head(q) = q[1] /\ n # 0 /\ Head(r) = r[1]
    BY <1>1, <1>2, <1>3, HeadTailProperties, EmptySeq DEF n
  <2> QED BY <1>1, <1>2, <2>1
<1>6. ASSUME IsInjective(q), x \notin ToSet(q) PROVE IsInjective(r)
  <2>1. \A i \in 1..n : q[i] # x
    BY <1>1, <1>6 DEF ToSet
  <2>2. \A i, j \in 1..n : q[i] = q[j] => i = j
    BY <1>1, <1>6 DEF IsInjective
  <2>3. \A i \in 1..(n+1) : i = n + 1 \/ i \in 1..n
    BY <1>1
  <2> QED BY <1>1, <1>2, <2>1, <2>2, <2>3 DEF IsInjective
<1> QED BY <1>2, <1>3, <1>4, <1>5, <1>6 DEF r

\* Taking the head out of a queue leaves its tail, without it.
LEMMA QueueRemove ==
  ASSUME NEW S, NEW q \in Seq(S), q # <<>>, IsInjective(q)
  PROVE  /\ RemoveFirst(q, Head(q)) \in Seq(S)
         /\ ToSet(RemoveFirst(q, Head(q))) = ToSet(q) \ {Head(q)}
         /\ IsInjective(RemoveFirst(q, Head(q)))
         /\ RemoveFirst(q, Head(q)) = Tail(q) /\ Head(q) \in ToSet(q) /\ Head(q) \in S
<1> DEFINE n == Len(q)
           r == Tail(q)
<1>1. n \in Nat /\ n # 0 /\ DOMAIN q = 1..n /\ Head(q) = q[1] /\ 1 \in 1..n
  BY LenProperties, EmptySeq, HeadTailProperties
<1>2. /\ r \in Seq(S) /\ Len(r) = n - 1 /\ DOMAIN r = 1..(n-1)
      /\ \A i \in 1..(n-1) : r[i] = q[i+1]
  BY <1>1, HeadTailProperties, LenProperties
<1>3. RemoveFirst(q, Head(q)) = r
  <2> DEFINE I == {i \in 1..Len(q) : q[i] = Head(q)}
  <2>1. 1 \in I /\ \A i \in I : i >= 1 /\ i \in Int
    BY <1>1
  <2>2. Min(I) = 1
    <3> HIDE DEF I
    <3>1. \A x : x \in I /\ (\A y \in I : x <= y) => x = 1
      BY <2>1
    <3>2. 1 \in I /\ (\A y \in I : 1 <= y)
      BY <2>1
    <3> QED BY <3>1, <3>2 DEF Min
  <2>3. RemoveFirst(q, Head(q)) = RemoveAt(q, Min(I))
    BY <2>1 DEF RemoveFirst, SelectInSeq
  <2>4. RemoveAt(q, 1) = SubSeq(q, 1, 0) \o SubSeq(q, 2, n)
    BY DEF RemoveAt
  <2>5. SubSeq(q, 1, 0) = <<>>
    BY SubSeqEmpty
  <2>6. SubSeq(q, 2, n) = r
    BY <1>1, HeadTailProperties
  <2> QED BY <1>2, <2>2, <2>3, <2>4, <2>5, <2>6, ConcatEmptySeq
<1> HIDE DEF n, r
<1>4. ToSet(r) = ToSet(q) \ {Head(q)}
  <2>1. \A i \in 1..n : i # 1 => q[i] # q[1] /\ i - 1 \in 1..(n-1) /\ r[i-1] = q[i]
    BY <1>1, <1>2 DEF IsInjective
  <2>2. \A i \in 1..(n-1) : i + 1 \in 1..n /\ i + 1 # 1
    BY <1>1
  <2>3. ASSUME NEW y \in ToSet(r) PROVE y \in ToSet(q) /\ y # q[1]
    <3>1. PICK i \in 1..(n-1) : y = r[i]
      BY <1>2 DEF ToSet
    <3>2. y = q[i+1] /\ i + 1 \in 1..n /\ i + 1 # 1
      BY <1>2, <2>2, <3>1
    <3> QED BY <1>1, <2>1, <3>2 DEF ToSet
  <2>4. ASSUME NEW y \in ToSet(q), y # q[1] PROVE y \in ToSet(r)
    <3>1. PICK i \in 1..n : y = q[i]
      BY <1>1 DEF ToSet
    <3> QED BY <1>2, <2>1, <2>4, <3>1 DEF ToSet
  <2> QED BY <1>1, <2>3, <2>4
<1>5. IsInjective(r)
  <2>1. \A i \in 1..(n-1) : i + 1 \in 1..n
    BY <1>1
  <2> QED BY <1>1, <1>2, <2>1, SMTT(30) DEF IsInjective
<1>6. Head(q) \in ToSet(q) /\ Head(q) \in S
  BY <1>1, HeadTailProperties DEF ToSet
<1> QED BY <1>2, <1>3, <1>4, <1>5, <1>6 DEF r

-----------------------------------------------------------------------------
(* Where the running lwt is *)

\* An lwt that runs is of the kernel thread in the critical section, whose head it is
\* not, nor the head of any other.
LEMMA Running ==
  ASSUME KInv, InLwt
  PROVE  /\ curr \in Kthd /\ at[curr] = "ring" /\ curr # NULL
         /\ lwt_head \in Thread /\ lwt_head \in Mine(curr) /\ tid[lwt_head] = curr
         /\ status[lwt_head] = ACTIVE
         /\ head[curr] \in Thread /\ head[curr] \in Mine(curr) /\ head[curr] # lwt_head
         /\ status[head[curr]] = ACTIVE
         /\ \A k \in Kthd : head[k] # lwt_head
         /\ \A k \in Kthd : head[k] # NULL => head[k] \in Thread /\ status[head[k]] = ACTIVE
         /\ \A k \in Kthd : Asleep(k) <=> sl_state[k] = "SL_THD_BLOCKED"
<1> USE DEF KInv, InLwt
<1>1. curr \in Kthd /\ at[curr] = "ring" /\ curr # NULL /\ \A k \in Kthd : at[k] # "block"
  BY KthdAssumption DEF QueueInv
<1>2. lwt_head \in Mine(curr) /\ lwt_head \in Thread /\ tid[lwt_head] = curr
  BY <1>1 DEF LwtsInv, Mine
<1>3. status[lwt_head] = ACTIVE
  BY <1>2, LwtAssumption DEF LwtsInv, HeadInv
<1>4. head[curr] # NULL /\ head[curr] # lwt_head
  BY <1>1 DEF LwtsInv
<1>5. \A k \in Kthd : head[k] # NULL =>
        head[k] \in Mine(k) /\ head[k] \in Thread /\ tid[head[k]] = k /\ status[head[k]] = ACTIVE
  BY DEF LwtsInv, Mine
<1>6. \A k \in Kthd : head[k] # lwt_head
  BY <1>2, <1>4, <1>5, LwtAssumption
<1>7. \A k \in Kthd : Asleep(k) <=> sl_state[k] = "SL_THD_BLOCKED"
  BY <1>1 DEF Asleep
<1> QED BY <1>1, <1>2, <1>3, <1>4, <1>5, <1>6, <1>7

\* The scan of a ring that has an lwt to run finds one of the ring.
LEMMA ScanStays ==
  ASSUME NEW L \in SUBSET Thread, OneRing(list, L), NEW st, NEW h \in L, NEW m \in L, st[m] = ACTIVE
  PROVE  ScanFrom(list, st, h) \in L /\ st[ScanFrom(list, st, h)] = ACTIVE
<1> DEFINE f == ScanFrom(list, st, h)
<1>1. f # NULL
  BY ScanStops
<1>2. \E x \in Thread : FirstActive(list, st, h, x)
  BY <1>1 DEF ScanFrom
<1>3. f \in Thread /\ FirstActive(list, st, h, f)
  BY <1>2, Zenon DEF ScanFrom
<1>4. PICK k \in 1..Cardinality(Thread) : f = ListWalk(list, h, k)
  BY <1>3 DEF FirstActive
<1>5. k \in Nat
  BY LwtAssumption, FS_CardinalityType
<1>6. \A o \in L : list.n[o] \in L
  BY DEF OneRing, Linked
<1>7. ListWalk(list, h, k) \in L
  BY <1>5, <1>6, ListWalkStep
<1> QED BY <1>3, <1>4, <1>7 DEF FirstActive

\* The scheduler stays in the ring of the running kernel thread.
LEMMA NextInRing ==
  ASSUME KInv, InLwt, NEW st, st[head[curr]] = ACTIVE, Schedule(st)
  PROVE  lwt_head' \in Mine(curr) /\ st[lwt_head'] = ACTIVE
<1>1. Mine(curr) \in SUBSET Thread /\ OneRing(list, Mine(curr))
  BY Running DEF KInv, LwtsInv, Mine
<1>2. lwt_head \in Mine(curr) /\ head[curr] \in Mine(curr)
  BY Running
<1> HIDE DEF Mine
<1> QED BY <1>1, <1>2, ScanStays DEF Schedule

\* What the wakeup of a kernel thread does to the run queue.
Frame ==
  /\ UNCHANGED <<curr, owner, at, head>>
  /\ UNCHANGED <<sl_state, threads>> \/ \E k \in Kthd : KernelWake(k)
LEMMA FrameKeeps ==
  ASSUME KInv, InLwt, Frame
  PROVE  /\ QueueInv'
         /\ sl_state' \in [Kthd -> {"SL_THD_FREE", "SL_THD_RUNNABLE", "SL_THD_BLOCKED"}]
         /\ threads' \in Seq(Kthd)
         /\ \A k \in Kthd : Asleep(k)' => Asleep(k) /\ sl_state'[k] = "SL_THD_BLOCKED"
<1> USE DEF KInv, Frame
<1>0. \A k \in Kthd : Asleep(k) <=> sl_state[k] = "SL_THD_BLOCKED"
  BY Running
<1>1. UNCHANGED <<sl_state, threads>> => QueueInv'
  BY DEF QueueInv
<1>2. ASSUME NEW k \in Kthd, KernelWake(k), sl_state[k] = "SL_THD_BLOCKED"
      PROVE  /\ QueueInv'
             /\ sl_state' \in [Kthd -> {"SL_THD_FREE", "SL_THD_RUNNABLE", "SL_THD_BLOCKED"}]
             /\ threads' \in Seq(Kthd)
             /\ \A j \in Kthd : sl_state'[j] = "SL_THD_BLOCKED" => sl_state[j] = "SL_THD_BLOCKED"
  <2>1. /\ k \notin ToSet(threads) /\ threads' = Append(threads, k) /\ threads \in Seq(Kthd)
        /\ \A j \in Kthd : sl_state'[j] = IF j = k THEN "SL_THD_RUNNABLE" ELSE sl_state[j]
        /\ sl_state' \in [Kthd -> {"SL_THD_FREE", "SL_THD_RUNNABLE", "SL_THD_BLOCKED"}]
    BY <1>2 DEF KernelWake, KthdTypeOK
  <2>2. /\ threads' \in Seq(Kthd) /\ threads' # <<>> /\ ToSet(threads') = ToSet(threads) \cup {k}
        /\ threads # <<>> => Head(threads') = Head(threads)
        /\ IsInjective(threads')
    BY <2>1, QueueAppend DEF QueueInv
  <2>3. at[k] = "yield"
    BY <1>2 DEF QueueInv
  <2>4. QueueInv'
    BY <2>1, <2>2, <2>3 DEF QueueInv
  <2>5. \A j \in Kthd : sl_state'[j] = "SL_THD_BLOCKED" => sl_state[j] = "SL_THD_BLOCKED"
    BY <2>1
  <2>6. /\ sl_state' \in [Kthd -> {"SL_THD_FREE", "SL_THD_RUNNABLE", "SL_THD_BLOCKED"}]
        /\ threads' \in Seq(Kthd)
    BY <2>1, <2>2
  <2> QED BY <2>4, <2>5, <2>6
<1>3. ASSUME NEW k \in Kthd, KernelWake(k), sl_state[k] # "SL_THD_BLOCKED" PROVE UNCHANGED <<sl_state, threads>>
  BY <1>3 DEF KernelWake
<1>4. \/ UNCHANGED <<sl_state, threads>>
      \/ \E k \in Kthd : KernelWake(k) /\ sl_state[k] = "SL_THD_BLOCKED"
  BY <1>3
<1>5. /\ QueueInv'
      /\ sl_state' \in [Kthd -> {"SL_THD_FREE", "SL_THD_RUNNABLE", "SL_THD_BLOCKED"}]
      /\ threads' \in Seq(Kthd)
      /\ \A j \in Kthd : sl_state'[j] = "SL_THD_BLOCKED" => sl_state[j] = "SL_THD_BLOCKED"
  <2>1. CASE UNCHANGED <<sl_state, threads>>
    BY <1>1, <2>1 DEF KthdTypeOK
  <2>2. CASE \E k \in Kthd : KernelWake(k) /\ sl_state[k] = "SL_THD_BLOCKED"
    BY <1>2, <2>2
  <2> QED BY <1>4, <2>1, <2>2
<1>6. \A k \in Kthd : Asleep(k)' <=> sl_state'[k] = "SL_THD_BLOCKED"
  <2>1. \A k \in Kthd : at'[k] # "block"
    BY Running, KthdAssumption DEF QueueInv
  <2> QED BY <2>1 DEF Asleep
<1> QED BY <1>0, <1>5, <1>6

\* What an lwt does, put together: nothing becomes ready in a kernel thread that sleeps.
KthdVarsOK ==
  /\ lwt_head \in Thread \cup {NULL}
  /\ status \in [Thread -> {ACTIVE, BLOCKED, WAITING, FREE}]
  /\ rcv_thd \in [Chan -> Thread \cup {NULL}]
  /\ call \in [Thread -> SndCalls \cup RcvCalls \cup {NULL}]
  /\ cgrp = [c \in Chan |-> NULL]
  /\ tid \in [Thread -> Kthd \cup {NULL}]
LEMMA LwtTogether ==
  ASSUME KInv, InLwt, Frame, KthdVarsOK', LwtsInv', BuffersOK', ReceiveInv', TransitInv',
         \A t \in Thread : status'[t] = ACTIVE =>
           \/ status[t] = ACTIVE /\ tid'[t] = tid[t]
           \/ tid'[t] = curr
           \/ sl_state'[tid'[t]] # "SL_THD_BLOCKED"
  PROVE  KInv'
<1>1. KthdTypeOK'
  BY FrameKeeps DEF KInv, KthdTypeOK, KthdVarsOK, Frame
<1>2. ASSUME NEW k \in Kthd, Asleep(k)', NEW t \in Mine(k)', status'[t] = ACTIVE
      PROVE  t = head'[k]
  <2>1. Asleep(k) /\ sl_state'[k] = "SL_THD_BLOCKED" /\ k # curr /\ head'[k] = head[k]
    <3>1. Asleep(k) /\ sl_state'[k] = "SL_THD_BLOCKED"
      BY <1>2, FrameKeeps
    <3>2. sl_state[k] = "SL_THD_BLOCKED" /\ at[curr] = "ring" /\ curr \in Kthd
      BY <3>1, Running
    <3>3. at[k] = "yield"
      BY <3>2 DEF KInv, QueueInv
    <3> QED BY <3>1, <3>2, <3>3 DEF Frame
  <2>2. t \in Thread /\ tid'[t] = k
    BY <1>2 DEF Mine
  <2>3. status[t] = ACTIVE /\ tid[t] = k
    BY <1>2, <2>1, <2>2
  <2>4. t \in Mine(k)
    BY <2>2, <2>3 DEF Mine, ACTIVE, FREE
  <2> QED BY <2>1, <2>3, <2>4 DEF KInv, SleepInv
<1>3. SleepInv'
  BY <1>2 DEF SleepInv
<1>4. QueueInv'
  BY FrameKeeps
<1> QED BY <1>1, <1>3, <1>4 DEF KInv

\* The rings stay as they are when an lwt starts or stops running or waiting.
LEMMA SameRings ==
  ASSUME KInv, InLwt, UNCHANGED <<list, tid, head, at, curr>>,
         \A t \in Thread : status'[t] = FREE <=> status[t] = FREE,
         \A t \in Thread : status'[t] # status[t] => status'[t] = ACTIVE \/ \A k \in Kthd : head[k] # t,
         lwt_head' \in Mine(curr), status'[lwt_head'] = ACTIVE
  PROVE  LwtsInv'
<1> USE DEF KInv
<1>1. \A k : Mine(k)' = Mine(k)
  BY DEF Mine
<1>2. LinkInv' /\ HeadInv'
  BY DEF LwtsInv, LinkInv, HeadInv
<1>3. \A t \in Thread : status'[t] # FREE => tid'[t] \in Kthd
  BY DEF LwtsInv
<1>4. \A k \in Kthd : head[k] # NULL => status'[head[k]] = ACTIVE
  BY Running
<1>5. ASSUME NEW k \in Kthd, at[k] \in {"first", "ring"} PROVE k = curr /\ at[k] = "ring"
  BY <1>5, Running DEF QueueInv
<1>6. ASSUME NEW k \in Kthd
      PROVE  /\ OneRing(list', Mine(k)')
             /\ at'[k] \in {"none", "init"} => Mine(k)' = {}
             /\ at'[k] = "first" => Mine(k)' = {lwt_head'}
             /\ at'[k] = "ring" => lwt_head' \in Mine(k)'
             /\ head'[k] = NULL <=> at'[k] \in {"none", "init", "first"}
             /\ head'[k] # NULL => head'[k] \in Mine(k)' /\ status'[head'[k]] = ACTIVE
  <2>1. OneRing(list', Mine(k)') = OneRing(list, Mine(k))
    BY <1>1
  <2> HIDE DEF Mine
  <2>2. /\ OneRing(list, Mine(k))
        /\ at[k] \in {"none", "init"} => Mine(k) = {}
        /\ head[k] = NULL <=> at[k] \in {"none", "init", "first"}
        /\ head[k] # NULL => head[k] \in Mine(k)
    BY DEF LwtsInv
  <2>3. at[k] # "first" /\ (at[k] = "ring" => k = curr)
    BY <1>5
  <2> QED BY <1>1, <1>4, <2>1, <2>2, <2>3
<1> QED BY <1>2, <1>3, <1>6 DEF LwtsInv

-----------------------------------------------------------------------------
(* Steps that leave the channels alone *)

\* Channels and calls stay as they should be when only lwts that are in no call,
\* receive from no channel and are not in transit come, go or become ready.
LEMMA SameChannels ==
  ASSUME KInv, UNCHANGED <<rcv_thd, data_buffer, snd_thds, cgrp, call>>,
         \A t \in Thread : status'[t] # status[t] =>
           /\ call[t] = NULL /\ \A c \in Chan : rcv_thd[c] # t
           /\ status'[t] # WAITING /\ status[t] # BLOCKED,
         \A k \in Kthd : head'[k] = head[k] \/ status[head'[k]] = ACTIVE
  PROVE  BuffersOK' /\ ReceiveInv' /\ TransitInv'
<1> USE DEF KInv
<1>1. BuffersOK'
  BY DEF BuffersOK, MessageInv, HoldsMessage
<1>2. \A c \in Chan : IsEmpty(c)' = IsEmpty(c) /\ Messages(c)' = Messages(c)
  BY SameMessages DEF IsEmpty
<1>3. ReceiveInv'
  <2>1. \A c \in Chan : rcv_thd[c] \in Thread \cup {NULL}
    BY DEF KthdTypeOK
  <2>2. \A c \in Chan : IF rcv_thd'[c] = NULL THEN IsEmpty(c)' ELSE status'[rcv_thd'[c]] \in Up
    BY <1>2, <2>1 DEF ReceiveInv
  <2>3. ASSUME NEW t \in Thread
        PROVE  /\ call'[t] # NULL => status'[t] \in Up
               /\ \A c \in Chan, v \in Data : call'[t] = SndCall(c, v) => rcv_thd'[c] # NULL
               /\ \A c \in Chan : call'[t] = RcvCall(c) => WaitsForOne(t, c)'
               /\ status'[t] = WAITING => \E c \in Chan : call'[t] = RcvCall(c) /\ IsEmpty(c)'
    <3>1. call[t] # NULL => status'[t] = status[t]
      OBVIOUS
    <3>2. status'[t] = WAITING => status[t] = WAITING
      OBVIOUS
    <3>3. \A c \in Chan : WaitsForOne(t, c)' = WaitsForOne(t, c)
      BY DEF WaitsForOne
    <3> QED BY <1>2, <3>1, <3>2, <3>3 DEF ReceiveInv
  <2> QED BY <2>2, <2>3 DEF ReceiveInv
<1>4. ThdChan \subseteq Chan
  BY KthdAssumption
<1>5. InTransit' = InTransit
  BY <1>2, <1>4 DEF InTransit
<1>6. ASSUME NEW t \in InTransit PROVE Still(t)'
  <2>1. Still(t) /\ t \in Thread
    BY <1>6 DEF TransitInv, InTransit
  <2>2. status'[t] = BLOCKED
    BY <2>1 DEF Still
  <2>3. \A k \in Kthd : head'[k] # t
    BY <2>1 DEF Still, ACTIVE, BLOCKED
  <2> QED BY <2>1, <2>2, <2>3 DEF Still
<1>7. OnePlace'
  BY <1>2, <1>4 DEF TransitInv, OnePlace, Sending
<1>8. TransitInv'
  BY <1>2, <1>4, <1>5, <1>6, <1>7 DEF TransitInv
<1> QED BY <1>1, <1>3, <1>8

\* lwt_yield, and the loop of a call that still has to wait.
LEMMA Moves ==
  ASSUME KInv, InLwt, UNCHANGED <<list, status, rcv_thd, data_buffer, snd_thds, cgrp, call, kvars>>,
         lwt_head' \in Mine(curr), status[lwt_head'] = ACTIVE
  PROVE  KInv'
<1>1. Frame
  BY DEF Frame, kvars, slvars
<1>2. BuffersOK' /\ ReceiveInv' /\ TransitInv'
  BY SameChannels DEF kvars, slvars
<1>3. LwtsInv'
  BY SameRings DEF kvars, slvars
<1>4. KthdVarsOK'
  BY DEF KInv, KthdTypeOK, KthdVarsOK, Mine, kvars, slvars
<1> QED BY <1>1, <1>2, <1>3, <1>4, LwtTogether DEF kvars, slvars

LEMMA YieldStep ==
  ASSUME KInv, KYield \/ \E t \in Thread : KYieldTo(t)
  PROVE  KInv'
<1>1. InLwt
  BY DEF KYield, KYieldTo
<1>2. UNCHANGED <<list, status, rcv_thd, data_buffer, snd_thds, cgrp, call, kvars>>
  BY DEF KYield, KYieldTo, Yield, joinvars, chanvars, kvars
<1>3. CASE Schedule(status)
  <2>1. status[head[curr]] = ACTIVE
    BY <1>1, Running
  <2>2. lwt_head' \in Mine(curr) /\ status[lwt_head'] = ACTIVE
    BY <1>1, <1>3, <2>1, NextInRing
  <2> QED BY <1>1, <1>2, <2>2, Moves
<1>4. ASSUME NEW t \in Thread, KYieldTo(t), ~Schedule(status) PROVE KInv'
  <2>1. t \in Mine(curr) /\ lwt_head' = t /\ status[t] = ACTIVE
    BY <1>1, <1>4, Running DEF KYieldTo, SameKthd, Mine, ACTIVE, FREE
  <2> QED BY <1>1, <1>2, <2>1, Moves
<1>5. KYield => Schedule(status)
  BY DEF KYield, Yield
<1> QED BY <1>3, <1>4, <1>5

\* A ring that does not hold the nodes an operation of another ring changes stays.
LEMMA RingElsewhere ==
  ASSUME NEW links \in [n : [Thread -> Thread], p : [Thread -> Thread]],
         NEW L \in SUBSET Thread, NEW M \in SUBSET Thread, L \cap M = {},
         OneRing(links, L), OneRing(links, M), NEW l \in M
  PROVE  /\ OneRing(ListRem(links, l), L)
         /\ \A t \in Thread \ L : OneRing(ListAdd(links, l, t), L)
<1>1. links.n[l] \in M /\ links.p[l] \in M
  BY DEF OneRing, Linked
<1>2. OneRing(ListRem(links, l), L)
  <2>1. \A o \in L : ListRem(links, l).n[o] = links.n[o] /\ ListRem(links, l).p[o] = links.p[o]
    BY <1>1 DEF ListRem
  <2> QED BY <2>1, RingSame
<1>3. ASSUME NEW t \in Thread \ L PROVE OneRing(ListAdd(links, l, t), L)
  <2>1. \A o \in L : ListAdd(links, l, t).n[o] = links.n[o] /\ ListAdd(links, l, t).p[o] = links.p[o]
    BY <1>1 DEF ListAdd
  <2> QED BY <2>1, RingSame
<1> QED BY <1>2, <1>3

\* The lwts of different kernel threads are different.
LEMMA MineApart ==
  ASSUME NEW j, NEW k, j # k
  PROVE  Mine(j) \cap Mine(k) = {}
BY DEF Mine

\* lwt_die: the lwt takes itself out of its ring, and another runs.
LEMMA DieStep ==
  ASSUME KInv, InLwt, InOwnCode, ~OwnsChannel, DieNojoin, UNCHANGED <<chanvars, kvars>>
  PROVE  KInv'
<1> USE DEF KInv
<1> DEFINE d == lwt_head
           me == Mine(curr)
           rest == Mine(curr) \ {lwt_head}
<1>1. /\ d \in Thread /\ status[d] = ACTIVE /\ d \in me /\ tid[d] = curr /\ curr \in Kthd
      /\ at[curr] = "ring" /\ head[curr] \in rest /\ status[head[curr]] = ACTIVE
      /\ \A k \in Kthd : head[k] # d
  BY Running
<1>2. call[d] = NULL /\ \A c \in Chan : rcv_thd[c] # d
  BY DEF InOwnCode, OwnsChannel, IsReceiver
<1>3. /\ list' = ListRem(list, d) /\ status' = [status EXCEPT ![d] = FREE]
      /\ lwt_head' = IF ScanFrom(list, status, d) = d THEN NULL ELSE ScanFrom(list, status, d)
  BY DEF DieNojoin, GiveBack
<1>4. /\ status' \in [Thread -> {ACTIVE, BLOCKED, WAITING, FREE}]
      /\ \A t \in Thread : status'[t] = IF t = d THEN FREE ELSE status[t]
      /\ list \in [n : [Thread -> Thread], p : [Thread -> Thread]]
  BY <1>1, <1>3 DEF KthdTypeOK, LwtsInv, LinkInv, ListOK
<1>5. \A k : Mine(k)' = IF k = curr THEN rest ELSE Mine(k)
  BY <1>1, <1>4 DEF Mine, FREE, kvars
<1>6. \A k \in Kthd : OneRing(list, Mine(k)) /\ Mine(k) \in SUBSET Thread
  BY DEF LwtsInv, Mine
<1>7. lwt_head' \in rest /\ status'[lwt_head'] = ACTIVE
  <2>1. OneRing(list, me) /\ me \in SUBSET Thread /\ head[curr] \in me /\ head[curr] # d
    BY <1>1, <1>6
  <2> HIDE DEF me
  <2>2. ScanFrom(list, status, d) \in me /\ status[ScanFrom(list, status, d)] = ACTIVE
    BY <1>1, <2>1, ScanStays
  <2>3. ScanFrom(list, status, d) # d
    BY <1>1, <2>1, ScanStops
  <2> QED BY <1>3, <1>4, <2>1, <2>2, <2>3 DEF me
<1>8. \A k \in Kthd : OneRing(list', Mine(k)')
  <2>1. OneRing(list', rest)
    <3>1. OneRing(list, me) /\ me \in SUBSET Thread /\ me # {d}
      BY <1>1, <1>6
    <3> HIDE DEF me
    <3>2. OneRing(ListRem(list, d), me \ {d})
      BY <1>1, <1>4, <3>1, RingRem
    <3> QED BY <1>3, <3>2 DEF me
  <2>2. ASSUME NEW k \in Kthd, k # curr PROVE OneRing(list', Mine(k)')
    <3>0. Mine(k)' = Mine(k)
      BY <1>5, <2>2
    <3>1. Mine(k) \cap me = {} /\ OneRing(list, Mine(k)) /\ OneRing(list, me)
          /\ Mine(k) \in SUBSET Thread /\ me \in SUBSET Thread
      BY <1>1, <1>6, <2>2, MineApart
    <3>2. OneRing(list', Mine(k))
      <4> HIDE DEF me, Mine
      <4> QED BY <1>1, <1>3, <1>4, <3>1, RingElsewhere
    <3> QED BY <3>0, <3>2
  <2>3. ASSUME NEW k \in Kthd PROVE OneRing(list', Mine(k)')
    <3>1. CASE k = curr
      BY <1>5, <2>1, <3>1
    <3>2. CASE k # curr
      BY <2>2, <3>2
    <3> QED BY <3>1, <3>2
  <2> QED BY <2>3
<1>9. LinkInv'
  <2>1. ListOK(list, Thread) /\ \A t \in Thread : status[t] = FREE => ListSingleton(list, t)
    BY DEF LwtsInv, LinkInv
  <2>2. /\ ListOK(list', Thread) /\ ListSingleton(list', d)
        /\ \A o \in Thread : ListSingleton(list, o) => ListSingleton(list', o)
    BY <1>1, <1>3, <2>1, ListRemOK
  <2> QED BY <1>4, <2>1, <2>2 DEF LinkInv
<1>10. HeadInv'
  BY <1>7 DEF HeadInv
<1>11. ASSUME NEW k \in Kthd
       PROVE  /\ at'[k] \in {"none", "init"} => Mine(k)' = {}
              /\ at'[k] = "first" => Mine(k)' = {lwt_head'}
              /\ at'[k] = "ring" => lwt_head' \in Mine(k)'
              /\ head'[k] = NULL <=> at'[k] \in {"none", "init", "first"}
              /\ head'[k] # NULL => head'[k] \in Mine(k)' /\ status'[head'[k]] = ACTIVE
  <2>1. at[k] \in {"first", "ring"} => k = curr /\ at[k] = "ring"
    BY <1>1 DEF QueueInv
  <2>2. /\ at[k] \in {"none", "init"} => Mine(k) = {}
        /\ head[k] = NULL <=> at[k] \in {"none", "init", "first"}
        /\ head[k] # NULL => head[k] \in Mine(k) /\ status[head[k]] = ACTIVE
    BY DEF LwtsInv
  <2>3. Mine(k)' \subseteq Mine(k) /\ \A t \in Mine(k) : t # d => t \in Mine(k)' /\ t \in Thread
    BY <1>4 DEF Mine, FREE, kvars
  <2>4. at' = at /\ head' = head
    BY DEF kvars, slvars
  <2> HIDE DEF Mine
  <2> QED BY <1>1, <1>4, <1>5, <1>7, <2>1, <2>2, <2>3, <2>4
<1>12. \A t \in Thread : status'[t] # FREE => tid'[t] \in Kthd
  BY <1>4 DEF LwtsInv, kvars
<1>13. LwtsInv'
  BY <1>8, <1>9, <1>10, <1>11, <1>12 DEF LwtsInv
<1>14. BuffersOK' /\ ReceiveInv' /\ TransitInv'
  <2>1. \A t \in Thread : status'[t] # status[t] =>
           /\ call[t] = NULL /\ \A c \in Chan : rcv_thd[c] # t
           /\ status'[t] # WAITING /\ status[t] # BLOCKED
    BY <1>1, <1>2, <1>4 DEF ACTIVE, BLOCKED, WAITING, FREE
  <2> QED BY <2>1, SameChannels DEF chanvars, kvars, slvars
<1>15. Frame /\ KthdVarsOK'
  <2>1. lwt_head' \in Thread
    BY <1>7 DEF Mine
  <2> QED BY <1>4, <2>1 DEF Frame, kvars, slvars, chanvars, KthdVarsOK, KthdTypeOK
<1>16. \A t \in Thread : status'[t] = ACTIVE => status[t] = ACTIVE /\ tid'[t] = tid[t]
  BY <1>4 DEF kvars, ACTIVE, FREE
<1> QED BY <1>13, <1>14, <1>15, <1>16, LwtTogether

-----------------------------------------------------------------------------
(* Lwts that are made *)

\* Linking a node right before one of a ring, as lwt_create and lwt_rcv_thd do.
LEMMA JoinsRing ==
  ASSUME NEW links, ListOK(links, Thread), NEW M \in SUBSET Thread, OneRing(links, M),
         NEW h \in M, NEW t \in Thread \ M, ListSingleton(links, t),
         NEW a, a = ListAdd(links, ListPrev(links, h), t)
  PROVE  /\ ListOK(a, Thread)
         /\ OneRing(a, M \cup {t})
         /\ \A L \in SUBSET Thread :
              OneRing(links, L) /\ L \cap M = {} /\ t \notin L => OneRing(a, L)
         /\ \A o \in Thread \ M : o # t /\ ListSingleton(links, o) => ListSingleton(a, o)
<1> DEFINE l == ListPrev(links, h)
<1>1. l \in M /\ links.n[l] = h
  BY DEF OneRing, Linked, ListPrev
<1>2. links \in [n : [Thread -> Thread], p : [Thread -> Thread]]
  BY DEF ListOK
<1> HIDE DEF l
<1>3. ListOK(a, Thread) /\ \A o \in Thread \ {l, t} : ListNext(a, o) = ListNext(links, o)
  BY <1>1, ListAddOK DEF l
<1>4. OneRing(a, M \cup {t})
  BY <1>1, <1>2, RingAdd DEF l
<1>5. ASSUME NEW L \in SUBSET Thread, OneRing(links, L), L \cap M = {}, t \notin L PROVE OneRing(a, L)
  BY <1>1, <1>2, <1>5, RingElsewhere DEF l
<1>6. \A o \in Thread \ M : o # t /\ ListSingleton(links, o) => ListSingleton(a, o)
  BY <1>1, <1>3 DEF ListSingleton, ListNext
<1> QED BY <1>3, <1>4, <1>5, <1>6

\* What making t in kernel thread k, by the lwt that runs there, does to the rings.
LEMMA MakeRings ==
  ASSUME KthdTypeOK, LwtsInv, NEW k \in Kthd, lwt_head \in Mine(k), NEW t \in Thread,
         status[t] = FREE, list' = Placed(t), status' = [status EXCEPT ![t] = ACTIVE],
         tid' = [tid EXCEPT ![t] = k]
  PROVE  /\ LinkInv'
         /\ \A j \in Kthd : Mine(j)' = IF j = k THEN Mine(k) \cup {t} ELSE Mine(j)
         /\ \A j \in Kthd : OneRing(list', Mine(j)')
<1>1. /\ \A j \in Kthd : OneRing(list, Mine(j)) /\ Mine(j) \in SUBSET Thread /\ t \notin Mine(j)
      /\ ListOK(list, Thread) /\ \A o \in Thread : status[o] = FREE => ListSingleton(list, o)
  BY DEF LwtsInv, LinkInv, Mine
<1>2. \A o \in Thread : /\ status'[o] = IF o = t THEN ACTIVE ELSE status[o]
                        /\ tid'[o] = IF o = t THEN k ELSE tid[o]
  BY DEF KthdTypeOK
<1>3. \A j \in Kthd : Mine(j)' = IF j = k THEN Mine(k) \cup {t} ELSE Mine(j)
  BY <1>2 DEF Mine, ACTIVE, FREE
<1>4. \A o \in Mine(k) : status[o] # FREE
  BY DEF Mine
<1>5. /\ ListOK(list', Thread) /\ OneRing(list', Mine(k) \cup {t})
      /\ \A L \in SUBSET Thread :
           OneRing(list, L) /\ L \cap Mine(k) = {} /\ t \notin L => OneRing(list', L)
      /\ \A o \in Thread \ Mine(k) : o # t /\ ListSingleton(list, o) => ListSingleton(list', o)
  <2> DEFINE M == Mine(k)
  <2>1. OneRing(list, M) /\ M \in SUBSET Thread /\ t \in Thread \ M /\ lwt_head \in M
    BY <1>1
  <2> HIDE DEF M
  <2>2. /\ ListOK(list', Thread) /\ OneRing(list', M \cup {t})
        /\ \A L \in SUBSET Thread : OneRing(list, L) /\ L \cap M = {} /\ t \notin L => OneRing(list', L)
        /\ \A o \in Thread \ M : o # t /\ ListSingleton(list, o) => ListSingleton(list', o)
    BY <1>1, <2>1, JoinsRing DEF Placed
  <2> QED BY <2>2 DEF M
<1>6. LinkInv'
  BY <1>1, <1>2, <1>4, <1>5 DEF LinkInv, ACTIVE, FREE
<1>7. ASSUME NEW j \in Kthd PROVE OneRing(list', Mine(j)')
  <2>1. CASE j = k
    BY <1>3, <1>5, <2>1
  <2>2. CASE j # k
    <3>1. Mine(j)' = Mine(j) /\ Mine(j) \cap Mine(k) = {}
      BY <1>3, <2>2, MineApart
    <3>2. OneRing(list', Mine(j))
      BY <1>1, <1>5, <3>1
    <3> QED BY <3>1, <3>2
  <2> QED BY <2>1, <2>2
<1> QED BY <1>3, <1>6, <1>7

\* lwt_create, by an lwt that runs.
LEMMA KCreateStep ==
  ASSUME KInv, NEW t \in Thread, KCreate(t)
  PROVE  KInv'
<1> USE DEF KInv, KCreate, KMake, Make
<1>0. InLwt
  OBVIOUS
<1>1. /\ curr \in Kthd /\ at[curr] = "ring" /\ lwt_head \in Mine(curr) /\ tid[lwt_head] = curr
      /\ status[lwt_head] = ACTIVE /\ lwt_head \in Thread
  BY <1>0, Running
<1>2. /\ status[t] = FREE /\ status' = [status EXCEPT ![t] = ACTIVE]
      /\ tid' = [tid EXCEPT ![t] = curr] /\ list' = Placed(t) /\ lwt_head' = lwt_head
  BY <1>1
<1>3. /\ LinkInv'
      /\ \A j \in Kthd : Mine(j)' = IF j = curr THEN Mine(curr) \cup {t} ELSE Mine(j)
      /\ \A j \in Kthd : OneRing(list', Mine(j)')
  BY <1>1, <1>2, MakeRings
<1>4. /\ \A o \in Thread : /\ status'[o] = IF o = t THEN ACTIVE ELSE status[o]
                           /\ tid'[o] = IF o = t THEN curr ELSE tid[o]
      /\ tid' \in [Thread -> Kthd \cup {NULL}]
      /\ status' \in [Thread -> {ACTIVE, BLOCKED, WAITING, FREE}]
  BY <1>1, <1>2 DEF KthdTypeOK
<1>5. ASSUME NEW k \in Kthd
      PROVE  /\ at'[k] \in {"none", "init"} => Mine(k)' = {}
             /\ at'[k] = "first" => Mine(k)' = {lwt_head'}
             /\ at'[k] = "ring" => lwt_head' \in Mine(k)'
             /\ head'[k] = NULL <=> at'[k] \in {"none", "init", "first"}
             /\ head'[k] # NULL => head'[k] \in Mine(k)' /\ status'[head'[k]] = ACTIVE
  <2>1. at[k] \in {"first", "ring"} => k = curr /\ at[k] = "ring"
    BY <1>1 DEF QueueInv
  <2>2. /\ at[k] \in {"none", "init"} => Mine(k) = {}
        /\ head[k] = NULL <=> at[k] \in {"none", "init", "first"}
        /\ head[k] # NULL => head[k] \in Mine(k) /\ status[head[k]] = ACTIVE
    BY DEF LwtsInv
  <2>3. Mine(k) \subseteq Mine(k)' /\ (k # curr => Mine(k)' = Mine(k)) /\ Mine(k) \subseteq Thread
    BY <1>3 DEF Mine
  <2>4. at' = at /\ head' = head
    BY DEF slvars
  <2>5. head[k] \in Mine(k) => status'[head[k]] = ACTIVE
    BY <1>4, <2>2, <2>3, LwtAssumption
  <2>6. at[k] = "ring" => lwt_head' \in Mine(k)'
    BY <1>1, <1>2, <2>1, <2>3
  <2> HIDE DEF Mine
  <2> QED BY <1>1, <2>1, <2>2, <2>3, <2>4, <2>5, <2>6
<1>6. \A o \in Thread : status'[o] # FREE => tid'[o] \in Kthd
  BY <1>1, <1>4 DEF LwtsInv
<1>7. HeadInv'
  BY <1>1, <1>2, <1>4 DEF HeadInv
<1>8. LwtsInv'
  BY <1>3, <1>5, <1>6, <1>7 DEF LwtsInv
<1>9. BuffersOK' /\ ReceiveInv' /\ TransitInv'
  <2>1. \A c \in Chan : rcv_thd[c] # t
    BY <1>2, LwtAssumption DEF ReceiveInv, Up, ACTIVE, WAITING, FREE
  <2>2. call[t] = NULL
    BY <1>2 DEF ReceiveInv, Up, ACTIVE, WAITING, FREE
  <2>3. \A o \in Thread : status'[o] # status[o] => o = t /\ status'[o] = ACTIVE /\ status[o] = FREE
    BY <1>2, <1>4
  <2>4. \A o \in Thread : status'[o] # status[o] =>
           /\ call[o] = NULL /\ \A c \in Chan : rcv_thd[c] # o
           /\ status'[o] # WAITING /\ status[o] # BLOCKED
    BY <2>1, <2>2, <2>3 DEF ACTIVE, BLOCKED, WAITING, FREE
  <2> QED BY <2>4, SameChannels DEF chanvars, slvars
<1>10. Frame /\ KthdVarsOK'
  BY <1>1, <1>2, <1>4 DEF Frame, slvars, chanvars, KthdVarsOK, KthdTypeOK
<1>11. \A o \in Thread : status'[o] = ACTIVE =>
         (status[o] = ACTIVE /\ tid'[o] = tid[o]) \/ tid'[o] = curr
  BY <1>4
<1> QED BY <1>0, <1>8, <1>9, <1>10, <1>11, LwtTogether

-----------------------------------------------------------------------------
(* What kernel threads do outside the rings *)

\* Going along the ring of a kernel thread meets its lwts, all of them and no other.
LEMMA RingIsMine ==
  ASSUME KInv, NEW k \in Kthd, head[k] # NULL
  PROVE  Ring(k) = Mine(k)
<1>1. OneRing(list, Mine(k)) /\ head[k] \in Mine(k) /\ Mine(k) \in SUBSET Thread
  BY DEF KInv, LwtsInv, Mine
<1>2. IsFiniteSet(Mine(k)) /\ Cardinality(Mine(k)) <= Cardinality(Thread) /\ Cardinality(Thread) \in Nat
  BY <1>1, FS_Subset, FS_CardinalityType, LwtAssumption
<1> HIDE DEF Mine
<1>3. {ListWalk(list, head[k], i) : i \in 1..Cardinality(Thread)} = Mine(k)
  BY <1>1, <1>2, RingWalk
<1> QED BY <1>3 DEF Ring

\* The lwts, the channels and the calls do not notice.
LEMMA KernelAside ==
  ASSUME KInv, UNCHANGED <<cvars, head, tid>>,
         \A k \in Kthd :
           \/ at'[k] = at[k]
           \/ at[k] = "none" /\ at'[k] = "init"
           \/ /\ at[k] \notin {"none", "init", "first"}
              /\ at'[k] \notin {"none", "init", "first", "ring"}
  PROVE  LwtsInv' /\ BuffersOK' /\ ReceiveInv' /\ TransitInv'
<1> USE DEF KInv, cvars, vars, chanvars
<1>1. BuffersOK' /\ ReceiveInv' /\ TransitInv'
  BY SameChannels
<1>2. \A k \in Kthd : Mine(k)' = Mine(k) /\ OneRing(list', Mine(k)') = OneRing(list, Mine(k))
  BY DEF Mine
<1>3. LinkInv' /\ HeadInv'
  BY DEF LwtsInv, LinkInv, HeadInv
<1>4. \A t \in Thread : status'[t] # FREE => tid'[t] \in Kthd
  BY DEF LwtsInv
<1>5. ASSUME NEW k \in Kthd
      PROVE  /\ OneRing(list', Mine(k)')
             /\ at'[k] \in {"none", "init"} => Mine(k)' = {}
             /\ at'[k] = "first" => Mine(k)' = {lwt_head'}
             /\ at'[k] = "ring" => lwt_head' \in Mine(k)'
             /\ head'[k] = NULL <=> at'[k] \in {"none", "init", "first"}
             /\ head'[k] # NULL => head'[k] \in Mine(k)' /\ status'[head'[k]] = ACTIVE
  <2> HIDE DEF Mine
  <2>1. Mine(k)' = Mine(k) /\ OneRing(list', Mine(k)') = OneRing(list, Mine(k))
    BY <1>2
  <2> QED BY <2>1 DEF LwtsInv
<1> QED BY <1>1, <1>3, <1>4, <1>5 DEF LwtsInv

LEMMA KthdCreateStep ==
  ASSUME KInv, NEW k \in Kthd, Booting \/ InLwt, KthdCreate(k)
  PROVE  KInv'
<1> USE DEF KInv, KthdCreate, Lowest, Become
<1>1. /\ at[k] = "none" /\ threads' = Append(threads, k) /\ threads \in Seq(Kthd)
      /\ \A j \in Kthd : at'[j] = IF j = k THEN "init" ELSE at[j]
      /\ \A j \in Kthd : sl_state'[j] = IF j = k THEN "SL_THD_RUNNABLE" ELSE sl_state[j]
  BY DEF KthdTypeOK
<1>2. LwtsInv' /\ BuffersOK' /\ ReceiveInv' /\ TransitInv'
  BY <1>1, KernelAside
<1>3. /\ threads' \in Seq(Kthd) /\ threads' # <<>> /\ ToSet(threads') = ToSet(threads) \cup {k}
      /\ threads # <<>> => Head(threads') = Head(threads)
      /\ IsInjective(threads')
  BY <1>1, QueueAppend DEF QueueInv
<1>4. QueueInv'
  BY <1>1, <1>3 DEF QueueInv
<1>5. KthdTypeOK'
  BY <1>3 DEF KthdTypeOK, Places, cvars, vars, chanvars
<1>6. ASSUME NEW j \in Kthd, Asleep(j)' PROVE \A t \in Mine(j)' : status'[t] = ACTIVE => t = head'[j]
  <2>1. Asleep(j)
    BY <1>1, <1>6 DEF Asleep
  <2> QED BY <2>1 DEF SleepInv, Mine, cvars, vars
<1> QED BY <1>2, <1>4, <1>5, <1>6 DEF SleepInv

LEMMA TimerStep ==
  ASSUME KInv, Timer
  PROVE  KInv'
<1> USE DEF KInv, Timer, slvars
<1>1. LwtsInv' /\ BuffersOK' /\ ReceiveInv' /\ TransitInv'
  BY KernelAside
<1>2. threads \in Seq(Kthd) /\ threads # <<>> /\ Head(threads) \in Kthd
  BY HeadTailProperties DEF KthdTypeOK
<1>3. curr' = IF owner # NULL THEN owner ELSE Head(threads)
  BY <1>2 DEF Best
<1>4. owner # NULL => owner = curr /\ curr \in Kthd
  BY DEF QueueInv, KthdTypeOK
<1>5. curr' = Head(threads) /\ curr' \in Kthd
  BY <1>2, <1>3, <1>4 DEF QueueInv
<1>6. ASSUME NEW k \in Kthd, at[k] \in {"first", "ring", "count", "block"} PROVE curr' = k
  <2>1. curr = k
    BY <1>6 DEF QueueInv
  <2> QED BY <1>5, <2>1 DEF QueueInv
<1>7. QueueInv'
  BY <1>2, <1>5, <1>6 DEF QueueInv
<1>8. KthdTypeOK'
  BY <1>5 DEF KthdTypeOK, cvars, vars, chanvars
<1>9. SleepInv'
  BY DEF SleepInv, Asleep, Mine, cvars, vars
<1> QED BY <1>1, <1>7, <1>8, <1>9

LEMMA LeaveRingStep ==
  ASSUME KInv, NEW k \in Kthd, LeaveRing(k)
  PROVE  KInv'
<1> USE DEF KInv, LeaveRing, Become, In
<1>1. /\ at[k] = "ring" /\ curr = k /\ owner' = NULL
      /\ \A j \in Kthd : at'[j] = IF j = k THEN "count" ELSE at[j]
  BY DEF KthdTypeOK
<1>2. LwtsInv' /\ BuffersOK' /\ ReceiveInv' /\ TransitInv'
  BY <1>1, KernelAside
<1>3. QueueInv'
  BY <1>1, KthdAssumption DEF QueueInv
<1>4. KthdTypeOK'
  BY DEF KthdTypeOK, Places, cvars, vars, chanvars
<1>5. \A j \in Kthd : Asleep(j)' => Asleep(j)
  BY <1>1 DEF Asleep
<1>6. SleepInv'
  BY <1>5 DEF SleepInv, Mine, cvars, vars
<1> QED BY <1>2, <1>3, <1>4, <1>6

LEMMA CountActiveStep ==
  ASSUME KInv, NEW k \in Kthd, CountActive(k)
  PROVE  KInv'
<1> USE DEF KInv, CountActive, Become, In
<1> DEFINE one == {t \in Ring(k) : status[t] = ACTIVE} = {head[k]}
<1>1. /\ at[k] = "count" /\ curr = k
      /\ \A j \in Kthd : at'[j] = IF j = k THEN IF one THEN "block" ELSE "yield" ELSE at[j]
  BY DEF KthdTypeOK
<1>2. LwtsInv' /\ BuffersOK' /\ ReceiveInv' /\ TransitInv'
  <2> HIDE DEF one
  <2> QED BY <1>1, KernelAside
<1>3. QueueInv'
  <2> HIDE DEF one
  <2>1. sl_state[k] # "SL_THD_BLOCKED"
    BY <1>1 DEF QueueInv
  <2> QED BY <1>1, <2>1 DEF QueueInv
<1>4. KthdTypeOK'
  BY DEF KthdTypeOK, Places, cvars, vars, chanvars
<1>5. Ring(k) = Mine(k)
  BY <1>1, RingIsMine DEF LwtsInv
<1>6. ASSUME NEW j \in Kthd, Asleep(j)', NEW t \in Mine(j)', status'[t] = ACTIVE PROVE t = head'[j]
  <2>1. t \in Mine(j) /\ status[t] = ACTIVE
    BY <1>6 DEF Mine, cvars, vars
  <2>2. CASE Asleep(j)
    BY <2>1, <2>2 DEF SleepInv
  <2>3. CASE ~Asleep(j)
    <3>1. j = k /\ one
      BY <1>1, <1>6, <2>3 DEF Asleep
    <3> QED BY <1>5, <2>1, <3>1
  <2> QED BY <2>2, <2>3
<1>7. SleepInv'
  BY <1>6 DEF SleepInv
<1> QED BY <1>2, <1>3, <1>4, <1>7

\* The first of a queue, or none.
LEMMA BestOf ==
  ASSUME NEW q \in Seq(Kthd)
  PROVE  /\ q # <<>> => Best(q) = Head(q) /\ Best(q) \in Kthd
         /\ q = <<>> => Best(q) = NULL /\ Best(q) \notin Kthd
BY KthdAssumption, HeadTailProperties DEF Best

LEMMA BlockStep ==
  ASSUME KInv, NEW k \in Kthd, Block(k)
  PROVE  KInv'
<1> USE DEF KInv, Block, Become, In
<1>1. /\ at[k] = "block" /\ curr = k /\ owner = NULL
      /\ \A j \in Kthd : at'[j] = IF j = k THEN "yield" ELSE at[j]
      /\ \A j \in Kthd : sl_state'[j] = IF j = k THEN "SL_THD_BLOCKED" ELSE sl_state[j]
  BY DEF KthdTypeOK
<1>2. LwtsInv' /\ BuffersOK' /\ ReceiveInv' /\ TransitInv'
  BY <1>1, KernelAside
<1>3. /\ threads \in Seq(Kthd) /\ threads # <<>> /\ k = Head(threads) /\ IsInjective(threads)
      /\ threads' = RemoveFirst(threads, k) /\ curr' = Best(threads')
  BY <1>1 DEF KthdTypeOK, QueueInv
<1>4. /\ threads' \in Seq(Kthd) /\ ToSet(threads') = ToSet(threads) \ {k} /\ IsInjective(threads')
  BY <1>3, QueueRemove
<1>5. \A j \in Kthd : at'[j] \notin {"first", "ring", "count", "block"}
  BY <1>1 DEF QueueInv
<1>6. QueueInv'
  BY <1>1, <1>3, <1>4, <1>5, BestOf, KthdAssumption DEF QueueInv
<1>7. KthdTypeOK'
  BY <1>3, <1>4, BestOf DEF KthdTypeOK, Places, cvars, vars, chanvars
<1>8. \A j \in Kthd : Asleep(j)' => Asleep(j)
  BY <1>1 DEF Asleep
<1>9. SleepInv'
  BY <1>8 DEF SleepInv, Mine, cvars, vars
<1> QED BY <1>2, <1>6, <1>7, <1>9

\* sl_thd_yield: the kernel thread goes to the end of the queue.
LEMMA YieldKthdStep ==
  ASSUME KInv, NEW k \in Kthd, YieldKthd(k)
  PROVE  KInv'
<1> USE DEF KInv, YieldKthd, Become, In
<1> DEFINE rest == RemoveFirst(threads, k)
<1>1. /\ at[k] = "yield" /\ curr = k /\ owner = NULL
      /\ \A j \in Kthd : at'[j] = IF j = k THEN "enter" ELSE at[j]
  BY DEF KthdTypeOK
<1>2. LwtsInv' /\ BuffersOK' /\ ReceiveInv' /\ TransitInv'
  BY <1>1, KernelAside
<1>3. /\ threads \in Seq(Kthd) /\ threads # <<>> /\ k = Head(threads) /\ IsInjective(threads)
      /\ threads' = Append(rest, k) /\ curr' = Best(threads')
  BY <1>1 DEF KthdTypeOK, QueueInv
<1>4. rest \in Seq(Kthd) /\ ToSet(rest) = ToSet(threads) \ {k} /\ IsInjective(rest)
  BY <1>3, QueueRemove
<1>5. k \in ToSet(threads)
  BY <1>3, HeadTailProperties, EmptySeq, LenProperties DEF ToSet
<1>6. /\ threads' \in Seq(Kthd) /\ threads' # <<>> /\ ToSet(threads') = ToSet(threads)
      /\ IsInjective(threads')
  <2>1. k \notin ToSet(rest)
    BY <1>4
  <2> HIDE DEF rest
  <2>2. \A q \in Seq(Kthd) : IsInjective(q) /\ k \notin ToSet(q) =>
          /\ Append(q, k) \in Seq(Kthd) /\ Append(q, k) # <<>>
          /\ ToSet(Append(q, k)) = ToSet(q) \cup {k} /\ IsInjective(Append(q, k))
    BY QueueAppend
  <2>3. /\ Append(rest, k) \in Seq(Kthd) /\ Append(rest, k) # <<>>
        /\ ToSet(Append(rest, k)) = ToSet(rest) \cup {k} /\ IsInjective(Append(rest, k))
    BY <1>4, <2>1, <2>2
  <2>4. ToSet(rest) \cup {k} = ToSet(threads)
    BY <1>4, <1>5
  <2> QED BY <1>3, <2>3, <2>4, Zenon
<1>7. \A j \in Kthd : at'[j] \notin {"first", "ring", "count", "block"}
  BY <1>1 DEF QueueInv
<1>8. sl_state[k] # "SL_THD_BLOCKED"
  BY <1>5 DEF QueueInv
<1>9. QueueInv'
  <2>1. curr' = Head(threads')
    BY <1>3, <1>6, BestOf
  <2>2. \A j \in Kthd : at'[j] = "none" => j \notin ToSet(threads')
    BY <1>1, <1>6 DEF QueueInv
  <2>3. \A j \in Kthd : sl_state'[j] = "SL_THD_BLOCKED" => at'[j] = "yield" /\ j \notin ToSet(threads')
    BY <1>1, <1>6, <1>8 DEF QueueInv
  <2>4. \A j \in Kthd : ~(owner' = j)
    BY <1>1, KthdAssumption
  <2> QED BY <1>6, <1>7, <2>1, <2>2, <2>3, <2>4 DEF QueueInv
<1>10. KthdTypeOK'
  BY <1>3, <1>6, BestOf DEF KthdTypeOK, Places, cvars, vars, chanvars
<1>11. \A j \in Kthd : Asleep(j)' => Asleep(j)
  BY <1>1 DEF Asleep
<1>12. SleepInv'
  BY <1>11 DEF SleepInv, Mine, cvars, vars
<1> QED BY <1>2, <1>9, <1>10, <1>12

LEMMA EnterRingStep ==
  ASSUME KInv, NEW k \in Kthd, EnterRing(k)
  PROVE  KInv'
<1> USE DEF KInv, EnterRing, Become, In, HeadOf, joinvars, chanvars
<1> DEFINE f == ScanFrom(list, status, head[k])
<1>1. /\ at[k] = "enter" /\ curr = k /\ owner = NULL /\ owner' = k /\ lwt_head' = f
      /\ \A j \in Kthd : at'[j] = IF j = k THEN "ring" ELSE at[j]
  BY DEF KthdTypeOK
<1>2. f \in Mine(k) /\ status[f] = ACTIVE
  <2>1. Mine(k) \in SUBSET Thread /\ OneRing(list, Mine(k)) /\ head[k] \in Mine(k) /\ status[head[k]] = ACTIVE
    BY <1>1 DEF LwtsInv, Mine
  <2> HIDE DEF Mine
  <2> QED BY <2>1, ScanStays
<1> HIDE DEF f
<1>3. BuffersOK' /\ ReceiveInv' /\ TransitInv'
  BY SameChannels
<1>4. \A j \in Kthd : Mine(j)' = Mine(j)
  BY DEF Mine
<1>5. LinkInv' /\ HeadInv' /\ \A t \in Thread : status'[t] # FREE => tid'[t] \in Kthd
  BY <1>1, <1>2 DEF LwtsInv, LinkInv, HeadInv
<1>6. ASSUME NEW j \in Kthd
      PROVE  /\ OneRing(list', Mine(j)')
             /\ at'[j] \in {"none", "init"} => Mine(j)' = {}
             /\ at'[j] = "first" => Mine(j)' = {lwt_head'}
             /\ at'[j] = "ring" => lwt_head' \in Mine(j)'
             /\ head'[j] = NULL <=> at'[j] \in {"none", "init", "first"}
             /\ head'[j] # NULL => head'[j] \in Mine(j)' /\ status'[head'[j]] = ACTIVE
  <2>1. at[j] \notin {"first", "ring", "count", "block"}
    <3>1. j # k => at[j] \notin {"first", "ring", "count", "block"}
      BY <1>1 DEF QueueInv
    <3> QED BY <1>1, <3>1
  <2>2. Mine(j)' = Mine(j) /\ OneRing(list', Mine(j)') = OneRing(list, Mine(j))
    BY <1>4
  <2> HIDE DEF Mine
  <2>3. /\ OneRing(list, Mine(j))
        /\ at[j] \in {"none", "init"} => Mine(j) = {}
        /\ head[j] = NULL <=> at[j] \in {"none", "init", "first"}
        /\ head[j] # NULL => head[j] \in Mine(j) /\ status[head[j]] = ACTIVE
    BY DEF LwtsInv
  <2> QED BY <1>1, <1>2, <2>1, <2>2, <2>3
<1>7. LwtsInv'
  BY <1>5, <1>6 DEF LwtsInv
<1>8. QueueInv'
  BY <1>1, KthdAssumption DEF QueueInv
<1>9. KthdTypeOK'
  BY <1>1, <1>2 DEF KthdTypeOK, Places, Mine
<1>10. \A j \in Kthd : Asleep(j)' => Asleep(j)
  BY <1>1 DEF Asleep
<1>11. SleepInv'
  BY <1>10 DEF SleepInv, Mine
<1> QED BY <1>3, <1>7, <1>8, <1>9, <1>11

\* __init_thread_head: the first lwt of a kernel thread is a ring of one.
LEMMA InitHeadStep ==
  ASSUME KInv, NEW k \in Kthd, NEW h \in Thread, InitHead(k, h)
  PROVE  KInv'
<1> USE DEF KInv, InitHead, Become, In
<1>1. /\ at[k] = "init" /\ curr = k /\ status[h] = FREE /\ lwt_head' = h
      /\ \A j \in Kthd : at'[j] = IF j = k THEN "first" ELSE at[j]
      /\ \A o \in Thread : /\ status'[o] = IF o = h THEN ACTIVE ELSE status[o]
                           /\ tid'[o] = IF o = h THEN k ELSE tid[o]
  BY DEF KthdTypeOK, Fits, Lowest
<1>2. \A j \in Kthd : at[j] \notin {"first", "ring", "count", "block"}
  BY <1>1 DEF QueueInv
<1>3. BuffersOK' /\ ReceiveInv' /\ TransitInv'
  <2>1. call[h] = NULL /\ \A c \in Chan : rcv_thd[c] # h
    BY <1>1, LwtAssumption DEF ReceiveInv, Up, ACTIVE, WAITING, FREE
  <2>2. \A o \in Thread : status'[o] # status[o] =>
           /\ call[o] = NULL /\ \A c \in Chan : rcv_thd[c] # o
           /\ status'[o] # WAITING /\ status[o] # BLOCKED
    BY <1>1, <2>1 DEF ACTIVE, BLOCKED, WAITING, FREE
  <2> QED BY <2>2, SameChannels DEF chanvars
<1>4. Mine(k) = {} /\ head[k] = NULL
  BY <1>1 DEF LwtsInv
<1>5. \A j \in Kthd : Mine(j)' = IF j = k THEN {h} ELSE Mine(j)
  BY <1>1, <1>4 DEF Mine, ACTIVE, FREE
<1>6. LinkInv' /\ HeadInv' /\ \A t \in Thread : status'[t] # FREE => tid'[t] \in Kthd
  BY <1>1 DEF LwtsInv, LinkInv, HeadInv, ACTIVE, FREE
<1>7. OneRing(list', {h})
  <2>1. list.n[h] = h /\ list.p[h] = h
    BY <1>1 DEF LwtsInv, LinkInv, ListOK, ListSingleton, ListNext
  <2>2. OneRing(list, {h})
    BY <2>1, RingOfOne
  <2> QED BY <2>2
<1>8. ASSUME NEW j \in Kthd
      PROVE  /\ OneRing(list', Mine(j)')
             /\ at'[j] \in {"none", "init"} => Mine(j)' = {}
             /\ at'[j] = "first" => Mine(j)' = {lwt_head'}
             /\ at'[j] = "ring" => lwt_head' \in Mine(j)'
             /\ head'[j] = NULL <=> at'[j] \in {"none", "init", "first"}
             /\ head'[j] # NULL => head'[j] \in Mine(j)' /\ status'[head'[j]] = ACTIVE
  <2>1. /\ OneRing(list, Mine(j))
        /\ at[j] \in {"none", "init"} => Mine(j) = {}
        /\ head[j] = NULL <=> at[j] \in {"none", "init", "first"}
        /\ head[j] # NULL => head[j] \in Mine(j) /\ status[head[j]] = ACTIVE /\ head[j] \in Thread
    BY DEF LwtsInv, Mine
  <2> HIDE DEF Mine
  <2>2. head[j] # NULL => status'[head[j]] = ACTIVE
    BY <1>1, <2>1
  <2>3. CASE j = k
    BY <1>1, <1>4, <1>5, <1>7, <2>3
  <2>4. CASE j # k
    BY <1>1, <1>2, <1>5, <2>1, <2>2, <2>4
  <2> QED BY <2>3, <2>4
<1>9. LwtsInv'
  BY <1>6, <1>8 DEF LwtsInv
<1>10. QueueInv'
  BY <1>1 DEF QueueInv
<1>11. KthdTypeOK'
  BY <1>1 DEF KthdTypeOK, Places, chanvars
<1>12. ASSUME NEW j \in Kthd, Asleep(j)', NEW t \in Mine(j)', status'[t] = ACTIVE PROVE t = head'[j]
  <2>1. Asleep(j) /\ j # k
    BY <1>1, <1>12 DEF Asleep, QueueInv
  <2>2. t \in Mine(j) /\ t # h
    BY <1>1, <1>5, <1>12, <2>1 DEF Mine
  <2>3. status[t] = ACTIVE
    BY <1>1, <1>12, <2>2 DEF Mine
  <2> QED BY <2>1, <2>2, <2>3 DEF SleepInv
<1>13. SleepInv'
  BY <1>12 DEF SleepInv
<1> QED BY <1>3, <1>9, <1>10, <1>11, <1>13

\* The lwt a kernel thread starts with joins the ring of its head.
LEMMA CreateFirstStep ==
  ASSUME KInv, NEW k \in Kthd, NEW t \in Thread, CreateFirst(k, t)
  PROVE  KInv'
<1> USE DEF KInv, CreateFirst, KMake, Make, Become, In
<1> DEFINE h == lwt_head
<1>1. at[k] = "first" /\ curr = k /\ status[t] = FREE /\ list' = Placed(t) /\ lwt_head' = h
  OBVIOUS
<1>2. Mine(k) = {h} /\ h \in Thread /\ tid[h] = k /\ status[h] = ACTIVE /\ h # t
  <2>1. Mine(k) = {h}
    BY <1>1 DEF LwtsInv
  <2>2. h \in Thread /\ tid[h] = k
    BY <2>1 DEF Mine
  <2>3. status[h] = ACTIVE
    BY <2>2, LwtAssumption DEF LwtsInv, HeadInv
  <2> QED BY <1>1, <2>1, <2>2, <2>3 DEF ACTIVE, FREE
<1>3. /\ status' = [status EXCEPT ![t] = ACTIVE] /\ tid' = [tid EXCEPT ![t] = k]
      /\ \A j \in Kthd : /\ at'[j] = IF j = k THEN "enter" ELSE at[j]
                         /\ head'[j] = IF j = k THEN h ELSE head[j]
      /\ \A o \in Thread : /\ status'[o] = IF o = t THEN ACTIVE ELSE status[o]
                           /\ tid'[o] = IF o = t THEN k ELSE tid[o]
  BY <1>2 DEF KthdTypeOK
<1>4. \A j \in Kthd : j # k => at[j] \notin {"first", "ring", "count", "block"}
  BY <1>1 DEF QueueInv
<1>5. /\ LinkInv'
      /\ \A j \in Kthd : Mine(j)' = IF j = k THEN Mine(k) \cup {t} ELSE Mine(j)
      /\ \A j \in Kthd : OneRing(list', Mine(j)')
  <2>1. KthdTypeOK /\ LwtsInv /\ lwt_head \in Mine(k)
    BY <1>2
  <2> QED BY <1>1, <1>3, <2>1, MakeRings
<1>6. BuffersOK' /\ ReceiveInv' /\ TransitInv'
  <2>1. call[t] = NULL /\ \A c \in Chan : rcv_thd[c] # t
    BY <1>1, LwtAssumption DEF ReceiveInv, Up, ACTIVE, WAITING, FREE
  <2>2. \A o \in Thread : status'[o] # status[o] =>
           /\ call[o] = NULL /\ \A c \in Chan : rcv_thd[c] # o
           /\ status'[o] # WAITING /\ status[o] # BLOCKED
    BY <1>1, <1>3, <2>1 DEF ACTIVE, BLOCKED, WAITING, FREE
  <2>3. \A j \in Kthd : head'[j] = head[j] \/ status[head'[j]] = ACTIVE
    BY <1>2, <1>3
  <2> QED BY <2>2, <2>3, SameChannels DEF chanvars
<1>7. HeadInv' /\ \A o \in Thread : status'[o] # FREE => tid'[o] \in Kthd
  BY <1>1, <1>2, <1>3 DEF LwtsInv, HeadInv
<1>8. ASSUME NEW j \in Kthd
      PROVE  /\ at'[j] \in {"none", "init"} => Mine(j)' = {}
             /\ at'[j] = "first" => Mine(j)' = {lwt_head'}
             /\ at'[j] = "ring" => lwt_head' \in Mine(j)'
             /\ head'[j] = NULL <=> at'[j] \in {"none", "init", "first"}
             /\ head'[j] # NULL => head'[j] \in Mine(j)' /\ status'[head'[j]] = ACTIVE
  <2>1. /\ at[j] \in {"none", "init"} => Mine(j) = {}
        /\ head[j] = NULL <=> at[j] \in {"none", "init", "first"}
        /\ head[j] # NULL => head[j] \in Mine(j) /\ status[head[j]] = ACTIVE /\ head[j] \in Thread
    BY DEF LwtsInv, Mine
  <2> HIDE DEF Mine
  <2>2. head[j] # NULL => status'[head[j]] = ACTIVE
    BY <1>3, <2>1
  <2>3. CASE j = k
    <3>1. h # NULL /\ h \in Mine(k)' /\ status'[h] = ACTIVE
      BY <1>2, <1>3, <1>5, LwtAssumption
    <3> QED BY <1>3, <2>3, <3>1
  <2>4. CASE j # k
    BY <1>3, <1>4, <1>5, <2>1, <2>2, <2>4
  <2> QED BY <2>3, <2>4
<1>9. LwtsInv'
  BY <1>5, <1>7, <1>8 DEF LwtsInv
<1>10. QueueInv'
  BY <1>1, <1>3 DEF QueueInv
<1>11. KthdTypeOK'
  BY <1>1, <1>2, <1>3 DEF KthdTypeOK, Places, chanvars
<1>12. ASSUME NEW j \in Kthd, Asleep(j)', NEW o \in Mine(j)', status'[o] = ACTIVE PROVE o = head'[j]
  <2>1. Asleep(j) /\ j # k
    BY <1>1, <1>3, <1>12 DEF Asleep, QueueInv
  <2>2. o \in Mine(j) /\ o # t /\ head'[j] = head[j]
    BY <1>1, <1>3, <1>5, <1>12, <2>1 DEF Mine
  <2>3. status[o] = ACTIVE
    BY <1>3, <1>12, <2>2 DEF Mine
  <2> QED BY <2>1, <2>2, <2>3 DEF SleepInv
<1>13. SleepInv'
  BY <1>12 DEF SleepInv
<1> QED BY <1>6, <1>9, <1>10, <1>11, <1>13

-----------------------------------------------------------------------------
(* Sending *)

\* Messages of different calls or of none are told apart.
LEMMA CallIs ==
  ASSUME NEW c \in Chan, NEW v \in Data
  PROVE  /\ SndCall(c, v) \in SndCalls /\ RcvCall(c) \in RcvCalls
         /\ SndCall(c, v) # NULL /\ RcvCall(c) # NULL
         /\ \A d, w : SndCall(c, v) = SndCall(d, w) <=> c = d /\ v = w
         /\ \A d : RcvCall(c) = RcvCall(d) <=> c = d
         /\ \A d, w : RcvCall(d) # SndCall(c, v) /\ RcvCall(c) # SndCall(d, w)
<1>1. /\ \A d, w : SndCall(d, w).op = "lwt_snd" /\ SndCall(d, w).chan = d /\ SndCall(d, w).data = w
      /\ \A d : RcvCall(d).op = "lwt_rcv" /\ RcvCall(d).chan = d
  BY DEF SndCall, RcvCall
<1>2. "lwt_snd" # "lwt_rcv"
  OBVIOUS
<1> QED BY <1>1, <1>2, CallsApart

\* An lwt is in transit when another sends it or it is a message.
LEMMA InTransitIs ==
  /\ InTransit = {t \in Thread : (\E u \in Thread : Sending(u, t))
                                  \/ \E c \in ThdChan : t \in ToSet(Messages(c))}
  /\ InTransit' = {t \in Thread : (\E u \in Thread : Sending(u, t)')
                                  \/ \E c \in ThdChan : t \in ToSet(Messages(c)')}
<1>1. InTransit = {t \in Thread : (\E u \in Thread : Sending(u, t))
                                  \/ \E c \in ThdChan : t \in ToSet(Messages(c))}
  BY DEF InTransit, Sending
<1>2. InTransit' = {t \in Thread : (\E u \in Thread : Sending(u, t)')
                                  \/ \E c \in ThdChan : t \in ToSet(Messages(c)')}
  BY DEF InTransit, Sending
<1> QED BY <1>1, <1>2

\* An lwt in transit stays there, or is received by the lwt that runs, and goes on in
\* its kernel thread.
StaysOrArrives ==
  \A t \in InTransit :
    t \in InTransit' \/ (lwt_head' = lwt_head /\ t # lwt_head /\ tid'[t] = tid'[lwt_head])

\* It stays while calls that send go on and messages are only added.
LEMMA StaysInTransit ==
  ASSUME \A u \in Thread : call[u] \in SndCalls => call'[u] = call[u],
         \A d \in ThdChan : ToSet(Messages(d)) \subseteq ToSet(Messages(d)')
  PROVE  StaysOrArrives
<1>1. \A u, t \in Thread : Sending(u, t) => Sending(u, t)'
  <2>1. \A c \in ThdChan, t \in Thread : SndCall(c, t) \in SndCalls
    BY KthdAssumption, CallsApart
  <2> QED BY <2>1 DEF Sending
<1> QED BY <1>1, InTransitIs DEF StaysOrArrives

LEMMA ChannelsStill ==
  ASSUME UNCHANGED <<call, data_buffer, snd_thds>>
  PROVE  StaysOrArrives
<1>1. \A d \in ThdChan : Messages(d)' = Messages(d)
  BY SameMessages, KthdAssumption
<1> QED BY <1>1, StaysInTransit

\* What lwt_snd and lwt_snd_thd have made sure of when they test their condition; st
\* are the statuses then.
Sendable(st, c, v) ==
  /\ c \in Chan /\ v \in Data /\ rcv_thd[c] # NULL
  /\ call[lwt_head] \in {NULL, SndCall(c, v)}
  /\ st \in [Thread -> {ACTIVE, BLOCKED, WAITING, FREE}]
  /\ IF c \notin ThdChan THEN st = status
     ELSE /\ v \in Thread \ {lwt_head} /\ status[v] \in {ACTIVE, BLOCKED}
          /\ st[v] = BLOCKED /\ call[v] = NULL
          /\ \A o \in Thread \ {v} : st[o] = status[o]
          /\ \A k \in Kthd : head[k] # v
          /\ \A d \in Chan : rcv_thd[d] # v
          /\ \A u \in Thread \ {lwt_head} : ~Sending(u, v)
          /\ \A d \in ThdChan : v \notin ToSet(Messages(d))

\* They are what differs from the statuses before the call.
LEMMA SendStatus ==
  ASSUME KInv, InLwt, NEW st, NEW c, NEW v, Sendable(st, c, v)
  PROVE  /\ st[lwt_head] = ACTIVE /\ st[head[curr]] = ACTIVE
         /\ \A d \in Chan : rcv_thd[d] # NULL =>
              rcv_thd[d] \in Thread /\ st[rcv_thd[d]] = status[rcv_thd[d]]
         /\ \A o \in Thread : st[o] # status[o] =>
              /\ c \in ThdChan /\ o = v /\ status[o] = ACTIVE /\ st[o] = BLOCKED
              /\ call[o] = NULL
              /\ \A k \in Kthd : head[k] # o
              /\ \A d \in Chan : rcv_thd[d] # o
<1>1. lwt_head \in Thread /\ status[lwt_head] = ACTIVE /\ curr \in Kthd
      /\ head[curr] \in Thread /\ status[head[curr]] = ACTIVE
  BY Running
<1>2. \A o \in Thread : st[o] # status[o] =>
              /\ c \in ThdChan /\ o = v /\ status[o] = ACTIVE /\ st[o] = BLOCKED
              /\ call[o] = NULL
              /\ \A k \in Kthd : head[k] # o
              /\ \A d \in Chan : rcv_thd[d] # o
  BY DEF Sendable
<1>3. st[lwt_head] = ACTIVE
  BY <1>1 DEF Sendable
<1>4. st[head[curr]] = ACTIVE
  BY <1>1, <1>2
<1>5. \A d \in Chan : rcv_thd[d] # NULL =>
              rcv_thd[d] \in Thread /\ st[rcv_thd[d]] = status[rcv_thd[d]]
  BY <1>2 DEF KInv, KthdTypeOK
<1> QED BY <1>2, <1>3, <1>4, <1>5

\* The call goes around its loop: the scheduler runs.
LEMMA SpinStep ==
  ASSUME KInv, InLwt, NEW st, NEW c, NEW v, Sendable(st, c, v), SndSpins(st, c, v),
         UNCHANGED kvars
  PROVE  KInv' /\ StaysOrArrives
<1> USE DEF KInv, SndSpins, kvars, slvars, joinvars
<1> DEFINE me == lwt_head
<1>1. /\ me \in Thread /\ status[me] = ACTIVE /\ curr \in Kthd /\ call[me] \in {NULL, SndCall(c, v)}
      /\ c \in Chan /\ v \in Data /\ rcv_thd[c] # NULL
  BY Running DEF Sendable
<1>2. /\ status' = st /\ status' \in [Thread -> {ACTIVE, BLOCKED, WAITING, FREE}]
      /\ \A t \in Thread : call'[t] = IF t = me THEN SndCall(c, v) ELSE call[t]
  BY DEF KthdTypeOK, Sendable
<1>3. \A o \in Thread : status'[o] # status[o] =>
              /\ c \in ThdChan /\ o = v /\ status[o] = ACTIVE /\ status'[o] = BLOCKED
              /\ call[o] = NULL
              /\ \A k \in Kthd : head[k] # o
              /\ \A d \in Chan : rcv_thd[d] # o
  BY <1>2, SendStatus
<1>4. lwt_head' \in Mine(curr) /\ status'[lwt_head'] = ACTIVE
  BY <1>2, SendStatus, NextInRing
<1>5. LwtsInv'
  BY <1>3, <1>4, SameRings DEF ACTIVE, BLOCKED, FREE
<1>6. BuffersOK'
  BY DEF BuffersOK, MessageInv, HoldsMessage
<1>7. \A d \in Chan : IsEmpty(d)' = IsEmpty(d) /\ Messages(d)' = Messages(d)
  BY SameMessages DEF IsEmpty
<1>8. ReceiveInv'
  <2>1. \A d \in Chan : rcv_thd[d] # NULL => rcv_thd[d] \in Thread /\ status'[rcv_thd[d]] = status[rcv_thd[d]]
    BY <1>2, SendStatus
  <2>2. \A d \in Chan : IF rcv_thd'[d] = NULL THEN IsEmpty(d)' ELSE status'[rcv_thd'[d]] \in Up
    BY <1>7, <2>1 DEF ReceiveInv
  <2>3. ASSUME NEW t \in Thread
        PROVE  /\ call'[t] # NULL => status'[t] \in Up
               /\ \A d \in Chan, w \in Data : call'[t] = SndCall(d, w) => rcv_thd'[d] # NULL
               /\ \A d \in Chan : call'[t] = RcvCall(d) => WaitsForOne(t, d)'
               /\ status'[t] = WAITING => \E d \in Chan : call'[t] = RcvCall(d) /\ IsEmpty(d)'
    <3>1. CASE t = me
      <4>1. status'[t] = ACTIVE /\ call'[t] = SndCall(c, v)
        BY <1>1, <1>2, <3>1, SendStatus
      <4>2. \A d \in Chan, w \in Data : call'[t] = SndCall(d, w) => d = c
        <5>1. \A d, w : SndCall(c, v) = SndCall(d, w) => c = d
          BY <1>1, CallIs
        <5> QED BY <4>1, <5>1
      <4>3. \A d \in Chan : call'[t] # RcvCall(d)
        BY <1>1, <4>1, CallIs
      <4> QED BY <1>1, <4>1, <4>2, <4>3 DEF Up, ACTIVE, WAITING
    <3>2. CASE t # me
      <4>1. call'[t] = call[t] /\ (call[t] # NULL => status'[t] = status[t])
        BY <1>2, <1>3, <3>2
      <4>2. status'[t] = WAITING => status[t] = WAITING
        BY <1>3 DEF BLOCKED, WAITING
      <4>3. \A d \in Chan : WaitsForOne(t, d)' = WaitsForOne(t, d)
        BY DEF WaitsForOne
      <4> QED BY <1>7, <4>1, <4>2, <4>3 DEF ReceiveInv
    <3> QED BY <3>1, <3>2
  <2> QED BY <2>2, <2>3 DEF ReceiveInv
<1>9. TransitInv'
  <2>0. ThdChan \subseteq Chan
    BY KthdAssumption
  <2>1. \A u, t \in Thread : Sending(u, t)' <=> IF u = me THEN c \in ThdChan /\ t = v ELSE Sending(u, t)
    BY <1>1, <1>2, CallIs DEF Sending
  <2>2. c \in ThdChan =>
          /\ v \in Thread \ {me} /\ status'[v] = BLOCKED /\ call[v] = NULL
          /\ \A k \in Kthd : head[k] # v
          /\ \A d \in Chan : rcv_thd[d] # v
          /\ \A u \in Thread \ {me} : ~Sending(u, v)
          /\ \A d \in ThdChan : v \notin ToSet(Messages(d))
    BY <1>2 DEF Sendable
  <2>3. \A d \in ThdChan : Messages(d)' \in Seq(Thread)
    BY <1>7, <2>0 DEF TransitInv
  <2>4. \A d \in ThdChan, w \in Data, u \in Thread : call'[u] = SndCall(d, w) => w \in Thread
    BY <1>1, <1>2, <2>2, CallIs DEF TransitInv
  <2>5. OnePlace'
    <3>1. \A t, u, w \in Thread : Sending(u, t)' /\ Sending(w, t)' => u = w
      BY <2>1, <2>2 DEF TransitInv, OnePlace
    <3>2. \A t, u \in Thread, d \in ThdChan : Sending(u, t)' => t \notin ToSet(Messages(d)')
      BY <1>7, <2>0, <2>1, <2>2 DEF TransitInv, OnePlace
    <3>3. /\ \A d \in ThdChan : IsInjective(Messages(d)')
          /\ \A d, e \in ThdChan : d # e => ToSet(Messages(d)') \cap ToSet(Messages(e)') = {}
      BY <1>7, <2>0 DEF TransitInv, OnePlace
    <3> QED BY <3>1, <3>2, <3>3 DEF OnePlace
  <2>6. ASSUME NEW t \in InTransit' PROVE Still(t)'
    <3>1. t \in Thread /\ ((c \in ThdChan /\ t = v) \/ t \in InTransit)
      BY <1>7, <2>0, <2>1, InTransitIs
    <3>2. CASE c \in ThdChan /\ t = v
      BY <1>2, <2>2, <3>1, <3>2 DEF Still
    <3>3. CASE t \in InTransit
      <4>1. Still(t)
        BY <3>3 DEF TransitInv
      <4>2. t # me
        BY <1>1, <4>1 DEF Still, ACTIVE, BLOCKED
      <4>3. status'[t] = BLOCKED /\ call'[t] = NULL
        BY <1>2, <1>3, <3>1, <4>1, <4>2 DEF Still, ACTIVE, BLOCKED
      <4> QED BY <4>1, <4>3 DEF Still
    <3> QED BY <3>1, <3>2, <3>3
  <2> QED BY <2>3, <2>4, <2>5, <2>6 DEF TransitInv
<1>10. Frame /\ KthdVarsOK'
  <2>1. lwt_head' \in Thread
    BY <1>4 DEF Mine
  <2>2. call' \in [Thread -> SndCalls \cup RcvCalls \cup {NULL}]
    BY <1>1, CallIs DEF KthdTypeOK
  <2> QED BY <1>2, <2>1, <2>2 DEF Frame, KthdVarsOK, KthdTypeOK
<1>11. \A t \in Thread : status'[t] = ACTIVE => status[t] = ACTIVE /\ tid'[t] = tid[t]
  BY <1>3 DEF ACTIVE, BLOCKED
<1>12. StaysOrArrives
  <2>1. \A u \in Thread : call[u] \in SndCalls => call'[u] = call[u]
    BY <1>1, <1>2, CallsApart
  <2>2. \A d \in ThdChan : Messages(d)' = Messages(d)
    BY <1>7, KthdAssumption
  <2> QED BY <2>1, <2>2, StaysInTransit
<1>13. KInv'
  BY <1>5, <1>6, <1>8, <1>9, <1>10, <1>11, LwtTogether
<1> QED BY <1>12, <1>13

\* A sender that does not have to wait has room: the receiver of an unbuffered channel
\* is out of the ready lwts only while it waits for this one, which is empty.
LEMMA RoomToSendLwt ==
  ASSUME KInv, InLwt, NEW st, NEW c, NEW v, Sendable(st, c, v), ~SndMustWait(st, c)
  PROVE  Room(c)
<1>1. c \in Chan /\ rcv_thd[c] # NULL
  BY DEF Sendable
<1>2. CASE ~Unbuffered(c)
  BY <1>1, <1>2 DEF Room, SndMustWait
<1>3. CASE Unbuffered(c)
  <2> DEFINE r == rcv_thd[c]
  <2>1. r \in Thread /\ st[r] = status[r]
    BY <1>1, SendStatus
  <2>2. status[r] = WAITING
    <3>1. status[r] \in Up
      BY <1>1 DEF KInv, ReceiveInv
    <3> QED BY <1>3, <2>1, <3>1 DEF Up, SndMustWait
  <2>3. PICK d \in Chan : call[r] = RcvCall(d) /\ IsEmpty(d)
    BY <2>1, <2>2 DEF KInv, ReceiveInv
  <2>4. WaitsForOne(r, d)
    BY <2>1, <2>3 DEF KInv, ReceiveInv
  <2>5. d = c
    BY <1>1, <1>3, <2>4 DEF WaitsForOne
  <2> QED BY <1>1, <1>3, <2>3, <2>5 DEF Room
<1> QED BY <1>2, <1>3

\* The message is there, the receiver runs and so does its kernel thread.
LEMMA SendStep ==
  ASSUME KInv, InLwt, NEW st, NEW c, NEW v, Sendable(st, c, v), SndDone(st, c, v),
         KernelWake(tid[rcv_thd[c]]), UNCHANGED <<curr, owner, at, head, tid>>
  PROVE  KInv' /\ StaysOrArrives
<1> USE DEF KInv
<1> DEFINE me == lwt_head
           r == rcv_thd[c]
<1>1. /\ me \in Thread /\ status[me] = ACTIVE /\ curr \in Kthd /\ me \in Mine(curr)
      /\ call[me] \in {NULL, SndCall(c, v)} /\ c \in Chan /\ v \in Data /\ r \in Thread
      /\ r # NULL /\ status[r] \in Up /\ tid[r] \in Kthd
  <2>1. r \in Thread /\ r # NULL /\ c \in Chan
    BY DEF Sendable, KthdTypeOK
  <2>2. status[r] \in Up
    BY <2>1 DEF ReceiveInv
  <2>3. tid[r] \in Kthd
    BY <2>1, <2>2 DEF LwtsInv, Up, ACTIVE, WAITING, FREE
  <2> QED BY <2>1, <2>2, <2>3, Running DEF Sendable
<1>2. /\ ~SndMustWait(st, c) /\ Enqueue(c, v) /\ status' = [st EXCEPT ![r] = ACTIVE]
      /\ call' = [call EXCEPT ![me] = NULL]
      /\ lwt_head' = me /\ rcv_thd' = rcv_thd /\ cgrp' = cgrp /\ list' = list
  BY DEF SndDone, ReceiverWoken, joinvars
<1>3. /\ status' \in [Thread -> {ACTIVE, BLOCKED, WAITING, FREE}]
      /\ call' \in [Thread -> SndCalls \cup RcvCalls \cup {NULL}]
      /\ \A t \in Thread : /\ status'[t] = IF t = r THEN ACTIVE ELSE st[t]
                           /\ call'[t] = IF t = me THEN NULL ELSE call[t]
  BY <1>1, <1>2 DEF KthdTypeOK, Sendable
<1>4. \A o \in Thread : o # r /\ status'[o] # status[o] =>
              /\ c \in ThdChan /\ o = v /\ status[o] = ACTIVE /\ status'[o] = BLOCKED
              /\ call[o] = NULL
              /\ \A k \in Kthd : head[k] # o
              /\ \A d \in Chan : rcv_thd[d] # o
  BY <1>3, SendStatus
<1>5. status'[r] = ACTIVE /\ status'[me] = ACTIVE
  BY <1>1, <1>3, SendStatus
<1>6. LwtsInv'
  <2>1. \A o \in Thread : status'[o] = FREE <=> status[o] = FREE
    BY <1>1, <1>4, <1>5 DEF Up, ACTIVE, BLOCKED, WAITING, FREE
  <2>2. \A o \in Thread : status'[o] # status[o] => status'[o] = ACTIVE \/ \A k \in Kthd : head[k] # o
    BY <1>4, <1>5
  <2> QED BY <1>1, <1>2, <1>5, <2>1, <2>2, SameRings
<1>7. Room(c) /\ BuffersOK
  BY <1>2, RoomToSendLwt
<1>8. /\ BuffersOK'
      /\ \A d \in Chan : IsEmpty(d)' <=> (IsEmpty(d) /\ d # c)
      /\ Messages(c)' = Append(Messages(c), v)
      /\ \A d \in Chan \ {c} : Messages(d)' = Messages(d)
  <2>1. /\ \A d \in Chan : data_buffer'[d] \in Buffer(d) /\ snd_thds'[d] \in Nodes
        /\ MessageInv'
        /\ \A d \in Chan : IsEmpty(d)' <=> (IsEmpty(d) /\ d # c)
    BY <1>1, <1>2, <1>7, EnqueueOK
  <2>2. /\ Messages(c)' = Append(Messages(c), v)
        /\ \A d \in Chan \ {c} : Messages(d)' = Messages(d)
    BY <1>1, <1>2, <1>7, EnqueueAppends
  <2>3. BuffersOK'
    BY <2>1 DEF BuffersOK, Buffer, Nodes, Slots
  <2> QED BY <2>1, <2>2, <2>3
<1>9. ReceiveInv'
  <2>1. \A d \in Chan : rcv_thd[d] # NULL => rcv_thd[d] \in Thread /\ status[rcv_thd[d]] \in Up
    BY DEF KthdTypeOK, ReceiveInv
  <2>2. \A d \in Chan : rcv_thd[d] # NULL => status'[rcv_thd[d]] \in Up
    BY <1>4, <1>5, <2>1 DEF Up
  <2>3. \A d \in Chan : IF rcv_thd'[d] = NULL THEN IsEmpty(d)' ELSE status'[rcv_thd'[d]] \in Up
    BY <1>1, <1>2, <1>8, <2>2 DEF ReceiveInv
  <2>4. ASSUME NEW t \in Thread
        PROVE  /\ call'[t] # NULL => status'[t] \in Up
               /\ \A d \in Chan, w \in Data : call'[t] = SndCall(d, w) => rcv_thd'[d] # NULL
               /\ \A d \in Chan : call'[t] = RcvCall(d) => WaitsForOne(t, d)'
               /\ status'[t] = WAITING => \E d \in Chan : call'[t] = RcvCall(d) /\ IsEmpty(d)'
    <3>1. CASE t = me
      <4>1. call'[t] = NULL /\ status'[t] = ACTIVE
        BY <1>3, <1>5, <3>1
      <4>2. \A d \in Chan : NULL # RcvCall(d) /\ \A w \in Data : NULL # SndCall(d, w)
        BY CallsApart
      <4> QED BY <4>1, <4>2 DEF ACTIVE, WAITING
    <3>2. CASE t # me
      <4>1. call'[t] = call[t]
        BY <1>3, <3>2
      <4>2. call[t] # NULL => status'[t] \in Up
        BY <1>4, <1>5, <3>2 DEF ReceiveInv, Up
      <4>3. \A d \in Chan : WaitsForOne(t, d)' = WaitsForOne(t, d)
        BY <1>2 DEF WaitsForOne
      <4>4. ASSUME status'[t] = WAITING PROVE \E d \in Chan : call[t] = RcvCall(d) /\ IsEmpty(d)'
        <5>1. t # r /\ status[t] = WAITING
          BY <1>4, <1>5, <4>4 DEF ACTIVE, BLOCKED, WAITING
        <5>2. PICK d \in Chan : call[t] = RcvCall(d) /\ IsEmpty(d)
          BY <5>1 DEF ReceiveInv
        <5>3. rcv_thd[d] = t
          BY <5>2 DEF ReceiveInv, WaitsForOne
        <5> QED BY <1>8, <5>1, <5>2, <5>3
      <4> QED BY <1>2, <4>1, <4>2, <4>3, <4>4 DEF ReceiveInv
    <3> QED BY <3>1, <3>2
  <2> QED BY <2>3, <2>4 DEF ReceiveInv
<1>10. TransitInv'
  <2>0. ThdChan \subseteq Chan
    BY KthdAssumption
  <2>1. \A u, t \in Thread : Sending(u, t)' <=> u # me /\ Sending(u, t)
    BY <1>3, <2>0, CallIs, KthdAssumption DEF Sending
  <2>2. c \in ThdChan =>
          /\ v \in Thread \ {me} /\ status'[v] = BLOCKED /\ call[v] = NULL
          /\ \A k \in Kthd : head[k] # v
          /\ \A d \in Chan : rcv_thd[d] # v
          /\ \A u \in Thread \ {me} : ~Sending(u, v)
          /\ \A d \in ThdChan : v \notin ToSet(Messages(d))
    BY <1>1, <1>3 DEF Sendable
  <2>3. c \in ThdChan =>
          /\ Messages(c)' \in Seq(Thread) /\ ToSet(Messages(c)') = ToSet(Messages(c)) \cup {v}
          /\ IsInjective(Messages(c)')
    <3>1. ASSUME c \in ThdChan
          PROVE  /\ Messages(c) \in Seq(Thread) /\ v \in Thread /\ v \notin ToSet(Messages(c))
                 /\ IsInjective(Messages(c))
      BY <2>2, <3>1 DEF TransitInv, OnePlace
    <3> QED BY <1>8, <3>1, QueueAppend
  <2>4. \A d \in ThdChan : Messages(d)' \in Seq(Thread)
    <3>1. \A d \in ThdChan : Messages(d) \in Seq(Thread)
      BY DEF TransitInv
    <3> QED BY <1>8, <2>0, <2>3, <3>1
  <2>5. \A d \in ThdChan, w \in Data, u \in Thread : call'[u] = SndCall(d, w) => w \in Thread
    <3>1. \A d \in ThdChan, w \in Data, u \in Thread : call[u] = SndCall(d, w) => w \in Thread
      BY DEF TransitInv
    <3>2. \A d \in ThdChan, w \in Data : SndCall(d, w) # NULL
      BY <2>0, CallIs
    <3> QED BY <1>3, <3>1, <3>2
  <2>6. \A d \in ThdChan : ToSet(Messages(d)') = IF d = c THEN ToSet(Messages(c)) \cup {v} ELSE ToSet(Messages(d))
    BY <1>8, <2>0, <2>3
  <2>7. OnePlace'
    <3>1. \A t, u, w \in Thread : Sending(u, t)' /\ Sending(w, t)' => u = w
      BY <2>1 DEF TransitInv, OnePlace
    <3>2. \A t, u \in Thread, d \in ThdChan : Sending(u, t)' => t \notin ToSet(Messages(d)')
      BY <2>1, <2>2, <2>6 DEF TransitInv, OnePlace
    <3>3. \A d \in ThdChan : IsInjective(Messages(d)')
      BY <1>8, <2>0, <2>3 DEF TransitInv, OnePlace
    <3>4. \A d, e \in ThdChan : d # e => ToSet(Messages(d)') \cap ToSet(Messages(e)') = {}
      BY <2>2, <2>6 DEF TransitInv, OnePlace
    <3> QED BY <3>1, <3>2, <3>3, <3>4 DEF OnePlace
  <2>8. ASSUME NEW t \in InTransit' PROVE Still(t)'
    <3>1. t \in Thread /\ ((c \in ThdChan /\ t = v) \/ t \in InTransit)
      BY <2>1, <2>6, InTransitIs
    <3>2. CASE c \in ThdChan /\ t = v
      BY <1>1, <1>2, <1>3, <2>2, <3>1, <3>2 DEF Still
    <3>3. CASE t \in InTransit
      <4>1. Still(t)
        BY <3>3 DEF TransitInv
      <4>2. t # me /\ t # r
        BY <1>1, <4>1 DEF Still, ACTIVE, BLOCKED
      <4>3. status'[t] = BLOCKED /\ call'[t] = NULL
        BY <1>3, <1>4, <3>1, <4>1, <4>2 DEF Still, ACTIVE, BLOCKED
      <4> QED BY <1>2, <4>1, <4>3 DEF Still
    <3> QED BY <3>1, <3>2, <3>3
  <2> QED BY <2>4, <2>5, <2>7, <2>8 DEF TransitInv
<1>11. Frame /\ KthdVarsOK'
  BY <1>1, <1>2, <1>3 DEF Frame, KthdVarsOK, KthdTypeOK
<1>12. sl_state'[tid[r]] # "SL_THD_BLOCKED"
  BY <1>1 DEF KernelWake, KthdTypeOK
<1>13. \A t \in Thread : status'[t] = ACTIVE =>
         (status[t] = ACTIVE /\ tid'[t] = tid[t]) \/ sl_state'[tid'[t]] # "SL_THD_BLOCKED"
  BY <1>4, <1>12 DEF ACTIVE, BLOCKED
<1>14. KInv'
  BY <1>6, <1>8, <1>9, <1>10, <1>11, <1>13, LwtTogether
<1>15. ASSUME NEW t \in InTransit PROVE t \in InTransit'
  <2>0. ThdChan \subseteq Chan /\ t \in Thread
    BY <1>15, KthdAssumption, InTransitIs
  <2>1. CASE \E d \in ThdChan : t \in ToSet(Messages(d))
    <3>1. PICK d \in ThdChan : t \in ToSet(Messages(d))
      BY <2>1
    <3>2. t \in ToSet(Messages(d)')
      <4>1. CASE d # c
        BY <1>8, <2>0, <3>1, <4>1
      <4>2. CASE d = c
        <5>1. Messages(c) \in Seq(Thread) /\ v \in Thread /\ Messages(c)' = Append(Messages(c), v)
          BY <1>8, <4>2 DEF TransitInv, Sendable
        <5>2. \A q \in Seq(Thread) : ToSet(Append(q, v)) = ToSet(q) \cup {v}
          BY <5>1, QueueAppend
        <5> QED BY <3>1, <4>2, <5>1, <5>2
      <4> QED BY <4>1, <4>2
    <3> QED BY <2>0, <3>2, InTransitIs
  <2>2. CASE \E u \in Thread \ {me} : Sending(u, t)
    <3>1. PICK u \in Thread \ {me} : Sending(u, t)
      BY <2>2
    <3>2. Sending(u, t)'
      BY <1>3, <3>1 DEF Sending
    <3> QED BY <2>0, <3>2, InTransitIs
  <2>3. CASE Sending(me, t)
    <3>1. PICK d \in ThdChan : call[me] = SndCall(d, t)
      BY <2>3 DEF Sending
    <3>2. d = c /\ t = v
      <4>1. SndCall(d, t) # NULL /\ (SndCall(c, v) = SndCall(d, t) => c = d /\ v = t)
        BY <1>1, <2>0, CallIs, KthdAssumption
      <4> QED BY <1>1, <3>1, <4>1
    <3>3. Messages(c) \in Seq(Thread) /\ v \in Thread /\ Messages(c)' = Append(Messages(c), v)
      BY <1>8, <2>0, <3>2 DEF TransitInv
    <3>4. \A q \in Seq(Thread) : ToSet(Append(q, v)) = ToSet(q) \cup {v}
      BY <3>3, QueueAppend
    <3>5. t \in ToSet(Messages(c)')
      BY <3>2, <3>3, <3>4
    <3> QED BY <2>0, <3>2, <3>5, InTransitIs
  <2> QED BY <1>15, <2>1, <2>2, <2>3, InTransitIs
<1> QED BY <1>14, <1>15 DEF StaysOrArrives

\* What happens to the channels: a message is put, with room for it, or taken, or they
\* are left alone.
Puts(c, v) ==
  /\ Room(c) /\ lwt_head \in Thread
  /\ Enqueue(c, v)
  /\ UNCHANGED <<rcv_thd, received>>
TakesOne(c) ==
  /\ rcv_thd[c] # NULL /\ rcv_thd' = rcv_thd
  /\ RcvTakes(c)
ChannelStep ==
  \/ \E c \in Chan, v \in Data : Puts(c, v)
  \/ \E c \in Chan : TakesOne(c)
  \/ UNCHANGED <<data_buffer, snd_thds, received>>

LEMMA SendKind ==
  ASSUME KInv, InLwt, NEW st, NEW c, NEW v, Sendable(st, c, v),
         SndSpins(st, c, v) \/ SndDone(st, c, v)
  PROVE  ChannelStep
<1>1. CASE SndSpins(st, c, v)
  BY <1>1 DEF SndSpins, ChannelStep
<1>2. CASE SndDone(st, c, v)
  <2>1. Room(c) /\ lwt_head \in Thread /\ c \in Chan /\ v \in Data
    BY <1>2, RoomToSendLwt, Running DEF SndDone, Sendable
  <2>2. Puts(c, v)
    BY <1>2, <2>1 DEF SndDone, Puts
  <2> QED BY <2>1, <2>2 DEF ChannelStep
<1> QED BY <1>1, <1>2

\* lwt_snd and lwt_snd_thd, called and resumed.
LEMMA Sent ==
  ASSUME KInv, InLwt, NEW st, NEW c, NEW v, Sendable(st, c, v),
         SndSpins(st, c, v) \/ SndDone(st, c, v), WakeAfter(st, c)
  PROVE  KInv' /\ StaysOrArrives /\ ChannelStep
<1>1. CASE SndSpins(st, c, v)
  <2>1. UNCHANGED kvars
    BY <1>1 DEF WakeAfter, SndSpins, kvars, slvars
  <2> QED BY <1>1, <2>1, SpinStep, SendKind
<1>2. CASE SndDone(st, c, v)
  <2>1. KernelWake(tid[rcv_thd[c]]) /\ UNCHANGED <<curr, owner, at, head, tid>>
    BY <1>2 DEF WakeAfter, SndDone
  <2> QED BY <1>2, <2>1, SendStep, SendKind
<1> QED BY <1>1, <1>2

LEMMA KSndStep ==
  ASSUME KInv, NEW c \in Chan \ ThdChan, NEW v \in Data, KSnd(c, v)
  PROVE  KInv' /\ StaysOrArrives /\ ChannelStep
<1>1. InLwt /\ WakeAfter(status, c) /\ (SndSpins(status, c, v) \/ SndDone(status, c, v))
  BY DEF KSnd, Snd, SndWith
<1>2. Sendable(status, c, v)
  BY DEF KSnd, Snd, SndWith, InOwnCode, Sendable, KInv, KthdTypeOK
<1> QED BY <1>1, <1>2, Sent

LEMMA SndThdStep ==
  ASSUME KInv, NEW c \in ThdChan, NEW t \in Thread, MaySend(t), SndThd(c, t)
  PROVE  KInv' /\ StaysOrArrives /\ ChannelStep
<1> DEFINE st == Departed(t)
<1>1. /\ InLwt /\ WakeAfter(st, c) /\ (SndSpins(st, c, t) \/ SndDone(st, c, t))
      /\ t # lwt_head /\ call[lwt_head] = NULL /\ rcv_thd[c] # NULL
  BY DEF SndThd, SndWith, InOwnCode
<1>2. status[t] = ACTIVE /\ call[t] = NULL /\ (\A d \in Chan : rcv_thd[d] # t) /\ t # head[tid[t]]
  BY DEF MaySend
<1>3. /\ st \in [Thread -> {ACTIVE, BLOCKED, WAITING, FREE}]
      /\ \A o \in Thread : st[o] = IF o = t THEN BLOCKED ELSE status[o]
  BY DEF Departed, KInv, KthdTypeOK
<1>4. \A k \in Kthd : head[k] # t
  <2>1. \A k \in Kthd : head[k] = t => tid[t] = k
    BY LwtAssumption DEF KInv, LwtsInv, Mine
  <2> QED BY <1>2, <2>1
<1>5. t \notin InTransit
  BY <1>2 DEF KInv, TransitInv, Still, ACTIVE, BLOCKED
<1>6. c \in Chan /\ t \in Data
  BY KthdAssumption
<1> HIDE DEF st
<1>7. (\A u \in Thread : ~Sending(u, t)) /\ \A d \in ThdChan : t \notin ToSet(Messages(d))
  BY <1>5, InTransitIs
<1>8. Sendable(st, c, t)
  BY <1>1, <1>2, <1>3, <1>4, <1>6, <1>7 DEF Sendable
<1> QED BY <1>1, <1>8, Sent

LEMMA KSndResumeStep ==
  ASSUME KInv, KSndResume
  PROVE  KInv' /\ StaysOrArrives /\ ChannelStep
<1> DEFINE s == call[lwt_head]
           c == s.chan
           v == s.data
<1>1. /\ InLwt /\ WakeAfter(status, c) /\ (SndSpins(status, c, v) \/ SndDone(status, c, v))
      /\ s \in SndCalls
  BY DEF KSndResume, SndResume, Within
<1>2. s = SndCall(c, v) /\ c \in Chan /\ v \in Data
  BY <1>1, CallsApart
<1>3. lwt_head \in Thread /\ status[lwt_head] = ACTIVE
  BY <1>1, Running
<1> HIDE DEF s, c, v
<1>4. rcv_thd[c] # NULL /\ status \in [Thread -> {ACTIVE, BLOCKED, WAITING, FREE}]
  BY <1>2, <1>3 DEF KInv, ReceiveInv, KthdTypeOK, s
<1>5. ASSUME c \in ThdChan
      PROVE  /\ v \in Thread \ {lwt_head} /\ status[v] = BLOCKED /\ call[v] = NULL
             /\ \A k \in Kthd : head[k] # v
             /\ \A d \in Chan : rcv_thd[d] # v
             /\ \A u \in Thread \ {lwt_head} : ~Sending(u, v)
             /\ \A d \in ThdChan : v \notin ToSet(Messages(d))
  <2>1. v \in Thread /\ Sending(lwt_head, v)
    BY <1>2, <1>3, <1>5 DEF KInv, TransitInv, Sending, s
  <2>2. v \in InTransit
    BY <1>3, <2>1, InTransitIs
  <2>3. Still(v)
    BY <2>2 DEF KInv, TransitInv
  <2>4. v # lwt_head
    BY <1>3, <2>3 DEF Still, ACTIVE, BLOCKED
  <2>5. /\ \A u \in Thread \ {lwt_head} : ~Sending(u, v)
        /\ \A d \in ThdChan : v \notin ToSet(Messages(d))
    BY <1>3, <2>1 DEF KInv, TransitInv, OnePlace
  <2> QED BY <2>1, <2>3, <2>4, <2>5 DEF Still
<1>6. Sendable(status, c, v)
  BY <1>2, <1>4, <1>5 DEF Sendable, s
<1> QED BY <1>1, <1>6, Sent

-----------------------------------------------------------------------------
(* Receiving *)

\* lwt_rcv, when the channel is empty: the lwt becomes its receiver and waits.
LEMMA RcvWaits ==
  ASSUME KInv, InLwt, NEW c \in Chan, MayTake(c), Rcv(c), IsEmpty(c), UNCHANGED kvars
  PROVE  KInv' /\ StaysOrArrives
<1> USE DEF KInv, kvars, slvars
<1> DEFINE me == lwt_head
<1>1. /\ me \in Thread /\ status[me] = ACTIVE /\ curr \in Kthd /\ call[me] = NULL
      /\ head[curr] \in Thread /\ head[curr] # me /\ status[head[curr]] = ACTIVE
      /\ \A k \in Kthd : head[k] # me
      /\ rcv_thd[c] \in {NULL, me} /\ \A d \in Chan \ {c} : rcv_thd[d] = me => ~Unbuffered(d)
  BY Running DEF Rcv, InOwnCode, MayTake, IsReceiver
<1>2. /\ rcv_thd' = [rcv_thd EXCEPT ![c] = me]
      /\ status' = [status EXCEPT ![me] = WAITING]
      /\ call' = [call EXCEPT ![me] = RcvCall(c)]
      /\ Schedule(status') /\ UNCHANGED <<list, data_buffer, snd_thds, cgrp>>
  BY DEF Rcv, RcvTakes, joinvars
<1>3. /\ status' \in [Thread -> {ACTIVE, BLOCKED, WAITING, FREE}]
      /\ \A t \in Thread : /\ status'[t] = IF t = me THEN WAITING ELSE status[t]
                           /\ call'[t] = IF t = me THEN RcvCall(c) ELSE call[t]
      /\ \A d \in Chan : rcv_thd'[d] = IF d = c THEN me ELSE rcv_thd[d]
  BY <1>1, <1>2 DEF KthdTypeOK
<1>4. status'[head[curr]] = ACTIVE
  BY <1>1, <1>3
<1>5. lwt_head' \in Mine(curr) /\ status'[lwt_head'] = ACTIVE
  <2> DEFINE st == [status EXCEPT ![me] = WAITING]
  <2>1. st[head[curr]] = ACTIVE /\ Schedule(st)
    BY <1>2, <1>4
  <2> HIDE DEF st
  <2>2. lwt_head' \in Mine(curr) /\ st[lwt_head'] = ACTIVE
    BY <2>1, NextInRing
  <2> QED BY <1>2, <2>2 DEF st
<1>6. LwtsInv'
  BY <1>1, <1>2, <1>3, <1>5, SameRings DEF ACTIVE, WAITING, FREE
<1>7. \A d \in Chan : IsEmpty(d)' = IsEmpty(d) /\ Messages(d)' = Messages(d)
  BY <1>2, SameMessages DEF IsEmpty
<1>8. BuffersOK'
  BY <1>1, <1>2, <1>3, LwtAssumption DEF BuffersOK, MessageInv, HoldsMessage
<1>9. ReceiveInv'
  <2>1. \A d \in Chan : rcv_thd[d] # NULL => rcv_thd[d] \in Thread /\ status[rcv_thd[d]] \in Up
    BY DEF KthdTypeOK, ReceiveInv
  <2>2. \A d \in Chan : IF rcv_thd'[d] = NULL THEN IsEmpty(d)' ELSE status'[rcv_thd'[d]] \in Up
    BY <1>1, <1>3, <1>7, <2>1 DEF ReceiveInv, Up
  <2>3. ASSUME NEW t \in Thread
        PROVE  /\ call'[t] # NULL => status'[t] \in Up
               /\ \A d \in Chan, w \in Data : call'[t] = SndCall(d, w) => rcv_thd'[d] # NULL
               /\ \A d \in Chan : call'[t] = RcvCall(d) => WaitsForOne(t, d)'
               /\ status'[t] = WAITING => \E d \in Chan : call'[t] = RcvCall(d) /\ IsEmpty(d)'
    <3>1. CASE t = me
      <4>1. call'[t] = RcvCall(c) /\ status'[t] = WAITING
        BY <1>3, <3>1
      <4>2. \A d \in Chan : RcvCall(c) = RcvCall(d) => d = c
        BY DEF RcvCall
      <4>3. \A d \in Chan, w \in Data : RcvCall(c) # SndCall(d, w)
        BY CallIs
      <4>4. WaitsForOne(t, c)'
        BY <1>1, <1>2, <1>3, <3>1 DEF WaitsForOne, KthdTypeOK, Unbuffered, Size
      <4> QED BY <1>7, <4>1, <4>2, <4>3, <4>4 DEF Up
    <3>2. CASE t # me
      <4>1. call'[t] = call[t] /\ status'[t] = status[t]
        BY <1>3, <3>2
      <4>2. ASSUME NEW d \in Chan, WaitsForOne(t, d) PROVE WaitsForOne(t, d)'
        <5>1. \A e \in Chan : rcv_thd'[e] = t => rcv_thd[e] = t
          BY <1>3, <3>2
        <5>2. rcv_thd'[d] = t
          BY <1>1, <1>3, <3>2, <4>2, LwtAssumption DEF WaitsForOne
        <5> QED BY <1>2, <4>2, <5>1, <5>2 DEF WaitsForOne, Unbuffered, Size
      <4>3. \A d \in Chan : rcv_thd[d] # NULL => rcv_thd'[d] # NULL
        BY <1>1, <1>3, LwtAssumption
      <4> QED BY <1>7, <4>1, <4>2, <4>3 DEF ReceiveInv
    <3> QED BY <3>1, <3>2
  <2> QED BY <2>2, <2>3 DEF ReceiveInv
<1>10. TransitInv'
  <2>0. ThdChan \subseteq Chan
    BY KthdAssumption
  <2>1. \A d \in ThdChan, w \in Data, u \in Thread : call'[u] = SndCall(d, w) <=> call[u] = SndCall(d, w)
    <3>1. \A d \in ThdChan, w \in Data : RcvCall(c) # SndCall(d, w) /\ NULL # SndCall(d, w)
      BY <2>0, CallIs
    <3> QED BY <1>1, <1>3, <3>1
  <2>2. \A u, t \in Thread : Sending(u, t)' <=> Sending(u, t)
    BY <2>1, KthdAssumption DEF Sending
  <2>3. \A d \in ThdChan : Messages(d)' = Messages(d)
    BY <1>7, <2>0
  <2>4. \A d \in ThdChan : Messages(d)' \in Seq(Thread)
    BY <2>3 DEF TransitInv
  <2>5. \A d \in ThdChan, w \in Data, u \in Thread : call'[u] = SndCall(d, w) => w \in Thread
    BY <2>1 DEF TransitInv
  <2>6. OnePlace'
    BY <2>2, <2>3 DEF TransitInv, OnePlace
  <2>7. ASSUME NEW t \in InTransit' PROVE Still(t)'
    <3>1. t \in InTransit /\ t \in Thread
      BY <2>2, <2>3, InTransitIs
    <3>2. Still(t) /\ t # me
      BY <1>1, <3>1 DEF TransitInv, Still, ACTIVE, BLOCKED
    <3> QED BY <1>3, <3>1, <3>2 DEF Still
  <2> QED BY <2>4, <2>5, <2>6, <2>7 DEF TransitInv
<1>11. Frame /\ KthdVarsOK'
  <2>1. lwt_head' \in Thread
    BY <1>5 DEF Mine
  <2>2. call' \in [Thread -> SndCalls \cup RcvCalls \cup {NULL}] /\ rcv_thd' \in [Chan -> Thread \cup {NULL}]
    BY <1>1, <1>2, CallsApart DEF KthdTypeOK
  <2> QED BY <1>2, <1>3, <2>1, <2>2 DEF Frame, KthdVarsOK, KthdTypeOK
<1>12. \A t \in Thread : status'[t] = ACTIVE => status[t] = ACTIVE /\ tid'[t] = tid[t]
  BY <1>3 DEF ACTIVE, WAITING
<1>13. StaysOrArrives
  <2>1. \A u \in Thread : call[u] \in SndCalls => call'[u] = call[u]
    BY <1>1, <1>3, CallsApart
  <2>2. \A d \in ThdChan : Messages(d)' = Messages(d)
    BY <1>7, KthdAssumption
  <2> QED BY <2>1, <2>2, StaysInTransit
<1>14. KInv'
  BY <1>6, <1>8, <1>9, <1>10, <1>11, <1>12, LwtTogether
<1> QED BY <1>13, <1>14

\* What the lwt that takes a message is: the receiver, which runs already.
LEMMA Taker ==
  ASSUME KInv, InLwt, NEW c \in Chan, rcv_thd[c] \in {NULL, lwt_head}, ~IsEmpty(c)
  PROVE  /\ rcv_thd[c] = lwt_head
         /\ [rcv_thd EXCEPT ![c] = lwt_head] = rcv_thd
         /\ ReceiverWoken(status, c) = status
<1>1. lwt_head \in Thread /\ status[lwt_head] = ACTIVE
  BY Running
<1>2. rcv_thd[c] = lwt_head
  BY DEF KInv, ReceiveInv
<1>3. rcv_thd \in [Chan -> Thread \cup {NULL}] /\ status \in [Thread -> {ACTIVE, BLOCKED, WAITING, FREE}]
  BY DEF KInv, KthdTypeOK
<1> QED BY <1>1, <1>2, <1>3 DEF ReceiverWoken

\* What is left in the channels and the calls when a message has been taken, with the
\* lwt that is the message made ready.
LEMMA Taken ==
  ASSUME KInv, InLwt, NEW c \in Chan, rcv_thd[c] = lwt_head, RcvTakes(c),
         UNCHANGED <<rcv_thd, head>>,
         call[lwt_head] \in RcvCalls \cup {NULL}, call' = [call EXCEPT ![lwt_head] = NULL],
         \A o \in Thread : status'[o] = IF c \in ThdChan /\ o = Head(Messages(c)) THEN ACTIVE ELSE status[o]
  PROVE  /\ BuffersOK' /\ ReceiveInv' /\ TransitInv'
         /\ received' = Head(Messages(c))
         /\ c \in ThdChan => received' \in InTransit /\ received' \notin InTransit' /\ Still(received')
         /\ \A o \in InTransit : o \in InTransit' \/ (c \in ThdChan /\ o = received')
<1> USE DEF KInv
<1> DEFINE me == lwt_head
           x == Head(Messages(c))
<1>0. ThdChan \subseteq Chan
  BY KthdAssumption
<1>1. me \in Thread /\ status[me] = ACTIVE /\ rcv_thd[c] # NULL
  BY Running, LwtAssumption
<1>2. ~IsEmpty(c) /\ Dequeue(c) /\ cgrp' = cgrp
  BY DEF RcvTakes
<1>3. \A t \in Thread : call'[t] = IF t = me THEN NULL ELSE call[t]
  BY <1>1 DEF KthdTypeOK
<1>4. /\ BuffersOK'
      /\ \A d \in Chan : d # c => (IsEmpty(d)' <=> IsEmpty(d))
      /\ Messages(c) # <<>> /\ received' = x
      /\ Messages(c)' = Tail(Messages(c))
      /\ \A d \in Chan \ {c} : Messages(d)' = Messages(d)
  <2>1. BuffersOK /\ rcv_thd'[c] # NULL /\ \A d \in Chan : rcv_thd[d] # NULL => rcv_thd'[d] # NULL
    BY <1>1
  <2>2. /\ \A d \in Chan : data_buffer'[d] \in Buffer(d) /\ snd_thds'[d] \in Nodes
        /\ MessageInv'
        /\ \A d \in Chan : d # c => (IsEmpty(d)' <=> IsEmpty(d))
    BY <1>2, <2>1, DequeueOK
  <2>3. BuffersOK'
    BY <2>2 DEF BuffersOK, Buffer, Nodes, Slots
  <2>4. /\ Messages(c) # <<>> /\ received' = x
        /\ Messages(c)' = Tail(Messages(c))
        /\ \A d \in Chan \ {c} : Messages(d)' = Messages(d)
    BY <1>2, <2>1, DequeueTakes
  <2> QED BY <2>2, <2>3, <2>4
<1> HIDE DEF x
<1>5. c \in ThdChan =>
        /\ Messages(c)' \in Seq(Thread) /\ ToSet(Messages(c)') = ToSet(Messages(c)) \ {x}
        /\ IsInjective(Messages(c)') /\ x \in ToSet(Messages(c)) /\ x \in Thread
  <2>1. ASSUME c \in ThdChan PROVE Messages(c) \in Seq(Thread) /\ IsInjective(Messages(c))
    BY <2>1 DEF TransitInv, OnePlace
  <2>2. \A q \in Seq(Thread) : q # <<>> /\ IsInjective(q) =>
          /\ Tail(q) \in Seq(Thread) /\ ToSet(Tail(q)) = ToSet(q) \ {Head(q)}
          /\ IsInjective(Tail(q)) /\ Head(q) \in ToSet(q) /\ Head(q) \in Thread
    <3> SUFFICES ASSUME NEW q \in Seq(Thread), q # <<>>, IsInjective(q)
                 PROVE  /\ Tail(q) \in Seq(Thread) /\ ToSet(Tail(q)) = ToSet(q) \ {Head(q)}
                        /\ IsInjective(Tail(q)) /\ Head(q) \in ToSet(q) /\ Head(q) \in Thread
      OBVIOUS
    <3> DEFINE r == RemoveFirst(q, Head(q))
    <3>1. /\ r = Tail(q) /\ r \in Seq(Thread) /\ ToSet(r) = ToSet(q) \ {Head(q)}
          /\ IsInjective(r) /\ Head(q) \in ToSet(q) /\ Head(q) \in Thread
      BY QueueRemove
    <3> HIDE DEF r
    <3> QED BY <3>1, Zenon
  <2> DEFINE q == Messages(c)
  <2>3. /\ q # <<>> /\ Messages(c)' = Tail(q) /\ x = Head(q)
        /\ c \in ThdChan => q \in Seq(Thread) /\ IsInjective(q)
    BY <1>4, <2>1 DEF x
  <2> HIDE DEF q
  <2>4. c \in ThdChan =>
          /\ Messages(c)' \in Seq(Thread) /\ ToSet(Messages(c)') = ToSet(q) \ {x}
          /\ IsInjective(Messages(c)') /\ x \in ToSet(q) /\ x \in Thread
    BY <2>2, <2>3, Zenon
  <2> QED BY <2>4 DEF q
<1>6. c \in ThdChan => Still(x) /\ x \in InTransit
  <2>1. c \in ThdChan => x \in InTransit
    BY <1>5, InTransitIs
  <2> QED BY <2>1 DEF TransitInv
<1>7. \A o \in Thread : status'[o] = IF c \in ThdChan /\ o = x THEN ACTIVE ELSE status[o]
  BY DEF x
<1>8. ReceiveInv'
  <2>1. \A d \in Chan : rcv_thd[d] # NULL => rcv_thd[d] \in Thread /\ status[rcv_thd[d]] \in Up
    BY DEF KthdTypeOK, ReceiveInv
  <2>2. \A d \in Chan : IF rcv_thd'[d] = NULL THEN IsEmpty(d)' ELSE status'[rcv_thd'[d]] \in Up
    BY <1>1, <1>4, <1>7, <2>1 DEF ReceiveInv, Up
  <2>3. ASSUME NEW t \in Thread
        PROVE  /\ call'[t] # NULL => status'[t] \in Up
               /\ \A d \in Chan, w \in Data : call'[t] = SndCall(d, w) => rcv_thd'[d] # NULL
               /\ \A d \in Chan : call'[t] = RcvCall(d) => WaitsForOne(t, d)'
               /\ status'[t] = WAITING => \E d \in Chan : call'[t] = RcvCall(d) /\ IsEmpty(d)'
    <3>1. CASE t = me
      <4>1. call'[t] = NULL /\ status'[t] = ACTIVE
        BY <1>1, <1>3, <1>7, <3>1
      <4>2. \A d \in Chan : NULL # RcvCall(d) /\ \A w \in Data : NULL # SndCall(d, w)
        BY CallsApart
      <4> QED BY <4>1, <4>2 DEF ACTIVE, WAITING
    <3>2. CASE t # me
      <4>1. call'[t] = call[t] /\ (status'[t] = status[t] \/ status'[t] = ACTIVE)
        BY <1>3, <1>7, <3>2
      <4>2. call[t] # NULL => status'[t] \in Up
        BY <4>1 DEF ReceiveInv, Up
      <4>3. \A d \in Chan : WaitsForOne(t, d)' = WaitsForOne(t, d)
        BY <1>2 DEF WaitsForOne
      <4>4. ASSUME status'[t] = WAITING PROVE \E d \in Chan : call[t] = RcvCall(d) /\ IsEmpty(d)'
        <5>1. status[t] = WAITING
          BY <4>1, <4>4 DEF ACTIVE, WAITING
        <5>2. PICK d \in Chan : call[t] = RcvCall(d) /\ IsEmpty(d)
          BY <5>1 DEF ReceiveInv
        <5>3. d # c
          BY <1>2, <5>2
        <5> QED BY <1>4, <5>2, <5>3
      <4> QED BY <4>1, <4>2, <4>3, <4>4 DEF ReceiveInv
    <3> QED BY <3>1, <3>2
  <2> QED BY <2>2, <2>3 DEF ReceiveInv
<1>9. \A d \in ThdChan, w \in Data, u \in Thread : call'[u] = SndCall(d, w) <=> call[u] = SndCall(d, w)
  <2>1. \A d \in ThdChan, w \in Data : SndCall(d, w) \notin RcvCalls \cup {NULL}
    BY <1>0, CallsApart
  <2> QED BY <1>3, <2>1
<1>10. \A u, t \in Thread : Sending(u, t)' <=> Sending(u, t)
  BY <1>9, KthdAssumption DEF Sending
<1>11. \A d \in ThdChan : ToSet(Messages(d)') = IF d = c THEN ToSet(Messages(c)) \ {x} ELSE ToSet(Messages(d))
  BY <1>0, <1>4, <1>5
<1>12. OnePlace'
  <2>1. \A t, u, w \in Thread : Sending(u, t)' /\ Sending(w, t)' => u = w
    BY <1>10 DEF TransitInv, OnePlace
  <2>2. \A t, u \in Thread, d \in ThdChan : Sending(u, t)' => t \notin ToSet(Messages(d)')
    BY <1>10, <1>11 DEF TransitInv, OnePlace
  <2>3. \A d \in ThdChan : IsInjective(Messages(d)')
    BY <1>0, <1>4, <1>5 DEF TransitInv, OnePlace
  <2>4. \A d, e \in ThdChan : d # e => ToSet(Messages(d)') \cap ToSet(Messages(e)') = {}
    BY <1>11 DEF TransitInv, OnePlace
  <2> QED BY <2>1, <2>2, <2>3, <2>4 DEF OnePlace
<1>13. InTransit' = IF c \in ThdChan THEN InTransit \ {x} ELSE InTransit
  <2>1. CASE c \in ThdChan
    <3>1. \A u \in Thread : ~Sending(u, x)
      BY <1>5, <2>1 DEF TransitInv, OnePlace
    <3>2. \A d \in ThdChan : d # c => x \notin ToSet(Messages(d))
      BY <1>5, <2>1 DEF TransitInv, OnePlace
    <3>3. \A t \in Thread : t \in InTransit' <=> t \in InTransit /\ t # x
      BY <1>10, <1>11, <2>1, <3>1, <3>2, InTransitIs
    <3> QED BY <2>1, <3>3, InTransitIs
  <2>2. CASE c \notin ThdChan
    <3>1. \A d \in ThdChan : ToSet(Messages(d)') = ToSet(Messages(d))
      BY <1>11, <2>2
    <3> QED BY <1>10, <2>2, <3>1, InTransitIs
  <2> QED BY <2>1, <2>2
<1>14. TransitInv'
  <2>1. \A d \in ThdChan : Messages(d)' \in Seq(Thread)
    <3>1. \A d \in ThdChan : Messages(d) \in Seq(Thread)
      BY DEF TransitInv
    <3> QED BY <1>0, <1>4, <1>5, <3>1
  <2>2. \A d \in ThdChan, w \in Data, u \in Thread : call'[u] = SndCall(d, w) => w \in Thread
    BY <1>9 DEF TransitInv
  <2>3. ASSUME NEW t \in InTransit' PROVE Still(t)'
    <3>1. t \in InTransit /\ t \in Thread /\ ~(c \in ThdChan /\ t = x)
      BY <1>13, InTransitIs
    <3>2. Still(t)
      BY <3>1 DEF TransitInv
    <3>3. status'[t] = BLOCKED /\ call'[t] = NULL
      BY <1>3, <1>7, <3>1, <3>2 DEF Still
    <3> QED BY <3>2, <3>3 DEF Still
  <2> QED BY <1>12, <2>1, <2>2, <2>3 DEF TransitInv
<1> QED BY <1>4, <1>6, <1>8, <1>13, <1>14 DEF x

LEMMA ReceiveKind ==
  ASSUME KInv, InLwt, NEW c \in Chan, rcv_thd[c] \in {NULL, lwt_head},
         rcv_thd' = rcv_thd \/ rcv_thd' = [rcv_thd EXCEPT ![c] = lwt_head],
         RcvTakes(c)
  PROVE  ChannelStep
<1>1. /\ rcv_thd[c] = lwt_head /\ [rcv_thd EXCEPT ![c] = lwt_head] = rcv_thd
      /\ lwt_head \in Thread
  BY Taker, Running DEF RcvTakes
<1>2. TakesOne(c)
  BY <1>1, LwtAssumption DEF TakesOne
<1> QED BY <1>2 DEF ChannelStep

\* A message that is not an lwt has been taken.
LEMMA TakesData ==
  ASSUME KInv, InLwt, NEW c \in Chan \ ThdChan, rcv_thd[c] = lwt_head, RcvTakes(c),
         UNCHANGED <<list, lwt_head, status, rcv_thd, kvars>>,
         call[lwt_head] \in RcvCalls \cup {NULL}, call' = [call EXCEPT ![lwt_head] = NULL]
  PROVE  KInv' /\ StaysOrArrives
<1> USE DEF kvars, slvars
<1>1. /\ lwt_head \in Mine(curr) /\ status[lwt_head] = ACTIVE /\ lwt_head \in Thread
  BY Running
<1>2. LwtsInv'
  BY <1>1, SameRings
<1>3. BuffersOK' /\ ReceiveInv' /\ TransitInv'
  BY Taken
<1>4. Frame /\ KthdVarsOK'
  <2>1. cgrp' = cgrp
    BY DEF RcvTakes
  <2>2. call' \in [Thread -> SndCalls \cup RcvCalls \cup {NULL}]
    BY DEF KInv, KthdTypeOK
  <2> QED BY <2>1, <2>2 DEF Frame, KthdVarsOK, KInv, KthdTypeOK
<1>5. StaysOrArrives
  BY Taken DEF StaysOrArrives
<1>6. KInv'
  BY <1>2, <1>3, <1>4, LwtTogether
<1> QED BY <1>5, <1>6

\* An lwt in transit is not the head of the ring it is still on.
LEMMA RingOfStill ==
  ASSUME KInv, NEW t \in Thread, Still(t)
  PROVE  /\ tid[t] \in Kthd /\ t \in Mine(tid[t])
         /\ \A k \in Kthd : Mine(k) # {t}
<1> USE DEF KInv
<1>1. status[t] = BLOCKED
  BY DEF Still
<1>2. tid[t] \in Kthd /\ t \in Mine(tid[t])
  BY <1>1 DEF LwtsInv, Mine, BLOCKED, FREE
<1>3. ASSUME NEW k \in Kthd, Mine(k) = {t} PROVE FALSE
  <2>1. CASE head[k] = NULL
    <3>1. at[k] \in {"none", "init", "first"} /\ Mine(k) # {}
      BY <1>3, <2>1 DEF LwtsInv
    <3>2. lwt_head = t
      <4> HIDE DEF Mine
      <4>1. at[k] = "first"
        BY <3>1 DEF LwtsInv
      <4>2. Mine(k) = {lwt_head}
        BY <4>1 DEF LwtsInv
      <4> QED BY <1>3, <4>2
    <3> QED BY <1>1, <3>2, LwtAssumption DEF LwtsInv, HeadInv, ACTIVE, BLOCKED
  <2>2. CASE head[k] # NULL
    <3>1. head[k] = t
      <4> HIDE DEF Mine
      <4> QED BY <1>3, <2>2 DEF LwtsInv
    <3> QED BY <3>1 DEF Still
  <2> QED BY <2>1, <2>2
<1> QED BY <1>2, <1>3

\* Taking t out of the ring it is on and putting it into that of the running kernel
\* thread leaves every kernel thread with one ring of its own lwts.
LEMMA MovedRings ==
  ASSUME KInv, InLwt, NEW t \in Thread, Still(t), list' = Moved(t),
         status' = [status EXCEPT ![t] = ACTIVE], tid' = [tid EXCEPT ![t] = curr]
  PROVE  /\ LinkInv'
         /\ \A k \in Kthd : Mine(k)' = IF k = curr THEN Mine(curr) \cup {t} ELSE Mine(k) \ {t}
         /\ \A k \in Kthd : OneRing(list', Mine(k)')
<1> USE DEF KInv
<1> DEFINE me == lwt_head
           j == tid[t]
           l == ListRem(list, t)
           M == Mine(curr) \ {t}
<1>1. /\ me \in Thread /\ me \in Mine(curr) /\ status[me] = ACTIVE /\ curr \in Kthd
      /\ status[t] = BLOCKED /\ me # t
  BY Running DEF Still, ACTIVE, BLOCKED
<1>2. j \in Kthd /\ t \in Mine(j) /\ \A k \in Kthd : Mine(k) # {t}
  BY RingOfStill
<1>3. /\ \A o \in Thread : /\ status'[o] = IF o = t THEN ACTIVE ELSE status[o]
                           /\ tid'[o] = IF o = t THEN curr ELSE tid[o]
  BY DEF KthdTypeOK
<1>4. \A k \in Kthd : Mine(k)' = IF k = curr THEN Mine(curr) \cup {t} ELSE Mine(k) \ {t}
  BY <1>1, <1>3 DEF Mine, ACTIVE, FREE
<1>5. /\ \A k \in Kthd : OneRing(list, Mine(k)) /\ Mine(k) \in SUBSET Thread
      /\ list \in [n : [Thread -> Thread], p : [Thread -> Thread]]
      /\ ListOK(list, Thread) /\ \A o \in Thread : status[o] = FREE => ListSingleton(list, o)
  BY DEF LwtsInv, LinkInv, ListOK, Mine
<1>6. \A k \in Kthd : OneRing(l, Mine(k) \ {t})
  <2> SUFFICES ASSUME NEW k \in Kthd PROVE OneRing(l, Mine(k) \ {t})
    OBVIOUS
  <2>1. CASE k = j
    <3>1. OneRing(list, Mine(j)) /\ Mine(j) # {t} /\ t \in Mine(j) /\ Mine(j) \in SUBSET Thread
      BY <1>2, <1>5
    <3> HIDE DEF Mine, j
    <3> QED BY <1>5, <2>1, <3>1, RingRem
  <2>2. CASE k # j
    <3>1. Mine(k) \cap Mine(j) = {} /\ Mine(k) \ {t} = Mine(k)
      BY <1>2, <2>2, MineApart
    <3>2. OneRing(list, Mine(k)) /\ OneRing(list, Mine(j)) /\ t \in Mine(j)
          /\ Mine(k) \in SUBSET Thread /\ Mine(j) \in SUBSET Thread
      BY <1>2, <1>5
    <3> HIDE DEF Mine, j
    <3>3. OneRing(l, Mine(k))
      BY <1>5, <3>1, <3>2, RingElsewhere
    <3> QED BY <3>1, <3>3
  <2> QED BY <2>1, <2>2
<1>7. /\ ListOK(l, Thread) /\ ListSingleton(l, t)
      /\ \A o \in Thread : ListSingleton(list, o) => ListSingleton(l, o)
  BY <1>5, ListRemOK
<1>8. /\ M \in SUBSET Thread /\ OneRing(l, M) /\ me \in M /\ t \in Thread \ M
      /\ M \cup {t} = Mine(curr) \cup {t}
  BY <1>1, <1>5, <1>6
<1>9. list' = ListAdd(l, ListPrev(l, me), t)
  BY DEF Moved
<1> HIDE DEF l, M, me, j
<1>10. /\ ListOK(list', Thread) /\ OneRing(list', M \cup {t})
       /\ \A L \in SUBSET Thread : OneRing(l, L) /\ L \cap M = {} /\ t \notin L => OneRing(list', L)
       /\ \A o \in Thread \ M : o # t /\ ListSingleton(l, o) => ListSingleton(list', o)
  BY <1>7, <1>8, <1>9, JoinsRing
<1>11. LinkInv'
  <2>1. ASSUME NEW o \in Thread, status'[o] = FREE PROVE ListSingleton(list', o)
    <3>1. o # t /\ status[o] = FREE
      BY <1>3, <2>1 DEF ACTIVE, FREE
    <3>2. o \notin M /\ ListSingleton(l, o)
      BY <1>5, <1>7, <3>1 DEF M, Mine
    <3> QED BY <1>10, <3>1, <3>2
  <2> QED BY <1>10, <2>1 DEF LinkInv
<1>12. ASSUME NEW k \in Kthd PROVE OneRing(list', Mine(k)')
  <2>1. CASE k = curr
    <3>1. Mine(k)' = M \cup {t}
      BY <1>4, <1>8, <2>1
    <3> QED BY <1>10, <3>1
  <2>2. CASE k # curr
    <3>1. Mine(k)' = Mine(k) \ {t}
      BY <1>4, <2>2
    <3>2. (Mine(k) \ {t}) \cap M = {} /\ Mine(k) \ {t} \in SUBSET Thread
      BY <1>5, <2>2, MineApart DEF M
    <3>3. OneRing(list', Mine(k) \ {t})
      BY <1>6, <1>10, <3>2
    <3> QED BY <3>1, <3>3
  <2> QED BY <2>1, <2>2
<1> QED BY <1>4, <1>11, <1>12

\* An lwt that was sent has been taken and runs again, here.
LEMMA TakesLwt ==
  ASSUME KInv, InLwt, NEW c \in ThdChan, rcv_thd[c] = lwt_head, RcvTakes(c),
         Arrives(received', status), UNCHANGED <<rcv_thd, curr, slvars>>,
         call[lwt_head] \in RcvCalls \cup {NULL}, call' = [call EXCEPT ![lwt_head] = NULL]
  PROVE  KInv' /\ StaysOrArrives
<1> USE DEF KInv, slvars
<1> DEFINE t == received'
<1>1. /\ lwt_head \in Mine(curr) /\ status[lwt_head] = ACTIVE /\ lwt_head \in Thread
      /\ tid[lwt_head] = curr /\ curr \in Kthd /\ at[curr] = "ring"
  BY Running
<1>2. c \in Chan /\ ~IsEmpty(c) /\ Dequeue(c) /\ cgrp' = cgrp /\ lwt_head' = lwt_head
  BY KthdAssumption DEF RcvTakes, Arrives
<1>3. t = Head(Messages(c)) /\ t \in Thread
  <2>1. Messages(c) # <<>> /\ t = Head(Messages(c))
    <3>1. BuffersOK /\ rcv_thd'[c] # NULL /\ \A d \in Chan : rcv_thd[d] # NULL => rcv_thd'[d] # NULL
      BY <1>1, LwtAssumption
    <3> QED BY <1>2, <3>1, DequeueTakes
  <2>2. Messages(c) \in Seq(Thread)
    BY DEF TransitInv
  <2> QED BY <2>1, <2>2, HeadTailProperties
<1>4. /\ list' = Moved(t) /\ status' = [status EXCEPT ![t] = ACTIVE]
      /\ tid' = [tid EXCEPT ![t] = curr]
      /\ \A o \in Thread : /\ status'[o] = IF o = t THEN ACTIVE ELSE status[o]
                           /\ tid'[o] = IF o = t THEN curr ELSE tid[o]
  BY <1>1, <1>3 DEF Arrives, KthdTypeOK
<1>5. /\ BuffersOK' /\ ReceiveInv' /\ TransitInv' /\ Still(t)
      /\ \A o \in InTransit : o \in InTransit' \/ o = t
  <2>1. \A o \in Thread : status'[o] = IF c \in ThdChan /\ o = Head(Messages(c)) THEN ACTIVE ELSE status[o]
    BY <1>3, <1>4
  <2> HIDE DEF t
  <2>2. /\ BuffersOK' /\ ReceiveInv' /\ TransitInv' /\ (c \in ThdChan => Still(received'))
        /\ \A o \in InTransit : o \in InTransit' \/ (c \in ThdChan /\ o = received')
    BY <1>2, <2>1, Taken
  <2> QED BY <2>2 DEF t
<1> HIDE DEF t
<1>6. /\ LinkInv'
      /\ \A k \in Kthd : Mine(k)' = IF k = curr THEN Mine(curr) \cup {t} ELSE Mine(k) \ {t}
      /\ \A k \in Kthd : OneRing(list', Mine(k)')
  BY <1>3, <1>4, <1>5, MovedRings
<1>7. ASSUME NEW k \in Kthd
      PROVE  /\ at'[k] \in {"none", "init"} => Mine(k)' = {}
             /\ at'[k] = "first" => Mine(k)' = {lwt_head'}
             /\ at'[k] = "ring" => lwt_head' \in Mine(k)'
             /\ head'[k] = NULL <=> at'[k] \in {"none", "init", "first"}
             /\ head'[k] # NULL => head'[k] \in Mine(k)' /\ status'[head'[k]] = ACTIVE
  <2>1. /\ at[k] \in {"none", "init"} => Mine(k) = {}
        /\ head[k] = NULL <=> at[k] \in {"none", "init", "first"}
        /\ head[k] # NULL => head[k] \in Mine(k) /\ status[head[k]] = ACTIVE /\ head[k] \in Thread
    BY DEF LwtsInv, Mine
  <2>2. head[k] # t /\ (at[k] \in {"first", "ring"} => k = curr /\ at[k] = "ring")
    BY <1>1, <1>5 DEF Still, QueueInv
  <2>3. head[k] # NULL => status'[head[k]] = ACTIVE
    BY <1>4, <2>1, <2>2
  <2>4. at' = at /\ head' = head
    OBVIOUS
  <2> HIDE DEF Mine
  <2> QED BY <1>1, <1>2, <1>6, <2>1, <2>2, <2>3, <2>4
<1>8. HeadInv' /\ \A o \in Thread : status'[o] # FREE => tid'[o] \in Kthd
  BY <1>1, <1>2, <1>4 DEF LwtsInv, HeadInv
<1>9. LwtsInv'
  BY <1>6, <1>7, <1>8 DEF LwtsInv
<1>10. Frame /\ KthdVarsOK'
  <2>1. call' \in [Thread -> SndCalls \cup RcvCalls \cup {NULL}]
    BY DEF KthdTypeOK
  <2>2. status' \in [Thread -> {ACTIVE, BLOCKED, WAITING, FREE}] /\ tid' \in [Thread -> Kthd \cup {NULL}]
    BY <1>1, <1>4 DEF KthdTypeOK
  <2> QED BY <1>1, <1>2, <2>1, <2>2 DEF Frame, KthdVarsOK, KthdTypeOK
<1>11. \A o \in Thread : status'[o] = ACTIVE =>
         (status[o] = ACTIVE /\ tid'[o] = tid[o]) \/ tid'[o] = curr
  BY <1>4
<1>12. StaysOrArrives
  <2>1. t # lwt_head
    BY <1>1, <1>5 DEF Still, ACTIVE, BLOCKED
  <2>2. tid'[t] = curr /\ tid'[lwt_head] = curr
    BY <1>1, <1>3, <1>4
  <2> QED BY <1>2, <1>5, <2>1, <2>2 DEF StaysOrArrives
<1>13. KInv'
  BY <1>5, <1>9, <1>10, <1>11, LwtTogether
<1> QED BY <1>12, <1>13

\* lwt_rcv and lwt_rcv_thd, called ...
LEMMA KRcvStep ==
  ASSUME KInv, InLwt, NEW c \in Chan, MayTake(c),
         \/ c \notin ThdChan /\ Rcv(c) /\ UNCHANGED kvars
         \/ c \in ThdChan /\ RcvThd(c)
  PROVE  KInv' /\ StaysOrArrives /\ ChannelStep
<1>1. /\ rcv_thd[c] \in {NULL, lwt_head} /\ call[lwt_head] = NULL
      /\ call \in [Thread -> SndCalls \cup RcvCalls \cup {NULL}]
  BY DEF MayTake, RcvThd, Rcv, InOwnCode, KInv, KthdTypeOK
<1>2. CASE IsEmpty(c)
  <2>1. Rcv(c) /\ UNCHANGED kvars
    BY <1>2 DEF RcvThd
  <2>2. ChannelStep
    BY <1>2, <2>1 DEF Rcv, RcvTakes, ChannelStep
  <2> QED BY <1>2, <2>1, <2>2, RcvWaits
<1>3. CASE ~IsEmpty(c)
  <2>1. rcv_thd[c] = lwt_head /\ [rcv_thd EXCEPT ![c] = lwt_head] = rcv_thd
    BY <1>1, <1>3, Taker
  <2>2. [call EXCEPT ![lwt_head] = NULL] = call
    BY <1>1
  <2>3. RcvTakes(c) /\ rcv_thd' = [rcv_thd EXCEPT ![c] = lwt_head]
    BY <1>3 DEF Rcv, RcvThd
  <2>4. ChannelStep
    BY <1>1, <2>3, ReceiveKind
  <2>5. CASE c \notin ThdChan
    <3>1. UNCHANGED <<list, lwt_head, status, rcv_thd, kvars>> /\ call' = [call EXCEPT ![lwt_head] = NULL]
      BY <1>3, <2>1, <2>2, <2>5 DEF Rcv, vars
    <3> QED BY <1>1, <2>1, <2>3, <2>4, <2>5, <3>1, TakesData
  <2>6. CASE c \in ThdChan
    <3>1. /\ Arrives(received', status) /\ UNCHANGED <<rcv_thd, curr, slvars>>
          /\ call' = [call EXCEPT ![lwt_head] = NULL]
      BY <1>3, <2>1, <2>2, <2>6 DEF RcvThd
    <3> QED BY <1>1, <2>1, <2>3, <2>4, <2>6, <3>1, TakesLwt
  <2> QED BY <2>5, <2>6
<1> QED BY <1>2, <1>3

\* ... and resumed.
LEMMA KRcvResumeStep ==
  ASSUME KInv, InLwt,
         \/ RcvResume /\ call[lwt_head].chan \notin ThdChan /\ UNCHANGED kvars
         \/ RcvThdResume
  PROVE  KInv' /\ StaysOrArrives /\ ChannelStep
<1> DEFINE c == call[lwt_head].chan
<1>1. call[lwt_head] \in RcvCalls /\ c \in Chan /\ call[lwt_head] = RcvCall(c)
  BY CallsApart DEF RcvResume, RcvThdResume, Within
<1>2. lwt_head \in Thread /\ status[head[curr]] = ACTIVE
  BY Running
<1> HIDE DEF c
<1>3. rcv_thd[c] = lwt_head
  BY <1>1, <1>2 DEF KInv, ReceiveInv, WaitsForOne
<1>4. CASE Waits /\ UNCHANGED kvars
  <2>1. lwt_head' \in Mine(curr) /\ status[lwt_head'] = ACTIVE
    BY <1>2, <1>4, NextInRing DEF Waits
  <2>2. KInv'
    BY <1>4, <2>1, Moves DEF Waits, joinvars, chanvars
  <2>3. StaysOrArrives
    BY <1>4, ChannelsStill DEF Waits, chanvars
  <2>4. ChannelStep
    BY <1>4 DEF Waits, chanvars, ChannelStep
  <2> QED BY <2>2, <2>3, <2>4
<1>5. CASE ~IsEmpty(c)
  <2>1. ReceiverWoken(status, c) = status
    BY <1>1, <1>3, <1>5, Taker
  <2>2. RcvTakes(c) /\ rcv_thd' = rcv_thd
    BY <1>5 DEF RcvResume, RcvThdResume, Waits, chanvars, c
  <2>3. ChannelStep
    BY <1>1, <1>3, <2>2, ReceiveKind
  <2>4. CASE c \notin ThdChan /\ RcvResume /\ UNCHANGED kvars
    <3>1. UNCHANGED <<list, lwt_head, status, rcv_thd, kvars>> /\ call' = [call EXCEPT ![lwt_head] = NULL]
      BY <1>5, <2>1, <2>4 DEF RcvResume, joinvars, c
    <3> QED BY <1>1, <1>3, <2>2, <2>3, <2>4, <3>1, TakesData
  <2>5. CASE RcvThdResume
    <3>1. /\ c \in ThdChan
          /\ Arrives(received', status) /\ UNCHANGED <<rcv_thd, curr, slvars>>
          /\ call' = [call EXCEPT ![lwt_head] = NULL]
      BY <1>5, <2>1, <2>5 DEF RcvThdResume, c
    <3> QED BY <1>1, <1>3, <2>2, <2>3, <3>1, TakesLwt
  <2> QED BY <2>4, <2>5 DEF c
<1>6. (Waits /\ UNCHANGED kvars) \/ ~IsEmpty(c)
  BY DEF RcvResume, RcvThdResume, RcvTakes, c
<1> QED BY <1>4, <1>5, <1>6

-----------------------------------------------------------------------------
(* The invariant *)

LEMMA InitKInv == KthdInit => KInv
<1> SUFFICES ASSUME KthdInit PROVE KInv
  OBVIOUS
<1> USE DEF KthdInit, ChanStart
<1>1. KthdTypeOK
  BY EmptySeq DEF KthdTypeOK, Places
<1>2. ToSet(threads) = {} /\ IsInjective(threads)
  BY DEF ToSet, IsInjective
<1>3. QueueInv
  BY <1>2, KthdAssumption DEF QueueInv
<1>4. \A k \in Kthd : Mine(k) = {}
  BY DEF Mine
<1>5. LinkInv
  BY ListInitOK DEF LinkInv
<1>6. \A k \in Kthd : OneRing(list, Mine(k))
  BY <1>4 DEF OneRing, Linked
<1>7. LwtsInv
  BY <1>4, <1>5, <1>6 DEF LwtsInv, HeadInv
<1>8. BuffersOK
  <2>1. \A c \in Chan : 0 \in Slots(c)
    BY SizeOK
  <2>2. \A c \in Chan : data_buffer[c] \in Buffer(c) /\ snd_thds[c] \in Nodes
    BY <2>1, EmptySeq DEF Buffer, Nodes
  <2> QED BY <2>2 DEF BuffersOK, MessageInv
<1>9. \A c \in Chan : IsEmpty(c) /\ ToSet(Messages(c)) = {} /\ Messages(c) \in Seq(Thread)
  <2> SUFFICES ASSUME NEW c \in Chan
               PROVE  IsEmpty(c) /\ ToSet(Messages(c)) = {} /\ Messages(c) \in Seq(Thread)
    OBVIOUS
  <2>1. IsEmpty(c)
    BY DEF IsEmpty
  <2>2. Messages(c) = <<>>
    <3>1. Messages(c) = MessagesIn(data_buffer[c], snd_thds[c], c)
      BY <1>8, MessagesAre DEF BuffersOK
    <3>2. DOMAIN MessagesIn(data_buffer[c], snd_thds[c], c) = {}
      BY DEF MessagesIn, Used
    <3> QED BY <3>1, <3>2, SMTT(30) DEF MessagesIn
  <2> QED BY <2>1, <2>2, EmptySeq DEF ToSet
<1>10. ReceiveInv
  BY <1>9, CallsApart DEF ReceiveInv, FREE, WAITING
<1>11. \A u, t \in Thread : ~Sending(u, t)
  BY CallsApart, KthdAssumption DEF Sending
<1>12. InTransit = {}
  BY <1>9, <1>11, InTransitIs, KthdAssumption
<1>13. OnePlace
  <2>1. \A c \in ThdChan : IsInjective(Messages(c))
    <3>1. \A s \in Seq(Thread) : ToSet(s) = {} => IsInjective(s)
      BY DEF ToSet, IsInjective
    <3> QED BY <1>9, <3>1, KthdAssumption
  <2> QED BY <1>9, <1>11, <2>1, KthdAssumption DEF OnePlace
<1>14. TransitInv
  BY <1>9, <1>12, <1>13, CallsApart, KthdAssumption DEF TransitInv
<1>15. SleepInv
  BY <1>4 DEF SleepInv
<1> QED BY <1>1, <1>3, <1>7, <1>8, <1>10, <1>14, <1>15 DEF KInv

\* A step of what lwts call.
LEMMA LwtCallsStep ==
  ASSUME KInv, LwtCalls \/ LwtResumes
  PROVE  KInv' /\ StaysOrArrives /\ ChannelStep
<1>1. CASE KYield
  BY <1>1, YieldStep, ChannelsStill DEF KYield, chanvars, ChannelStep
<1>2. CASE InLwt /\ InOwnCode /\ ~OwnsChannel /\ DieNojoin /\ UNCHANGED <<chanvars, kvars>>
  BY <1>2, DieStep, ChannelsStill DEF chanvars, ChannelStep
<1>3. CASE \E t \in Thread : KCreate(t)
  BY <1>3, KCreateStep, ChannelsStill DEF KCreate, chanvars, ChannelStep
<1>4. CASE \E c \in Chan \ ThdChan, v \in Data \ Thread : MaySnd(c) /\ KSnd(c, v)
  <2>1. PICK c \in Chan \ ThdChan, v \in Data : KSnd(c, v)
    BY <1>4
  <2> QED BY <2>1, KSndStep
<1>5. CASE \E c \in Chan \ ThdChan : InLwt /\ MayTake(c) /\ Rcv(c) /\ UNCHANGED kvars
  <2>1. PICK c \in Chan : c \notin ThdChan /\ InLwt /\ MayTake(c) /\ Rcv(c) /\ UNCHANGED kvars
    BY <1>5
  <2> QED BY <2>1, KRcvStep
<1>6. CASE \E c \in ThdChan, t \in Thread : InLwt /\ MaySnd(c) /\ MaySend(t) /\ SndThd(c, t)
  BY <1>6, SndThdStep
<1>7. CASE \E c \in ThdChan : InLwt /\ MayTake(c) /\ RcvThd(c)
  <2>1. PICK c \in Chan : c \in ThdChan /\ InLwt /\ MayTake(c) /\ RcvThd(c)
    BY <1>7, KthdAssumption
  <2> QED BY <2>1, KRcvStep
<1>8. CASE LwtResumes
  BY <1>8, KSndResumeStep, KRcvResumeStep DEF LwtResumes, RcvThdResume
<1> QED BY <1>1, <1>2, <1>3, <1>4, <1>5, <1>6, <1>7, <1>8 DEF LwtCalls

\* Every step does: it keeps the invariant, freezes lwts in transit, and keeps messages.
LEMMA NextKInv ==
  ASSUME KInv, [KthdNext]_kthdvars
  PROVE  KInv' /\ StaysOrArrives /\ ChannelStep
<1>1. CASE \E k \in Kthd : (Booting \/ InLwt) /\ KthdCreate(k)
  BY <1>1, KthdCreateStep, ChannelsStill DEF KthdCreate, cvars, chanvars, ChannelStep
<1>2. CASE \E k \in Kthd : KthdStep(k)
  <2>1. PICK k \in Kthd : KthdStep(k)
    BY <1>2
  <2>2. KInv'
    BY <2>1, InitHeadStep, CreateFirstStep, EnterRingStep, LeaveRingStep, CountActiveStep,
       BlockStep, YieldKthdStep DEF KthdStep
  <2>3. UNCHANGED chanvars
    BY <2>1 DEF KthdStep, InitHead, CreateFirst, EnterRing, LeaveRing, CountActive, Block,
       YieldKthd, cvars
  <2> QED BY <2>2, <2>3, ChannelsStill DEF chanvars, ChannelStep
<1>3. CASE LwtCalls \/ LwtResumes
  BY <1>3, LwtCallsStep
<1>4. CASE Timer
  BY <1>4, TimerStep, ChannelsStill DEF Timer, cvars, chanvars, ChannelStep
<1>5. CASE \E t \in Thread : KYieldTo(t)
  BY <1>5, YieldStep, ChannelsStill DEF KYieldTo, chanvars, ChannelStep
<1>6. CASE UNCHANGED kthdvars
  <2>1. UNCHANGED <<cvars, kvars>>
    BY <1>6 DEF kthdvars
  <2>2. LwtsInv' /\ BuffersOK' /\ ReceiveInv' /\ TransitInv'
    BY <2>1, KernelAside DEF kvars, slvars
  <2>3. KthdTypeOK' /\ QueueInv'
    BY <2>1 DEF KInv, KthdTypeOK, QueueInv, cvars, vars, chanvars, kvars, slvars
  <2>4. SleepInv'
    BY <2>1 DEF KInv, SleepInv, Asleep, Mine, cvars, vars, kvars, slvars
  <2>5. StaysOrArrives /\ ChannelStep
    BY <1>6, ChannelsStill DEF kthdvars, cvars, chanvars, ChannelStep
  <2> QED BY <2>2, <2>3, <2>4, <2>5 DEF KInv
<1> QED BY <1>1, <1>2, <1>3, <1>4, <1>5, <1>6 DEF KthdNext, KthdCalls

\* Kernel threads, lwts and channels are always as KInv says, whenever the timer comes
\* and whoever calls what.
THEOREM KthdInvariance == KthdSpec => []KInv
<1>1. KthdInit => KInv
  BY InitKInv
<1>2. KInv /\ [KthdNext]_kthdvars => KInv'
  BY NextKInv
<1> QED BY <1>1, <1>2, PTL DEF KthdSpec

-----------------------------------------------------------------------------
(* What follows *)

\* lwt_head, which every kernel thread writes, is an lwt of the kernel thread in the
\* critical section and can run.
THEOREM HeadKept == KthdSpec => []HeadIsMine
<1>1. KInv => HeadIsMine
  <2> SUFFICES ASSUME KInv, NEW k \in Kthd, at[k] \in {"first", "ring"}
               PROVE  lwt_head \in Thread /\ tid[lwt_head] = k /\ status[lwt_head] = ACTIVE
    BY DEF HeadIsMine
  <2>1. lwt_head \in Mine(k)
    BY DEF KInv, LwtsInv
  <2>2. lwt_head \in Thread /\ tid[lwt_head] = k
    BY <2>1 DEF Mine
  <2> QED BY <2>2, LwtAssumption DEF KInv, LwtsInv, HeadInv
<1> QED BY <1>1, KthdInvariance, PTL

\* Going along the ring of a kernel thread meets all its lwts, those in transit from it
\* included, and no other: rings stay whole and apart when lwts come, end and move.
THEOREM RingsKeptApart == KthdSpec => []RingsApart
<1>1. KInv => RingsApart
  BY RingIsMine DEF RingsApart, KInv, LwtsInv, LinkInv, Mine
<1> QED BY <1>1, KthdInvariance, PTL

\* The kernel thread that has decided to sleep, outside the critical section, still has
\* no lwt to run when it does and until lwt_snd wakes it.
THEOREM SleepsOnlyIdle == KthdSpec => []NoSleepingWork
<1>1. KInv => NoSleepingWork
  <2> SUFFICES ASSUME KInv, NEW k \in Kthd, sl_state[k] = "SL_THD_BLOCKED"
               PROVE  \A t \in Ring(k) : status[t] = ACTIVE => t = head[k]
    BY DEF NoSleepingWork
  <2>1. at[k] = "yield"
    BY DEF KInv, QueueInv
  <2>2. head[k] # NULL
    BY <2>1 DEF KInv, LwtsInv
  <2>3. Ring(k) = Mine(k)
    BY <2>2, RingIsMine
  <2> QED BY <2>3 DEF KInv, SleepInv, Asleep
<1> QED BY <1>1, KthdInvariance, PTL

\* An lwt in transit does not run, and it is the lwt that receives it whose kernel
\* thread it goes on in.
THEOREM TransitKept == KthdSpec => TransitFrozen
<1> DEFINE Step == \A t \in InTransit :
             /\ lwt_head' # t
             /\ t \notin InTransit' => tid'[t] = tid'[lwt_head']
<1>1. ASSUME KInv, KInv', [KthdNext]_kthdvars PROVE [Step]_kthdvars
  <2> SUFFICES ASSUME NEW t \in InTransit
               PROVE  lwt_head' # t /\ (t \notin InTransit' => tid'[t] = tid'[lwt_head'])
    OBVIOUS
  <2>1. StaysOrArrives
    BY <1>1, NextKInv
  <2>2. CASE t \in InTransit'
    <3>1. status'[t] = BLOCKED /\ t \in Thread
      BY <1>1, <2>2, InTransitIs DEF KInv, TransitInv, Still
    <3>2. lwt_head' # NULL => status'[lwt_head'] = ACTIVE
      BY <1>1 DEF KInv, LwtsInv, HeadInv
    <3> QED BY <2>2, <3>1, <3>2, LwtAssumption DEF ACTIVE, BLOCKED
  <2>3. CASE t \notin InTransit'
    BY <2>1, <2>3 DEF StaysOrArrives
  <2> QED BY <2>2, <2>3
<1>2. KthdSpec => []KInv
  BY KthdInvariance
<1> QED BY <1>1, <1>2, PTL DEF KthdSpec, TransitFrozen

\* Messages from one kernel thread to another, lwts among them, arrive once, unchanged
\* and in order, and no channel takes in more than it was made for.
THEOREM ChannelsAcrossKthds == KthdSpec => ChannelPromise
<1>1. KthdInit => CH!Init
  BY StartsEmpty DEF KthdInit
<1>2. KInv /\ [KthdNext]_kthdvars => [CH!Next]_(CH!chvars)
  <2> SUFFICES ASSUME KInv, [KthdNext]_kthdvars PROVE [CH!Next]_(CH!chvars)
    OBVIOUS
  <2>1. BuffersOK /\ ChannelStep
    BY NextKInv DEF KInv
  <2>2. ASSUME NEW c \in Chan, NEW v \in Data, Puts(c, v) PROVE CH!Next
    BY <2>1, <2>2, PutRefines DEF Puts
  <2>3. ASSUME NEW c \in Chan, TakesOne(c) PROVE CH!Next
    BY <2>1, <2>3, TakeRefines DEF TakesOne, RcvTakes
  <2> QED BY <2>1, <2>2, <2>3, StillRefines DEF ChannelStep
<1> QED BY <1>1, <1>2, KthdInvariance, PTL DEF KthdSpec, ChannelPromise, CH!Spec
=============================================================================
