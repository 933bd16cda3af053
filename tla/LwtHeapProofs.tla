--------------------------- MODULE LwtHeapProofs ---------------------------
(***************************************************************************)
(* The library as a client of the allocator, for any number of threads,    *)
(* channels, groups and kernel threads: it gives back what it was given    *)
(* and nothing twice, channels that are not handed to a kernel thread live *)
(* as long as their references, and its counts are exact.                  *)
(***************************************************************************)
EXTENDS LwtHeap, KallocProofs, FiniteSetTheorems

(* The inductive invariant.                                                 *)

HeapTypeOK ==
  /\ thd \in [Thread -> Nat \cup {NULL}]
  /\ chan \in [Chan -> Channel \cup {NULL}]
  /\ group \in [Group -> Cgroup \cup {NULL}]
  /\ waiting \in [Chan -> Seq(Message)]
  /\ holds \in [Chan -> [Thread -> Nat]]
  /\ parm \in [Kthd -> Parm \cup {NULL}]

\* Messages wait in channels that exist; an unbuffered one has a node for its message,
\* and not more than one.
MessageInv ==
  \A c \in Chan :
    /\ waiting[c] # <<>> => Exists(c)
    /\ Unbuffered(c) => Len(waiting[c]) <= 1 /\ \A i \in DOMAIN waiting[c] : waiting[c][i].at \in Nat

\* What has a block, and the block it has.
Threads == {t \in Thread : thd[t] # NULL}
Chans   == {c \in Chan : Exists(c)}
Groups  == {g \in Group : group[g] # NULL}
Nodes   == {m \in Messages : Unbuffered(m[1])}
Parms   == {k \in Kthd : parm[k] # NULL}
Units ==
  ({"thread"} \X Threads) \cup ({"channel"} \X Chans) \cup ({"group"} \X Groups)
    \cup ({"node"} \X Nodes) \cup ({"parm"} \X Parms)
Block(u) ==
  IF u[1] = "thread" THEN Piece(thd[u[2]], LwtLen)
  ELSE IF u[1] = "channel" THEN Piece(chan[u[2]].at, ChanLen(u[2]))
  ELSE IF u[1] = "group" THEN Piece(group[u[2]].at, GroupLen)
  ELSE IF u[1] = "node" THEN Piece(waiting[u[2][1]][u[2][2]].at, NodeLen)
  ELSE Piece(parm[u[2]].at, ParmLen)

\* The blocks are theirs, and no two have the same one.
UnitInv ==
  /\ blocks = {Block(u) : u \in Units}
  /\ \A u, v \in Units : Block(u) = Block(v) => u = v

\* The references are counted.
RefInv ==
  /\ \A c \in Chan : IsFiniteSet(Held(c)) /\ IsFiniteSet(Carried(c))
  /\ RefsCounted

\* The channels that kernel threads are about to get have been handed over.
HandedInv == \A k \in Parms : parm[k].c = NULL \/ parm[k].c \in handed

\* The library's part holds whatever is in the memory; the allocator's part until an
\* owner writes over a header.
Lib == HeapTypeOK /\ MessageInv /\ UnitInv /\ RefInv /\ HandedInv /\ ChansCounted
Sound == KallocOK /\ Lib
HInv == KInv /\ Lib

-----------------------------------------------------------------------------
(* What kalloc and kfree do to the blocks *)

\* The lengths the library asks for.
LEMMA LensOK ==
  /\ LwtLen \in Lens /\ NodeLen \in Lens /\ GroupLen \in Lens /\ ParmLen \in Lens
  /\ \A c \in Chan : ChanLen(c) \in Lens
BY HeapAssumption

\* kalloc returns a block nobody has.
LEMMA AllocGives ==
  ASSUME KallocOK, NEW n \in Lens, KAlloc(n)
  PROVE  /\ KallocOK'
         /\ \E at \in Nat : /\ NewAt = at
                            /\ Piece(at, n) \notin blocks
                            /\ blocks' = blocks \cup {Piece(at, n)}
<1>1. KallocOK' /\ \E t \in Piecelike : t.len = n /\ t \notin blocks /\ blocks' = blocks \cup {t}
  BY FitStep, PagesStep, MallocStep DEF KAlloc
<1>2. PICK t \in Piecelike : t.len = n /\ t \notin blocks /\ blocks' = blocks \cup {t}
  BY <1>1
<1>3. t.at \in Nat /\ t = Piece(t.at, n)
  BY <1>2 DEF Piecelike, Piece
<1>4. (CHOOSE b \in blocks' : b \notin blocks) = t
  BY <1>2
<1> QED BY <1>1, <1>2, <1>3, <1>4 DEF NewAt

\* kfree takes back a block that was handed out.
LEMMA FreeTakes ==
  ASSUME KallocOK, NEW at, NEW n, Piece(at, n) \in blocks, KFree(at, n)
  PROVE  KallocOK' /\ blocks' = blocks \ {Piece(at, n)}
<1>1. Piece(at, n).at = at /\ Piece(at, n).len = n
  BY DEF Piece
<1>2. KallocOK'
  BY <1>1, FreeStep
<1> QED BY <1>2 DEF KFree

\* What leaves the allocator alone leaves its list good.
LEMMA KallocOKStays == KallocOK /\ UNCHANGED kallocvars => KallocOK'
BY KallocOKGood, KallocOKGoodNext DEF kallocvars, PagesInOrder

\* Something gets a block of its own ...
LEMMA UnitAdded ==
  ASSUME UnitInv, NEW x, NEW b, x \notin Units, b \notin blocks,
         Units' = Units \cup {x}, blocks' = blocks \cup {b}, Block(x)' = b,
         \A u \in Units : Block(u)' = Block(u)
  PROVE  UnitInv'
<1>1. \A u \in Units : Block(u)' \in blocks
  BY DEF UnitInv
<1>2. blocks' = {Block(u)' : u \in Units'}
  BY DEF UnitInv
<1>3. ASSUME NEW u \in Units', NEW v \in Units', Block(u)' = Block(v)' PROVE u = v
  BY <1>1, <1>3 DEF UnitInv
<1> QED BY <1>2, <1>3 DEF UnitInv

\* ... or gives it back ...
LEMMA UnitGone ==
  ASSUME UnitInv, NEW x \in Units, Units' = Units \ {x}, blocks' = blocks \ {Block(x)},
         \A u \in Units : u # x => Block(u)' = Block(u)
  PROVE  UnitInv'
<1>1. blocks' = {Block(u)' : u \in Units'}
  BY DEF UnitInv
<1>2. ASSUME NEW u \in Units', NEW v \in Units', Block(u)' = Block(v)' PROVE u = v
  BY <1>2 DEF UnitInv
<1> QED BY <1>1, <1>2 DEF UnitInv

\* ... or everything keeps its own.
LEMMA UnitsSame ==
  ASSUME UnitInv, Units' = Units, blocks' = blocks, \A u \in Units : Block(u)' = Block(u)
  PROVE  UnitInv'
<1>1. blocks' = {Block(u)' : u \in Units'}
  BY DEF UnitInv
<1>2. ASSUME NEW u \in Units', NEW v \in Units', Block(u)' = Block(v)' PROVE u = v
  BY <1>2 DEF UnitInv
<1> QED BY <1>1, <1>2 DEF UnitInv

\* The block of each kind of thing.
LEMMA BlockIs ==
  /\ \A t : Block(<<"thread", t>>) = Piece(thd[t], LwtLen)
  /\ \A c : Block(<<"channel", c>>) = Piece(chan[c].at, ChanLen(c))
  /\ \A g : Block(<<"group", g>>) = Piece(group[g].at, GroupLen)
  /\ \A m : Block(<<"node", m>>) = Piece(waiting[m[1]][m[2]].at, NodeLen)
  /\ \A k : Block(<<"parm", k>>) = Piece(parm[k].at, ParmLen)
BY DEF Block

\* Equal sets of things, in one state or in two.
LEMMA UnitsAre ==
  \A k, x : <<k, x>> \in Units <=>
    \/ k = "thread" /\ x \in Threads
    \/ k = "channel" /\ x \in Chans
    \/ k = "group" /\ x \in Groups
    \/ k = "node" /\ x \in Nodes
    \/ k = "parm" /\ x \in Parms
BY DEF Units

-----------------------------------------------------------------------------
(* Counting references *)

\* Where the references are.
LEMMA RefsAre ==
  /\ \A c, p : p \in Held(c) <=> \E t \in Thread : \E i \in 1..holds[c][t] : p = <<t, i>>
  /\ \A m : m \in Messages <=> \E d \in Chan : \E i \in DOMAIN waiting[d] : m = <<d, i>>
  /\ \A c, m : m \in Carried(c) <=> m \in Messages /\ waiting[m[1]][m[2]].data = c
BY DEF Held, Messages, Carried

\* The code of a thread gets a reference ...
LEMMA HeldMore ==
  ASSUME HeapTypeOK, NEW c \in Chan, NEW t \in Thread, holds' = [holds EXCEPT ![c][t] = @ + 1]
  PROVE  /\ \E p : p \notin Held(c) /\ Held(c)' = Held(c) \cup {p}
         /\ \A d \in Chan : d # c => Held(d)' = Held(d)
<1>1. /\ holds[c][t] \in Nat /\ holds'[c][t] = holds[c][t] + 1
      /\ \A u \in Thread : u # t => holds'[c][u] = holds[c][u]
      /\ \A d \in Chan : d # c => holds'[d] = holds[d]
  BY DEF HeapTypeOK
<1> DEFINE n == holds[c][t] + 1
           p == <<t, n>>
<1>2. p \notin Held(c)
  <2> SUFFICES ASSUME NEW u \in Thread, NEW i \in 1..holds[c][u], p = <<u, i>> PROVE FALSE
    BY RefsAre
  <2> QED BY <1>1
<1>3. Held(c)' = Held(c) \cup {p}
  <2>1. \A q : q \in Held(c)' <=> \E u \in Thread : \E i \in 1..holds'[c][u] : q = <<u, i>>
    BY DEF Held
  <2>2. ASSUME NEW q, q \in Held(c)' PROVE q \in Held(c) \cup {p}
    <3>1. PICK u \in Thread : \E i \in 1..holds'[c][u] : q = <<u, i>>
      BY <2>1, <2>2
    <3>2. PICK i \in 1..holds'[c][u] : q = <<u, i>>
      BY <3>1
    <3>3. CASE u = t /\ i = n
      BY <3>2, <3>3
    <3>4. CASE ~(u = t /\ i = n)
      <4>1. i \in 1..holds[c][u]
        BY <1>1, <3>4
      <4> QED BY <3>2, <4>1, RefsAre
    <3> QED BY <3>3, <3>4
  <2>3. ASSUME NEW q, q \in Held(c) PROVE q \in Held(c)'
    <3>1. PICK u \in Thread : \E i \in 1..holds[c][u] : q = <<u, i>>
      BY <2>3, RefsAre
    <3>2. PICK i \in 1..holds[c][u] : q = <<u, i>>
      BY <3>1
    <3>3. i \in 1..holds'[c][u]
      BY <1>1
    <3> QED BY <2>1, <3>2, <3>3
  <2>4. p \in Held(c)'
    <3>1. n \in 1..holds'[c][t]
      BY <1>1
    <3> QED BY <2>1, <3>1
  <2> QED BY <2>2, <2>3, <2>4
<1>4. \A d \in Chan : d # c => Held(d)' = Held(d)
  BY <1>1 DEF Held
<1> QED BY <1>2, <1>3, <1>4

\* ... or lets one go.
LEMMA HeldLess ==
  ASSUME HeapTypeOK, NEW c \in Chan, NEW t \in Thread, holds[c][t] > 0,
         holds' = [holds EXCEPT ![c][t] = @ - 1]
  PROVE  /\ \E p \in Held(c) : Held(c)' = Held(c) \ {p}
         /\ \A d \in Chan : d # c => Held(d)' = Held(d)
<1>1. /\ holds[c][t] \in Nat \ {0} /\ holds'[c][t] = holds[c][t] - 1
      /\ \A u \in Thread : u # t => holds'[c][u] = holds[c][u]
      /\ \A d \in Chan : d # c => holds'[d] = holds[d]
  BY DEF HeapTypeOK
<1> DEFINE n == holds[c][t]
           p == <<t, n>>
<1>2. p \in Held(c)
  BY <1>1, RefsAre
<1>3. Held(c)' = Held(c) \ {p}
  <2>1. \A q : q \in Held(c)' <=> \E u \in Thread : \E i \in 1..holds'[c][u] : q = <<u, i>>
    BY DEF Held
  <2>2. ASSUME NEW q, q \in Held(c)' PROVE q \in Held(c) /\ q # p
    <3>1. PICK u \in Thread : \E i \in 1..holds'[c][u] : q = <<u, i>>
      BY <2>1, <2>2
    <3>2. PICK i \in 1..holds'[c][u] : q = <<u, i>>
      BY <3>1
    <3>3. i \in 1..holds[c][u] /\ ~(u = t /\ i = n)
      BY <1>1
    <3> QED BY <3>2, <3>3, RefsAre
  <2>3. ASSUME NEW q, q \in Held(c), q # p PROVE q \in Held(c)'
    <3>1. PICK u \in Thread : \E i \in 1..holds[c][u] : q = <<u, i>>
      BY <2>3, RefsAre
    <3>2. PICK i \in 1..holds[c][u] : q = <<u, i>>
      BY <3>1
    <3>3. i \in 1..holds'[c][u]
      BY <1>1, <2>3, <3>2
    <3> QED BY <2>1, <3>2, <3>3
  <2> QED BY <2>2, <2>3
<1>4. \A d \in Chan : d # c => Held(d)' = Held(d)
  BY <1>1 DEF Held
<1> QED BY <1>2, <1>3, <1>4

\* What appending does to a sequence.
LEMMA Appended ==
  ASSUME NEW S, NEW s \in Seq(S), NEW x \in S
  PROVE  /\ Append(s, x) \in Seq(S) /\ Append(s, x) # <<>>
         /\ Len(s) \in Nat /\ Len(Append(s, x)) = Len(s) + 1
         /\ DOMAIN s = 1..Len(s) /\ DOMAIN Append(s, x) = 1..(Len(s) + 1)
         /\ \A i \in 1..Len(s) : Append(s, x)[i] = s[i]
         /\ Append(s, x)[Len(s) + 1] = x
<1>1. Append(s, x) \in Seq(S) /\ Len(Append(s, x)) = Len(s) + 1 /\ Len(s) \in Nat
  BY AppendProperties, LenProperties
<1> QED BY <1>1, AppendProperties, LenProperties

\* A message is sent, with a reference to x in it ...
LEMMA CarriedMore ==
  ASSUME HeapTypeOK, NEW c \in Chan, NEW m \in Message,
         waiting' = [waiting EXCEPT ![c] = Append(@, m)]
  PROVE  /\ \E p : p \notin Carried(m.data) /\ Carried(m.data)' = Carried(m.data) \cup {p}
         /\ \A d \in Chan : d # m.data => Carried(d)' = Carried(d)
         /\ <<c, Len(waiting[c]) + 1>> \notin Messages
         /\ Messages' = Messages \cup {<<c, Len(waiting[c]) + 1>>}
         /\ \A q \in Messages : waiting'[q[1]][q[2]] = waiting[q[1]][q[2]]
         /\ waiting'[c][Len(waiting[c]) + 1] = m
<1> DEFINE n == Len(waiting[c]) + 1
           p == <<c, n>>
<1>1. /\ waiting[c] \in Seq(Message) /\ waiting'[c] = Append(waiting[c], m)
      /\ \A d \in Chan : d # c => waiting'[d] = waiting[d]
  BY DEF HeapTypeOK
<1>2. /\ n \in Nat \ {0} /\ DOMAIN waiting[c] = 1..(n-1) /\ DOMAIN waiting'[c] = 1..n
      /\ \A i \in 1..(n-1) : waiting'[c][i] = waiting[c][i]
      /\ waiting'[c][n] = m
  BY <1>1, Appended
<1> HIDE DEF n
<1>3. p \notin Messages
  <2> SUFFICES ASSUME NEW d \in Chan, NEW i \in DOMAIN waiting[d], p = <<d, i>> PROVE FALSE
    BY RefsAre
  <2> QED BY <1>2
<1>4. \A q : q \in Messages' <=> \E d \in Chan : \E i \in DOMAIN waiting'[d] : q = <<d, i>>
  BY DEF Messages
<1>5. \A q \in Messages : q \in Messages' /\ waiting'[q[1]][q[2]] = waiting[q[1]][q[2]]
  <2> SUFFICES ASSUME NEW d \in Chan, NEW i \in DOMAIN waiting[d]
               PROVE  /\ <<d, i>> \in Messages'
                      /\ waiting'[d][i] = waiting[d][i]
    BY RefsAre
  <2>1. i \in DOMAIN waiting'[d] /\ waiting'[d][i] = waiting[d][i]
    BY <1>1, <1>2
  <2> QED BY <1>4, <2>1
<1>6. p \in Messages' /\ waiting'[p[1]][p[2]] = m
  <2>1. n \in DOMAIN waiting'[c]
    BY <1>2
  <2> QED BY <1>2, <1>4, <2>1
<1>7. ASSUME NEW q, q \in Messages', q # p PROVE q \in Messages
  <2>1. PICK d \in Chan : \E i \in DOMAIN waiting'[d] : q = <<d, i>>
    BY <1>4, <1>7
  <2>2. PICK i \in DOMAIN waiting'[d] : q = <<d, i>>
    BY <2>1
  <2>3. i \in DOMAIN waiting[d]
    BY <1>1, <1>2, <1>7, <2>2
  <2> QED BY <2>2, <2>3, RefsAre
<1>8. Messages' = Messages \cup {p}
  BY <1>5, <1>6, <1>7
<1>9. \A d, q : q \in Carried(d)' <=> q \in Messages' /\ waiting'[q[1]][q[2]].data = d
  BY DEF Carried
<1> HIDE DEF p
<1>10. ASSUME NEW d PROVE Carried(d)' = IF d = m.data THEN Carried(d) \cup {p} ELSE Carried(d)
  <2>1. \A q \in Messages : q \in Carried(d)' <=> q \in Carried(d)
    BY <1>5, <1>9, RefsAre
  <2>2. p \in Carried(d)' <=> d = m.data
    BY <1>6, <1>9
  <2>3. \A q : q \in Carried(d)' => q \in Messages \/ q = p
    BY <1>8, <1>9
  <2>4. \A q : q \in Carried(d) => q \in Messages
    BY RefsAre
  <2>5. p \notin Messages
    BY <1>3
  <2>6. \A q : q \in Carried(d)' <=> q \in Carried(d) \/ (q = p /\ d = m.data)
    BY <2>1, <2>2, <2>3, <2>4, <2>5
  <2>7. CASE d = m.data
    BY <2>6, <2>7
  <2>8. CASE d # m.data
    BY <2>6, <2>8
  <2> QED BY <2>7, <2>8
<1>11. p \notin Carried(m.data)
  BY <1>3, RefsAre
<1> QED BY <1>2, <1>3, <1>5, <1>8, <1>10, <1>11 DEF p, n

\* What taking the first element does to a sequence.
LEMMA Shortened ==
  ASSUME NEW S, NEW s \in Seq(S), s # <<>>
  PROVE  /\ Tail(s) \in Seq(S)
         /\ Len(s) \in Nat \ {0} /\ Len(Tail(s)) = Len(s) - 1
         /\ DOMAIN s = 1..Len(s) /\ DOMAIN Tail(s) = 1..(Len(s) - 1)
         /\ \A i \in 1..(Len(s) - 1) : Tail(s)[i] = s[i + 1]
         /\ Head(s) = s[1] /\ s[1] \in S
<1>1. Tail(s) \in Seq(S) /\ Len(Tail(s)) = Len(s) - 1 /\ Len(s) \in Nat \ {0}
  BY HeadTailProperties, LenProperties, EmptySeq
<1> QED BY <1>1, HeadTailProperties, LenProperties, ElementOfSeq

\* ... and received: the others move up, and with them what they carry.
LEMMA CarriedLess ==
  ASSUME HeapTypeOK, NEW c \in Chan, waiting[c] # <<>>, waiting' = [waiting EXCEPT ![c] = Tail(@)],
         \A d \in Chan : IsFiniteSet(Carried(d))
  PROVE  /\ \A d \in Chan :
              /\ IsFiniteSet(Carried(d)')
              /\ Cardinality(Carried(d)') =
                   Cardinality(Carried(d)) - IF d = Head(waiting[c]).data THEN 1 ELSE 0
         /\ <<c, 1>> \in Carried(Head(waiting[c]).data)
         /\ Messages' = Messages \ {<<c, Len(waiting[c])>>}
<1> DEFINE n == Len(waiting[c])
           m == Head(waiting[c])
           first == <<c, 1>>
           Old(q) == IF q[1] = c THEN <<c, q[2] + 1>> ELSE q
           New(q) == IF q[1] = c THEN <<c, q[2] - 1>> ELSE q
<1>1. /\ waiting[c] \in Seq(Message) /\ waiting'[c] = Tail(waiting[c])
      /\ \A d \in Chan : d # c => waiting'[d] = waiting[d]
  BY DEF HeapTypeOK
<1>2. /\ n \in Nat \ {0} /\ DOMAIN waiting[c] = 1..n /\ DOMAIN waiting'[c] = 1..(n-1)
      /\ \A i \in 1..(n-1) : waiting'[c][i] = waiting[c][i+1]
      /\ m = waiting[c][1]
  <2> DEFINE s == waiting[c]
  <2>1. s \in Seq(Message) /\ s # <<>>
    BY <1>1
  <2> HIDE DEF s
  <2>2. /\ Len(s) \in Nat \ {0} /\ DOMAIN s = 1..Len(s) /\ DOMAIN Tail(s) = 1..(Len(s) - 1)
        /\ \A i \in 1..(Len(s) - 1) : Tail(s)[i] = s[i + 1]
        /\ Head(s) = s[1]
    BY <2>1, Shortened
  <2>3. waiting'[c] = Tail(s) /\ n = Len(s) /\ m = Head(s) /\ waiting[c] = s
    BY <1>1 DEF s
  <2> QED BY <2>2, <2>3
<1> HIDE DEF n, m
<1>3. \A q : q \in Messages' <=> \E d \in Chan : \E i \in DOMAIN waiting'[d] : q = <<d, i>>
  BY DEF Messages
<1>4. \A d, i : <<d, i>> \in Messages <=> d \in Chan /\ i \in DOMAIN waiting[d]
  BY DEF Messages
<1>5. \A d, i : <<d, i>> \in Messages' <=> d \in Chan /\ i \in DOMAIN waiting'[d]
  BY DEF Messages
<1>6. Messages' = Messages \ {<<c, n>>}
  <2>1. \A d \in Chan : \A i : <<d, i>> \in Messages' <=> <<d, i>> \in Messages /\ ~(d = c /\ i = n)
    <3> SUFFICES ASSUME NEW d \in Chan, NEW i
                 PROVE  i \in DOMAIN waiting'[d] <=> i \in DOMAIN waiting[d] /\ ~(d = c /\ i = n)
      BY <1>4, <1>5
    <3> QED BY <1>1, <1>2
  <2>2. \A q \in Messages \cup Messages' : \E d \in Chan : \E i : q = <<d, i>>
    BY <1>3, RefsAre
  <2> QED BY <2>1, <2>2
<1>7. first \in Carried(m.data)
  <2>1. first \in Messages
    BY <1>2, <1>4
  <2> QED BY <1>2, <2>1, RefsAre
<1>8. \A d, q : q \in Carried(d)' <=> q \in Messages' /\ waiting'[q[1]][q[2]].data = d
  BY DEF Carried
<1>9. ASSUME NEW d \in Chan, NEW T, T = Carried(d) \ {first}
      PROVE  ExistsBijection(T, Carried(d)')
  <2>1. ASSUME NEW q \in Carried(d)' PROVE Old(q) \in T /\ New(Old(q)) = q
    <3>0. PICK e \in Chan : \E i \in DOMAIN waiting'[e] : q = <<e, i>>
      BY <1>3, <1>8
    <3>1. PICK i \in DOMAIN waiting'[e] : q = <<e, i>>
      BY <3>0
    <3>2. CASE e = c
      <4>1. i \in 1..(n-1) /\ i + 1 \in 1..n /\ Old(q) = <<c, i+1>> /\ New(Old(q)) = q
        BY <1>2, <3>1, <3>2
      <4>2. waiting[c][i+1].data = d
        <5>1. waiting'[c][i] = waiting[c][i+1]
          BY <1>2, <4>1
        <5> QED BY <1>8, <3>1, <3>2, <5>1
      <4>3. <<c, i+1>> \in Messages /\ <<c, i+1>> # first
        BY <1>2, <1>4, <4>1
      <4> QED BY <1>9, <4>1, <4>2, <4>3, RefsAre
    <3>3. CASE e # c
      <4>1. Old(q) = q /\ New(q) = q /\ q \in Messages /\ waiting[e][i].data = d /\ q # first
        BY <1>1, <1>4, <1>8, <3>1, <3>3
      <4> QED BY <1>9, <3>1, <4>1, RefsAre
    <3> QED BY <3>2, <3>3
  <2>2. ASSUME NEW q \in T PROVE New(q) \in Carried(d)' /\ Old(New(q)) = q
    <3>0. PICK e \in Chan : \E i \in DOMAIN waiting[e] : q = <<e, i>>
      BY <1>9, RefsAre
    <3>1. PICK i \in DOMAIN waiting[e] : q = <<e, i>>
      BY <3>0
    <3>2. CASE e = c
      <4>1. i - 1 \in 1..(n-1) /\ New(q) = <<c, i-1>> /\ Old(New(q)) = q
        BY <1>2, <1>9, <3>1, <3>2
      <4>2. waiting'[c][i-1].data = d
        <5>1. waiting'[c][i-1] = waiting[c][i]
          BY <1>2, <4>1, <3>1, <3>2
        <5>2. waiting[c][i].data = d
          BY <1>9, <3>1, <3>2, RefsAre
        <5> QED BY <5>1, <5>2
      <4>3. <<c, i-1>> \in Messages'
        BY <1>2, <1>5, <4>1
      <4>4. <<c, i-1>> \in Carried(d)'
        BY <1>8, <4>2, <4>3
      <4> QED BY <4>1, <4>4
    <3>3. CASE e # c
      <4>1. New(q) = q /\ Old(q) = q /\ i \in DOMAIN waiting'[e] /\ waiting'[e][i].data = d
        BY <1>1, <1>9, <3>1, <3>3, RefsAre
      <4> QED BY <1>5, <1>8, <3>1, <4>1
    <3> QED BY <3>2, <3>3
  <2> DEFINE f == [q \in T |-> New(q)]
             C == Carried(d)'
  <2> HIDE DEF Old, New
  <2>3. f \in Bijection(T, C)
    <3>1. f \in [T -> C]
      BY <2>2
    <3>2. \A q, r \in T : f[q] = f[r] => q = r
      BY <2>2
    <3>3. \A q \in C : \E r \in T : f[r] = q
      BY <2>1
    <3> HIDE DEF f, C
    <3> QED BY <3>1, <3>2, <3>3 DEF Bijection, Injection, Surjection, IsInjective
  <2> QED BY <2>3 DEF ExistsBijection
<1>10. ASSUME NEW d \in Chan
       PROVE  /\ IsFiniteSet(Carried(d)')
              /\ Cardinality(Carried(d)') = Cardinality(Carried(d)) - IF d = m.data THEN 1 ELSE 0
  <2> DEFINE T == Carried(d) \ {first}
             C == Carried(d)'
             O == Carried(d)
  <2>1. IsFiniteSet(T) /\ Cardinality(T) = Cardinality(O) - IF d = m.data THEN 1 ELSE 0
    <3>1. first \in O <=> d = m.data
      BY <1>2, <1>7, RefsAre
    <3>2. IsFiniteSet(O) /\ Cardinality(O) \in Nat
      BY FS_CardinalityType
    <3>3. T = O \ {first}
      OBVIOUS
    <3> HIDE DEF first, O, T
    <3>4. /\ IsFiniteSet(O \ {first})
          /\ Cardinality(O \ {first}) = IF first \in O THEN Cardinality(O) - 1 ELSE Cardinality(O)
      BY <3>2, FS_RemoveElement
    <3>5. CASE d = m.data
      BY <3>1, <3>3, <3>4, <3>5
    <3>6. CASE d # m.data
      BY <3>1, <3>2, <3>3, <3>4, <3>6
    <3> QED BY <3>5, <3>6
  <2>2. ExistsBijection(T, C)
    BY <1>9
  <2> HIDE DEF T, C, O
  <2>3. IsFiniteSet(C) /\ Cardinality(C) = Cardinality(T)
    BY <2>1, <2>2, FS_Bijection
  <2> QED BY <2>1, <2>3 DEF C, O
<1> QED BY <1>6, <1>7, <1>10 DEF n, m

\* What a step does to the numbers of references.
LEMMA HeldCounts ==
  ASSUME HeapTypeOK, RefInv, NEW c \in Chan, NEW t \in Thread
  PROVE  /\ holds' = [holds EXCEPT ![c][t] = @ + 1] =>
              \A d \in Chan :
                /\ IsFiniteSet(Held(d)')
                /\ Cardinality(Held(d)') = Cardinality(Held(d)) + IF d = c THEN 1 ELSE 0
         /\ holds[c][t] > 0 /\ holds' = [holds EXCEPT ![c][t] = @ - 1] =>
              \A d \in Chan :
                /\ IsFiniteSet(Held(d)')
                /\ Cardinality(Held(d)') = Cardinality(Held(d)) - IF d = c THEN 1 ELSE 0
<1>1. ASSUME NEW S, IsFiniteSet(S), NEW p
      PROVE  /\ Cardinality(S) \in Nat
             /\ p \notin S => IsFiniteSet(S \cup {p}) /\ Cardinality(S \cup {p}) = Cardinality(S) + 1
             /\ p \in S => IsFiniteSet(S \ {p}) /\ Cardinality(S \ {p}) = Cardinality(S) - 1
  BY <1>1, FS_AddElement, FS_RemoveElement, FS_CardinalityType
<1>2. \A d \in Chan : IsFiniteSet(Held(d))
  BY DEF RefInv
<1>3. \A d \in Chan : Cardinality(Held(d)) \in Nat
  BY <1>1, <1>2
<1>4. ASSUME holds' = [holds EXCEPT ![c][t] = @ + 1], NEW d \in Chan
      PROVE  /\ IsFiniteSet(Held(d)')
             /\ Cardinality(Held(d)') = Cardinality(Held(d)) + IF d = c THEN 1 ELSE 0
  <2>1. PICK p : p \notin Held(c) /\ Held(c)' = Held(c) \cup {p}
    BY <1>4, HeldMore
  <2>2. CASE d = c
    BY <1>1, <1>2, <2>1, <2>2
  <2>3. CASE d # c
    <3>1. Held(d)' = Held(d)
      BY <1>4, <2>3, HeldMore
    <3> QED BY <1>2, <1>3, <2>3, <3>1
  <2> QED BY <2>2, <2>3
<1>5. ASSUME holds[c][t] > 0, holds' = [holds EXCEPT ![c][t] = @ - 1], NEW d \in Chan
      PROVE  /\ IsFiniteSet(Held(d)')
             /\ Cardinality(Held(d)') = Cardinality(Held(d)) - IF d = c THEN 1 ELSE 0
  <2>1. PICK p \in Held(c) : Held(c)' = Held(c) \ {p}
    BY <1>5, HeldLess
  <2>2. CASE d = c
    BY <1>1, <1>2, <2>1, <2>2
  <2>3. CASE d # c
    <3>1. Held(d)' = Held(d)
      BY <1>5, <2>3, HeldLess
    <3> QED BY <1>2, <1>3, <2>3, <3>1
  <2> QED BY <2>2, <2>3
<1> QED BY <1>4, <1>5

\* The same for a message that is sent.
LEMMA CarriedCounts ==
  ASSUME HeapTypeOK, RefInv, NEW c \in Chan, NEW m \in Message,
         waiting' = [waiting EXCEPT ![c] = Append(@, m)]
  PROVE  \A d \in Chan :
           /\ IsFiniteSet(Carried(d)')
           /\ Cardinality(Carried(d)') = Cardinality(Carried(d)) + IF d = m.data THEN 1 ELSE 0
<1>1. PICK p : p \notin Carried(m.data) /\ Carried(m.data)' = Carried(m.data) \cup {p}
  BY CarriedMore
<1>2. \A d \in Chan : d # m.data => Carried(d)' = Carried(d)
  BY CarriedMore
<1> SUFFICES ASSUME NEW d \in Chan
      PROVE  /\ IsFiniteSet(Carried(d)')
             /\ Cardinality(Carried(d)') = Cardinality(Carried(d)) + IF d = m.data THEN 1 ELSE 0
  OBVIOUS
<1>3. IsFiniteSet(Carried(d))
  BY DEF RefInv
<1>4. CASE d = m.data
  BY <1>1, <1>3, <1>4, FS_AddElement
<1>5. CASE d # m.data
  <2>1. Carried(d)' = Carried(d)
    BY <1>2, <1>5
  <2>2. Cardinality(Carried(d)) \in Nat
    BY <1>3, FS_CardinalityType
  <2> QED BY <1>3, <1>5, <2>1, <2>2
<1> QED BY <1>4, <1>5

\* The numbers are numbers, and there is a reference where there is a set of them.
LEMMA RefsExist ==
  ASSUME HeapTypeOK, RefInv, NEW c \in Chan
  PROVE  /\ IsFiniteSet(Held(c)) /\ IsFiniteSet(Carried(c))
         /\ Cardinality(Held(c)) \in Nat /\ Cardinality(Carried(c)) \in Nat
         /\ c \notin handed /\ Refs(c) > 0 => Exists(c) /\ Refs(c) = chan[c].snd_cnt + 1
         /\ \A t \in Thread : holds[c][t] > 0 => Cardinality(Held(c)) > 0
         /\ Carried(c) # {} => Cardinality(Carried(c)) > 0
         /\ Exists(c) => chan[c] \in Channel
<1>1. IsFiniteSet(Held(c)) /\ IsFiniteSet(Carried(c))
  BY DEF RefInv
<1>2. Cardinality(Held(c)) \in Nat /\ Cardinality(Carried(c)) \in Nat
  BY <1>1, FS_CardinalityType
<1>3. ASSUME NEW t \in Thread, holds[c][t] > 0 PROVE Cardinality(Held(c)) > 0
  <2>1. holds[c][t] \in Nat
    BY DEF HeapTypeOK
  <2>2. 1 \in 1..holds[c][t]
    BY <1>3, <2>1
  <2>3. <<t, 1>> \in Held(c)
    BY <2>2, RefsAre
  <2> QED BY <1>1, <1>2, <2>3, FS_EmptySet
<1>4. Carried(c) # {} => Cardinality(Carried(c)) > 0
  BY <1>1, <1>2, FS_EmptySet
<1>5. Exists(c) => chan[c] \in Channel
  BY DEF HeapTypeOK, Exists
<1>6. c \notin handed /\ Refs(c) > 0 => Exists(c) /\ Refs(c) = chan[c].snd_cnt + 1
  BY DEF RefInv, RefsCounted
<1> QED BY <1>1, <1>2, <1>3, <1>4, <1>5, <1>6

\* The senders of a channel are the references other than one.
LEMMA HolderExists ==
  ASSUME HeapTypeOK, RefInv, NEW c \in Chan, NEW t \in Thread, Holds(t, c)
  PROVE  /\ Exists(c) /\ chan[c] \in Channel
         /\ c \notin handed =>
              Cardinality(Held(c)) + Cardinality(Carried(c)) = chan[c].snd_cnt + 1
<1>1. holds[c][t] > 0 /\ Exists(c)
  BY DEF Holds
<1> QED BY <1>1, RefsExist DEF Refs

\* References nobody has taken or given away.
LEMMA RefsSame ==
  /\ holds' = holds => \A c \in Chan : Held(c)' = Held(c)
  /\ waiting' = waiting => Messages' = Messages /\ \A c \in Chan : Carried(c)' = Carried(c)
<1>1. holds' = holds => \A c \in Chan : Held(c)' = Held(c)
  BY DEF Held
<1>2. waiting' = waiting => Messages' = Messages /\ \A c \in Chan : Carried(c)' = Carried(c)
  BY DEF Carried, Messages
<1> QED BY <1>1, <1>2

\* RefInv in the next state.
LEMMA RefInvNext ==
  ASSUME \A c \in Chan : IsFiniteSet(Held(c)') /\ IsFiniteSet(Carried(c)'),
         \A c \in Chan \ handed' : Cardinality(Held(c)') + Cardinality(Carried(c)') > 0 =>
           /\ chan'[c] # NULL
           /\ Cardinality(Held(c)') + Cardinality(Carried(c)') = chan'[c].snd_cnt + 1
  PROVE  RefInv'
BY DEF RefInv, RefsCounted, Refs, Exists

-----------------------------------------------------------------------------
(* What comes and goes *)

\* Everything but x keeps its block.
LEMMA BlocksKept ==
  ASSUME NEW x,
         \A t \in Threads : <<"thread", t>> # x => thd'[t] = thd[t],
         \A c \in Chans : <<"channel", c>> # x => chan'[c].at = chan[c].at,
         \A g \in Groups : <<"group", g>> # x => group'[g].at = group[g].at,
         \A m \in Nodes : <<"node", m>> # x =>
           waiting'[m[1]][m[2]].at = waiting[m[1]][m[2]].at,
         \A k \in Parms : <<"parm", k>> # x => parm'[k].at = parm[k].at
  PROVE  \A u \in Units : u # x => Block(u)' = Block(u)
<1> SUFFICES ASSUME NEW u \in Units, u # x PROVE Block(u)' = Block(u)
  OBVIOUS
<1>1. CASE \E t \in Threads : u = <<"thread", t>>
  BY <1>1 DEF Block
<1>2. CASE \E c \in Chans : u = <<"channel", c>>
  BY <1>2 DEF Block
<1>3. CASE \E g \in Groups : u = <<"group", g>>
  BY <1>3 DEF Block
<1>4. CASE \E m \in Nodes : u = <<"node", m>>
  BY <1>4 DEF Block
<1>5. CASE \E k \in Parms : u = <<"parm", k>>
  BY <1>5 DEF Block
<1> QED BY <1>1, <1>2, <1>3, <1>4, <1>5 DEF Units

\* One more of a kind, and one less.
LEMMA OneOfAKind ==
  ASSUME NEW k, NEW S, NEW x
  PROVE  /\ {k} \X (S \cup {x}) = ({k} \X S) \cup {<<k, x>>}
         /\ {k} \X (S \ {x}) = ({k} \X S) \ {<<k, x>>}
OBVIOUS

\* A thread gets its block ...
LEMMA ThreadComes ==
  ASSUME KallocOK, HeapTypeOK, UnitInv, NEW t \in Thread, thd[t] = NULL,
         KAlloc(LwtLen), thd' = [thd EXCEPT ![t] = NewAt],
         Chans' = Chans, \A c \in Chans : chan'[c].at = chan[c].at,
         group' = group, waiting' = waiting,
         Parms' = Parms, \A k \in Parms : parm'[k].at = parm[k].at
  PROVE  KallocOK' /\ UnitInv' /\ thd' \in [Thread -> Nat \cup {NULL}]
<1>1. PICK at \in Nat : /\ NewAt = at
                        /\ Piece(at, LwtLen) \notin blocks
                        /\ blocks' = blocks \cup {Piece(at, LwtLen)}
  BY LensOK, AllocGives
<1>2. KallocOK'
  BY LensOK, AllocGives
<1>3. thd' \in [Thread -> Nat \cup {NULL}] /\ thd'[t] = at /\ at # NULL
  BY <1>1, HeapAssumption DEF HeapTypeOK
<1> DEFINE x == <<"thread", t>>
<1>4. x \notin Units
  BY UnitsAre DEF Threads
<1>5. Threads' = Threads \cup {t}
  BY <1>3 DEF Threads, HeapTypeOK
<1>6. Groups' = Groups /\ Nodes' = Nodes
  BY DEF Groups, Nodes, Messages
<1>7. Units' = Units \cup {x}
  BY <1>5, <1>6, OneOfAKind DEF Units
<1>8. Block(x)' = Piece(at, LwtLen)
  BY <1>3 DEF Block
<1>9. \A u \in Units : u # x => Block(u)' = Block(u)
  <2>1. \A v \in Threads : <<"thread", v>> # x => thd'[v] = thd[v]
    BY DEF HeapTypeOK, Threads
  <2> HIDE DEF x
  <2> QED BY <2>1, BlocksKept
<1> HIDE DEF x
<1>10. UnitInv'
  BY <1>1, <1>4, <1>7, <1>8, <1>9, UnitAdded
<1> QED BY <1>2, <1>3, <1>10

\* ... and gives it back.
LEMMA ThreadGoes ==
  ASSUME KallocOK, HeapTypeOK, UnitInv, NEW t \in Thread, thd[t] # NULL,
         KFree(thd[t], LwtLen), thd' = [thd EXCEPT ![t] = NULL],
         UNCHANGED <<chan, group, waiting, parm>>
  PROVE  KallocOK' /\ UnitInv' /\ thd' \in [Thread -> Nat \cup {NULL}]
<1> DEFINE x == <<"thread", t>>
<1>1. x \in Units /\ Block(x) = Piece(thd[t], LwtLen)
  BY UnitsAre, BlockIs DEF Threads
<1>2. Piece(thd[t], LwtLen) \in blocks
  BY <1>1 DEF UnitInv
<1>3. KallocOK' /\ blocks' = blocks \ {Piece(thd[t], LwtLen)}
  BY <1>2, FreeTakes
<1>4. thd' \in [Thread -> Nat \cup {NULL}] /\ thd'[t] = NULL
  BY DEF HeapTypeOK
<1>5. Threads' = Threads \ {t}
  BY <1>4 DEF Threads, HeapTypeOK
<1>6. Parms' = Parms /\ Groups' = Groups /\ Nodes' = Nodes /\ Chans' = Chans
  BY DEF Parms, Groups, Nodes, Messages, Chans, Exists
<1>7. Units' = Units \ {x}
  BY <1>5, <1>6, OneOfAKind DEF Units
<1>8. \A u \in Units : u # x => Block(u)' = Block(u)
  <2>1. \A v \in Threads : <<"thread", v>> # x => thd'[v] = thd[v]
    BY DEF HeapTypeOK, Threads
  <2> HIDE DEF x
  <2> QED BY <2>1, BlocksKept
<1> HIDE DEF x
<1>9. UnitInv'
  BY <1>1, <1>3, <1>7, <1>8, UnitGone
<1> QED BY <1>3, <1>4, <1>9

\* A channel is made ...
LEMMA ChanComes ==
  ASSUME KallocOK, HeapTypeOK, UnitInv, NEW c \in Chan, NEW t \in Thread, ~Exists(c),
         KAlloc(ChanLen(c)),
         chan' = [chan EXCEPT ![c] = [at |-> NewAt, snd_cnt |-> 0, rcv_thd |-> t, cgrp |-> NULL]],
         UNCHANGED <<thd, group, waiting, parm>>
  PROVE  /\ KallocOK' /\ UnitInv' /\ chan' \in [Chan -> Channel \cup {NULL}]
         /\ Exists(c)' /\ Chans' = Chans \cup {c}
         /\ \A d \in Chan : d # c => chan'[d] = chan[d]
         /\ chan'[c].snd_cnt = 0 /\ chan'[c].cgrp = NULL
<1>1. PICK at \in Nat : /\ NewAt = at
                        /\ Piece(at, ChanLen(c)) \notin blocks
                        /\ blocks' = blocks \cup {Piece(at, ChanLen(c))}
  BY LensOK, AllocGives
<1>2. KallocOK'
  BY LensOK, AllocGives
<1>3. /\ chan'[c] = [at |-> at, snd_cnt |-> 0, rcv_thd |-> t, cgrp |-> NULL]
      /\ \A d \in Chan : d # c => chan'[d] = chan[d]
  BY <1>1 DEF HeapTypeOK
<1>4. chan'[c] \in Channel /\ chan'[c].at = at /\ chan'[c] # NULL
  BY <1>1, <1>3, HeapAssumption DEF Channel
<1>5. chan' \in [Chan -> Channel \cup {NULL}]
  BY <1>4 DEF HeapTypeOK
<1> DEFINE x == <<"channel", c>>
<1>6. x \notin Units
  BY UnitsAre DEF Chans
<1>7. Chans' = Chans \cup {c}
  BY <1>3, <1>4 DEF Chans, Exists
<1>8. Parms' = Parms /\ Threads' = Threads /\ Groups' = Groups /\ Nodes' = Nodes
  BY DEF Parms, Threads, Groups, Nodes, Messages
<1>9. Units' = Units \cup {x}
  BY <1>7, <1>8, OneOfAKind DEF Units
<1>10. Block(x)' = Piece(at, ChanLen(c))
  BY <1>4 DEF Block
<1>11. \A u \in Units : u # x => Block(u)' = Block(u)
  <2>1. \A d \in Chans : <<"channel", d>> # x => chan'[d].at = chan[d].at
    BY <1>3 DEF Chans
  <2> HIDE DEF x
  <2> QED BY <2>1, BlocksKept
<1> HIDE DEF x
<1>12. UnitInv'
  BY <1>1, <1>6, <1>9, <1>10, <1>11, UnitAdded
<1> QED BY <1>2, <1>3, <1>4, <1>5, <1>7, <1>12 DEF Exists

\* ... and given back.
LEMMA ChanGoes ==
  ASSUME KallocOK, HeapTypeOK, UnitInv, NEW c \in Chan, Exists(c),
         KFree(chan[c].at, ChanLen(c)), chan' = [chan EXCEPT ![c] = NULL],
         UNCHANGED <<thd, group, waiting, parm>>
  PROVE  /\ KallocOK' /\ UnitInv' /\ chan' \in [Chan -> Channel \cup {NULL}]
         /\ ~Exists(c)' /\ Chans' = Chans \ {c}
         /\ \A d \in Chan : d # c => chan'[d] = chan[d]
<1> DEFINE x == <<"channel", c>>
<1>1. x \in Units /\ Block(x) = Piece(chan[c].at, ChanLen(c))
  BY UnitsAre, BlockIs DEF Chans
<1>2. Piece(chan[c].at, ChanLen(c)) \in blocks
  BY <1>1 DEF UnitInv
<1>3. KallocOK' /\ blocks' = blocks \ {Piece(chan[c].at, ChanLen(c))}
  BY <1>2, FreeTakes
<1>4. /\ chan' \in [Chan -> Channel \cup {NULL}] /\ chan'[c] = NULL
      /\ \A d \in Chan : d # c => chan'[d] = chan[d]
  BY DEF HeapTypeOK
<1>5. Chans' = Chans \ {c}
  BY <1>4 DEF Chans, Exists
<1>6. Parms' = Parms /\ Threads' = Threads /\ Groups' = Groups /\ Nodes' = Nodes
  BY DEF Parms, Threads, Groups, Nodes, Messages
<1>7. Units' = Units \ {x}
  BY <1>5, <1>6, OneOfAKind DEF Units
<1>8. \A u \in Units : u # x => Block(u)' = Block(u)
  <2>1. \A d \in Chans : <<"channel", d>> # x => chan'[d].at = chan[d].at
    BY <1>4 DEF Chans
  <2> HIDE DEF x
  <2> QED BY <2>1, BlocksKept
<1> HIDE DEF x
<1>9. UnitInv'
  BY <1>1, <1>3, <1>7, <1>8, UnitGone
<1> QED BY <1>3, <1>4, <1>5, <1>9 DEF Exists

\* A group is made ...
LEMMA GroupComes ==
  ASSUME KallocOK, HeapTypeOK, UnitInv, NEW g \in Group, group[g] = NULL, KAlloc(GroupLen),
         group' = [group EXCEPT ![g] = [at |-> NewAt, n_chan |-> 0]],
         UNCHANGED <<thd, chan, waiting, parm>>
  PROVE  /\ KallocOK' /\ UnitInv' /\ group' \in [Group -> Cgroup \cup {NULL}]
         /\ group'[g] # NULL /\ group'[g].n_chan = 0
         /\ \A h \in Group : h # g => group'[h] = group[h]
<1>1. PICK at \in Nat : /\ NewAt = at
                        /\ Piece(at, GroupLen) \notin blocks
                        /\ blocks' = blocks \cup {Piece(at, GroupLen)}
  BY LensOK, AllocGives
<1>2. KallocOK'
  BY LensOK, AllocGives
<1>3. /\ group'[g] = [at |-> at, n_chan |-> 0]
      /\ \A h \in Group : h # g => group'[h] = group[h]
  BY <1>1 DEF HeapTypeOK
<1>4. group'[g] \in Cgroup /\ group'[g].at = at /\ group'[g] # NULL
  BY <1>1, <1>3, HeapAssumption DEF Cgroup
<1>5. group' \in [Group -> Cgroup \cup {NULL}]
  BY <1>4 DEF HeapTypeOK
<1> DEFINE x == <<"group", g>>
<1>6. x \notin Units
  BY UnitsAre DEF Groups
<1>7. Groups' = Groups \cup {g}
  BY <1>3, <1>4 DEF Groups
<1>8. Parms' = Parms /\ Threads' = Threads /\ Chans' = Chans /\ Nodes' = Nodes
  BY DEF Parms, Threads, Chans, Exists, Nodes, Messages
<1>9. Units' = Units \cup {x}
  BY <1>7, <1>8, OneOfAKind DEF Units
<1>10. Block(x)' = Piece(at, GroupLen)
  BY <1>4 DEF Block
<1>11. \A u \in Units : u # x => Block(u)' = Block(u)
  <2>1. \A h \in Groups : <<"group", h>> # x => group'[h].at = group[h].at
    BY <1>3 DEF Groups
  <2> HIDE DEF x
  <2> QED BY <2>1, BlocksKept
<1> HIDE DEF x
<1>12. UnitInv'
  BY <1>1, <1>6, <1>9, <1>10, <1>11, UnitAdded
<1> QED BY <1>2, <1>3, <1>4, <1>5, <1>12

\* ... and given back.
LEMMA GroupGoes ==
  ASSUME KallocOK, HeapTypeOK, UnitInv, NEW g \in Group, group[g] # NULL,
         KFree(group[g].at, GroupLen), group' = [group EXCEPT ![g] = NULL],
         UNCHANGED <<thd, chan, waiting, parm>>
  PROVE  /\ KallocOK' /\ UnitInv' /\ group' \in [Group -> Cgroup \cup {NULL}]
         /\ group'[g] = NULL
         /\ \A h \in Group : h # g => group'[h] = group[h]
<1> DEFINE x == <<"group", g>>
<1>1. x \in Units /\ Block(x) = Piece(group[g].at, GroupLen)
  BY UnitsAre, BlockIs DEF Groups
<1>2. Piece(group[g].at, GroupLen) \in blocks
  BY <1>1 DEF UnitInv
<1>3. KallocOK' /\ blocks' = blocks \ {Piece(group[g].at, GroupLen)}
  BY <1>2, FreeTakes
<1>4. /\ group' \in [Group -> Cgroup \cup {NULL}] /\ group'[g] = NULL
      /\ \A h \in Group : h # g => group'[h] = group[h]
  BY DEF HeapTypeOK
<1>5. Groups' = Groups \ {g}
  BY <1>4 DEF Groups
<1>6. Parms' = Parms /\ Threads' = Threads /\ Chans' = Chans /\ Nodes' = Nodes
  BY DEF Parms, Threads, Chans, Exists, Nodes, Messages
<1>7. Units' = Units \ {x}
  BY <1>5, <1>6, OneOfAKind DEF Units
<1>8. \A u \in Units : u # x => Block(u)' = Block(u)
  <2>1. \A h \in Groups : <<"group", h>> # x => group'[h].at = group[h].at
    BY <1>4 DEF Groups
  <2> HIDE DEF x
  <2> QED BY <2>1, BlocksKept
<1> HIDE DEF x
<1>9. UnitInv'
  BY <1>1, <1>3, <1>7, <1>8, UnitGone
<1> QED BY <1>3, <1>4, <1>9

\* The parameters of a kernel thread.
LEMMA ParmComes ==
  ASSUME KallocOK, HeapTypeOK, UnitInv, NEW k \in Kthd, parm[k] = NULL, NEW c \in Chan,
         KAlloc(ParmLen), parm' = [parm EXCEPT ![k] = [at |-> NewAt, c |-> c, lwt |-> NULL]],
         UNCHANGED <<thd, chan, group, waiting>>
  PROVE  /\ KallocOK' /\ UnitInv' /\ parm' \in [Kthd -> Parm \cup {NULL}]
         /\ parm'[k] # NULL /\ parm'[k].c = c
         /\ \A j \in Kthd : j # k => parm'[j] = parm[j]
<1>1. PICK at \in Nat : /\ NewAt = at
                        /\ Piece(at, ParmLen) \notin blocks
                        /\ blocks' = blocks \cup {Piece(at, ParmLen)}
  BY LensOK, AllocGives
<1>2. KallocOK'
  BY LensOK, AllocGives
<1>3. /\ parm'[k] = [at |-> at, c |-> c, lwt |-> NULL]
      /\ \A j \in Kthd : j # k => parm'[j] = parm[j]
  BY <1>1 DEF HeapTypeOK
<1>4. parm'[k] \in Parm /\ parm'[k].at = at /\ parm'[k] # NULL
  BY <1>1, <1>3, HeapAssumption DEF Parm
<1>5. parm' \in [Kthd -> Parm \cup {NULL}]
  BY <1>4 DEF HeapTypeOK
<1> DEFINE x == <<"parm", k>>
<1>6. x \notin Units
  BY UnitsAre DEF Parms
<1>7. Parms' = Parms \cup {k}
  BY <1>3, <1>4 DEF Parms
<1>8. Threads' = Threads /\ Chans' = Chans /\ Groups' = Groups /\ Nodes' = Nodes
  BY DEF Threads, Chans, Exists, Groups, Nodes, Messages
<1>9. Units' = Units \cup {x}
  BY <1>7, <1>8, OneOfAKind DEF Units
<1>10. Block(x)' = Piece(at, ParmLen)
  BY <1>4 DEF Block
<1>11. \A u \in Units : u # x => Block(u)' = Block(u)
  <2>1. \A j \in Parms : <<"parm", j>> # x => parm'[j].at = parm[j].at
    BY <1>3 DEF Parms
  <2> HIDE DEF x
  <2> QED BY <2>1, BlocksKept
<1> HIDE DEF x
<1>12. UnitInv'
  BY <1>1, <1>6, <1>9, <1>10, <1>11, UnitAdded
<1> QED BY <1>2, <1>3, <1>4, <1>5, <1>12

\* A message gets a node when its channel has no buffer ...
LEMMA NodeComes ==
  ASSUME KallocOK, HeapTypeOK, UnitInv, NEW c \in Chan, NEW m,
         IF Unbuffered(c) THEN KAlloc(NodeLen) /\ m.at = NewAt ELSE UNCHANGED kallocvars /\ m.at = NULL,
         m = [at |-> m.at, data |-> m.data], m.data \in Chan,
         waiting' = [waiting EXCEPT ![c] = Append(@, m)],
         Chans' = Chans, \A d \in Chans : chan'[d].at = chan[d].at,
         UNCHANGED <<thd, group, parm>>
  PROVE  /\ KallocOK' /\ UnitInv' /\ m \in Message
         /\ Unbuffered(c) => m.at \in Nat
<1> SUFFICES ASSUME NEW n, n = Len(waiting[c]) + 1
             PROVE  /\ KallocOK' /\ UnitInv' /\ m \in Message
                    /\ Unbuffered(c) => m.at \in Nat
  OBVIOUS
<1> DEFINE p == <<c, n>>
           x == <<"node", p>>
<1>1. Parms' = Parms /\ Threads' = Threads /\ Groups' = Groups
  BY DEF Parms, Threads, Groups
<1>2. CASE Unbuffered(c)
  <2>1. PICK at \in Nat : /\ NewAt = at
                          /\ Piece(at, NodeLen) \notin blocks
                          /\ blocks' = blocks \cup {Piece(at, NodeLen)}
    BY <1>2, LensOK, AllocGives
  <2>2. KallocOK'
    BY <1>2, LensOK, AllocGives
  <2>3. m \in Message /\ m.at = at
    BY <1>2, <2>1 DEF Message
  <2>4. /\ p \notin Messages /\ Messages' = Messages \cup {p}
        /\ \A q \in Messages : waiting'[q[1]][q[2]] = waiting[q[1]][q[2]]
        /\ waiting'[c][n] = m
    <3>1. waiting' = [waiting EXCEPT ![c] = Append(@, m)] /\ m \in Message
      BY <2>3
    <3>2. /\ <<c, Len(waiting[c]) + 1>> \notin Messages
          /\ Messages' = Messages \cup {<<c, Len(waiting[c]) + 1>>}
          /\ \A q \in Messages : waiting'[q[1]][q[2]] = waiting[q[1]][q[2]]
          /\ waiting'[c][Len(waiting[c]) + 1] = m
      BY <3>1, CarriedMore
    <3> QED BY <3>2
  <2>5. p \notin Nodes /\ Nodes' = Nodes \cup {p}
    BY <1>2, <2>4 DEF Nodes
  <2>6. x \notin Units
    BY <2>5, UnitsAre
  <2>7. Units' = Units \cup {x}
    BY <1>1, <2>5, OneOfAKind DEF Units
  <2>8. Block(x)' = Piece(at, NodeLen)
    BY <2>3, <2>4 DEF Block
  <2>9. \A u \in Units : u # x => Block(u)' = Block(u)
    <3>1. \A q \in Nodes : <<"node", q>> # x => waiting'[q[1]][q[2]].at = waiting[q[1]][q[2]].at
      BY <2>4 DEF Nodes
    <3> HIDE DEF x
    <3> QED BY <3>1, BlocksKept
  <2> HIDE DEF x
  <2>10. UnitInv'
    BY <2>1, <2>6, <2>7, <2>8, <2>9, UnitAdded
  <2> QED BY <2>1, <2>2, <2>3, <2>10
<1>3. CASE ~Unbuffered(c)
  <2>1. KallocOK' /\ blocks' = blocks
    BY <1>3, KallocOKStays DEF kallocvars
  <2>2. m \in Message
    BY <1>3 DEF Message
  <2>3. /\ p \notin Messages /\ Messages' = Messages \cup {p}
        /\ \A q \in Messages : waiting'[q[1]][q[2]] = waiting[q[1]][q[2]]
    BY <2>2, CarriedMore
  <2>4. Nodes' = Nodes
    BY <1>3, <2>3 DEF Nodes
  <2>5. Units' = Units
    BY <1>1, <2>4 DEF Units
  <2>6. \A u \in Units : u # <<"none", c>> => Block(u)' = Block(u)
    <3>1. \A q \in Nodes : waiting'[q[1]][q[2]].at = waiting[q[1]][q[2]].at
      BY <2>3 DEF Nodes
    <3> QED BY <3>1, BlocksKept
  <2>7. <<"none", c>> \notin Units
    BY UnitsAre
  <2>8. UnitInv'
    BY <2>1, <2>5, <2>6, <2>7, UnitsSame
  <2> QED BY <1>3, <2>1, <2>2, <2>8
<1> QED BY <1>2, <1>3

\* ... and gives it back.
LEMMA NodeGoes ==
  ASSUME KallocOK, HeapTypeOK, UnitInv, MessageInv, RefInv, NEW c \in Chan, waiting[c] # <<>>,
         IF Unbuffered(c) THEN KFree(Head(waiting[c]).at, NodeLen) ELSE UNCHANGED kallocvars,
         waiting' = [waiting EXCEPT ![c] = Tail(@)],
         Chans' = Chans, \A d \in Chans : chan'[d].at = chan[d].at,
         UNCHANGED <<thd, group, parm>>
  PROVE  KallocOK' /\ UnitInv'
<1> DEFINE n == Len(waiting[c])
           p == <<c, 1>>
           x == <<"node", p>>
<1>1. Parms' = Parms /\ Threads' = Threads /\ Groups' = Groups
  BY DEF Parms, Threads, Groups
<1>2. /\ n \in Nat \ {0} /\ DOMAIN waiting[c] = 1..n /\ Head(waiting[c]) = waiting[c][1]
      /\ \A d \in Chan : d # c => waiting'[d] = waiting[d]
  <2> DEFINE s == waiting[c]
  <2>1. s \in Seq(Message) /\ s # <<>>
    BY DEF HeapTypeOK
  <2> HIDE DEF s
  <2>2. Len(s) \in Nat \ {0} /\ DOMAIN s = 1..Len(s) /\ Head(s) = s[1]
    BY <2>1, Shortened
  <2> QED BY <2>2 DEF s, HeapTypeOK
<1>3. Messages' = Messages \ {<<c, n>>}
  BY CarriedLess DEF RefInv
<1> HIDE DEF n
<1>4. CASE Unbuffered(c)
  <2>1. n = 1
    <3>1. n <= 1
      BY <1>4 DEF MessageInv, n
    <3> QED BY <1>2, <3>1
  <2>2. p \in Nodes /\ Nodes' = Nodes \ {p}
    <3>1. p \in Messages
      BY <1>2, <2>1, RefsAre
    <3> QED BY <1>3, <1>4, <2>1, <3>1 DEF Nodes
  <2>3. x \in Units /\ Block(x) = Piece(Head(waiting[c]).at, NodeLen)
    BY <1>2, <2>2, UnitsAre DEF Block
  <2>4. Piece(Head(waiting[c]).at, NodeLen) \in blocks
    BY <2>3 DEF UnitInv
  <2>5. KallocOK' /\ blocks' = blocks \ {Piece(Head(waiting[c]).at, NodeLen)}
    BY <1>4, <2>4, FreeTakes
  <2>6. Units' = Units \ {x}
    BY <1>1, <2>2, OneOfAKind DEF Units
  <2>7. \A u \in Units : u # x => Block(u)' = Block(u)
    <3>1. \A q \in Nodes : q[1] # c => waiting'[q[1]][q[2]] = waiting[q[1]][q[2]]
      BY <1>2, RefsAre DEF Nodes
    <3>2. \A q \in Nodes : q[1] = c => q = p
      BY <1>2, <2>1, RefsAre DEF Nodes
    <3>3. \A q \in Nodes : <<"node", q>> # x => waiting'[q[1]][q[2]].at = waiting[q[1]][q[2]].at
      BY <3>1, <3>2
    <3> HIDE DEF x
    <3> QED BY <3>3, BlocksKept
  <2> HIDE DEF x
  <2>8. UnitInv'
    BY <2>3, <2>5, <2>6, <2>7, UnitGone
  <2> QED BY <2>5, <2>8
<1>5. CASE ~Unbuffered(c)
  <2>1. KallocOK' /\ blocks' = blocks
    BY <1>5, KallocOKStays DEF kallocvars
  <2>2. Nodes' = Nodes
    BY <1>3, <1>5 DEF Nodes
  <2>3. Units' = Units
    BY <1>1, <2>2 DEF Units
  <2>4. \A u \in Units : u # <<"none", c>> => Block(u)' = Block(u)
    <3>1. \A q \in Nodes : waiting'[q[1]][q[2]].at = waiting[q[1]][q[2]].at
      BY <1>2, <1>5, RefsAre DEF Nodes
    <3> QED BY <3>1, BlocksKept
  <2>5. <<"none", c>> \notin Units
    BY UnitsAre
  <2>6. UnitInv'
    BY <2>1, <2>3, <2>4, <2>5, UnitsSame
  <2> QED BY <2>1, <2>6
<1> QED BY <1>4, <1>5

\* Nothing comes or goes.
LEMMA NothingComes ==
  ASSUME UnitInv, blocks' = blocks, UNCHANGED <<thd, waiting, parm>>,
         Chans' = Chans, \A c \in Chans : chan'[c].at = chan[c].at,
         Groups' = Groups, \A g \in Groups : group'[g].at = group[g].at
  PROVE  UnitInv'
<1>1. Threads' = Threads /\ Nodes' = Nodes /\ Parms' = Parms
  BY DEF Threads, Nodes, Messages, Parms
<1>2. Units' = Units
  BY <1>1 DEF Units
<1>3. \A u \in Units : u # <<"none", 0>> => Block(u)' = Block(u)
  BY BlocksKept
<1>4. <<"none", 0>> \notin Units
  BY UnitsAre
<1> QED BY <1>2, <1>3, <1>4, UnitsSame

-----------------------------------------------------------------------------
(* The counts of channels *)

Members(g) == {c \in Chan : Exists(c) /\ chan[c].cgrp = g}

\* ChansCounted in the next state.
LEMMA ChansCountedNext ==
  ASSUME nchan' = Cardinality(Chans'),
         \A g \in Group : group'[g] # NULL => group'[g].n_chan = Cardinality(Members(g)'),
         \A c \in Chan : chan'[c] # NULL /\ chan'[c].cgrp # NULL => group'[chan'[c].cgrp] # NULL
  PROVE  ChansCounted'
BY DEF ChansCounted, Chans, Members, Exists

\* It says the same of this state.
LEMMA ChansCountedIs ==
  ASSUME ChansCounted
  PROVE  /\ nchan = Cardinality(Chans)
         /\ \A g \in Group : group[g] # NULL => group[g].n_chan = Cardinality(Members(g))
         /\ \A c \in Chan : Exists(c) /\ chan[c].cgrp # NULL => group[chan[c].cgrp] # NULL
         /\ IsFiniteSet(Chans) /\ \A g : IsFiniteSet(Members(g))
<1>1. IsFiniteSet(Chans) /\ \A g : IsFiniteSet(Members(g))
  <2>1. Chans \in SUBSET Chan /\ \A g : Members(g) \in SUBSET Chan
    BY DEF Chans, Members
  <2> QED BY <2>1, HeapAssumption, FS_Subset
<1> QED BY <1>1 DEF ChansCounted, Chans, Members, Exists

\* No channel comes, goes, or changes its group.
LEMMA ChansStay ==
  ASSUME ChansCounted, group' = group, nchan' = nchan,
         \A c \in Chan : /\ (chan'[c] # NULL) <=> Exists(c)
                         /\ Exists(c) => chan'[c].cgrp = chan[c].cgrp
  PROVE  ChansCounted'
<1>1. Chans' = Chans /\ \A g \in Group : Members(g)' = Members(g)
  BY DEF Chans, Members, Exists
<1>2. \A c \in Chan : chan'[c] # NULL /\ chan'[c].cgrp # NULL => group'[chan'[c].cgrp] # NULL
  BY ChansCountedIs
<1> QED BY <1>1, <1>2, ChansCountedIs, ChansCountedNext

\* A channel changes the number of its senders, and its receiver perhaps.
LEMMA SenderCounted ==
  ASSUME HeapTypeOK, NEW c \in Chan, Exists(c), NEW k \in {1, -1, 0}, chan[c].snd_cnt + k >= 0,
         NEW t \in Thread,
         \/ chan' = [chan EXCEPT ![c].snd_cnt = @ + k]
         \/ chan' = [[chan EXCEPT ![c].snd_cnt = @ + k] EXCEPT ![c].rcv_thd = t]
         \/ k = 0 /\ chan' = [chan EXCEPT ![c].rcv_thd = t]
  PROVE  /\ chan' \in [Chan -> Channel \cup {NULL}]
         /\ chan'[c].snd_cnt = chan[c].snd_cnt + k
         /\ \A d \in Chan : d # c => chan'[d] = chan[d]
         /\ \A d \in Chan : (chan'[d] # NULL) <=> Exists(d)
         /\ \A d \in Chan : Exists(d) => chan'[d].at = chan[d].at /\ chan'[d].cgrp = chan[d].cgrp
         /\ Chans' = Chans
<1>1. chan[c] \in Channel /\ Channel \cap {NULL} = {} /\ chan \in [Chan -> Channel \cup {NULL}]
  BY HeapAssumption DEF HeapTypeOK, Exists
<1>2. /\ chan'[c] \in Channel /\ chan'[c].snd_cnt = chan[c].snd_cnt + k
      /\ chan'[c].at = chan[c].at /\ chan'[c].cgrp = chan[c].cgrp
      /\ \A d \in Chan : d # c => chan'[d] = chan[d]
  <2>1. chan[c].snd_cnt + k \in Nat
    BY <1>1 DEF Channel
  <2>2. CASE chan' = [chan EXCEPT ![c].snd_cnt = @ + k]
    BY <1>1, <2>1, <2>2 DEF Channel
  <2>3. CASE chan' = [[chan EXCEPT ![c].snd_cnt = @ + k] EXCEPT ![c].rcv_thd = t]
    BY <1>1, <2>1, <2>3 DEF Channel
  <2>4. CASE k = 0 /\ chan' = [chan EXCEPT ![c].rcv_thd = t]
    BY <1>1, <2>1, <2>4 DEF Channel
  <2> QED BY <2>2, <2>3, <2>4
<1>3. chan' \in [Chan -> Channel \cup {NULL}]
  <2>1. \E f : chan' = [chan EXCEPT ![c] = f]
    OBVIOUS
  <2> QED BY <1>1, <1>2, <2>1
<1>4. \A d \in Chan : (chan'[d] # NULL) <=> Exists(d)
  BY <1>1, <1>2 DEF Exists
<1>5. Chans' = Chans
  BY <1>4 DEF Chans, Exists
<1> QED BY <1>1, <1>2, <1>3, <1>4, <1>5

\* The number of references a thread has to a channel changes.
LEMMA HoldsTyped ==
  ASSUME HeapTypeOK, NEW c \in Chan, NEW t \in Thread,
         \/ holds' = [holds EXCEPT ![c][t] = 1]
         \/ holds' = [holds EXCEPT ![c][t] = @ + 1]
         \/ holds[c][t] > 0 /\ holds' = [holds EXCEPT ![c][t] = @ - 1]
  PROVE  holds' \in [Chan -> [Thread -> Nat]]
<1>1. holds \in [Chan -> [Thread -> Nat]] /\ holds[c] \in [Thread -> Nat] /\ holds[c][t] \in Nat
  BY DEF HeapTypeOK
<1>2. ASSUME NEW k \in Nat PROVE [holds EXCEPT ![c][t] = k] \in [Chan -> [Thread -> Nat]]
  <2>1. [holds[c] EXCEPT ![t] = k] \in [Thread -> Nat]
    BY <1>1
  <2> QED BY <1>1, <2>1
<1>3. CASE holds' = [holds EXCEPT ![c][t] = 1]
  BY <1>2, <1>3
<1>4. CASE holds' = [holds EXCEPT ![c][t] = @ + 1]
  <2>1. holds[c][t] + 1 \in Nat
    BY <1>1
  <2> QED BY <1>2, <1>4, <2>1
<1>5. CASE holds[c][t] > 0 /\ holds' = [holds EXCEPT ![c][t] = @ - 1]
  <2>1. holds[c][t] - 1 \in Nat
    BY <1>1, <1>5
  <2> QED BY <1>2, <1>5, <2>1
<1> QED BY <1>3, <1>4, <1>5

-----------------------------------------------------------------------------
(* The actions *)

LEMMA LwtInitKeeps == Sound /\ LwtInit => Sound'
<1> SUFFICES ASSUME Sound, LwtInit PROVE Sound'
  OBVIOUS
<1> USE DEF Sound, Lib, LwtInit
<1>1. Main \in Thread
  BY HeapAssumption
<1>2. Chans' = Chans /\ Parms' = Parms
  BY DEF Chans, Exists, Parms
<1>3. KallocOK' /\ UnitInv' /\ thd' \in [Thread -> Nat \cup {NULL}]
  BY <1>1, <1>2, ThreadComes
<1>4. HeapTypeOK'
  BY <1>3 DEF HeapTypeOK
<1>5. MessageInv'
  BY DEF MessageInv, Exists, Unbuffered
<1>6. RefInv'
  <2>1. \A c \in Chan : Held(c)' = Held(c) /\ Carried(c)' = Carried(c)
    BY RefsSame
  <2> QED BY <2>1, RefsExist, RefInvNext DEF Refs, Exists
<1>7. ChansCounted'
  BY ChansStay DEF Exists
<1>8. HandedInv'
  BY DEF HandedInv, Parms
<1> QED BY <1>3, <1>4, <1>5, <1>6, <1>7, <1>8

LEMMA CreateChanKeeps ==
  ASSUME Sound, NEW t \in Thread, NEW u \in Thread, NEW c \in Chan, CreateChan(t, u, c)
  PROVE  Sound'
<1> USE DEF Sound, Lib, CreateChan
<1>1. /\ Exists(c) /\ chan[c] \in Channel
      /\ c \notin handed => Cardinality(Held(c)) + Cardinality(Carried(c)) = chan[c].snd_cnt + 1
  BY HolderExists
<1>2. /\ chan' \in [Chan -> Channel \cup {NULL}]
      /\ chan'[c].snd_cnt = chan[c].snd_cnt + 1
      /\ \A d \in Chan : d # c => chan'[d] = chan[d]
      /\ \A d \in Chan : (chan'[d] # NULL) <=> Exists(d)
      /\ \A d \in Chan : Exists(d) => chan'[d].at = chan[d].at /\ chan'[d].cgrp = chan[d].cgrp
      /\ Chans' = Chans
  <2>1. chan' = [chan EXCEPT ![c].snd_cnt = @ + 1] /\ chan[c].snd_cnt + 1 >= 0
    BY <1>1 DEF OneMoreSender, Channel
  <2> QED BY <1>1, <2>1, SenderCounted
<1>3. KallocOK' /\ UnitInv' /\ thd' \in [Thread -> Nat \cup {NULL}]
  <2>1. \A d \in Chans : chan'[d].at = chan[d].at
    BY <1>2 DEF Chans
  <2>2. Parms' = Parms
    BY DEF Parms
  <2> QED BY <1>2, <2>1, <2>2, ThreadComes
<1>4. HeapTypeOK'
  <2>1. holds' \in [Chan -> [Thread -> Nat]]
    BY HoldsTyped
  <2> QED BY <1>2, <1>3, <2>1 DEF HeapTypeOK
<1>5. MessageInv'
  BY <1>2 DEF MessageInv, Exists, Unbuffered
<1>6. RefInv'
  <2>1. \A d \in Chan : Carried(d)' = Carried(d)
    BY RefsSame
  <2>2. \A d \in Chan : /\ IsFiniteSet(Held(d)')
                        /\ Cardinality(Held(d)') = Cardinality(Held(d)) + IF d = c THEN 1 ELSE 0
    BY HeldCounts
  <2>3. ASSUME NEW d \in Chan \ handed', Cardinality(Held(d)') + Cardinality(Carried(d)') > 0
        PROVE  /\ chan'[d] # NULL
               /\ Cardinality(Held(d)') + Cardinality(Carried(d)') = chan'[d].snd_cnt + 1
    <3>1. CASE d = c
      BY <1>1, <1>2, <2>1, <2>2, <3>1, RefsExist DEF Channel
    <3>2. CASE d # c
      BY <1>2, <2>1, <2>2, <2>3, <3>2, RefsExist DEF Refs
    <3> QED BY <3>1, <3>2
  <2> QED BY <2>1, <2>2, <2>3, RefsExist, RefInvNext
<1>7. ChansCounted'
  BY <1>2, ChansStay
<1>8. HandedInv'
  BY DEF HandedInv, Parms
<1> QED BY <1>3, <1>4, <1>5, <1>6, <1>7, <1>8

LEMMA EndsKeeps ==
  ASSUME Sound, NEW t \in Thread, Ends(t)
  PROVE  Sound'
<1> USE DEF Sound, Lib, Ends
<1>1. KallocOK' /\ UnitInv' /\ thd' \in [Thread -> Nat \cup {NULL}]
  BY ThreadGoes
<1>2. HeapTypeOK'
  BY <1>1 DEF HeapTypeOK
<1>3. MessageInv'
  BY DEF MessageInv, Exists, Unbuffered
<1>4. RefInv'
  <2>1. \A c \in Chan : Held(c)' = Held(c) /\ Carried(c)' = Carried(c)
    BY RefsSame
  <2> QED BY <2>1, RefsExist, RefInvNext DEF Refs, Exists
<1>5. ChansCounted'
  BY ChansStay DEF Exists
<1>6. HandedInv'
  BY DEF HandedInv, Parms
<1> QED BY <1>1, <1>2, <1>3, <1>4, <1>5, <1>6

\* lwt_kthd_create hands a channel over ...
LEMMA KthdCreateKeeps ==
  ASSUME Sound, NEW t \in Thread, NEW k \in Kthd, NEW c \in Chan, KthdCreate(t, k, c)
  PROVE  Sound'
<1> USE DEF Sound, Lib, KthdCreate
<1>1. /\ KallocOK' /\ UnitInv' /\ parm' \in [Kthd -> Parm \cup {NULL}]
      /\ parm'[k] # NULL /\ parm'[k].c = c
      /\ \A j \in Kthd : j # k => parm'[j] = parm[j]
  BY ParmComes
<1>2. HeapTypeOK'
  BY <1>1 DEF HeapTypeOK
<1>3. MessageInv'
  BY DEF MessageInv, Exists, Unbuffered
<1>4. RefInv'
  <2>1. \A d \in Chan : Held(d)' = Held(d) /\ Carried(d)' = Carried(d)
    BY RefsSame
  <2> QED BY <2>1, RefsExist, RefInvNext DEF Refs, Exists
<1>5. HandedInv'
  BY <1>1 DEF HandedInv, Parms
<1>6. ChansCounted'
  BY ChansStay DEF Exists
<1> QED BY <1>1, <1>2, <1>3, <1>4, <1>5, <1>6

\* What the kernel thread writes into its parameters.
LEMMA ParmWritten ==
  ASSUME HeapTypeOK, HandedInv, NEW k \in Kthd, parm[k] # NULL,
         \/ \E u \in Thread : parm' = [parm EXCEPT ![k].lwt = u]
         \/ parm' = [parm EXCEPT ![k].c = NULL],
         handed' = handed
  PROVE  /\ parm' \in [Kthd -> Parm \cup {NULL}]
         /\ Parms' = Parms /\ \A j \in Parms : parm'[j].at = parm[j].at
         /\ HandedInv'
<1>1. /\ parm \in [Kthd -> Parm \cup {NULL}] /\ parm[k] \in Parm
      /\ Parm \cap {NULL} = {}
  BY HeapAssumption DEF HeapTypeOK
<1>2. /\ parm'[k] \in Parm /\ parm'[k].at = parm[k].at
      /\ parm'[k].c = parm[k].c \/ parm'[k].c = NULL
      /\ \A j \in Kthd : j # k => parm'[j] = parm[j]
  BY <1>1 DEF Parm
<1>3. parm' \in [Kthd -> Parm \cup {NULL}]
  <2>1. \E f : parm' = [parm EXCEPT ![k] = f]
    OBVIOUS
  <2> QED BY <1>1, <1>2, <2>1
<1>4. Parms' = Parms
  BY <1>1, <1>2 DEF Parms
<1>5. \A j \in Parms : parm'[j].at = parm[j].at
  BY <1>2 DEF Parms
<1>6. HandedInv'
  BY <1>2, <1>4 DEF HandedInv, Parms
<1> QED BY <1>3, <1>4, <1>5, <1>6

\* ... the kernel thread makes its first lwt ...
LEMMA KthdHeadKeeps ==
  ASSUME Sound, NEW k \in Kthd, NEW u \in Thread, KthdHead(k, u)
  PROVE  Sound'
<1> USE DEF Sound, Lib, KthdHead
<1>1. /\ parm' \in [Kthd -> Parm \cup {NULL}] /\ HandedInv'
      /\ Parms' = Parms /\ \A j \in Parms : parm'[j].at = parm[j].at
  BY ParmWritten
<1>2. Chans' = Chans
  BY DEF Chans, Exists
<1>3. KallocOK' /\ UnitInv' /\ thd' \in [Thread -> Nat \cup {NULL}]
  BY <1>1, <1>2, ThreadComes
<1>4. HeapTypeOK'
  BY <1>1, <1>3 DEF HeapTypeOK
<1>5. MessageInv'
  BY DEF MessageInv, Exists, Unbuffered
<1>6. RefInv'
  <2>1. \A c \in Chan : Held(c)' = Held(c) /\ Carried(c)' = Carried(c)
    BY RefsSame
  <2> QED BY <2>1, RefsExist, RefInvNext DEF Refs, Exists
<1>7. ChansCounted'
  BY ChansStay DEF Exists
<1> QED BY <1>1, <1>3, <1>4, <1>5, <1>6, <1>7

\* ... and one for the function it was given, which gets the channel.
LEMMA KthdFirstKeeps ==
  ASSUME Sound, NEW k \in Kthd, NEW u \in Thread, KthdFirst(k, u)
  PROVE  Sound'
<1> USE DEF Sound, Lib
<1> SUFFICES ASSUME NEW c, c = parm[k].c PROVE Sound'
  OBVIOUS
<1>1. /\ thd[u] = NULL /\ KAlloc(LwtLen) /\ thd' = [thd EXCEPT ![u] = NewAt]
      /\ holds' = [holds EXCEPT ![c][u] = @ + 1]
      /\ parm[k] # NULL /\ c # NULL /\ parm' = [parm EXCEPT ![k].c = NULL]
      /\ UNCHANGED <<chan, group, waiting, nchan, handed>>
  BY DEF KthdFirst
<1>2. c \in Chan /\ c \in handed
  <2>1. parm[k] \in Parm
    BY <1>1 DEF HeapTypeOK
  <2> QED BY <1>1, <2>1 DEF HandedInv, Parms, Parm
<1>3. /\ parm' \in [Kthd -> Parm \cup {NULL}] /\ HandedInv'
      /\ Parms' = Parms /\ \A j \in Parms : parm'[j].at = parm[j].at
  BY <1>1, ParmWritten
<1>4. KallocOK' /\ UnitInv' /\ thd' \in [Thread -> Nat \cup {NULL}]
  <2>1. Chans' = Chans
    BY <1>1 DEF Chans, Exists
  <2> QED BY <1>1, <1>3, <2>1, ThreadComes
<1>5. HeapTypeOK'
  <2>1. holds' \in [Chan -> [Thread -> Nat]]
    BY <1>1, <1>2, HoldsTyped
  <2> QED BY <1>1, <1>3, <1>4, <2>1 DEF HeapTypeOK
<1>6. MessageInv'
  BY <1>1 DEF MessageInv, Exists, Unbuffered
<1>7. RefInv'
  <2>1. \A d \in Chan : Carried(d)' = Carried(d)
    BY <1>1, RefsSame
  <2>2. \A d \in Chan : /\ IsFiniteSet(Held(d)')
                        /\ Cardinality(Held(d)') = Cardinality(Held(d)) + IF d = c THEN 1 ELSE 0
    BY <1>1, <1>2, HeldCounts
  <2>3. ASSUME NEW d \in Chan \ handed', Cardinality(Held(d)') + Cardinality(Carried(d)') > 0
        PROVE  /\ chan'[d] # NULL
               /\ Cardinality(Held(d)') + Cardinality(Carried(d)') = chan'[d].snd_cnt + 1
    <3>1. d # c
      BY <1>1, <1>2
    <3> QED BY <1>1, <2>1, <2>2, <2>3, <3>1, RefsExist DEF Refs, Exists
  <2> QED BY <2>1, <2>2, <2>3, RefsExist, RefInvNext
<1>8. ChansCounted'
  BY <1>1, ChansStay DEF Exists
<1> QED BY <1>3, <1>4, <1>5, <1>6, <1>7, <1>8

LEMMA NewChanKeeps ==
  ASSUME Sound, NEW t \in Thread, NEW c \in Chan, NewChan(t, c)
  PROVE  Sound'
<1> USE DEF Sound, Lib, NewChan
<1>1. /\ KallocOK' /\ UnitInv' /\ chan' \in [Chan -> Channel \cup {NULL}]
      /\ Exists(c)' /\ Chans' = Chans \cup {c}
      /\ \A d \in Chan : d # c => chan'[d] = chan[d]
      /\ chan'[c].snd_cnt = 0 /\ chan'[c].cgrp = NULL
  BY ChanComes
<1>2. Cardinality(Held(c)) = 0 /\ Cardinality(Carried(c)) = 0
  BY RefsExist DEF Refs
<1>3. \A u \in Thread : holds[c][u] = 0
  <2>1. \A u \in Thread : holds[c][u] \in Nat
    BY DEF HeapTypeOK
  <2> QED BY <1>2, <2>1, RefsExist
<1>4. holds' = [holds EXCEPT ![c][t] = @ + 1] /\ holds' \in [Chan -> [Thread -> Nat]]
  <2>1. holds[c][t] + 1 = 1
    BY <1>3
  <2>2. holds' = [holds EXCEPT ![c][t] = 1]
    OBVIOUS
  <2>3. holds' \in [Chan -> [Thread -> Nat]]
    BY <2>2, HoldsTyped
  <2> QED BY <2>1, <2>2, <2>3
<1>5. HeapTypeOK'
  BY <1>1, <1>4 DEF HeapTypeOK
<1>6. MessageInv'
  BY <1>1 DEF MessageInv, Exists, Unbuffered
<1>7. RefInv'
  <2>1. \A d \in Chan : Carried(d)' = Carried(d)
    BY RefsSame
  <2>2. \A d \in Chan : /\ IsFiniteSet(Held(d)')
                        /\ Cardinality(Held(d)') = Cardinality(Held(d)) + IF d = c THEN 1 ELSE 0
    BY <1>4, HeldCounts
  <2>3. ASSUME NEW d \in Chan \ handed', Cardinality(Held(d)') + Cardinality(Carried(d)') > 0
        PROVE  /\ chan'[d] # NULL
               /\ Cardinality(Held(d)') + Cardinality(Carried(d)') = chan'[d].snd_cnt + 1
    <3>1. CASE d = c
      BY <1>1, <1>2, <2>1, <2>2, <3>1 DEF Exists
    <3>2. CASE d # c
      BY <1>1, <2>1, <2>2, <2>3, <3>2, RefsExist DEF Refs, Exists
    <3> QED BY <3>1, <3>2
  <2> QED BY <2>1, <2>2, <2>3, RefsExist, RefInvNext
<1>8. ChansCounted'
  <2>1. c \notin Chans
    BY DEF Chans
  <2>2. nchan' = Cardinality(Chans')
    <3>1. IsFiniteSet(Chans) /\ nchan = Cardinality(Chans)
      BY ChansCountedIs
    <3>2. Cardinality(Chans \cup {c}) = Cardinality(Chans) + 1
      BY <2>1, <3>1, FS_AddElement
    <3> QED BY <1>1, <3>1, <3>2
  <2>3. \A g \in Group : Members(g)' = Members(g)
    BY <1>1, HeapAssumption DEF Members, Exists
  <2>4. \A d \in Chan : chan'[d] # NULL /\ chan'[d].cgrp # NULL => group'[chan'[d].cgrp] # NULL
    BY <1>1, ChansCountedIs DEF Exists
  <2> QED BY <2>2, <2>3, <2>4, ChansCountedIs, ChansCountedNext
<1>9. HandedInv'
  BY DEF HandedInv, Parms, Pending
<1> QED BY <1>1, <1>5, <1>6, <1>7, <1>8, <1>9

\* What a message that is sent does to the sequences.
LEMMA WaitingTyped ==
  ASSUME HeapTypeOK, NEW c \in Chan, NEW m \in Message,
         waiting' = [waiting EXCEPT ![c] = Append(@, m)]
  PROVE  /\ waiting' \in [Chan -> Seq(Message)]
         /\ \A d \in Chan : d # c => waiting'[d] = waiting[d]
         /\ Len(waiting'[c]) = Len(waiting[c]) + 1 /\ DOMAIN waiting'[c] = 1..(Len(waiting[c]) + 1)
         /\ waiting'[c][Len(waiting[c]) + 1] = m
<1>1. waiting \in [Chan -> Seq(Message)] /\ waiting[c] \in Seq(Message)
  BY DEF HeapTypeOK
<1>2. waiting'[c] = Append(waiting[c], m) /\ \A d \in Chan : d # c => waiting'[d] = waiting[d]
  BY <1>1
<1>3. Append(waiting[c], m) \in Seq(Message)
  BY <1>1, Appended
<1>4. waiting' \in [Chan -> Seq(Message)]
  BY <1>1, <1>3
<1>5. /\ Len(Append(waiting[c], m)) = Len(waiting[c]) + 1
      /\ DOMAIN Append(waiting[c], m) = 1..(Len(waiting[c]) + 1)
      /\ Append(waiting[c], m)[Len(waiting[c]) + 1] = m
  BY <1>1, Appended
<1> QED BY <1>2, <1>4, <1>5

LEMMA SndChanKeeps ==
  ASSUME Sound, NEW t \in Thread, NEW c \in Chan, NEW x \in Chan, SndChan(t, c, x)
  PROVE  Sound'
<1> USE DEF Sound, Lib
<1>1. /\ Holds(t, c) /\ Holds(t, x) /\ chan' = [OneMoreSender(x) EXCEPT ![x].rcv_thd = t]
      /\ UNCHANGED <<thd, group, holds, nchan, parm, handed>>
  BY DEF SndChan
<1>2. /\ Exists(c) /\ Exists(x) /\ chan[x] \in Channel
      /\ x \notin handed => Cardinality(Held(x)) + Cardinality(Carried(x)) = chan[x].snd_cnt + 1
  BY <1>1, HolderExists
<1>3. /\ chan' \in [Chan -> Channel \cup {NULL}]
      /\ chan'[x].snd_cnt = chan[x].snd_cnt + 1
      /\ \A d \in Chan : d # x => chan'[d] = chan[d]
      /\ \A d \in Chan : (chan'[d] # NULL) <=> Exists(d)
      /\ \A d \in Chan : Exists(d) => chan'[d].at = chan[d].at /\ chan'[d].cgrp = chan[d].cgrp
      /\ Chans' = Chans
  <2>1. /\ chan' = [[chan EXCEPT ![x].snd_cnt = @ + 1] EXCEPT ![x].rcv_thd = t]
        /\ chan[x].snd_cnt + 1 >= 0
    BY <1>1, <1>2 DEF OneMoreSender, Channel
  <2> QED BY <1>2, <2>1, SenderCounted
<1>4. PICK m : /\ m = [at |-> m.at, data |-> x] /\ m.data = x
               /\ waiting' = [waiting EXCEPT ![c] = Append(@, m)]
               /\ IF Unbuffered(c) THEN KAlloc(NodeLen) /\ m.at = NewAt
                                   ELSE UNCHANGED kallocvars /\ m.at = NULL
               /\ Unbuffered(c) => waiting[c] = <<>>
  <2>1. CASE Unbuffered(c)
    <3> DEFINE m == [at |-> NewAt, data |-> x]
    <3>1. waiting[c] = <<>> /\ waiting' = [waiting EXCEPT ![c] = <<m>>] /\ KAlloc(NodeLen)
      BY <2>1 DEF SndChan
    <3>2. Append(waiting[c], m) = <<m>>
      BY <3>1
    <3>3. m = [at |-> m.at, data |-> x] /\ m.data = x /\ m.at = NewAt
      OBVIOUS
    <3> HIDE DEF m
    <3> QED BY <2>1, <3>1, <3>2, <3>3
  <2>2. CASE ~Unbuffered(c)
    <3> DEFINE m == [at |-> NULL, data |-> x]
    <3>1. waiting' = [waiting EXCEPT ![c] = Append(@, m)] /\ UNCHANGED kallocvars
      BY <2>2 DEF SndChan
    <3>2. m = [at |-> m.at, data |-> x] /\ m.data = x /\ m.at = NULL
      OBVIOUS
    <3> HIDE DEF m
    <3> QED BY <2>2, <3>1, <3>2
  <2> QED BY <2>1, <2>2
<1>5. KallocOK' /\ UnitInv' /\ m \in Message /\ (Unbuffered(c) => m.at \in Nat)
  <2>1. \A d \in Chans : chan'[d].at = chan[d].at
    BY <1>3 DEF Chans
  <2>2. m = [at |-> m.at, data |-> m.data] /\ m.data \in Chan
    BY <1>4
  <2> QED BY <1>1, <1>3, <1>4, <2>1, <2>2, NodeComes
<1>6. /\ waiting' \in [Chan -> Seq(Message)]
      /\ \A d \in Chan : d # c => waiting'[d] = waiting[d]
      /\ Len(waiting'[c]) = Len(waiting[c]) + 1 /\ DOMAIN waiting'[c] = 1..(Len(waiting[c]) + 1)
      /\ waiting'[c][Len(waiting[c]) + 1] = m
  BY <1>4, <1>5, WaitingTyped
<1>7. HeapTypeOK'
  BY <1>1, <1>3, <1>6 DEF HeapTypeOK
<1>8. MessageInv'
  <2>1. ASSUME Unbuffered(c) PROVE Len(waiting'[c]) <= 1 /\ \A i \in DOMAIN waiting'[c] : waiting'[c][i].at \in Nat
    <3>1. Len(waiting[c]) = 0
      BY <1>4, <2>1
    <3> QED BY <1>5, <1>6, <2>1, <3>1
  <2>2. ASSUME NEW d \in Chan PROVE waiting'[d] # <<>> => chan'[d] # NULL
    BY <1>2, <1>3, <1>6 DEF MessageInv
  <2>3. ASSUME NEW d \in Chan, Unbuffered(d)
        PROVE  Len(waiting'[d]) <= 1 /\ \A i \in DOMAIN waiting'[d] : waiting'[d][i].at \in Nat
    <3>1. CASE d = c
      BY <2>1, <2>3, <3>1
    <3>2. CASE d # c
      BY <1>6, <2>3, <3>2 DEF MessageInv
    <3> QED BY <3>1, <3>2
  <2> QED BY <2>2, <2>3 DEF MessageInv, Exists, Unbuffered
<1>9. RefInv'
  <2>1. \A d \in Chan : Held(d)' = Held(d)
    BY <1>1, RefsSame
  <2>2. \A d \in Chan : /\ IsFiniteSet(Carried(d)')
                        /\ Cardinality(Carried(d)') = Cardinality(Carried(d)) + IF d = x THEN 1 ELSE 0
    BY <1>4, <1>5, CarriedCounts
  <2>3. ASSUME NEW d \in Chan \ handed', Cardinality(Held(d)') + Cardinality(Carried(d)') > 0
        PROVE  /\ chan'[d] # NULL
               /\ Cardinality(Held(d)') + Cardinality(Carried(d)') = chan'[d].snd_cnt + 1
    <3>1. CASE d = x
      BY <1>1, <1>2, <1>3, <2>1, <2>2, <2>3, <3>1, RefsExist DEF Channel
    <3>2. CASE d # x
      BY <1>1, <1>3, <2>1, <2>2, <2>3, <3>2, RefsExist DEF Refs
    <3> QED BY <3>1, <3>2
  <2> QED BY <1>1, <2>1, <2>2, <2>3, RefsExist, RefInvNext
<1>10. ChansCounted'
  BY <1>1, <1>3, ChansStay
<1>11. HandedInv'
  BY <1>1 DEF HandedInv, Parms
<1> QED BY <1>5, <1>7, <1>8, <1>9, <1>10, <1>11

LEMMA RcvChanKeeps ==
  ASSUME Sound, NEW t \in Thread, NEW c \in Chan, RcvChan(t, c)
  PROVE  Sound'
<1> USE DEF Sound, Lib
<1> SUFFICES ASSUME NEW x, x = Head(waiting[c]).data PROVE Sound'
  OBVIOUS
<1>1. /\ waiting[c] # <<>> /\ waiting' = [waiting EXCEPT ![c] = Tail(@)]
      /\ IF Unbuffered(c) THEN KFree(Head(waiting[c]).at, NodeLen) ELSE UNCHANGED kallocvars
      /\ holds' = [holds EXCEPT ![x][t] = @ + 1]
      /\ Holds(t, c) /\ chan' = [chan EXCEPT ![c].rcv_thd = t]
      /\ UNCHANGED <<thd, group, nchan, parm, handed>>
  BY DEF RcvChan
<1>0. /\ chan' \in [Chan -> Channel \cup {NULL}]
      /\ chan'[c].snd_cnt = chan[c].snd_cnt
      /\ \A d \in Chan : d # c => chan'[d] = chan[d]
      /\ \A d \in Chan : (chan'[d] # NULL) <=> Exists(d)
      /\ \A d \in Chan : Exists(d) => chan'[d].at = chan[d].at /\ chan'[d].cgrp = chan[d].cgrp
      /\ Chans' = Chans
  <2>1. Exists(c) /\ chan[c] \in Channel
    BY <1>1, HolderExists
  <2>2. chan[c].snd_cnt \in Nat
    BY <2>1 DEF Channel
  <2>3. PICK z \in {1, -1, 0} : z = 0
    OBVIOUS
  <2>4. chan[c].snd_cnt + z >= 0 /\ chan[c].snd_cnt + z = chan[c].snd_cnt
    BY <2>2, <2>3
  <2>5. \/ chan' = [chan EXCEPT ![c].snd_cnt = @ + z]
        \/ chan' = [[chan EXCEPT ![c].snd_cnt = @ + z] EXCEPT ![c].rcv_thd = t]
        \/ z = 0 /\ chan' = [chan EXCEPT ![c].rcv_thd = t]
    BY <1>1, <2>3
  <2> QED BY <2>1, <2>4, <2>5, SenderCounted
<1>2. KallocOK' /\ UnitInv'
  <2>1. \A d \in Chans : chan'[d].at = chan[d].at
    BY <1>0 DEF Chans
  <2> QED BY <1>0, <1>1, <2>1, NodeGoes
<1>3. /\ \A d \in Chan :
           /\ IsFiniteSet(Carried(d)')
           /\ Cardinality(Carried(d)') = Cardinality(Carried(d)) - IF d = x THEN 1 ELSE 0
      /\ <<c, 1>> \in Carried(x)
  BY <1>1, CarriedLess DEF RefInv
<1>4. /\ waiting'[c] = Tail(waiting[c]) /\ waiting' \in [Chan -> Seq(Message)]
      /\ \A d \in Chan : d # c => waiting'[d] = waiting[d]
      /\ Len(waiting'[c]) = Len(waiting[c]) - 1 /\ Len(waiting[c]) \in Nat \ {0}
      /\ DOMAIN waiting'[c] = 1..(Len(waiting[c]) - 1) /\ x \in Chan
  <2>1. waiting \in [Chan -> Seq(Message)]
    BY DEF HeapTypeOK
  <2> DEFINE s == waiting[c]
  <2>2. s \in Seq(Message) /\ s # <<>>
    BY <1>1, <2>1
  <2> HIDE DEF s
  <2>3. /\ Tail(s) \in Seq(Message) /\ Len(s) \in Nat \ {0} /\ Len(Tail(s)) = Len(s) - 1
        /\ DOMAIN Tail(s) = 1..(Len(s) - 1) /\ Head(s) \in Message
    BY <2>2, Shortened
  <2>4. waiting' = [waiting EXCEPT ![c] = Tail(s)] /\ x = Head(s).data
    BY <1>1 DEF s
  <2>5. x \in Chan
    BY <2>3, <2>4 DEF Message
  <2>6. waiting' \in [Chan -> Seq(Message)]
    BY <2>1, <2>3, <2>4
  <2> QED BY <2>1, <2>3, <2>4, <2>5, <2>6 DEF s
<1>5. HeapTypeOK'
  <2>1. holds' \in [Chan -> [Thread -> Nat]]
    BY <1>1, <1>4, HoldsTyped
  <2> QED BY <1>0, <1>1, <1>4, <2>1 DEF HeapTypeOK
<1>6. MessageInv'
  <2>1. ASSUME NEW d \in Chan PROVE waiting'[d] # <<>> => Exists(d)'
    BY <1>0, <1>1, <1>4 DEF MessageInv, Exists
  <2>2. ASSUME NEW d \in Chan, Unbuffered(d)
        PROVE  Len(waiting'[d]) <= 1 /\ \A i \in DOMAIN waiting'[d] : waiting'[d][i].at \in Nat
    <3>1. CASE d = c
      <4>1. Len(waiting[c]) <= 1
        BY <2>2, <3>1 DEF MessageInv
      <4> QED BY <1>4, <3>1, <4>1
    <3>2. CASE d # c
      BY <1>4, <2>2, <3>2 DEF MessageInv
    <3> QED BY <3>1, <3>2
  <2> QED BY <2>1, <2>2 DEF MessageInv, Unbuffered
<1>7. RefInv'
  <2>1. \A d \in Chan : /\ IsFiniteSet(Held(d)')
                        /\ Cardinality(Held(d)') = Cardinality(Held(d)) + IF d = x THEN 1 ELSE 0
    BY <1>1, <1>4, HeldCounts
  <2>2. ASSUME NEW d \in Chan PROVE Cardinality(Held(d)') + Cardinality(Carried(d)') = Refs(d)
    BY <1>3, <2>1, RefsExist DEF Refs
  <2>3. \A d \in Chan : Exists(d) => chan'[d].snd_cnt = chan[d].snd_cnt
    BY <1>0
  <2> QED BY <1>0, <1>1, <1>3, <2>1, <2>2, <2>3, RefsExist, RefInvNext DEF Exists
<1>8. ChansCounted'
  BY <1>0, <1>1, ChansStay
<1>9. HandedInv'
  BY <1>1 DEF HandedInv, Parms
<1> QED BY <1>2, <1>5, <1>6, <1>7, <1>8, <1>9

LEMMA DerefKeeps ==
  ASSUME Sound, NEW t \in Thread, NEW c \in Chan, Holds(t, c), MayDeref(t, c), Deref(t, c)
  PROVE  Sound'
<1> USE DEF Sound, Lib
<1>1. /\ holds[c][t] > 0 /\ holds' = [holds EXCEPT ![c][t] = @ - 1]
      /\ UNCHANGED <<thd, group, waiting, parm, handed>>
  BY DEF Deref, Holds
<1>2. /\ Exists(c) /\ chan[c] \in Channel
      /\ c \notin handed => Cardinality(Held(c)) + Cardinality(Carried(c)) = chan[c].snd_cnt + 1
  BY HolderExists
<1>3. holds' \in [Chan -> [Thread -> Nat]]
  BY <1>1, HoldsTyped
<1>4. \A d \in Chan : /\ IsFiniteSet(Held(d)')
                      /\ Cardinality(Held(d)') = Cardinality(Held(d)) - IF d = c THEN 1 ELSE 0
  BY <1>1, HeldCounts
<1>5. \A d \in Chan : Carried(d)' = Carried(d)
  BY <1>1, RefsSame
<1>9. HandedInv'
  BY <1>1 DEF HandedInv, Parms
<1>6. CASE /\ chan[c].snd_cnt > 0
           /\ chan' = [chan EXCEPT ![c].snd_cnt = @ - 1]
           /\ UNCHANGED <<kallocvars, nchan>>
  <2>1. /\ chan' \in [Chan -> Channel \cup {NULL}]
        /\ chan'[c].snd_cnt = chan[c].snd_cnt - 1
        /\ \A d \in Chan : d # c => chan'[d] = chan[d]
        /\ \A d \in Chan : (chan'[d] # NULL) <=> Exists(d)
        /\ \A d \in Chan : Exists(d) => chan'[d].at = chan[d].at /\ chan'[d].cgrp = chan[d].cgrp
        /\ Chans' = Chans
    <3>1. chan[c].snd_cnt \in Nat
      BY <1>2 DEF Channel
    <3>2. chan[c].snd_cnt + (-1) = chan[c].snd_cnt - 1 /\ chan[c].snd_cnt + (-1) >= 0
      BY <1>6, <3>1
    <3>3. chan' = [chan EXCEPT ![c].snd_cnt = @ + (-1)]
      <4>1. chan' = [chan EXCEPT ![c].snd_cnt = chan[c].snd_cnt - 1]
        BY <1>6
      <4> QED BY <3>2, <4>1
    <3> QED BY <1>2, <3>2, <3>3, SenderCounted
  <2>2. KallocOK' /\ UnitInv'
    <3>1. \A d \in Chans : chan'[d].at = chan[d].at
      BY <2>1 DEF Chans
    <3>2. Groups' = Groups
      BY <1>1 DEF Groups
    <3> QED BY <1>1, <1>6, <2>1, <3>1, <3>2, KallocOKStays, NothingComes DEF kallocvars
  <2>3. HeapTypeOK'
    BY <1>1, <1>3, <2>1 DEF HeapTypeOK
  <2>4. MessageInv'
    BY <1>1, <2>1 DEF MessageInv, Exists, Unbuffered
  <2>5. RefInv'
    <3>1. ASSUME NEW d \in Chan \ handed', Cardinality(Held(d)') + Cardinality(Carried(d)') > 0
          PROVE  /\ chan'[d] # NULL
                 /\ Cardinality(Held(d)') + Cardinality(Carried(d)') = chan'[d].snd_cnt + 1
      <4>1. CASE d = c
        BY <1>1, <1>2, <1>4, <1>5, <2>1, <3>1, <4>1, RefsExist DEF Channel
      <4>2. CASE d # c
        BY <1>1, <1>4, <1>5, <2>1, <3>1, <4>2, RefsExist DEF Refs
      <4> QED BY <4>1, <4>2
    <3> QED BY <1>4, <1>5, <3>1, RefsExist, RefInvNext
  <2>6. ChansCounted'
    BY <1>1, <1>6, <2>1, ChansStay
  <2> QED BY <1>9, <2>2, <2>3, <2>4, <2>5, <2>6
<1>7. CASE /\ chan[c].snd_cnt = 0
           /\ KFree(chan[c].at, FreedLen(c))
           /\ chan' = [chan EXCEPT ![c] = NULL]
           /\ nchan' = nchan - 1
  <2>1. waiting[c] = <<>> /\ chan[c].cgrp = NULL
    BY <1>7 DEF MayDeref
  <2>2. /\ KallocOK' /\ UnitInv' /\ chan' \in [Chan -> Channel \cup {NULL}]
        /\ ~Exists(c)' /\ Chans' = Chans \ {c}
        /\ \A d \in Chan : d # c => chan'[d] = chan[d]
    BY <1>1, <1>2, <1>7, ChanGoes DEF FreedLen
  <2>3. HeapTypeOK'
    BY <1>1, <1>3, <2>2 DEF HeapTypeOK
  <2>4. MessageInv'
    BY <1>1, <2>1, <2>2 DEF MessageInv, Exists, Unbuffered
  <2>5. RefInv'
    <3>1. c \notin handed => Cardinality(Held(c)') + Cardinality(Carried(c)') = 0
      BY <1>2, <1>4, <1>5, <1>7, RefsExist
    <3>2. ASSUME NEW d \in Chan \ handed', Cardinality(Held(d)') + Cardinality(Carried(d)') > 0
          PROVE  /\ chan'[d] # NULL
                 /\ Cardinality(Held(d)') + Cardinality(Carried(d)') = chan'[d].snd_cnt + 1
      BY <1>1, <1>4, <1>5, <2>2, <3>1, <3>2, RefsExist DEF Refs, Exists
    <3> QED BY <1>4, <1>5, <3>2, RefsExist, RefInvNext
  <2>6. ChansCounted'
    <3>1. nchan' = Cardinality(Chans')
      <4>1. IsFiniteSet(Chans) /\ nchan = Cardinality(Chans) /\ c \in Chans
        BY <1>2, ChansCountedIs DEF Chans
      <4>2. Cardinality(Chans \ {c}) = Cardinality(Chans) - 1
        BY <4>1, FS_RemoveElement
      <4> QED BY <1>7, <2>2, <4>1, <4>2
    <3>2. \A g \in Group : Members(g)' = Members(g)
      BY <2>1, <2>2, HeapAssumption DEF Members, Exists
    <3>3. \A d \in Chan : chan'[d] # NULL /\ chan'[d].cgrp # NULL => group'[chan'[d].cgrp] # NULL
      BY <1>1, <2>2, ChansCountedIs DEF Exists
    <3> QED BY <1>1, <3>1, <3>2, <3>3, ChansCountedIs, ChansCountedNext
  <2> QED BY <1>9, <2>2, <2>3, <2>4, <2>5, <2>6
<1>8. CASE chan[c].snd_cnt = 0 /\ UNCHANGED <<kallocvars, chan, nchan>>
  <2>1. Chans' = Chans /\ Groups' = Groups
    BY <1>1, <1>8 DEF Chans, Groups, Exists
  <2>2. KallocOK' /\ UnitInv'
    BY <1>1, <1>8, <2>1, KallocOKStays, NothingComes DEF kallocvars
  <2>3. HeapTypeOK'
    BY <1>1, <1>3, <1>8 DEF HeapTypeOK
  <2>4. MessageInv'
    BY <1>1, <1>8 DEF MessageInv, Exists, Unbuffered
  <2>5. RefInv'
    <3>1. c \notin handed => Cardinality(Held(c)') + Cardinality(Carried(c)') = 0
      BY <1>2, <1>4, <1>5, <1>8, RefsExist
    <3>2. ASSUME NEW d \in Chan \ handed', Cardinality(Held(d)') + Cardinality(Carried(d)') > 0
          PROVE  /\ chan'[d] # NULL
                 /\ Cardinality(Held(d)') + Cardinality(Carried(d)') = chan'[d].snd_cnt + 1
      BY <1>1, <1>4, <1>5, <1>8, <3>1, <3>2, RefsExist DEF Refs, Exists
    <3> QED BY <1>4, <1>5, <3>2, RefsExist, RefInvNext
  <2>6. ChansCounted'
    BY <1>1, <1>8, ChansStay DEF Exists
  <2> QED BY <1>9, <2>2, <2>3, <2>4, <2>5, <2>6
<1> QED BY <1>6, <1>7, <1>8 DEF Deref

LEMMA NewGroupKeeps ==
  ASSUME Sound, NEW g \in Group, NewGroup(g)
  PROVE  Sound'
<1> USE DEF Sound, Lib, NewGroup
<1>1. /\ KallocOK' /\ UnitInv' /\ group' \in [Group -> Cgroup \cup {NULL}]
      /\ group'[g] # NULL /\ group'[g].n_chan = 0
      /\ \A h \in Group : h # g => group'[h] = group[h]
  BY GroupComes
<1>2. HeapTypeOK'
  BY <1>1 DEF HeapTypeOK
<1>3. MessageInv'
  BY DEF MessageInv, Exists, Unbuffered
<1>4. RefInv'
  <2>1. \A c \in Chan : Held(c)' = Held(c) /\ Carried(c)' = Carried(c)
    BY RefsSame
  <2> QED BY <2>1, RefsExist, RefInvNext DEF Refs, Exists
<1>5. ChansCounted'
  <2>1. Chans' = Chans /\ \A h \in Group : Members(h)' = Members(h)
    BY DEF Chans, Members, Exists
  <2>2. Members(g) = {}
    BY ChansCountedIs, HeapAssumption DEF Members
  <2>3. Cardinality(Members(g)) = 0
    BY <2>2, FS_EmptySet
  <2>4. \A h \in Group : group'[h] # NULL => group'[h].n_chan = Cardinality(Members(h)')
    BY <1>1, <2>1, <2>3, ChansCountedIs
  <2>5. \A c \in Chan : chan'[c] # NULL /\ chan'[c].cgrp # NULL => group'[chan'[c].cgrp] # NULL
    <3>1. \A c \in Chan : Exists(c) /\ chan[c].cgrp # NULL => chan[c].cgrp \in Group
      BY DEF HeapTypeOK, Exists, Channel
    <3> QED BY <1>1, <3>1, ChansCountedIs DEF Exists
  <2> QED BY <2>1, <2>4, <2>5, ChansCountedIs, ChansCountedNext
<1>6. HandedInv'
  BY DEF HandedInv, Parms
<1> QED BY <1>1, <1>2, <1>3, <1>4, <1>5, <1>6

LEMMA FreeGroupKeeps ==
  ASSUME Sound, NEW g \in Group, FreeGroup(g)
  PROVE  Sound'
<1> USE DEF Sound, Lib, FreeGroup
<1>1. /\ KallocOK' /\ UnitInv' /\ group' \in [Group -> Cgroup \cup {NULL}]
      /\ group'[g] = NULL
      /\ \A h \in Group : h # g => group'[h] = group[h]
  BY GroupGoes
<1>2. HeapTypeOK'
  BY <1>1 DEF HeapTypeOK
<1>3. MessageInv'
  BY DEF MessageInv, Exists, Unbuffered
<1>4. RefInv'
  <2>1. \A c \in Chan : Held(c)' = Held(c) /\ Carried(c)' = Carried(c)
    BY RefsSame
  <2> QED BY <2>1, RefsExist, RefInvNext DEF Refs, Exists
<1>5. ChansCounted'
  <2>1. Chans' = Chans /\ \A h \in Group : Members(h)' = Members(h)
    BY DEF Chans, Members, Exists
  <2>2. Members(g) = {}
    <3>1. IsFiniteSet(Members(g)) /\ Cardinality(Members(g)) = 0
      BY ChansCountedIs
    <3> QED BY <3>1, FS_EmptySet
  <2>3. \A h \in Group : group'[h] # NULL => group'[h].n_chan = Cardinality(Members(h)')
    BY <1>1, <2>1, ChansCountedIs
  <2>4. \A c \in Chan : chan'[c] # NULL /\ chan'[c].cgrp # NULL => group'[chan'[c].cgrp] # NULL
    <3>1. \A c \in Chan : Exists(c) /\ chan[c].cgrp # NULL => chan[c].cgrp \in Group /\ chan[c].cgrp # g
      BY <2>2 DEF HeapTypeOK, Exists, Channel, Members
    <3> QED BY <1>1, <3>1, ChansCountedIs DEF Exists
  <2> QED BY <2>1, <2>3, <2>4, ChansCountedIs, ChansCountedNext
<1>6. HandedInv'
  BY DEF HandedInv, Parms
<1> QED BY <1>1, <1>2, <1>3, <1>4, <1>5, <1>6

\* A channel goes into a group or out of it.
LEMMA RegroupKeeps ==
  ASSUME Sound, NEW c \in Chan, Exists(c), NEW g \in Group, group[g] # NULL, NEW k \in {1, -1},
         NEW new \in Group \cup {NULL},
         \/ k = 1 /\ chan[c].cgrp = NULL /\ new = g
         \/ k = -1 /\ chan[c].cgrp = g /\ new = NULL,
         group' = [group EXCEPT ![g].n_chan = @ + k], chan' = [chan EXCEPT ![c].cgrp = new],
         UNCHANGED <<kallocvars, thd, waiting, holds, nchan, parm, handed>>
  PROVE  Sound'
<1> USE DEF Sound, Lib
<1>1. /\ chan[c] \in Channel /\ chan \in [Chan -> Channel \cup {NULL}]
      /\ group[g] \in Cgroup /\ group \in [Group -> Cgroup \cup {NULL}]
      /\ Channel \cap {NULL} = {} /\ Cgroup \cap {NULL} = {} /\ NULL \notin Group
  BY HeapAssumption DEF HeapTypeOK, Exists
<1>2. /\ chan'[c] \in Channel /\ chan'[c].snd_cnt = chan[c].snd_cnt
      /\ chan'[c].at = chan[c].at /\ chan'[c].cgrp = new
      /\ \A d \in Chan : d # c => chan'[d] = chan[d]
  BY <1>1 DEF Channel
<1>3. Chans' = Chans /\ \A d \in Chan : (chan'[d] # NULL) <=> Exists(d)
  BY <1>1, <1>2 DEF Chans, Exists
<1>4. /\ \A h \in Group : h # g => Members(h)' = Members(h)
      /\ k = 1 => c \notin Members(g) /\ Members(g)' = Members(g) \cup {c}
      /\ k = -1 => c \in Members(g) /\ Members(g)' = Members(g) \ {c}
  <2>1. \A h \in Group, d \in Chan : d # c => (d \in Members(h)' <=> d \in Members(h))
    BY <1>2 DEF Members, Exists
  <2>2. \A h \in Group : (c \in Members(h)' <=> h = new) /\ (c \in Members(h) <=> h = chan[c].cgrp)
    BY <1>1, <1>2 DEF Members, Exists
  <2>3. \A h \in Group : Members(h) \subseteq Chan /\ Members(h)' \subseteq Chan
    BY DEF Members
  <2>4. ASSUME NEW h \in Group, h # g PROVE Members(h)' = Members(h)
    <3>1. h # new /\ h # chan[c].cgrp
      BY <1>1, <2>4
    <3>2. \A d \in Chan : d \in Members(h)' <=> d \in Members(h)
      BY <2>1, <2>2, <3>1
    <3> QED BY <2>3, <3>2
  <2>5. k = 1 => c \notin Members(g) /\ Members(g)' = Members(g) \cup {c}
    BY <1>1, <2>1, <2>2, <2>3
  <2>6. k = -1 => c \in Members(g) /\ Members(g)' = Members(g) \ {c}
    BY <1>1, <2>1, <2>2, <2>3
  <2> QED BY <2>4, <2>5, <2>6
<1>5. /\ IsFiniteSet(Members(g)) /\ group[g].n_chan = Cardinality(Members(g))
      /\ Cardinality(Members(g)) \in Nat
      /\ Cardinality(Members(g)') = Cardinality(Members(g)) + k /\ Cardinality(Members(g)') \in Nat
  <2>1. IsFiniteSet(Members(g)) /\ group[g].n_chan = Cardinality(Members(g))
    BY ChansCountedIs
  <2>2. Cardinality(Members(g)) \in Nat
    BY <2>1, FS_CardinalityType
  <2>3. CASE k = 1
    <3>1. IsFiniteSet(Members(g)') /\ Cardinality(Members(g)') = Cardinality(Members(g)) + 1
      BY <1>4, <2>1, <2>3, FS_AddElement
    <3> QED BY <2>1, <2>2, <2>3, <3>1
  <2>4. CASE k = -1
    <3>1. IsFiniteSet(Members(g)') /\ Cardinality(Members(g)') = Cardinality(Members(g)) - 1
      BY <1>4, <2>1, <2>4, FS_RemoveElement
    <3>2. Cardinality(Members(g)') \in Nat
      BY <3>1, FS_CardinalityType
    <3> QED BY <2>1, <2>2, <2>4, <3>1, <3>2
  <2> QED BY <2>1, <2>2, <2>3, <2>4
<1>6. /\ group'[g].n_chan = Cardinality(Members(g)') /\ group'[g] \in Cgroup
      /\ group'[g].at = group[g].at
      /\ \A h \in Group : h # g => group'[h] = group[h]
  BY <1>1, <1>5 DEF Cgroup
<1>7. KallocOK' /\ UnitInv'
  <2>1. Groups' = Groups
    BY <1>1, <1>6 DEF Groups
  <2>2. \A d \in Chans : chan'[d].at = chan[d].at
    BY <1>2 DEF Chans
  <2>3. \A h \in Groups : group'[h].at = group[h].at
    BY <1>6 DEF Groups
  <2> QED BY <1>3, <2>1, <2>2, <2>3, KallocOKStays, NothingComes DEF kallocvars
<1>8. HeapTypeOK'
  <2>1. chan' \in [Chan -> Channel \cup {NULL}]
    <3>1. \E f : chan' = [chan EXCEPT ![c] = f]
      OBVIOUS
    <3> QED BY <1>1, <1>2, <3>1
  <2>2. group' \in [Group -> Cgroup \cup {NULL}]
    <3>1. \E f : group' = [group EXCEPT ![g] = f]
      OBVIOUS
    <3> QED BY <1>1, <1>6, <3>1
  <2> QED BY <2>1, <2>2 DEF HeapTypeOK
<1>9. MessageInv'
  BY <1>3 DEF MessageInv, Exists, Unbuffered
<1>10. RefInv'
  <2>1. \A d \in Chan : Held(d)' = Held(d) /\ Carried(d)' = Carried(d)
    BY RefsSame
  <2>2. \A d \in Chan : chan'[d] # NULL => chan'[d].snd_cnt = chan[d].snd_cnt
    BY <1>2
  <2> QED BY <1>3, <2>1, <2>2, RefsExist, RefInvNext DEF Refs
<1>11. ChansCounted'
  <2>1. \A h \in Group : group'[h] # NULL => group'[h].n_chan = Cardinality(Members(h)')
    BY <1>4, <1>6, ChansCountedIs
  <2>2. \A d \in Chan : chan'[d] # NULL /\ chan'[d].cgrp # NULL => group'[chan'[d].cgrp] # NULL
    <3>1. \A d \in Chan : Exists(d) /\ chan[d].cgrp # NULL => chan[d].cgrp \in Group
      BY DEF HeapTypeOK, Exists, Channel
    <3>2. group'[g] # NULL
      BY <1>1, <1>6
    <3> QED BY <1>2, <1>3, <1>6, <3>1, <3>2, ChansCountedIs
  <2> QED BY <1>3, <2>1, <2>2, ChansCountedIs, ChansCountedNext
<1>12. HandedInv'
  BY DEF HandedInv, Parms
<1> QED BY <1>7, <1>8, <1>9, <1>10, <1>11, <1>12

LEMMA AddToGroupKeeps ==
  ASSUME Sound, NEW t \in Thread, NEW g \in Group, NEW c \in Chan, AddToGroup(t, g, c)
  PROVE  Sound'
<1>1. Exists(c)
  BY DEF AddToGroup, Holds
<1> QED BY <1>1, RegroupKeeps DEF AddToGroup

LEMMA RemFromGroupKeeps ==
  ASSUME Sound, NEW t \in Thread, NEW g \in Group, NEW c \in Chan, RemFromGroup(t, g, c)
  PROVE  Sound'
<1>1. Exists(c)
  BY HolderExists DEF RemFromGroup, Sound, Lib
<1>2. group[g] # NULL /\ group[g] \in Cgroup
  <2>1. group[g] # NULL
    BY <1>1, HeapAssumption, ChansCountedIs DEF RemFromGroup, Sound, Lib
  <2> QED BY <2>1 DEF Sound, Lib, HeapTypeOK
<1>3. group' = [group EXCEPT ![g].n_chan = @ + (-1)]
  <2>1. group[g].n_chan - 1 = group[g].n_chan + (-1)
    BY <1>2 DEF Cgroup
  <2>2. group' = [group EXCEPT ![g].n_chan = group[g].n_chan - 1]
    BY DEF RemFromGroup, OneLess
  <2> QED BY <2>1, <2>2
<1> QED BY <1>1, <1>2, <1>3, RegroupKeeps DEF RemFromGroup

-----------------------------------------------------------------------------
(* The invariant holds *)

LEMMA HInvInit == HeapInit => Sound /\ HInv
<1> SUFFICES ASSUME HeapInit PROVE Sound /\ HInv
  OBVIOUS
<1> USE DEF HeapInit
<1>1. KallocOK
  BY KallocOKInit
<1>2. HeapTypeOK
  <2>1. <<>> \in Seq(Message)
    BY EmptySeq
  <2> QED BY <2>1 DEF HeapTypeOK
<1>3. MessageInv
  <2>1. Len(<<>>) = 0 /\ DOMAIN <<>> = {}
    OBVIOUS
  <2> QED BY <2>1 DEF MessageInv
<1>4. Messages = {} /\ Threads = {} /\ Chans = {} /\ Groups = {} /\ Parms = {}
  <2>1. DOMAIN <<>> = {}
    OBVIOUS
  <2> QED BY <2>1 DEF Messages, Threads, Chans, Groups, Exists, Parms
<1>5. UnitInv
  <2>1. Units = {}
    BY <1>4 DEF Units, Nodes
  <2>2. blocks = {}
    BY DEF KallocInit
  <2> QED BY <2>1, <2>2 DEF UnitInv
<1>6. RefInv
  <2>1. \A c \in Chan : Held(c) = {} /\ Carried(c) = {}
    BY <1>4 DEF Held, Carried
  <2>2. IsFiniteSet({}) /\ Cardinality({}) = 0
    BY FS_EmptySet
  <2>3. ASSUME NEW c \in Chan PROVE Refs(c) = 0 /\ IsFiniteSet(Held(c)) /\ IsFiniteSet(Carried(c))
    <3>1. Held(c) = {} /\ Carried(c) = {}
      BY <2>1
    <3>2. IsFiniteSet(Held(c)) /\ Cardinality(Held(c)) = 0
      BY <2>2, <3>1
    <3>3. IsFiniteSet(Carried(c)) /\ Cardinality(Carried(c)) = 0
      BY <2>2, <3>1
    <3> QED BY <3>2, <3>3 DEF Refs
  <2>4. \A c \in Chan : ~(Refs(c) > 0)
    BY <2>3
  <2> QED BY <2>3, <2>4 DEF RefInv, RefsCounted
<1>7. ChansCounted
  <2>1. {c \in Chan : Exists(c)} = {}
    BY DEF Exists
  <2> QED BY <2>1, FS_EmptySet DEF ChansCounted, Exists
<1>8. HandedInv
  BY <1>4 DEF HandedInv
<1> QED BY <1>1, <1>2, <1>3, <1>5, <1>6, <1>7, <1>8 DEF Sound, Lib, HInv, KInv

\* The library's part stays when only the words of blocks or runs change.
LEMMA LibStays ==
  ASSUME Lib, blocks' = blocks,
         UNCHANGED <<thd, chan, group, waiting, holds, nchan, parm, handed>>
  PROVE  Lib'
<1> USE DEF Lib
<1>1. Chans' = Chans /\ Groups' = Groups
  BY DEF Chans, Groups, Exists
<1>2. UnitInv'
  BY <1>1, NothingComes
<1>3. HeapTypeOK' /\ MessageInv' /\ HandedInv'
  BY DEF HeapTypeOK, MessageInv, HandedInv, Parms, Exists, Unbuffered
<1>4. RefInv'
  <2>1. \A c \in Chan : Held(c)' = Held(c) /\ Carried(c)' = Carried(c)
    BY RefsSame
  <2> QED BY <2>1, RefsExist, RefInvNext DEF Refs, Exists
<1>5. ChansCounted'
  BY ChansStay DEF Exists
<1> QED BY <1>2, <1>3, <1>4, <1>5

LEMMA HInvNext == HInv /\ [HeapNext]_heapvars => HInv'
<1> SUFFICES ASSUME HInv, [HeapNext]_heapvars PROVE HInv'
  OBVIOUS
<1>1. CASE UNCHANGED heapvars
  <2>1. KInv'
    <3>1. intact' = intact
      BY <1>1 DEF heapvars, kallocvars
    <3> QED BY <1>1, <3>1, KallocOKStays DEF heapvars, HInv, KInv
  <2>2. Lib'
    BY <1>1, LibStays DEF heapvars, kallocvars, HInv
  <2> QED BY <2>1, <2>2 DEF HInv
<1>2. CASE HeapNext
  <2>0. Sound
    BY <1>2 DEF HInv, KInv, Sound, HeapNext
  <2>1. Sound' => HInv'
    BY DEF HInv, KInv, Sound
  <2>2. CASE LwtInit
    BY <2>0, <2>1, <2>2, LwtInitKeeps
  <2>3. ASSUME NEW t \in Thread, NEW u \in Thread, NEW c \in Chan, CreateChan(t, u, c) PROVE HInv'
    BY <2>0, <2>1, <2>3, CreateChanKeeps
  <2>4. ASSUME NEW t \in Thread, Ends(t) PROVE HInv'
    BY <2>0, <2>1, <2>4, EndsKeeps
  <2>5. ASSUME NEW t \in Thread, NEW k \in Kthd, NEW c \in Chan, KthdCreate(t, k, c) PROVE HInv'
    BY <2>0, <2>1, <2>5, KthdCreateKeeps
  <2>6. ASSUME NEW k \in Kthd, NEW u \in Thread, KthdHead(k, u) \/ KthdFirst(k, u) PROVE HInv'
    BY <2>0, <2>1, <2>6, KthdHeadKeeps, KthdFirstKeeps
  <2>7. ASSUME NEW t \in Thread, NEW c \in Chan, NewChan(t, c) PROVE HInv'
    BY <2>0, <2>1, <2>7, NewChanKeeps
  <2>8. ASSUME NEW t \in Thread, NEW c \in Chan, NEW x \in Chan, SndChan(t, c, x) PROVE HInv'
    BY <2>0, <2>1, <2>8, SndChanKeeps
  <2>9. ASSUME NEW t \in Thread, NEW c \in Chan, RcvChan(t, c) PROVE HInv'
    BY <2>0, <2>1, <2>9, RcvChanKeeps
  <2>10. ASSUME NEW t \in Thread, NEW c \in Chan, Holds(t, c), MayDeref(t, c), Deref(t, c)
         PROVE  HInv'
    BY <2>0, <2>1, <2>10, DerefKeeps
  <2>11. ASSUME NEW g \in Group, NewGroup(g) \/ FreeGroup(g) PROVE HInv'
    BY <2>0, <2>1, <2>11, NewGroupKeeps, FreeGroupKeeps
  <2>12. ASSUME NEW t \in Thread, NEW g \in Group, NEW c \in Chan,
                AddToGroup(t, g, c) \/ RemFromGroup(t, g, c)
         PROVE  HInv'
    BY <2>0, <2>1, <2>12, AddToGroupKeeps, RemFromGroupKeeps
  <2>13. ASSUME NEW b \in blocks, Fill(b) PROVE HInv'
    <3>1. KInv'
      BY <2>13 DEF Fill, Write, KInv
    <3>2. Lib'
      BY <2>13, LibStays DEF Fill, Write, HInv
    <3> QED BY <3>1, <3>2 DEF HInv
  <2> QED BY <1>2, <2>2, <2>3, <2>4, <2>5, <2>6, <2>7, <2>8, <2>9, <2>10, <2>11, <2>12, <2>13
          DEF HeapNext
<1> QED BY <1>1, <1>2

\* Messages, references, counts and blocks stay as they should, and so does the free
\* list as long as nobody has written over the header of a run.
THEOREM HeapInvariance == HeapSpec => []HInv
BY HInvInit, HInvNext, PTL DEF HeapSpec

\* A channel that is not handed to a kernel thread is not given back while somebody has
\* a reference to it, in the code of a thread or in a message, and its count of senders
\* is that of the references other than one.
THEOREM ReferencesCounted == HeapSpec => []RefsCounted
<1>1. HInv => RefsCounted
  BY DEF HInv, Lib, RefInv
<1> QED BY <1>1, HeapInvariance, PTL

\* lwt_info and n_chan count the channels there are and those in a group, and a group
\* that has channels is not given back.
THEOREM ChannelsCounted == HeapSpec => []ChansCounted
<1>1. HInv => ChansCounted
  BY DEF HInv, Lib
<1> QED BY <1>1, HeapInvariance, PTL

-----------------------------------------------------------------------------
(* The blocks that are handed out *)

\* Sets are as large together as one by one when they have nothing in common.
LEMMA CountTogether ==
  ASSUME NEW S, IsFiniteSet(S), NEW T, IsFiniteSet(T), S \cap T = {}
  PROVE  IsFiniteSet(S \cup T) /\ Cardinality(S \cup T) = Cardinality(S) + Cardinality(T)
<1>1. Cardinality(S) \in Nat /\ Cardinality(T) \in Nat /\ Cardinality(S \cap T) = 0
  BY FS_CardinalityType, FS_EmptySet
<1>2. /\ IsFiniteSet(S \cup T)
      /\ Cardinality(S \cup T) = Cardinality(S) + Cardinality(T) - Cardinality(S \cap T)
  BY FS_Union
<1> QED BY <1>1, <1>2

\* A set is as large when its elements are labelled.
LEMMA CountKind ==
  ASSUME NEW k, NEW S, IsFiniteSet(S)
  PROVE  IsFiniteSet({k} \X S) /\ Cardinality({k} \X S) = Cardinality(S)
<1> DEFINE T == {k} \X S
           f == [x \in S |-> <<k, x>>]
<1>1. f \in [S -> T]
  OBVIOUS
<1>2. \A x, y \in S : f[x] = f[y] => x = y
  OBVIOUS
<1>3. \A y \in T : \E x \in S : f[x] = y
  OBVIOUS
<1> HIDE DEF f, T
<1>4. f \in Bijection(S, T)
  BY <1>1, <1>2, <1>3 DEF Bijection, Injection, Surjection, IsInjective
<1>5. IsFiniteSet(T) /\ Cardinality(T) = Cardinality(S)
  BY <1>4, FS_Bijection DEF ExistsBijection
<1> QED BY <1>5 DEF T

\* There are finitely many messages.
LEMMA MessagesFinite ==
  ASSUME HeapTypeOK, RefInv
  PROVE  IsFiniteSet(Messages)
<1> DEFINE C == {Carried(c) : c \in Chan}
           f == [c \in Chan |-> Carried(c)]
<1>1. f \in Surjection(Chan, C)
  BY DEF Surjection
<1>2. IsFiniteSet(C)
  <2> HIDE DEF f, C
  <2> QED BY <1>1, HeapAssumption, FS_Surjection
<1>3. \A s \in C : IsFiniteSet(s)
  BY DEF RefInv
<1>4. Messages \subseteq UNION C
  <2> SUFFICES ASSUME NEW c \in Chan, NEW i \in DOMAIN waiting[c]
               PROVE  \E d \in Chan : <<c, i>> \in Carried(d)
    BY RefsAre
  <2>1. waiting[c][i] \in Message
    <3>1. waiting[c] \in Seq(Message)
      BY DEF HeapTypeOK
    <3> QED BY <3>1, LenProperties, ElementOfSeq
  <2>2. <<c, i>> \in Messages
    BY RefsAre
  <2> QED BY <2>1, <2>2, RefsAre DEF Message
<1> HIDE DEF C
<1>5. IsFiniteSet(UNION C)
  BY <1>2, <1>3, FS_UNION
<1> QED BY <1>4, <1>5, FS_Subset

\* The blocks are as many as the things that have one.
LEMMA UnitsCounted ==
  ASSUME Lib
  PROVE  Cardinality(blocks) =
           Cardinality(Threads) + Cardinality(Chans) + Cardinality(Groups) + Cardinality(Nodes)
             + Cardinality(Parms)
<1> USE DEF Lib
<1>1. /\ IsFiniteSet(Threads) /\ IsFiniteSet(Chans) /\ IsFiniteSet(Groups) /\ IsFiniteSet(Nodes)
      /\ IsFiniteSet(Parms)
  <2>1. /\ Threads \in SUBSET Thread /\ Chans \in SUBSET Chan /\ Groups \in SUBSET Group
        /\ Nodes \in SUBSET Messages /\ Parms \in SUBSET Kthd
    BY DEF Threads, Chans, Groups, Nodes, Parms
  <2>2. IsFiniteSet(Messages)
    BY MessagesFinite
  <2> QED BY <2>1, <2>2, HeapAssumption, FS_Subset
<1> DEFINE T == {"thread"} \X Threads
           C == {"channel"} \X Chans
           G == {"group"} \X Groups
           N == {"node"} \X Nodes
           P == {"parm"} \X Parms
<1>2. /\ T \cap C = {} /\ (T \cup C) \cap G = {} /\ (T \cup C \cup G) \cap N = {}
      /\ (T \cup C \cup G \cup N) \cap P = {} /\ Units = T \cup C \cup G \cup N \cup P
  BY DEF Units
<1>3. /\ IsFiniteSet(T) /\ Cardinality(T) = Cardinality(Threads)
      /\ IsFiniteSet(C) /\ Cardinality(C) = Cardinality(Chans)
      /\ IsFiniteSet(G) /\ Cardinality(G) = Cardinality(Groups)
      /\ IsFiniteSet(N) /\ Cardinality(N) = Cardinality(Nodes)
      /\ IsFiniteSet(P) /\ Cardinality(P) = Cardinality(Parms)
  BY <1>1, CountKind
<1> HIDE DEF T, C, G, N, P
<1>4. IsFiniteSet(T \cup C) /\ Cardinality(T \cup C) = Cardinality(T) + Cardinality(C)
  BY <1>2, <1>3, CountTogether
<1>5. /\ IsFiniteSet(T \cup C \cup G)
      /\ Cardinality(T \cup C \cup G) = Cardinality(T \cup C) + Cardinality(G)
  BY <1>2, <1>3, <1>4, CountTogether
<1>6. /\ IsFiniteSet(T \cup C \cup G \cup N)
      /\ Cardinality(T \cup C \cup G \cup N) = Cardinality(T \cup C \cup G) + Cardinality(N)
  BY <1>2, <1>3, <1>5, CountTogether
<1>9. /\ IsFiniteSet(Units) /\ Cardinality(Units) = Cardinality(T \cup C \cup G \cup N) + Cardinality(P)
  BY <1>2, <1>3, <1>6, CountTogether
<1> DEFINE f == [u \in Units |-> Block(u)]
<1>7. f \in Bijection(Units, blocks)
  <2>1. /\ f \in [Units -> blocks]
        /\ \A u, v \in Units : f[u] = f[v] => u = v
        /\ \A b \in blocks : \E u \in Units : f[u] = b
    BY DEF UnitInv
  <2> HIDE DEF f
  <2> QED BY <2>1 DEF Bijection, Injection, Surjection, IsInjective
<1> HIDE DEF f
<1>8. Cardinality(blocks) = Cardinality(Units)
  <2>1. IsFiniteSet(Units)
    BY <1>9
  <2> QED BY <1>7, <2>1, FS_Bijection DEF ExistsBijection
<1> QED BY <1>3, <1>4, <1>5, <1>6, <1>8, <1>9

\* The blocks handed out are those of the threads, channels, groups, nodes and
\* parameters there are, each with one of its own and of its own length.
THEOREM BlocksAreMatched == HeapSpec => []BlocksMatch
<1>1. ASSUME HInv PROVE BlocksMatch
  <2>1. /\ ThreadBlocks = {Block(u) : u \in {"thread"} \X Threads}
        /\ ChanBlocks = {Block(u) : u \in {"channel"} \X Chans}
        /\ GroupBlocks = {Block(u) : u \in {"group"} \X Groups}
        /\ NodeBlocks = {Block(u) : u \in {"node"} \X Nodes}
        /\ ParmBlocks = {Block(u) : u \in {"parm"} \X Parms}
    <3>1. ASSUME NEW k, NEW S PROVE {Block(u) : u \in {k} \X S} = {Block(<<k, x>>) : x \in S}
      <4>1. \A u \in {k} \X S : \E x \in S : u = <<k, x>>
        OBVIOUS
      <4>2. \A x \in S : <<k, x>> \in {k} \X S
        OBVIOUS
      <4> QED BY <4>1, <4>2, Zenon
    <3>2. /\ ThreadBlocks = {Block(<<"thread", t>>) : t \in Threads}
          /\ ChanBlocks = {Block(<<"channel", c>>) : c \in Chans}
      BY BlockIs DEF ThreadBlocks, ChanBlocks, Threads, Chans
    <3>3. /\ GroupBlocks = {Block(<<"group", g>>) : g \in Groups}
          /\ NodeBlocks = {Block(<<"node", m>>) : m \in Nodes}
      BY BlockIs DEF GroupBlocks, NodeBlocks, Groups, Nodes
    <3>4. ParmBlocks = {Block(<<"parm", k>>) : k \in Parms}
      BY BlockIs DEF ParmBlocks, Parms
    <3> QED BY <3>1, <3>2, <3>3, <3>4
  <2>2. blocks = ThreadBlocks \cup ChanBlocks \cup GroupBlocks \cup NodeBlocks \cup ParmBlocks
    BY <1>1, <2>1 DEF HInv, Lib, UnitInv, Units
  <2> QED BY <1>1, <2>2, UnitsCounted DEF BlocksMatch, Threads, Chans, Groups, Nodes, Parms, HInv
<1> QED BY <1>1, HeapInvariance, PTL

-----------------------------------------------------------------------------
(* The library is one of the allocator's clients *)

\* What it gives back is what it was given.
LEMMA GivenBack ==
  ASSUME NEW at, NEW n, KFree(at, n), Piece(at, n) \in blocks
  PROVE  KallocNext
<1>1. Piece(at, n).at = at /\ Piece(at, n).len = n
  BY DEF Piece
<1> QED BY <1>1 DEF KallocNext

LEMMA HeapStep == HInv /\ [HeapNext]_heapvars => [KallocNext]_kallocvars
<1> SUFFICES ASSUME HInv, [HeapNext]_heapvars PROVE [KallocNext]_kallocvars
  OBVIOUS
<1> USE DEF HInv, Lib
<1>1. ASSUME NEW n \in Lens, KAlloc(n) PROVE KallocNext
  BY <1>1 DEF KallocNext
<1>2. ASSUME NEW t \in Thread, Ends(t) PROVE KallocNext
  <2>1. <<"thread", t>> \in Units
    BY <1>2, UnitsAre DEF Ends, Threads
  <2>2. Piece(thd[t], LwtLen) \in blocks
    BY <2>1, BlockIs DEF UnitInv
  <2> QED BY <1>2, <2>2, GivenBack DEF Ends
<1>3. ASSUME NEW t \in Thread, NEW c \in Chan, RcvChan(t, c) PROVE [KallocNext]_kallocvars
  <2>1. CASE Unbuffered(c)
    <3> DEFINE s == waiting[c]
    <3>1. s \in Seq(Message) /\ s # <<>>
      BY <1>3 DEF HeapTypeOK, RcvChan
    <3> HIDE DEF s
    <3>2. 1 \in DOMAIN s /\ Head(s) = s[1]
      BY <3>1, Shortened
    <3>3. <<c, 1>> \in Nodes
      BY <2>1, <3>2, RefsAre DEF Nodes, s
    <3>4. <<"node", <<c, 1>>>> \in Units
      BY <3>3, UnitsAre
    <3>5. Piece(Head(waiting[c]).at, NodeLen) \in blocks
      BY <3>2, <3>4, BlockIs DEF UnitInv, s
    <3>6. KFree(Head(waiting[c]).at, NodeLen)
      BY <1>3, <2>1 DEF RcvChan
    <3> QED BY <3>5, <3>6, GivenBack
  <2>2. CASE ~Unbuffered(c)
    BY <1>3, <2>2 DEF RcvChan
  <2> QED BY <2>1, <2>2
<1>4. ASSUME NEW t \in Thread, NEW c \in Chan, Holds(t, c), Deref(t, c) PROVE [KallocNext]_kallocvars
  <2>1. <<"channel", c>> \in Units
    BY <1>4, HolderExists, UnitsAre DEF Chans
  <2>2. Piece(chan[c].at, ChanLen(c)) \in blocks
    BY <2>1, BlockIs DEF UnitInv
  <2>3. CASE KFree(chan[c].at, FreedLen(c))
    BY <2>2, <2>3, GivenBack DEF FreedLen
  <2>4. CASE UNCHANGED kallocvars
    BY <2>4
  <2> QED BY <1>4, <2>3, <2>4 DEF Deref
<1>5. ASSUME NEW g \in Group, FreeGroup(g) PROVE KallocNext
  <2>1. <<"group", g>> \in Units
    BY <1>5, UnitsAre DEF FreeGroup, Groups
  <2>2. Piece(group[g].at, GroupLen) \in blocks
    BY <2>1, BlockIs DEF UnitInv
  <2> QED BY <1>5, <2>2, GivenBack DEF FreeGroup
<1>6. CASE LwtInit
  BY <1>1, <1>6, LensOK DEF LwtInit
<1>7. ASSUME NEW t \in Thread, NEW u \in Thread, NEW c \in Chan, CreateChan(t, u, c) PROVE KallocNext
  BY <1>1, <1>7, LensOK DEF CreateChan
<1>8. ASSUME NEW t \in Thread, NEW c \in Chan, NewChan(t, c) PROVE KallocNext
  BY <1>1, <1>8, LensOK DEF NewChan
<1>9. ASSUME NEW t \in Thread, NEW c \in Chan, NEW x \in Chan, SndChan(t, c, x)
      PROVE  [KallocNext]_kallocvars
  BY <1>1, <1>9, LensOK DEF SndChan
<1>10. ASSUME NEW g \in Group, NewGroup(g) PROVE KallocNext
  BY <1>1, <1>10, LensOK DEF NewGroup
<1>11. ASSUME NEW t \in Thread, NEW g \in Group, NEW c \in Chan, AddToGroup(t, g, c) \/ RemFromGroup(t, g, c)
       PROVE  UNCHANGED kallocvars
  BY <1>11 DEF AddToGroup, RemFromGroup
<1>13. ASSUME NEW t \in Thread, NEW k \in Kthd, NEW c \in Chan, KthdCreate(t, k, c)
       PROVE  KallocNext
  BY <1>1, <1>13, LensOK DEF KthdCreate
<1>14. ASSUME NEW k \in Kthd, NEW u \in Thread, KthdHead(k, u) \/ KthdFirst(k, u) PROVE KallocNext
  BY <1>1, <1>14, LensOK DEF KthdHead, KthdFirst
<1>15. ASSUME NEW b \in blocks, Fill(b) PROVE KallocNext
  BY <1>15 DEF Fill, KallocNext
<1>12. CASE UNCHANGED heapvars
  BY <1>12 DEF heapvars
<1> QED BY <1>2, <1>3, <1>4, <1>5, <1>6, <1>7, <1>8, <1>9, <1>10, <1>11, <1>12, <1>13,
         <1>14, <1>15 DEF HeapNext

\* Whatever the threads do, the allocator sees lengths it serves and is given back
\* blocks that it has handed out, each once and with the length that was asked for ...
THEOREM HeapUsesKalloc == HeapSpec => KallocSpec
<1>1. HeapInit => KallocInit
  BY DEF HeapInit
<1> QED BY <1>1, HeapStep, HeapInvariance, PTL DEF HeapSpec, KallocSpec

\* ... so that until an owner writes over the header of a run that kalloc left too short
\* for it, no word is in the memory of two threads, channels, nodes, groups or
\* parameters, and no memory is asked for that the free list has.
THEOREM HeapKeepsPromise == HeapSpec => []KInv /\ AllocatorPromise
BY HeapUsesKalloc, FreeListInvariant, KeepsAllocatorPromise
=============================================================================
