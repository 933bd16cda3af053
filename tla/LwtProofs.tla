----------------------------- MODULE LwtProofs -----------------------------
(***************************************************************************)
(* Theorems about the lists of ps_list.h, for any set of nodes, and about  *)
(* Lwt, for every finite set of threads and every set of results: the      *)
(* inductive invariant IInv, the safety properties it gives, that the      *)
(* scheduler never gets stuck, and the implementation of ForkJoin.         *)
(***************************************************************************)
EXTENDS Lwt, FiniteSetTheorems, NaturalsInduction, WellFoundedInduction, TLAPS

(* What ps_list_ll_init, ps_list_ll_add and ps_list_ll_rem preserve.         *)

\* Freshly initialised nodes are singletons, linked consistently (ps_list_ll_init).
LEMMA ListInitOK ==
  ASSUME NEW S
  PROVE  /\ ListOK(ListInit(S), S)
         /\ \A o \in S : ListSingleton(ListInit(S), o)
BY DEF ListOK, ListInit, ListSingleton

\* Linking a node that is on no list keeps the links consistent, and touches the
\* forward link of no node but the new one and the one before it (ps_list_ll_add).
LEMMA ListAddOK ==
  ASSUME NEW S, NEW links, ListOK(links, S),
         NEW l \in S, NEW new \in S, l # new, ListSingleton(links, new)
  PROVE  /\ ListOK(ListAdd(links, l, new), S)
         /\ \A o \in S \ {l, new} :
              ListNext(ListAdd(links, l, new), o) = ListNext(links, o)
<1> DEFINE a == ListAdd(links, l, new)
<1> USE DEF ListOK, ListAdd, ListNext, ListSingleton
<1>1. a \in [n : [S -> S], p : [S -> S]]
  OBVIOUS
<1>2. \A o \in S : a.n[o] = IF o = l THEN new ELSE IF o = new THEN links.n[l] ELSE links.n[o]
  OBVIOUS
<1>3. \A o \in S : a.p[o] = IF o = links.n[l] THEN new ELSE IF o = new THEN l ELSE links.p[o]
  OBVIOUS
<1>4. links.n[l] # new /\ links.p[new] = new
  OBVIOUS
<1>5. \A o \in S : a.p[a.n[o]] = o /\ a.n[a.p[o]] = o
  <2> HIDE DEF a
  <2> TAKE o \in S
  <2>1. a.p[a.n[o]] = o
    BY <1>2, <1>3, <1>4
  <2>2. a.n[a.p[o]] = o
    BY <1>2, <1>3, <1>4
  <2> QED BY <2>1, <2>2
<1>6. ListOK(a, S)
  BY <1>1, <1>5
<1>7. \A o \in S \ {l, new} : a.n[o] = links.n[o]
  BY <1>2
<1> QED
  BY <1>6, <1>7

\* Unlinking a node leaves it a singleton, keeps the links consistent, and keeps
\* singletons what they are (ps_list_ll_rem).
LEMMA ListRemOK ==
  ASSUME NEW S, NEW links, ListOK(links, S), NEW l \in S
  PROVE  /\ ListOK(ListRem(links, l), S)
         /\ ListSingleton(ListRem(links, l), l)
         /\ \A o \in S : ListSingleton(links, o) => ListSingleton(ListRem(links, l), o)
<1> DEFINE r == ListRem(links, l)
<1> USE DEF ListOK, ListRem, ListSingleton
<1>1. r \in [n : [S -> S], p : [S -> S]]
  OBVIOUS
<1>2. \A o \in S : r.n[o] = IF o = l THEN l ELSE IF o = links.p[l] THEN links.n[l] ELSE links.n[o]
  OBVIOUS
<1>3. \A o \in S : r.p[o] = IF o = l THEN l ELSE IF o = links.n[l] THEN links.p[l] ELSE links.p[o]
  OBVIOUS
<1>4. \A o \in S : r.p[r.n[o]] = o /\ r.n[r.p[o]] = o
  <2> HIDE DEF r
  <2> TAKE o \in S
  <2>1. r.p[r.n[o]] = o
    BY <1>2, <1>3
  <2>2. r.n[r.p[o]] = o
    BY <1>2, <1>3
  <2> QED BY <2>1, <2>2
<1>5. ListOK(r, S)
  BY <1>1, <1>4
<1>6. r.n[l] = l
  BY <1>2
<1>7. \A o \in S : links.n[o] = o => r.n[o] = o
  BY <1>2
<1> QED
  BY <1>5, <1>6, <1>7

-----------------------------------------------------------------------------
(* Walking: ListWalk is a recursive function, and induction is over the sets *)
(* of the steps at which a claim holds.                                      *)

\* A set of natural numbers has a smallest one.
LEMMA Smallest ==
  ASSUME NEW T \in SUBSET Nat, T # {}
  PROVE  \E x \in T : \A y \in T : x <= y
<1>1. IsWellFoundedOn(OpToRel(<, Nat), Nat)
  BY NatLessThanWellFounded
<1>2. PICK x \in T : \A y \in T : ~ (<<y, x>> \in OpToRel(<, Nat))
  BY <1>1, WFMin, Zenon
<1>3. \A y \in T : ~ (y < x)
  BY <1>2 DEF OpToRel
<1> QED BY <1>3

\* What holds at 0, and at k + 1 when it does at k, holds at every step.
LEMMA SetInduction ==
  ASSUME NEW S, 0 \in S, \A k \in Nat : k \in S => k + 1 \in S
  PROVE  Nat \subseteq S
<1> DEFINE T == Nat \ S
<1> SUFFICES ASSUME T # {} PROVE FALSE
  OBVIOUS
<1>1. PICK x \in T : \A y \in T : x <= y
  BY Smallest
<1>2. x # 0
  OBVIOUS
<1>3. x - 1 \in Nat /\ x - 1 \in T
  BY <1>2
<1> QED BY <1>1, <1>3

\* f is the walk from o along next.
IsWalk(f, next, o) == f = [i \in Nat |-> IF i = 0 THEN o ELSE next[f[i-1]]]

\* The recursive function that ListWalk chooses exists, along links that stay in L.
LEMMA WalkExists ==
  ASSUME NEW L, NEW next, \A o \in L : next[o] \in L, NEW o \in L
  PROVE  \E f : IsWalk(f, next, o)
<1> DEFINE Walks(k) == {g \in [0..k -> L] : g[0] = o /\ \A i \in 1..k : g[i] = next[g[i-1]]}
           Defined == {k \in Nat : \E g : g \in Walks(k)}
<1>1. 0 \in Defined
  <2>1. [i \in 0..0 |-> o] \in Walks(0)
    OBVIOUS
  <2> QED BY <2>1
<1>2. ASSUME NEW k \in Nat, k \in Defined PROVE k + 1 \in Defined
  <2>1. PICK g : g \in Walks(k)
    BY <1>2
  <2>2. [i \in 0..(k+1) |-> IF i = k + 1 THEN next[g[k]] ELSE g[i]] \in Walks(k + 1)
    BY <2>1
  <2> HIDE DEF Walks
  <2>3. \E h : h \in Walks(k + 1)
    BY <2>2
  <2>4. k + 1 \in Nat
    OBVIOUS
  <2> QED BY <2>3, <2>4
<1>3. Nat \subseteq Defined
  <2> HIDE DEF Defined
  <2> QED BY <1>1, <1>2, SetInduction
<1> DEFINE walk == [k \in Nat |-> CHOOSE g : g \in Walks(k)]
<1>4. \A k \in Nat : walk[k] \in Walks(k)
  <2> TAKE k \in Nat
  <2>1. \E g : g \in Walks(k)
    BY <1>3
  <2> HIDE DEF Walks
  <2> QED BY <2>1
<1> HIDE DEF walk
<1>5. ASSUME NEW k \in Nat
      PROVE  \A i \in 0..k : walk[k+1][i] = walk[k][i]
  <2> DEFINE Same == {i \in Nat : i <= k => walk[k+1][i] = walk[k][i]}
  <2>1. walk[k] \in Walks(k) /\ walk[k+1] \in Walks(k+1)
    BY <1>4
  <2>2. 0 \in Same
    BY <2>1
  <2>3. ASSUME NEW i \in Nat, i \in Same PROVE i + 1 \in Same
    <3> SUFFICES ASSUME i + 1 <= k PROVE walk[k+1][i+1] = walk[k][i+1]
      OBVIOUS
    <3>1. i + 1 \in 1..k /\ i + 1 \in 1..(k+1) /\ (i + 1) - 1 = i
      OBVIOUS
    <3>2. walk[k][i+1] = next[walk[k][i]] /\ walk[k+1][i+1] = next[walk[k+1][i]]
      BY <2>1, <3>1
    <3> QED BY <2>3, <3>2
  <2>4. Nat \subseteq Same
    <3> HIDE DEF Same
    <3> QED BY <2>2, <2>3, SetInduction
  <2> QED BY <2>4
<1> DEFINE f == [k \in Nat |-> walk[k][k]]
<1>6. f = [i \in Nat |-> IF i = 0 THEN o ELSE next[f[i-1]]]
  <2>1. f[0] = o
    BY <1>4
  <2>2. ASSUME NEW i \in Nat, i # 0 PROVE f[i] = next[f[i-1]]
    <3>1. PICK k \in Nat : i = k + 1
      BY <2>2
    <3>2. walk[k+1] \in Walks(k+1)
      BY <1>4
    <3>3. walk[k+1][k] = walk[k][k]
      BY <1>5
    <3>4. walk[k+1][k+1] = next[walk[k+1][k]]
      BY <3>2
    <3> QED BY <3>1, <3>3, <3>4
  <2> QED BY <2>1, <2>2
<1> HIDE DEF f
<1> QED BY <1>6 DEF IsWalk

\* ListWalk starts where it is told to and goes from one node to the next.
LEMMA ListWalkStep ==
  ASSUME NEW L, NEW links, \A o \in L : links.n[o] \in L, NEW o \in L
  PROVE  /\ ListWalk(links, o, 0) = o
         /\ \A k \in Nat : /\ ListWalk(links, o, k) \in L
                           /\ ListWalk(links, o, k + 1) = links.n[ListWalk(links, o, k)]
<1> DEFINE step == CHOOSE f : f = [i \in Nat |-> IF i = 0 THEN o ELSE links.n[f[i-1]]]
<1>1. \A k : ListWalk(links, o, k) = step[k]
  BY DEF ListWalk
<1>2. step = [i \in Nat |-> IF i = 0 THEN o ELSE links.n[step[i-1]]]
  <2>1. \E f : f = [i \in Nat |-> IF i = 0 THEN o ELSE links.n[f[i-1]]]
    <3> DEFINE next == links.n
    <3>1. \A x \in L : next[x] \in L
      OBVIOUS
    <3> HIDE DEF next
    <3>2. \E f : IsWalk(f, next, o)
      BY <3>1, WalkExists
    <3> QED BY <3>2 DEF next, IsWalk
  <2> QED BY <2>1
<1> HIDE DEF step
<1>3. step[0] = o
  BY <1>2
<1>4. ASSUME NEW k \in Nat PROVE step[k+1] = links.n[step[k]]
  <2>1. k + 1 \in Nat /\ k + 1 # 0 /\ (k + 1) - 1 = k
    OBVIOUS
  <2> QED BY <1>2, <2>1
<1>5. Nat \subseteq {k \in Nat : step[k] \in L}
  <2> DEFINE In == {k \in Nat : step[k] \in L}
  <2>1. 0 \in In
    BY <1>3
  <2>2. \A k \in Nat : k \in In => k + 1 \in In
    BY <1>4
  <2>3. Nat \subseteq In
    <3> HIDE DEF In
    <3> QED BY <2>1, <2>2, SetInduction
  <2> QED BY <2>3
<1> QED BY <1>1, <1>3, <1>4, <1>5

-----------------------------------------------------------------------------
(* Rings *)

\* The links of the nodes of L stay in L, and are the same in both directions.
Linked(links, L) ==
  \A o \in L :
    /\ links.n[o] \in L /\ links.p[o] \in L
    /\ links.p[links.n[o]] = o /\ links.n[links.p[o]] = o

\* The nodes of L are on one ring: what is closed under the links is empty or all.
OneRing(links, L) ==
  /\ Linked(links, L)
  /\ \A R \in SUBSET L : R # {} /\ (\A o \in R : links.n[o] \in R) => R = L

\* As many steps as a ring has nodes go through all of them.
LEMMA RingWalk ==
  ASSUME NEW links, NEW L, OneRing(links, L), IsFiniteSet(L),
         NEW N \in Nat, Cardinality(L) <= N, NEW o \in L
  PROVE  {ListWalk(links, o, k) : k \in 1..N} = L
<1> DEFINE walk(k) == ListWalk(links, o, k)
           W == {walk(k) : k \in 1..N}
<1>1. walk(0) = o /\ \A k \in Nat : walk(k) \in L /\ walk(k + 1) = links.n[walk(k)]
  BY ListWalkStep, SMTT(30) DEF OneRing, Linked
<1> HIDE DEF walk
<1>2. PICK i, j \in 1..(N+1) : i < j /\ walk(i) = walk(j)
  <2> DEFINE f == [k \in 1..(N+1) |-> walk(k)]
  <2>1. IsFiniteSet(1..(N+1)) /\ Cardinality(1..(N+1)) = N + 1
    BY FS_Interval
  <2>2. f \in [1..(N+1) -> L]
    BY <1>1
  <2>3. Cardinality(L) < N + 1 /\ Cardinality(L) \in Nat
    BY FS_CardinalityType
  <2>4. \E x, y \in 1..(N+1) : x # y /\ f[x] = f[y]
    <3> HIDE DEF f
    <3> QED BY <2>1, <2>2, <2>3, FS_PigeonHole
  <2>5. PICK x, y \in 1..(N+1) : x # y /\ walk(x) = walk(y)
    BY <2>4
  <2>6. x < y \/ y < x
    BY <2>5
  <2> QED BY <2>5, <2>6
<1> DEFINE R == {walk(k) : k \in 1..(j-1)}
<1>3. R \subseteq L /\ R # {} /\ R \subseteq W
  <2>1. i \in 1..(j-1) /\ 1..(j-1) \subseteq 1..N
    BY <1>2
  <2> QED BY <1>1, <2>1
<1>4. ASSUME NEW x \in R PROVE links.n[x] \in R
  <2>1. PICK k \in 1..(j-1) : x = walk(k)
    BY <1>4
  <2>2. links.n[x] = walk(k + 1)
    BY <1>1, <2>1
  <2>3. CASE k + 1 \in 1..(j-1)
    BY <2>2, <2>3
  <2>4. CASE k + 1 = j
    <3>1. i \in 1..(j-1)
      BY <1>2
    <3> QED BY <1>2, <2>2, <2>4, <3>1
  <2> QED BY <2>3, <2>4
<1>5. R = L
  BY <1>3, <1>4 DEF OneRing
<1>6. W \subseteq L
  BY <1>1
<1> QED BY <1>3, <1>5, <1>6 DEF walk

\* Going around a ring from one of its nodes, a node of A is met, and this first one
\* is where the walk started only if it is the only one.
LEMMA RingFirst ==
  ASSUME NEW links, NEW L, OneRing(links, L), IsFiniteSet(L),
         NEW N \in Nat, Cardinality(L) <= N, NEW o \in L,
         NEW A \in SUBSET L, A # {}
  PROVE  \E k \in 1..N :
           /\ ListWalk(links, o, k) \in A
           /\ \A j \in 1..(k-1) : ListWalk(links, o, j) \notin A
<1> DEFINE walk(k) == ListWalk(links, o, k)
           T == {k \in 1..N : walk(k) \in A}
<1>1. {walk(k) : k \in 1..N} = L
  BY RingWalk
<1> HIDE DEF walk
<1>2. T \subseteq Nat /\ T # {}
  BY <1>1
<1>3. PICK k \in T : \A j \in T : k <= j
  <2> HIDE DEF T
  <2> QED BY <1>2, Smallest
<1>4. \A j \in 1..(k-1) : j \in 1..N /\ ~ (k <= j)
  BY <1>3
<1> QED BY <1>3, <1>4 DEF walk

\* A walk that comes back to its start without meeting A has nothing of A beside it.
LEMMA RingBack ==
  ASSUME NEW links, NEW L, OneRing(links, L), NEW o \in L, NEW A \in SUBSET L,
         NEW k \in Nat \ {0}, ListWalk(links, o, k) = o,
         \A j \in 1..(k-1) : ListWalk(links, o, j) \notin A
  PROVE  A \subseteq {o}
<1> DEFINE walk(i) == ListWalk(links, o, i)
           R == {walk(i) : i \in 1..k}
<1>1. walk(0) = o /\ \A i \in Nat : walk(i) \in L /\ walk(i + 1) = links.n[walk(i)]
  BY ListWalkStep DEF OneRing, Linked
<1> HIDE DEF walk
<1>2. R \subseteq L /\ R # {}
  BY <1>1
<1>3. ASSUME NEW x \in R PROVE links.n[x] \in R
  <2>1. PICK i \in 1..k : x = walk(i)
    BY <1>3
  <2>2. CASE i = k
    <3>1. links.n[x] = walk(0 + 1)
      BY <1>1, <2>1, <2>2 DEF walk
    <3> QED BY <3>1
  <2>3. CASE i + 1 \in 1..k
    BY <1>1, <2>1, <2>3
  <2> QED BY <2>2, <2>3
<1>4. R = L
  BY <1>2, <1>3 DEF OneRing
<1>5. ASSUME NEW x \in A PROVE x = o
  <2>1. PICK i \in 1..k : x = walk(i)
    BY <1>4
  <2>2. ~ (i \in 1..(k-1))
    BY <1>5, <2>1 DEF walk
  <2> QED BY <2>1, <2>2 DEF walk
<1> QED BY <1>5

\* Links that are the same for the nodes of L keep the ring.
LEMMA RingSame ==
  ASSUME NEW links, NEW other, NEW L, OneRing(links, L),
         \A o \in L : other.n[o] = links.n[o] /\ other.p[o] = links.p[o]
  PROVE  OneRing(other, L)
BY DEF OneRing, Linked

\* A node alone is a ring, and the only node of its ring.
LEMMA RingOfOne ==
  ASSUME NEW links, NEW o
  PROVE  /\ links.n[o] = o /\ links.p[o] = o => OneRing(links, {o})
         /\ \A L : OneRing(links, L) /\ o \in L /\ links.n[o] = o => L = {o}
<1>1. ASSUME links.n[o] = o, links.p[o] = o PROVE OneRing(links, {o})
  BY <1>1 DEF OneRing, Linked
<1>2. ASSUME NEW L, OneRing(links, L), o \in L, links.n[o] = o PROVE L = {o}
  <2>1. {o} \in SUBSET L /\ {o} # {} /\ \A x \in {o} : links.n[x] \in {o}
    BY <1>2
  <2> QED BY <1>2, <2>1 DEF OneRing
<1> QED BY <1>1, <1>2

\* ps_list_ll_add of a node that is not on a ring makes it part of it.
LEMMA RingAdd ==
  ASSUME NEW S, NEW T, NEW links \in [n : [S -> T], p : [S -> T]], NEW L \in SUBSET S,
         OneRing(links, L), NEW l \in L, NEW new \in S \ L
  PROVE  OneRing(ListAdd(links, l, new), L \cup {new})
<1> DEFINE a == ListAdd(links, l, new)
           M == L \cup {new}
<1>1. links.n[l] \in L /\ links.p[links.n[l]] = l
  BY DEF OneRing, Linked
<1>2. /\ \A o \in M : a.n[o] = IF o = l THEN new ELSE IF o = new THEN links.n[l] ELSE links.n[o]
      /\ \A o \in M : a.p[o] = IF o = links.n[l] THEN new ELSE IF o = new THEN l ELSE links.p[o]
  BY <1>1 DEF ListAdd
<1> HIDE DEF a
<1>3. Linked(a, M)
  <2> SUFFICES ASSUME NEW o \in M
               PROVE  /\ a.n[o] \in M /\ a.p[o] \in M
                      /\ a.p[a.n[o]] = o /\ a.n[a.p[o]] = o
    BY DEF Linked
  <2>1. \A x \in L : links.n[x] \in L /\ links.p[x] \in L /\ links.p[links.n[x]] = x /\ links.n[links.p[x]] = x
    BY DEF OneRing, Linked
  <2>2. a.n[o] \in M /\ a.p[o] \in M
    BY <1>1, <1>2, <2>1
  <2>3. a.p[a.n[o]] = o
    BY <1>1, <1>2, <2>1
  <2>4. a.n[a.p[o]] = o
    BY <1>1, <1>2, <2>1
  <2> QED BY <2>2, <2>3, <2>4
<1>4. ASSUME NEW R \in SUBSET M, R # {}, \A o \in R : a.n[o] \in R PROVE R = M
  <2>1. R \cap L # {}
    BY <1>1, <1>2, <1>4
  <2>2. \A o \in R \cap L : links.n[o] \in R \cap L
    <3> SUFFICES ASSUME NEW o \in R \cap L PROVE links.n[o] \in R
      BY DEF OneRing, Linked
    <3>1. CASE o = l
      BY <1>2, <1>4, <3>1
    <3>2. CASE o # l
      BY <1>2, <1>4, <3>2
    <3> QED BY <3>1, <3>2
  <2>3. R \cap L = L
    BY <2>1, <2>2 DEF OneRing
  <2> QED BY <1>2, <1>4, <2>3
<1> QED BY <1>3, <1>4 DEF OneRing, a

\* ps_list_ll_rem takes a node off its ring and leaves the others on it.
LEMMA RingRem ==
  ASSUME NEW S, NEW T, NEW links \in [n : [S -> T], p : [S -> T]], NEW L \in SUBSET S,
         OneRing(links, L), NEW l \in L, L # {l}
  PROVE  OneRing(ListRem(links, l), L \ {l})
<1> DEFINE r == ListRem(links, l)
           M == L \ {l}
<1>1. \A x \in L : links.n[x] \in L /\ links.p[x] \in L /\ links.p[links.n[x]] = x /\ links.n[links.p[x]] = x
  BY DEF OneRing, Linked
<1>2. links.n[l] # l /\ links.p[l] # l
  <2>1. links.n[l] # l
    BY RingOfOne
  <2> QED BY <1>1, <2>1
<1>3. /\ \A o \in M : r.n[o] = IF o = links.p[l] THEN links.n[l] ELSE links.n[o]
      /\ \A o \in M : r.p[o] = IF o = links.n[l] THEN links.p[l] ELSE links.p[o]
  BY <1>1 DEF ListRem
<1> HIDE DEF r
<1>4. Linked(r, M)
  <2> SUFFICES ASSUME NEW o \in M
               PROVE  /\ r.n[o] \in M /\ r.p[o] \in M
                      /\ r.p[r.n[o]] = o /\ r.n[r.p[o]] = o
    BY DEF Linked
  <2>1. r.n[o] \in M /\ r.p[o] \in M
    BY <1>1, <1>2, <1>3
  <2>2. r.p[r.n[o]] = o
    BY <1>1, <1>2, <1>3
  <2>3. r.n[r.p[o]] = o
    BY <1>1, <1>2, <1>3
  <2> QED BY <2>1, <2>2, <2>3
<1>5. ASSUME NEW R \in SUBSET M, R # {}, \A o \in R : r.n[o] \in R PROVE R = M
  <2>1. links.p[l] \in R
    <3> SUFFICES ASSUME links.p[l] \notin R PROVE FALSE
      OBVIOUS
    <3>1. \A o \in R : links.n[o] \in R
      BY <1>3, <1>5
    <3>2. R = L
      BY <1>5, <3>1 DEF OneRing
    <3> QED BY <3>2
  <2>2. links.n[l] \in R
    BY <1>3, <1>5, <2>1
  <2>3. \A o \in R \cup {l} : links.n[o] \in R \cup {l}
    BY <1>1, <1>3, <1>5, <2>2
  <2>4. R \cup {l} \in SUBSET L /\ R \cup {l} # {}
    OBVIOUS
  <2>5. R \cup {l} = L
    BY <2>3, <2>4 DEF OneRing
  <2> QED BY <2>5
<1> QED BY <1>4, <1>5 DEF OneRing, r

-----------------------------------------------------------------------------
(* The scan for the next thread *)

\* The scan of __lwt_schedule and lwt_die stops, if it does, on an ACTIVE thread.
LEMMA ScanFinds ==
  ASSUME NEW links, NEW st, NEW h, ScanFrom(links, st, h) # NULL
  PROVE  /\ ScanFrom(links, st, h) \in Thread
         /\ st[ScanFrom(links, st, h)] = ACTIVE
<1>1. \E m \in Thread : FirstActive(links, st, h, m)
  BY DEF ScanFrom
<1>2. PICK m \in Thread : m = ScanFrom(links, st, h) /\ FirstActive(links, st, h, m)
  BY <1>1, Zenon DEF ScanFrom
<1> QED
  BY <1>2 DEF FirstActive

-----------------------------------------------------------------------------
(* Counting threads *)

\* How many threads have status x.
Count(st, x) == Cardinality({t \in Thread : st[t] = x})

\* A count fits in a counter, and is not zero when a thread has that status.
LEMMA CountFits ==
  ASSUME NEW st, NEW x
  PROVE  /\ Count(st, x) \in 0..UINT_MAX
         /\ \A t \in Thread : st[t] = x => Count(st, x) > 0
<1> DEFINE S == {t \in Thread : st[t] = x}
<1>1. IsFiniteSet(S) /\ Cardinality(S) <= Cardinality(Thread)
  BY FS_Subset, LwtAssumption
<1>2. Cardinality(S) \in Nat /\ Cardinality(Thread) \in Nat
  BY <1>1, FS_CardinalityType, LwtAssumption
<1>3. ASSUME NEW t \in S PROVE Cardinality(S) # 0
  BY <1>1, FS_EmptySet
<1> HIDE DEF S
<1>4. Cardinality(S) \in 0..UINT_MAX
  BY <1>1, <1>2, LwtAssumption
<1>5. \A t \in S : Cardinality(S) > 0
  BY <1>2, <1>3
<1> QED
  BY <1>4, <1>5 DEF S, Count

\* st and new differ in the status of t only, which goes from one to another.
Changes(st, new, t, from, to) ==
  /\ st \in [Thread -> Status] /\ t \in Thread /\ from \in Status /\ to \in Status
  /\ from # to
  /\ st[t] = from
  /\ new = [st EXCEPT ![t] = to]

\* It adds one to the count of the new status, takes one from the count of the old
\* one, and leaves every other count alone.
LEMMA CountChange ==
  ASSUME NEW st, NEW new, NEW t, NEW from, NEW to, Changes(st, new, t, from, to)
  PROVE  /\ Count(new, to) = Count(st, to) + 1
         /\ Count(new, from) = Count(st, from) - 1
         /\ \A x \in Status \ {from, to} : Count(new, x) = Count(st, x)
<1> DEFINE Is(f, x) == {u \in Thread : f[u] = x}
<1>1. \A x : IsFiniteSet(Is(st, x)) /\ Cardinality(Is(st, x)) \in Nat
  BY FS_Subset, FS_CardinalityType, LwtAssumption
<1> USE DEF Changes
<1>2. Is(new, to) = Is(st, to) \cup {t} /\ t \notin Is(st, to)
  OBVIOUS
<1>3. Is(new, from) = Is(st, from) \ {t} /\ t \in Is(st, from)
  OBVIOUS
<1>4. \A x \in Status \ {from, to} : Is(new, x) = Is(st, x)
  OBVIOUS
<1> HIDE DEF Is, Changes
<1>5. Cardinality(Is(new, to)) = Cardinality(Is(st, to)) + 1
  BY <1>1, <1>2, FS_AddElement
<1>6. Cardinality(Is(new, from)) = Cardinality(Is(st, from)) - 1
  BY <1>1, <1>3, FS_RemoveElement
<1> QED
  BY <1>4, <1>5, <1>6 DEF Is, Count

\* The counters as they should be, and CountersAccurate in terms of them.
Tally(st) ==
  [runable |-> Count(st, ACTIVE), blocked |-> Count(st, BLOCKED), died |-> Count(st, DEAD)]
CounterType == [runable : 0..UINT_MAX, blocked : 0..UINT_MAX, died : 0..UINT_MAX]

\* Exact counters are the tally of the statuses ...
LEMMA AccurateIsTally ==
  ASSUME TypeOK, CountersAccurate
  PROVE  gcounter = Tally(status)
BY DEF TypeOK, CountersAccurate, Tally, Count

\* ... and counters that are the tally are exact, and have not wrapped around.
LEMMA TallyIsAccurate ==
  ASSUME gcounter' = Tally(status')
  PROVE  CountersAccurate' /\ gcounter' \in CounterType
<1>1. CountersAccurate'
  BY DEF CountersAccurate, Tally, Count
<1>2. \A x : Count(status', x) \in 0..UINT_MAX
  BY CountFits
<1>3. gcounter' \in CounterType
  BY <1>2 DEF Tally, CounterType
<1> QED
  BY <1>1, <1>3

-----------------------------------------------------------------------------
(* IInv holds initially and every step preserves it *)

\* lwt_init
LEMMA InitIInv == Init => IInv
<1> SUFFICES ASSUME Init PROVE IInv
  OBVIOUS
<1> USE DEF Init, ACTIVE, BLOCKED, DEAD, FREE, JOIN, NOJOIN, Status, Flags
<1>1. LinkInv
  BY ListInitOK DEF LinkInv
<1>2. UINT_MAX >= 1
  <2>1. Cardinality(Thread) # 0 /\ Cardinality(Thread) \in Nat
    BY LwtAssumption, FS_EmptySet, FS_CardinalityType
  <2> QED BY <2>1, LwtAssumption
<1>3. TypeOK
  BY <1>1, <1>2, LwtAssumption DEF TypeOK, LinkInv, ListOK
<1>4. HeadInv /\ JoinInv /\ HandleInv /\ BlockInv
  BY LwtAssumption DEF HeadInv, JoinInv, HandleInv, BlockInv
<1>5. CountersAccurate
  <2>1. {t \in Thread : status[t] = ACTIVE} = {Main}
    BY LwtAssumption
  <2>2. {t \in Thread : status[t] = BLOCKED} = {} /\ {t \in Thread : status[t] = DEAD} = {}
    OBVIOUS
  <2>3. Cardinality({Main}) = 1 /\ Cardinality({}) = 0
    BY FS_Singleton, FS_EmptySet
  <2> QED BY <2>1, <2>2, <2>3 DEF CountersAccurate
<1> QED
  BY <1>1, <1>3, <1>4, <1>5 DEF IInv

\* lwt_create
LEMMA CreateStep ==
  ASSUME IInv, NEW t \in Thread, NEW flags \in Flags, Create(t, flags)
  PROVE  IInv'
<1> USE DEF IInv, Create, Make, InCaller, ACTIVE, BLOCKED, DEAD, FREE, JOIN, NOJOIN, Status, Flags
<1>1. LinkInv'
  <2> DEFINE prev == ListPrev(list, lwt_head)
  <2>1. prev \in Thread /\ lwt_head \in Thread /\ ListSingleton(list, t) /\ list.n[prev] = lwt_head
    BY DEF LinkInv, ListOK, ListPrev, TypeOK
  <2>2. prev # t /\ lwt_head # t
    BY <2>1 DEF HeadInv, ListSingleton
  <2>3. ListOK(list', Thread) /\ \A o \in Thread \ {prev, t} : list'.n[o] = list.n[o]
    BY <2>1, <2>2, ListAddOK DEF LinkInv, Placed, ListNext
  <2>4. ASSUME NEW o \in Thread, status'[o] = FREE PROVE ListSingleton(list', o)
    <3>1. o # t /\ status[o] = FREE
      BY <2>4 DEF TypeOK
    <3>2. list.n[o] = o
      BY <3>1 DEF LinkInv, ListSingleton
    <3>3. o # prev
      BY <3>1, <3>2, <2>1 DEF HeadInv
    <3> QED BY <3>1, <3>2, <3>3, <2>3 DEF ListSingleton
  <2> QED BY <2>3, <2>4 DEF LinkInv
<1>2. CountersAccurate' /\ gcounter' \in CounterType
  <2>1. /\ Count(status', ACTIVE) = Count(status, ACTIVE) + 1
        /\ Count(status', BLOCKED) = Count(status, BLOCKED)
        /\ Count(status', DEAD) = Count(status, DEAD)
    <3>1. Changes(status, status', t, FREE, ACTIVE)
      BY DEF Changes, TypeOK
    <3> QED BY <3>1, CountChange
  <2>2. gcounter' = [runable |-> Inc(gcounter.runable), blocked |-> gcounter.blocked, died |-> gcounter.died]
    BY DEF TypeOK
  <2>3. gcounter = Tally(status)
    BY AccurateIsTally
  <2>4. \A x : Count(status, x) \in 0..UINT_MAX /\ Count(status', x) \in 0..UINT_MAX
    BY CountFits
  <2>5. gcounter' = Tally(status')
    BY ONLY <2>1, <2>2, <2>3, <2>4, LwtAssumption DEF Tally, Inc, Dec
  <2> QED BY <2>5, TallyIsAccurate
<1>3. TypeOK'
  BY <1>1, <1>2 DEF TypeOK, LinkInv, ListOK, CounterType
<1>4. JoinInv'
  BY DEF TypeOK, JoinInv, Suspended, BlockInv
<1>5. HeadInv' /\ HandleInv' /\ BlockInv'
  BY DEF TypeOK, HeadInv, HandleInv, BlockInv
<1> QED
  BY <1>1, <1>2, <1>3, <1>4, <1>5

\* The branch of lwt_join that waits.
LEMMA JoinBlocksStep ==
  ASSUME IInv, NEW t \in Thread, InCaller, handle[t] = lwt_head, Joinable(t), JoinBlocks(t)
  PROVE  IInv'
<1> USE DEF IInv, JoinBlocks, Blocks, InCaller, Refuses, MustWait, ACTIVE, BLOCKED, DEAD, FREE, JOIN, NOJOIN, Status, Flags
<1>1. lwt_head \in Thread /\ lwt_head # t /\ status[lwt_head] = ACTIVE /\ lwt_nojoin[t] = JOIN
  BY DEF TypeOK, HeadInv, HandleInv
<1>2. CountersAccurate' /\ gcounter' \in CounterType
  <2>1. /\ Count(status', ACTIVE) = Count(status, ACTIVE) - 1
        /\ Count(status', BLOCKED) = Count(status, BLOCKED) + 1
        /\ Count(status', DEAD) = Count(status, DEAD)
    <3>1. Changes(status, status', lwt_head, ACTIVE, BLOCKED)
      BY <1>1 DEF Changes, TypeOK
    <3> QED BY <3>1, CountChange
  <2>2. gcounter' = [runable |-> Dec(gcounter.runable), blocked |-> Inc(gcounter.blocked), died |-> gcounter.died]
    BY DEF TypeOK
  <2>3. gcounter = Tally(status)
    BY AccurateIsTally
  <2>4. \A x : Count(status, x) \in 0..UINT_MAX /\ Count(status', x) \in 0..UINT_MAX
    BY CountFits
  <2>5. gcounter' = Tally(status')
    BY ONLY <2>1, <2>2, <2>3, <2>4, LwtAssumption DEF Tally, Inc, Dec
  <2> QED BY <2>5, TallyIsAccurate
<1>3. HeadInv' /\ lwt_head' \in Thread \cup {NULL}
  <2>1. lwt_head' = ScanFrom(list, status', lwt_head)
    BY DEF Schedule
  <2> QED BY ONLY <2>1, ScanFinds DEF HeadInv
<1>4. TypeOK'
  BY <1>1, <1>2, <1>3 DEF TypeOK, CounterType
<1>5. JoinInv'
  BY <1>1, LwtAssumption DEF TypeOK, JoinInv, Suspended
<1>6. HandleInv' /\ BlockInv'
  BY <1>1 DEF TypeOK, HandleInv, BlockInv
<1>7. LinkInv'
  BY <1>1 DEF TypeOK, LinkInv
<1> QED
  BY <1>2, <1>3, <1>4, <1>5, <1>6, <1>7

\* Giving a block back keeps the links right (ps_list_rem_d, kfree).
LEMMA GiveBackLinks ==
  ASSUME IInv, NEW t \in Thread, GiveBack(t)
  PROVE  LinkInv'
<1>1. ListOK(list', Thread) /\ ListSingleton(list', t)
  BY ListRemOK DEF IInv, LinkInv, GiveBack
<1>2. ASSUME NEW o \in Thread, status'[o] = FREE PROVE ListSingleton(list', o)
  <2>1. o = t \/ status[o] = FREE
    BY <1>2 DEF IInv, TypeOK, GiveBack
  <2> QED BY <1>1, <2>1, ListRemOK DEF IInv, LinkInv, GiveBack
<1> QED
  BY <1>1, <1>2 DEF LinkInv

\* The end of lwt_join: t has died, and the caller holds its handle.
LEMMA ReclaimStep ==
  ASSUME IInv, NEW t \in Thread, lwt_head # NULL, status[t] = DEAD, handle[t] = lwt_head,
         joinee[lwt_head] \in {NULL, t}, Reclaim(t)
  PROVE  IInv'
<1> USE DEF IInv, Reclaim, GiveBack, ACTIVE, BLOCKED, DEAD, FREE, JOIN, NOJOIN, Status, Flags
<1>1. lwt_head \in Thread /\ lwt_head # t /\ status[lwt_head] = ACTIVE
  BY DEF TypeOK, HeadInv
<1>2. LinkInv'
  BY GiveBackLinks
<1>3. CountersAccurate' /\ gcounter' \in CounterType
  <2>1. /\ Count(status', ACTIVE) = Count(status, ACTIVE)
        /\ Count(status', BLOCKED) = Count(status, BLOCKED)
        /\ Count(status', DEAD) = Count(status, DEAD) - 1
    <3>1. Changes(status, status', t, DEAD, FREE)
      BY DEF Changes, TypeOK
    <3> QED BY <3>1, CountChange
  <2>2. gcounter' = [runable |-> gcounter.runable, blocked |-> gcounter.blocked, died |-> Dec(gcounter.died)]
    BY DEF TypeOK
  <2>3. gcounter = Tally(status)
    BY AccurateIsTally
  <2>4. \A x : Count(status, x) \in 0..UINT_MAX /\ Count(status', x) \in 0..UINT_MAX
    BY CountFits
  <2>5. gcounter' = Tally(status')
    BY ONLY <2>1, <2>2, <2>3, <2>4, LwtAssumption DEF Tally, Inc, Dec
  <2> QED BY <2>5, TallyIsAccurate
<1>4. TypeOK'
  BY <1>1, <1>2, <1>3 DEF TypeOK, LinkInv, ListOK, CounterType
<1>5. JoinInv'
  BY <1>1 DEF TypeOK, JoinInv, Suspended
<1>6. HeadInv' /\ HandleInv' /\ BlockInv'
  BY <1>1 DEF TypeOK, HeadInv, HandleInv, BlockInv
<1> QED
  BY <1>2, <1>3, <1>4, <1>5, <1>6

\* lwt_die of a thread created with LWT_NOJOIN.
LEMMA DieNojoinStep ==
  ASSUME IInv, DieNojoin
  PROVE  IInv'
<1> USE DEF IInv, DieNojoin, InCaller, GiveBack, ACTIVE, BLOCKED, DEAD, FREE, JOIN, NOJOIN, Status, Flags
<1> DEFINE next == ScanFrom(list, status, lwt_head)
<1>1. lwt_head \in Thread /\ status[lwt_head] = ACTIVE
  BY DEF TypeOK, HeadInv
<1>2. LinkInv'
  BY <1>1, GiveBackLinks
<1>3. CountersAccurate' /\ gcounter' \in CounterType
  <2>1. /\ Count(status', ACTIVE) = Count(status, ACTIVE) - 1
        /\ Count(status', BLOCKED) = Count(status, BLOCKED)
        /\ Count(status', DEAD) = Count(status, DEAD)
    <3>1. Changes(status, status', lwt_head, ACTIVE, FREE)
      BY <1>1 DEF Changes, TypeOK
    <3> QED BY <3>1, CountChange
  <2>2. gcounter' = [runable |-> Dec(gcounter.runable), blocked |-> gcounter.blocked, died |-> gcounter.died]
    BY DEF TypeOK
  <2>3. gcounter = Tally(status)
    BY AccurateIsTally
  <2>4. \A x : Count(status, x) \in 0..UINT_MAX /\ Count(status', x) \in 0..UINT_MAX
    BY CountFits
  <2>5. gcounter' = Tally(status')
    BY ONLY <2>1, <2>2, <2>3, <2>4, LwtAssumption DEF Tally, Inc, Dec
  <2> QED BY <2>5, TallyIsAccurate
<1>4. HeadInv' /\ lwt_head' \in Thread \cup {NULL}
  <2>1. next # NULL => next \in Thread /\ status[next] = ACTIVE
    BY ScanFinds
  <2>2. lwt_head' = IF next = lwt_head THEN NULL ELSE next
    OBVIOUS
  <2> HIDE DEF next
  <2>3. lwt_head' # NULL => lwt_head' = next /\ next # lwt_head /\ next # NULL
    BY <2>2
  <2>4. \A o \in Thread : o # lwt_head => status'[o] = status[o]
    BY DEF TypeOK
  <2> QED BY <2>1, <2>3, <2>4 DEF HeadInv
<1> HIDE DEF next
<1>5. TypeOK'
  <2>1. handle' \in [Thread -> Thread \cup {NULL}]
    BY DEF TypeOK, HandlesAfter
  <2> QED BY <1>1, <1>2, <1>3, <1>4, <2>1 DEF TypeOK, LinkInv, ListOK, CounterType
<1>6. \A o \in Thread : joinee[o] # lwt_head /\ target[o] # lwt_head
  BY <1>1, LwtAssumption DEF JoinInv, Suspended, TypeOK
<1>7. JoinInv'
  <2>1. \A o \in Thread : handle[o] # lwt_head /\ o # lwt_head => handle'[o] = handle[o]
    BY DEF HandlesAfter, TypeOK
  <2> QED BY <1>1, <1>6, <2>1 DEF TypeOK, JoinInv, Suspended
<1>8. HandleInv' /\ BlockInv'
  BY <1>1 DEF TypeOK, HandleInv, BlockInv, HandlesAfter
<1> QED
  BY <1>2, <1>3, <1>4, <1>5, <1>7, <1>8

\* lwt_die of a joinable thread: the joiner, if any, goes from BLOCKED to ACTIVE, and
\* the caller to DEAD.
LEMMA DieJoinStep ==
  ASSUME IInv, NEW v \in Value, DieJoin(v)
  PROVE  IInv'
<1> USE DEF IInv, DieJoin, InCaller, Woken, ResultKept, ACTIVE, BLOCKED, DEAD, FREE, JOIN, NOJOIN, Status, Flags
<1> DEFINE j == target[lwt_head]
<1>1. lwt_head \in Thread /\ status[lwt_head] = ACTIVE
  BY DEF TypeOK, HeadInv
<1>2. j # NULL => j \in Thread /\ joinee[j] = lwt_head /\ status[j] = BLOCKED /\ j # lwt_head
  BY <1>1 DEF JoinInv, Suspended, TypeOK
<1>3. CountersAccurate' /\ gcounter' \in CounterType
  <2>1. gcounter = Tally(status)
    BY AccurateIsTally
  <2>2. \A st, x : Count(st, x) \in 0..UINT_MAX
    BY CountFits
  <2>3. Changes(Woken(lwt_head), status', lwt_head, ACTIVE, DEAD)
    BY <1>1, <1>2 DEF Changes, TypeOK
  <2>4. CASE j = NULL
    <3>1. gcounter' = [runable |-> Dec(gcounter.runable), blocked |-> gcounter.blocked,
                       died |-> Inc(gcounter.died)]
      BY <2>4 DEF TypeOK, CountersAfterDeath
    <3>2. Changes(status, status', lwt_head, ACTIVE, DEAD)
      BY <2>3, <2>4
    <3>3. /\ Count(status', ACTIVE) = Count(status, ACTIVE) - 1
          /\ Count(status', BLOCKED) = Count(status, BLOCKED)
          /\ Count(status', DEAD) = Count(status, DEAD) + 1
      BY <3>2, CountChange
    <3>4. gcounter' = Tally(status')
      BY ONLY <2>1, <2>2, <3>1, <3>3, LwtAssumption DEF Tally, Inc, Dec
    <3> QED BY <3>4, TallyIsAccurate
  <2>5. CASE j # NULL
    <3>1. gcounter' = [runable |-> Inc(Dec(gcounter.runable)), blocked |-> Dec(gcounter.blocked),
                       died |-> Inc(gcounter.died)]
      BY <2>5 DEF TypeOK, CountersAfterDeath
    <3>2. Changes(status, Woken(lwt_head), j, BLOCKED, ACTIVE)
      BY <1>1, <1>2, <2>5 DEF Changes, TypeOK
    <3>3. /\ Count(Woken(lwt_head), ACTIVE) = Count(status, ACTIVE) + 1
          /\ Count(Woken(lwt_head), BLOCKED) = Count(status, BLOCKED) - 1
          /\ Count(Woken(lwt_head), DEAD) = Count(status, DEAD)
      BY <3>2, CountChange
    <3>4. /\ Count(status', ACTIVE) = Count(Woken(lwt_head), ACTIVE) - 1
          /\ Count(status', BLOCKED) = Count(Woken(lwt_head), BLOCKED)
          /\ Count(status', DEAD) = Count(Woken(lwt_head), DEAD) + 1
      BY <2>3, CountChange
    <3>5. Count(status, ACTIVE) > 0
      BY <1>1, CountFits
    <3>6. gcounter' = Tally(status')
      BY ONLY <2>1, <2>2, <3>1, <3>3, <3>4, <3>5, LwtAssumption DEF Tally, Inc, Dec
    <3> QED BY <3>6, TallyIsAccurate
  <2> QED BY <2>4, <2>5
<1>4. HeadInv' /\ lwt_head' \in Thread \cup {NULL}
  <2>1. lwt_head' = ScanFrom(list, status', lwt_head)
    BY DEF Schedule
  <2> QED BY ONLY <2>1, ScanFinds DEF HeadInv
<1>5. status' \in [Thread -> Status] /\ \A o \in Thread :
        status'[o] = IF o = lwt_head THEN DEAD ELSE IF o = j THEN ACTIVE ELSE status[o]
  BY <1>1, <1>2, LwtAssumption DEF TypeOK
<1>6. handle' \in [Thread -> Thread \cup {NULL}] /\ \A o \in Thread :
        handle'[o] = IF handle[o] = lwt_head THEN NULL ELSE handle[o]
  BY DEF HandlesAfter, TypeOK
<1>7. TypeOK'
  BY <1>1, <1>3, <1>4, <1>5, <1>6 DEF TypeOK, CounterType
<1>8. JoinInv'
  BY <1>1, <1>2, <1>5, <1>6, LwtAssumption DEF TypeOK, JoinInv, Suspended
<1>9. HandleInv'
  BY <1>1, <1>2, <1>5, <1>6 DEF TypeOK, HandleInv
<1>10. BlockInv'
  BY <1>1, <1>2, <1>5 DEF TypeOK, BlockInv
<1>11. LinkInv'
  BY <1>1, <1>2, <1>5 DEF LinkInv
<1> QED
  BY <1>3, <1>4, <1>7, <1>8, <1>9, <1>10, <1>11

\* Every step preserves the invariant.
LEMMA NextIInv == IInv /\ [Next]_vars => IInv'
<1> SUFFICES ASSUME IInv, [Next]_vars PROVE IInv'
  OBVIOUS
<1>1. ASSUME NEW t \in Thread, NEW flags \in Flags, Create(t, flags) PROVE IInv'
  BY <1>1, CreateStep
<1>2. CASE Yield
  <2>1. lwt_head' = ScanFrom(list, status, lwt_head)
    BY <1>2 DEF Yield, Schedule
  <2>2. HeadInv' /\ lwt_head' \in Thread \cup {NULL}
    BY <1>2, <2>1, ScanFinds DEF HeadInv, Yield
  <2> QED BY <1>2, <2>2 DEF IInv, Yield, TypeOK, LinkInv, JoinInv, Suspended, HandleInv, BlockInv, CountersAccurate
<1>3. ASSUME NEW t \in Thread, YieldTo(t) PROVE IInv'
  BY <1>3 DEF IInv, YieldTo, TypeOK, HeadInv, LinkInv, JoinInv, Suspended, HandleInv, BlockInv, CountersAccurate
<1>4. ASSUME NEW t \in Thread, Joinable(t), Join(t) PROVE IInv'
  <2>1. CASE JoinRefused(t)
    BY <2>1 DEF IInv, JoinRefused, TypeOK, HeadInv, LinkInv, JoinInv, Suspended, HandleInv, BlockInv, CountersAccurate
  <2>2. CASE JoinBlocks(t)
    BY <1>4, <2>2, JoinBlocksStep DEF Join
  <2>3. CASE JoinAtOnce(t)
    <3>1. status[t] = DEAD
      BY <1>4, <2>3 DEF Joinable, JoinAtOnce, Refuses, MustWait
    <3> QED BY <1>4, <2>3, <3>1, ReclaimStep DEF Join, InCaller, JoinAtOnce
  <2> QED BY <1>4, <2>1, <2>2, <2>3 DEF Join
<1>5. CASE JoinResume
  <2> DEFINE u == joinee[lwt_head]
  <2>1. lwt_head \in Thread /\ status[lwt_head] = ACTIVE /\ u # NULL /\ u \in Thread
    BY <1>5 DEF IInv, TypeOK, HeadInv, JoinResume
  <2>2. status[u] = DEAD /\ handle[u] = lwt_head
    BY <2>1 DEF IInv, JoinInv, Suspended, ACTIVE, BLOCKED
  <2> QED BY <1>5, <2>1, <2>2, ReclaimStep DEF JoinResume
<1>6. CASE DieNojoin
  BY <1>6, DieNojoinStep
<1>7. ASSUME NEW v \in Value, DieJoin(v) PROVE IInv'
  BY <1>7, DieJoinStep
<1>8. CASE UNCHANGED vars
  BY <1>8 DEF IInv, vars, TypeOK, HeadInv, LinkInv, JoinInv, Suspended, HandleInv, BlockInv, CountersAccurate
<1> QED
  BY <1>1, <1>2, <1>3, <1>4, <1>5, <1>6, <1>7, <1>8 DEF Next, Calls, Die

-----------------------------------------------------------------------------
(* The theorems *)

\* IInv holds in every reachable state.
THEOREM Invariance == Spec => []IInv
<1>1. Init => IInv
  BY InitIInv
<1>2. IInv /\ [Next]_vars => IInv'
  BY NextIInv
<1> QED
  BY <1>1, <1>2, PTL DEF Spec

\* Every variable keeps its type.
THEOREM TypeCorrect == Spec => []TypeOK
<1>1. IInv => TypeOK
  BY DEF IInv
<1> QED
  BY <1>1, Invariance, PTL

\* The counters behind lwt_info are exact, whatever the threads do.
THEOREM CountersExact == Spec => []CountersAccurate
<1>1. IInv => CountersAccurate
  BY DEF IInv
<1> QED
  BY <1>1, Invariance, PTL

\* A thread blocked in lwt_join is always waiting for a thread that has not ended
\* and that has it as its target, so that lwt_die wakes it; a joiner that runs
\* again finds its thread dead.
THEOREM JoinersKept == Spec => []NoLostJoiner
<1>1. IInv => NoLostJoiner
  BY DEF IInv, NoLostJoiner, JoinInv, Suspended, ACTIVE, BLOCKED, DEAD
<1> QED
  BY <1>1, Invariance, PTL

\* The ring stays doubly linked, and blocks given back to kalloc are off it.
THEOREM LinksConsistent == Spec => []LinkInv
<1>1. IInv => LinkInv
  BY DEF IInv
<1> QED
  BY <1>1, Invariance, PTL

\* What a step may give back to kalloc.
GivesBackEnded ==
  \A t \in Thread :
    status[t] # FREE /\ status'[t] = FREE =>
      \/ status[t] = DEAD
      \/ lwt_nojoin[t] = NOJOIN /\ t = lwt_head

\* No step gives back the block of a thread that may still run.
THEOREM ReclaimSafe == Spec => ReclaimOnlyEnded
<1>1. IInv /\ [Next]_vars => [GivesBackEnded]_vars
  <2> SUFFICES ASSUME IInv, Next PROVE GivesBackEnded
    OBVIOUS
  <2> USE DEF GivesBackEnded, IInv, ACTIVE, BLOCKED, DEAD, FREE, JOIN, NOJOIN
  <2>1. ASSUME NEW t \in Thread, NEW flags \in Flags, Create(t, flags) PROVE GivesBackEnded
    BY <2>1 DEF Create, Make, TypeOK
  <2>2. ASSUME Yield \/ \E t \in Thread : YieldTo(t) PROVE GivesBackEnded
    BY <2>2 DEF Yield, YieldTo
  <2>3. ASSUME NEW t \in Thread, Joinable(t), Join(t) PROVE GivesBackEnded
    BY <2>3 DEF Join, Joinable, JoinRefused, JoinBlocks, Blocks, JoinAtOnce, Refuses, MustWait,
                Reclaim, GiveBack, TypeOK
  <2>4. ASSUME JoinResume PROVE GivesBackEnded
    <3> DEFINE u == joinee[lwt_head]
    <3>1. status[u] = DEAD
      BY <2>4 DEF JoinResume, JoinInv, Suspended, HeadInv, TypeOK
    <3> QED BY <2>4, <3>1 DEF JoinResume, Reclaim, GiveBack, TypeOK
  <2>5. ASSUME DieNojoin PROVE GivesBackEnded
    BY <2>5 DEF DieNojoin, GiveBack, TypeOK
  <2>6. ASSUME NEW v \in Value, DieJoin(v) PROVE GivesBackEnded
    BY <2>6 DEF DieJoin, Woken, TypeOK
  <2> QED
    BY <2>1, <2>2, <2>3, <2>4, <2>5, <2>6 DEF Next, Calls, Die
<1> QED
  BY <1>1, Invariance, PTL DEF Spec, ReclaimOnlyEnded, GivesBackEnded

-----------------------------------------------------------------------------
(* The scheduler always finds a thread *)

\* The threads that have not been given back are on one ring, which is where the
\* scan of __lwt_schedule looks ...
RingInv == OneRing(list, Live)

\* ... the main thread does not die, and threads do not wait for one another in a
\* circle: lwt_join waits for a thread that runs.
MainInv == status[Main] \in {ACTIVE, BLOCKED}
NoCycle(st, waits) ==
  \A S \in SUBSET Thread :
    S # {} /\ (\A t \in S : st[t] = BLOCKED) => \E t \in S : waits[t] \notin S

\* Then there is a thread that can run: at the end of every chain of joins.
LEMMA SomeActive ==
  ASSUME NEW st, NEW waits, NoCycle(st, waits), st[Main] \in {ACTIVE, BLOCKED},
         \A t \in Thread : st[t] = BLOCKED =>
           waits[t] \in Thread /\ st[waits[t]] \in {ACTIVE, BLOCKED}
  PROVE  \E t \in Thread : st[t] = ACTIVE
<1> DEFINE S == {t \in Thread : st[t] = BLOCKED}
<1>1. CASE S = {}
  BY <1>1, LwtAssumption
<1>2. CASE S # {}
  <2>1. PICK t \in S : waits[t] \notin S
    BY <1>2 DEF NoCycle
  <2> QED BY <2>1
<1> QED BY <1>1, <1>2

\* The scan that starts at h stops, and at another thread than h when another can run.
LEMMA ScanStops ==
  ASSUME NEW links, NEW st, NEW L \in SUBSET Thread, OneRing(links, L),
         NEW h \in L, NEW m \in L, st[m] = ACTIVE
  PROVE  /\ ScanFrom(links, st, h) # NULL
         /\ m # h => ScanFrom(links, st, h) # h
<1> DEFINE A == {t \in L : st[t] = ACTIVE}
           N == Cardinality(Thread)
           first == ScanFrom(links, st, h)
<1>1. IsFiniteSet(L) /\ Cardinality(L) <= N /\ N \in Nat
  BY FS_Subset, FS_CardinalityType, LwtAssumption
<1>2. PICK k \in 1..N : /\ ListWalk(links, h, k) \in A
                        /\ \A j \in 1..(k-1) : ListWalk(links, h, j) \notin A
  <2> HIDE DEF N
  <2>1. A \in SUBSET L /\ A # {}
    OBVIOUS
  <2> HIDE DEF A
  <2> QED BY <1>1, <2>1, RingFirst
<1>3. \A j \in Nat : ListWalk(links, h, j) \in L
  BY ListWalkStep DEF OneRing, Linked
<1>4. FirstActive(links, st, h, ListWalk(links, h, k))
  BY <1>2, <1>3 DEF FirstActive
<1>5. first \in Thread /\ FirstActive(links, st, h, first)
  <2>1. \E t \in Thread : FirstActive(links, st, h, t)
    BY <1>2, <1>4
  <2>2. first = CHOOSE t \in Thread : FirstActive(links, st, h, t)
    BY <2>1 DEF ScanFrom
  <2> HIDE DEF first
  <2> QED BY <2>1, <2>2, Zenon
<1>6. first # NULL
  BY <1>5, LwtAssumption
<1>7. ASSUME first = h PROVE m = h
  <2>1. PICK i \in 1..N : /\ first = ListWalk(links, h, i)
                          /\ \A j \in 1..(i-1) : st[ListWalk(links, h, j)] # ACTIVE
    BY <1>5 DEF FirstActive
  <2>2. i \in Nat \ {0} /\ A \in SUBSET L
    BY <1>1
  <2>4. ListWalk(links, h, i) = h
    BY <1>7, <2>1
  <2>5. \A j \in 1..(i-1) : ListWalk(links, h, j) \notin A
    BY <2>1
  <2>3. A \subseteq {h}
    <3> HIDE DEF A, N, first
    <3> QED BY <2>2, <2>4, <2>5, RingBack
  <2> QED BY <2>3
<1> QED BY <1>6, <1>7

\* The strengthened invariant.
RunInv == RingInv /\ MainInv /\ NoCycle(status, joinee) /\ NeverStuck

\* The main thread alone is a ring.
LEMMA InitRunInv == Init => RunInv
<1> SUFFICES ASSUME Init PROVE RunInv
  OBVIOUS
<1> USE LwtAssumption DEF Init, ACTIVE, BLOCKED, DEAD, FREE
<1>1. Live = {Main}
  BY DEF Live
<1>2. OneRing(list, {Main})
  BY RingOfOne DEF ListInit
<1> QED BY <1>1, <1>2 DEF RunInv, RingInv, MainInv, NoCycle, NeverStuck

\* A step that leaves the ring alone and runs the scan ends with a thread running.
LEMMA ScheduleRuns ==
  ASSUME IInv, RunInv, IInv', MainInv', NoCycle(status', joinee'), lwt_head \in Live,
         Live' = Live, Schedule(status')
  PROVE  NeverStuck'
<1>1. PICK m \in Thread : status'[m] = ACTIVE
  <2>1. \A t \in Thread : status'[t] = BLOCKED =>
           joinee'[t] \in Thread /\ status'[joinee'[t]] \in {ACTIVE, BLOCKED}
    BY DEF IInv, TypeOK, JoinInv, Suspended, ACTIVE, BLOCKED
  <2> QED BY <2>1, SomeActive DEF MainInv
<1>2. m \in Live
  <2>1. m \in Live'
    BY <1>1 DEF Live, ACTIVE, FREE
  <2> QED BY <2>1
<1>3. Live \in SUBSET Thread /\ OneRing(list, Live)
  BY DEF Live, RunInv, RingInv
<1>4. ScanFrom(list, status', lwt_head) # NULL
  BY <1>1, <1>2, <1>3, ScanStops
<1> QED BY <1>4 DEF NeverStuck, Schedule

\* Giving a block back takes it off the ring of the others.
LEMMA GiveBackRing ==
  ASSUME IInv, RingInv, NEW t \in Live, NEW u \in Live, t # u, GiveBack(t)
  PROVE  RingInv'
<1>1. Live' = Live \ {t}
  BY DEF Live, GiveBack, IInv, TypeOK
<1>2. OneRing(ListRem(list, t), Live \ {t})
  <2>1. list \in [n : [Thread -> Thread], p : [Thread -> Thread]]
    BY DEF IInv, TypeOK
  <2>2. Live \in SUBSET Thread /\ Live # {t} /\ OneRing(list, Live)
    BY DEF Live, RingInv
  <2> QED BY <2>1, <2>2, RingRem
<1> QED BY <1>1, <1>2 DEF RingInv, GiveBack

\* The circle-free waits stay so when no thread starts to wait.
LEMMA NoNewWait ==
  ASSUME NoCycle(status, joinee),
         \A t \in Thread : status'[t] = BLOCKED => status[t] = BLOCKED /\ joinee'[t] = joinee[t]
  PROVE  NoCycle(status', joinee')
BY DEF NoCycle

\* Every step keeps the ring, the waits and the main thread as they should be, and
\* finds a thread to run.
LEMMA NextRunInv == IInv /\ RunInv /\ [Next]_vars => RunInv'
<1> SUFFICES ASSUME IInv, RunInv, [Next]_vars PROVE RunInv'
  OBVIOUS
<1>0. IInv'
  BY NextIInv
<1>a. lwt_head \in Live /\ lwt_head \in Thread /\ status[lwt_head] = ACTIVE
  BY LwtAssumption DEF RunInv, NeverStuck, IInv, HeadInv, TypeOK, Live, ACTIVE, FREE
<1>b. status \in [Thread -> Status] /\ joinee \in [Thread -> Thread \cup {NULL}] /\ Main \in Thread
  BY LwtAssumption DEF IInv, TypeOK
<1>c. RingInv /\ MainInv /\ NoCycle(status, joinee) /\ NeverStuck
  BY DEF RunInv
<1>1. ASSUME NEW t \in Thread, NEW flags \in Flags, Create(t, flags) PROVE RunInv'
  <2> USE <1>1, <1>a, <1>b DEF Create, Make, InCaller, ACTIVE, BLOCKED, DEAD, FREE
  <2>1. Live' = Live \cup {t}
    BY DEF Live
  <2>2. RingInv'
    <3>1. list \in [n : [Thread -> Thread], p : [Thread -> Thread]]
      BY DEF IInv, TypeOK
    <3>2. Live \in SUBSET Thread /\ t \in Thread \ Live /\ OneRing(list, Live)
      BY <1>c DEF Live, RingInv
    <3>3. ListPrev(list, lwt_head) \in Live
      BY <3>2 DEF OneRing, Linked, ListPrev
    <3>4. OneRing(ListAdd(list, ListPrev(list, lwt_head), t), Live \cup {t})
      BY <3>1, <3>2, <3>3, RingAdd
    <3> QED BY <2>1, <3>4 DEF RingInv, Placed
  <2>3. MainInv' /\ NeverStuck'
    BY <1>c DEF MainInv, NeverStuck
  <2>4. NoCycle(status', joinee')
    <3>1. \A o \in Thread : status'[o] = BLOCKED => status[o] = BLOCKED /\ joinee'[o] = joinee[o]
      OBVIOUS
    <3> QED BY <1>c, <3>1, NoNewWait
  <2> QED BY <2>2, <2>3, <2>4 DEF RunInv
<1>2. CASE Yield
  <2>1. UNCHANGED <<list, status, joinee>> /\ Live' = Live /\ Schedule(status')
    BY <1>2 DEF Yield, Live, Schedule
  <2>2. RingInv' /\ MainInv' /\ NoCycle(status', joinee')
    BY <1>c, <2>1 DEF RingInv, MainInv
  <2> QED BY <1>0, <1>a, <2>1, <2>2, ScheduleRuns DEF RunInv
<1>3. ASSUME NEW t \in Thread, YieldTo(t) PROVE RunInv'
  <2>1. UNCHANGED <<list, status, joinee>> /\ Live' = Live /\ lwt_head' = t
    BY <1>3 DEF YieldTo, Live
  <2> QED BY <1>c, <2>1, LwtAssumption DEF RunInv, RingInv, MainInv, NeverStuck
\* lwt_join has found its thread dead.
<1>r. ASSUME NEW t \in Thread, status[t] = DEAD, Reclaim(t) PROVE RunInv'
  <2> USE <1>r, <1>a, <1>b DEF Reclaim, ACTIVE, BLOCKED, DEAD, FREE
  <2>1. t \in Live /\ t # lwt_head
    BY DEF Live
  <2>2. RingInv'
    BY <1>c, <2>1, GiveBackRing
  <2>3. \A o \in Thread : o # t => status'[o] = status[o]
    BY DEF GiveBack
  <2>4. status'[t] = FREE
    BY DEF GiveBack
  <2>5. MainInv' /\ NeverStuck'
    BY <1>c, <2>3 DEF MainInv, NeverStuck
  <2>6. NoCycle(status', joinee')
    <3>1. \A o \in Thread : status'[o] = BLOCKED => status[o] = BLOCKED /\ joinee'[o] = joinee[o]
      BY <2>3, <2>4
    <3> QED BY <1>c, <3>1, NoNewWait
  <2> QED BY <2>2, <2>5, <2>6 DEF RunInv
<1>4. ASSUME NEW t \in Thread, Joinable(t), Join(t) PROVE RunInv'
  <2>1. CASE JoinRefused(t)
    BY <1>c, <2>1 DEF JoinRefused, RunInv, RingInv, Live, MainInv, NeverStuck
  <2>2. CASE JoinBlocks(t)
    <3> USE <1>4, <2>2, <1>a, <1>b DEF Join, JoinBlocks, Blocks, MustWait, InCaller, ACTIVE, BLOCKED, DEAD, FREE
    <3>1. t # lwt_head
      BY DEF IInv, HandleInv
    <3>2. Live' = Live
      BY DEF Live
    <3>3. RingInv'
      BY <1>c, <3>2 DEF RingInv
    <3>4. MainInv'
      BY <1>c DEF MainInv
    <3>5. NoCycle(status', joinee')
      <4> SUFFICES ASSUME NEW S \in SUBSET Thread, S # {}, \A o \in S : status'[o] = BLOCKED
                   PROVE  \E o \in S : joinee'[o] \notin S
        BY DEF NoCycle
      <4>1. CASE lwt_head \in S
        <5>1. joinee'[lwt_head] = t /\ status'[t] = ACTIVE
          BY <3>1
        <5> QED BY <4>1, <5>1
      <4>2. CASE lwt_head \notin S
        <5>1. \A o \in S : status[o] = BLOCKED /\ joinee'[o] = joinee[o]
          BY <4>2
        <5> QED BY <1>c, <5>1 DEF NoCycle
      <4> QED BY <4>1, <4>2
    <3> QED BY <1>0, <3>2, <3>3, <3>4, <3>5, ScheduleRuns DEF RunInv
  <2>3. CASE JoinAtOnce(t)
    <3>1. status[t] = DEAD
      BY <1>4, <2>3 DEF Joinable, JoinAtOnce, Refuses, MustWait
    <3> QED BY <1>r, <2>3, <3>1 DEF JoinAtOnce
  <2> QED BY <1>4, <2>1, <2>2, <2>3 DEF Join
<1>5. CASE JoinResume
  <2> DEFINE u == joinee[lwt_head]
  <2>1. u # NULL /\ u \in Thread
    BY <1>5, <1>a, <1>b DEF JoinResume
  <2>2. status[u] = DEAD
    BY <1>a, <2>1 DEF IInv, JoinInv, Suspended, ACTIVE, BLOCKED
  <2> QED BY <1>5, <1>r, <2>1, <2>2 DEF JoinResume
<1>6. CASE DieNojoin
  <2> USE <1>6, <1>a, <1>b DEF DieNojoin, InCaller, ACTIVE, BLOCKED, DEAD, FREE, JOIN, NOJOIN
  <2>1. Main \in Live /\ Main # lwt_head
    BY <1>c DEF MainInv, Live
  <2>2. RingInv'
    BY <1>c, <2>1, GiveBackRing
  <2>3. \A o \in Thread : o # lwt_head => status'[o] = status[o]
    BY DEF GiveBack
  <2>4. status'[lwt_head] = FREE
    BY DEF GiveBack
  <2>5. MainInv'
    BY <1>c, <2>1, <2>3 DEF MainInv
  <2>6. NoCycle(status', joinee')
    <3>1. \A o \in Thread : status'[o] = BLOCKED => status[o] = BLOCKED /\ joinee'[o] = joinee[o]
      BY <2>3, <2>4
    <3> QED BY <1>c, <3>1, NoNewWait
  <2>7. NeverStuck'
    <3>1. PICK m \in Thread : status'[m] = ACTIVE
      <4>1. \A o \in Thread : status'[o] = BLOCKED =>
               joinee'[o] \in Thread /\ status'[joinee'[o]] \in {ACTIVE, BLOCKED}
        BY <1>0 DEF IInv, TypeOK, JoinInv, Suspended
      <4> QED BY <2>5, <2>6, <4>1, SomeActive DEF MainInv
    <3>2. m # lwt_head /\ status[m] = ACTIVE /\ m \in Live
      BY <2>3, <2>4, <3>1 DEF Live
    <3>3. Live \in SUBSET Thread /\ OneRing(list, Live)
      BY <1>c DEF Live, RingInv
    <3>4. ScanFrom(list, status, lwt_head) # NULL /\ ScanFrom(list, status, lwt_head) # lwt_head
      BY <3>2, <3>3, ScanStops
    <3> QED BY <3>4 DEF NeverStuck
  <2> QED BY <2>2, <2>5, <2>6, <2>7 DEF RunInv
<1>7. ASSUME NEW v \in Value, DieJoin(v) PROVE RunInv'
  <2> USE <1>7, <1>a, <1>b DEF DieJoin, InCaller, Woken, ACTIVE, BLOCKED, DEAD, FREE
  <2>1. target[lwt_head] # NULL =>
          target[lwt_head] \in Thread /\ status[target[lwt_head]] = BLOCKED
    BY DEF IInv, TypeOK, JoinInv, Suspended
  <2>2. \A o \in Thread :
          status'[o] = IF o = lwt_head THEN DEAD
                       ELSE IF target[lwt_head] # NULL /\ o = target[lwt_head] THEN ACTIVE
                       ELSE status[o]
    BY <2>1
  <2>3. Live' = Live
    BY <2>1, <2>2 DEF Live
  <2>4. RingInv'
    BY <1>c, <2>3 DEF RingInv
  <2>5. MainInv'
    BY <1>c, <2>2 DEF MainInv
  <2>6. NoCycle(status', joinee')
    <3>1. \A o \in Thread : status'[o] = BLOCKED => status[o] = BLOCKED /\ joinee'[o] = joinee[o]
      BY <2>2
    <3> QED BY <1>c, <3>1, NoNewWait
  <2> QED BY <1>0, <2>3, <2>4, <2>5, <2>6, ScheduleRuns DEF RunInv
<1>8. CASE UNCHANGED vars
  BY <1>8, <1>c DEF vars, RunInv, RingInv, Live, MainInv, NeverStuck
<1> QED
  BY <1>1, <1>2, <1>3, <1>4, <1>5, <1>6, <1>7, <1>8 DEF Next, Calls, Die

\* The ring is whole and a thread can run, in every reachable state.
THEOREM RunInvariance == Spec => [](IInv /\ RunInv)
<1>1. Init => IInv /\ RunInv
  BY InitIInv, InitRunInv
<1>2. (IInv /\ RunInv) /\ [Next]_vars => (IInv /\ RunInv)'
  BY NextIInv, NextRunInv
<1> QED
  BY <1>1, <1>2, PTL DEF Spec

\* Whatever the number of threads and their joins, the scan of __lwt_schedule and the
\* one of lwt_die stop, and the assertion after the latter holds.
THEOREM AlwaysRuns == Spec => []NeverStuck
<1>1. RunInv => NeverStuck
  BY DEF RunInv
<1> QED
  BY <1>1, RunInvariance, PTL

\* The ring the running thread is on holds the threads not given back, all of them and
\* no other.
THEOREM RingComplete == Spec => []RingIsLive
<1>1. IInv /\ RunInv => RingIsLive
  <2> SUFFICES ASSUME IInv, RunInv, lwt_head # NULL
               PROVE  /\ ListOK(list, Thread)
                      /\ {ListWalk(list, lwt_head, k) : k \in 1..Cardinality(Thread)} = Live
    BY DEF RingIsLive
  <2>1. lwt_head \in Live /\ Live \in SUBSET Thread
    BY DEF IInv, TypeOK, HeadInv, Live, ACTIVE, FREE
  <2>2. IsFiniteSet(Live) /\ Cardinality(Live) <= Cardinality(Thread) /\ Cardinality(Thread) \in Nat
    BY <2>1, FS_Subset, FS_CardinalityType, LwtAssumption
  <2>3. OneRing(list, Live) /\ ListOK(list, Thread)
    BY DEF RunInv, RingInv, IInv, LinkInv
  <2> QED BY <2>1, <2>2, <2>3, RingWalk
<1> QED
  BY <1>1, RunInvariance, PTL

-----------------------------------------------------------------------------
(* The refinement *)

\* The initial states of Lwt are initial states of ForkJoin.
LEMMA InitRefines == Init => FJ!Init
BY LwtAssumption DEF Init, FJ!Init, ACTIVE, DEAD, FREE, JOIN, NOJOIN

\* What reclaiming a dead thread does in ForkJoin.
LEMMA ReclaimIsReap ==
  ASSUME IInv, NEW t \in Thread, lwt_head # NULL, status[t] = DEAD,
         joinee[lwt_head] \in {NULL, t}, Reclaim(t)
  PROVE  lwt_head \in Thread \ {t} /\ FJ!Reap(lwt_head, t)
<1> USE DEF IInv, TypeOK, Reclaim, GiveBack, ACTIVE, BLOCKED, DEAD, FREE, JOIN, NOJOIN, Status
<1>1. lwt_head \in Thread \ {t} /\ status[lwt_head] = ACTIVE
  BY DEF HeadInv
<1>2. joinee[t] = NULL /\ lwt_nojoin[t] = JOIN
  BY DEF JoinInv, Suspended, BlockInv
<1> QED
  BY <1>1, <1>2 DEF FJ!Reap

\* Every step of Lwt is a step of ForkJoin or changes nothing there.
LEMMA NextRefines == IInv /\ [Next]_vars => [FJ!Next]_(FJ!fjvars)
<1> SUFFICES ASSUME IInv, [Next]_vars PROVE [FJ!Next]_(FJ!fjvars)
  OBVIOUS
<1> USE DEF IInv, TypeOK
<1>1. ASSUME NEW t \in Thread, NEW flags \in Flags, Create(t, flags) PROVE FJ!Fork(t)
  <2>1. joinee[t] = NULL /\ return_val[t] = NULL /\ lwt_nojoin[t] = JOIN
    BY <1>1 DEF Create, Make, JoinInv, Suspended, BlockInv, ACTIVE, BLOCKED, DEAD, FREE
  <2> QED BY <1>1, <2>1 DEF FJ!Fork, Create, Make, Flags, ACTIVE, BLOCKED, DEAD, FREE, JOIN, NOJOIN
<1>2. ASSUME Yield \/ \E t \in Thread : YieldTo(t) PROVE UNCHANGED FJ!fjvars
  BY <1>2 DEF Yield, YieldTo, FJ!fjvars
<1>3. ASSUME NEW t \in Thread, Joinable(t), Join(t) PROVE FJ!Next
  <2>1. lwt_head \in Thread \ {t} /\ status[lwt_head] = ACTIVE /\ joinee[lwt_head] = NULL
    BY <1>3 DEF Join, InCaller, HeadInv, HandleInv
  <2>2. CASE JoinRefused(t)
    <3>1. FJ!Refuse(lwt_head, t)
      BY <2>1, <2>2 DEF FJ!Refuse, JoinRefused, Refuses, ACTIVE, DEAD, FREE
    <3> QED BY <2>1, <3>1 DEF FJ!Next
  <2>3. CASE JoinBlocks(t)
    <3>1. FJ!Await(lwt_head, t)
      BY <2>1, <2>3, LwtAssumption DEF FJ!Await, JoinBlocks, Blocks, Refuses, MustWait, Flags,
         Status, ACTIVE, BLOCKED, DEAD, FREE, JOIN, NOJOIN
    <3> QED BY <2>1, <3>1 DEF FJ!Next
  <2>4. CASE JoinAtOnce(t)
    <3>1. status[t] = DEAD
      BY <1>3, <2>4 DEF Joinable, JoinAtOnce, Refuses, MustWait
    <3>2. FJ!Reap(lwt_head, t)
      BY <1>3, <2>1, <2>4, <3>1, ReclaimIsReap DEF JoinAtOnce, Join, InCaller
    <3> QED BY <2>1, <3>2 DEF FJ!Next
  <2> QED BY <1>3, <2>2, <2>3, <2>4 DEF Join
<1>4. ASSUME JoinResume PROVE FJ!Next
  <2> DEFINE u == joinee[lwt_head]
  <2>1. status[u] = DEAD /\ u \in Thread
    BY <1>4 DEF JoinResume, JoinInv, Suspended, HeadInv, ACTIVE, BLOCKED
  <2> QED BY <1>4, <2>1, ReclaimIsReap DEF JoinResume, FJ!Next
<1>5. ASSUME DieNojoin PROVE FJ!Next
  <2>1. lwt_head \in Thread /\ status[lwt_head] = ACTIVE /\ return_val[lwt_head] = NULL
    BY <1>5 DEF DieNojoin, InCaller, HeadInv, BlockInv, ACTIVE, DEAD
  <2>2. PICK t \in Thread : t = lwt_head
    BY <2>1
  <2>3. FJ!Vanish(t)
    BY <1>5, <2>1, <2>2 DEF DieNojoin, InCaller, GiveBack, FJ!Vanish, ACTIVE, BLOCKED, DEAD, FREE, JOIN, NOJOIN
  <2> QED BY <2>3 DEF FJ!Next
<1>6. ASSUME NEW v \in Value, DieJoin(v) PROVE FJ!Next
  <2>1. lwt_head \in Thread /\ status[lwt_head] = ACTIVE /\ joinee[lwt_head] = NULL
    BY <1>6 DEF DieJoin, InCaller, HeadInv
  <2>2. target[lwt_head] # NULL => status[target[lwt_head]] = BLOCKED
    BY <1>6, <2>1 DEF DieJoin, InCaller, JoinInv, Suspended, ACTIVE, DEAD
  <2>3. FJ!Finish(lwt_head, v)
    BY <1>6, <2>1, <2>2 DEF DieJoin, Woken, ResultKept, FJ!Finish, ACTIVE, BLOCKED, DEAD, FREE, JOIN, NOJOIN
  <2> QED BY <2>1, <2>3 DEF FJ!Next
<1>7. CASE UNCHANGED vars
  BY <1>7 DEF vars, FJ!fjvars
<1> QED
  BY <1>1, <1>2, <1>3, <1>4, <1>5, <1>6, <1>7 DEF Next, Calls, Die, FJ!Next

\* The library keeps the fork/join promise: a result is delivered to the joiner,
\* once, and only after the thread has ended.
THEOREM KeepsPromise == Spec => ForkJoinPromise
<1>1. Init => FJ!Init
  BY InitRefines
<1>2. IInv /\ [Next]_vars => [FJ!Next]_(FJ!fjvars)
  BY NextRefines
<1> QED
  BY <1>1, <1>2, Invariance, PTL DEF Spec, ForkJoinPromise, FJ!Spec
=============================================================================
