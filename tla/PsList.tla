------------------------------- MODULE PsList -------------------------------
(***************************************************************************)
(* The intrusive, circular, doubly linked list of ps_list.h, as pure       *)
(* operators.  The links of all the nodes of a type are kept together in   *)
(* one record                                                              *)
(*     list.n[o]  the node after o   (o->list.n)                           *)
(*     list.p[o]  the node before o  (o->list.p)                           *)
(* A node that is on no list points at itself in both directions.          *)
(***************************************************************************)
EXTENDS Naturals

\* ps_list_ll_init applied to every node of S.
ListInit(S) == [n |-> [o \in S |-> o], p |-> [o \in S |-> o]]

ListNext(list, o) == list.n[o]
ListPrev(list, o) == list.p[o]
ListSingleton(list, o) == list.n[o] = o

\* ps_list_ll_add with the back link of the next node forgotten.
BugListAdd(list, l, new) ==
  [n |-> [list.n EXCEPT ![new] = list.n[l], ![l] = new],
   p |-> [list.p EXCEPT ![new] = l]]

\* ps_list_ll_add: node new goes right after node l.
ListAdd(list, l, new) ==
  [n |-> [list.n EXCEPT ![new] = list.n[l], ![l] = new],
   p |-> [list.p EXCEPT ![new] = l, ![list.n[l]] = new]]

\* ps_list_ll_rem with the back link forgotten.
BugListRem(list, l) ==
  [n |-> [list.n EXCEPT ![list.p[l]] = list.n[l], ![l] = l],
   p |-> [list.p EXCEPT ![l] = l]]

\* ps_list_ll_rem: the neighbours of l are linked to each other, and l to itself.
ListRem(list, l) ==
  [n |-> [list.n EXCEPT ![list.p[l]] = list.n[l], ![l] = l],
   p |-> [list.p EXCEPT ![list.n[l]] = list.p[l], ![l] = l]]

\* The node reached from o by following k links forwards.
ListWalk(list, o, k) ==
  LET step[i \in Nat] == IF i = 0 THEN o ELSE list.n[step[i-1]] IN step[k]

-----------------------------------------------------------------------------
(* What makes the links of the nodes of S a set of closed rings. *)
ListOK(list, S) ==
  /\ list \in [n : [S -> S], p : [S -> S]]
  /\ \A o \in S : list.p[list.n[o]] = o /\ list.n[list.p[o]] = o
=============================================================================
