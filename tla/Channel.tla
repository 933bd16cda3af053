------------------------------ MODULE Channel ------------------------------
(***************************************************************************)
(* What a channel of the lwt library promises: first in, first out, every  *)
(* message delivered once and unchanged, and never more messages in        *)
(* transit than the channel holds.  A channel made with size 0 holds one   *)
(* message, the one being handed over.                                     *)
(***************************************************************************)
EXTENDS Naturals, Sequences

CONSTANTS Chan,      \* channels
          Data,      \* messages
          Cap,       \* the size each channel is made with
          NULL       \* nothing received yet

VARIABLES queue,     \* messages in transit, per channel
          received   \* what the last receive to return gave back

chvars == <<queue, received>>

Holds(c) == IF Cap[c] = 0 THEN 1 ELSE Cap[c]

Init ==
  /\ queue = [c \in Chan |-> <<>>]
  /\ received = NULL

Put(c, v) ==
  /\ Len(queue[c]) < Holds(c)
  /\ queue' = [queue EXCEPT ![c] = Append(@, v)]
  /\ UNCHANGED received

Take(c) ==
  /\ queue[c] # <<>>
  /\ received' = Head(queue[c])
  /\ queue' = [queue EXCEPT ![c] = Tail(@)]

Next == \E c \in Chan : Take(c) \/ \E v \in Data : Put(c, v)

Spec == Init /\ [][Next]_chvars
=============================================================================
