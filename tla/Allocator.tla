----------------------------- MODULE Allocator -----------------------------
(***************************************************************************)
(* What an allocator promises: the blocks it hands out do not overlap, what *)
(* is given back is found again, and it asks the system for memory only     *)
(* when the memory it has holds no free interval that is long enough.       *)
(***************************************************************************)
EXTENDS Integers

CONSTANT Lens     \* the lengths asked for
VARIABLES memory, \* the cells the system has given
          blocks  \* the intervals handed out
avars == <<memory, blocks>>

Cells(b) == b.at..(b.at + b.len - 1)
Unused(m, bs) == m \ UNION {Cells(b) : b \in bs}

\* An interval of n cells is free.
Room(n) ==
  \E at \in memory :
    Cells([at |-> at, len |-> n]) \subseteq Unused(memory, blocks)

Init == memory # {} /\ blocks = {}

Alloc(b) ==
  /\ b.len \in Lens
  /\ Cells(b) \subseteq Unused(memory', blocks)
  /\ blocks' = blocks \cup {b}
  /\ IF Room(b.len) THEN memory' = memory ELSE memory \subseteq memory'

Free(b) == blocks' = blocks \ {b} /\ UNCHANGED memory

Next == (\E b \in blocks' \ blocks : Alloc(b)) \/ (\E b \in blocks : Free(b))
Spec == Init /\ [][Next]_avars
=============================================================================
