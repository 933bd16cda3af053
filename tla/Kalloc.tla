------------------------------- MODULE Kalloc -------------------------------
(***************************************************************************)
(* The allocator (scheddev/kalloc.c and the older src/kalloc.c): first fit  *)
(* from a list of free runs in address order, in which neighbours are       *)
(* joined.                                                                  *)
(*                                                                         *)
(* The two versions differ in where memory comes from: pages that follow    *)
(* each other, or malloc.  Memory is counted in words.                      *)
(*                                                                         *)
(* A free run keeps its next and len in its own first words.  kalloc may    *)
(* leave a run of fewer words than that: then its len lies in the block     *)
(* behind it, which kalloc has just handed out, and the owner of the block  *)
(* writes over it.                                                          *)
(***************************************************************************)
EXTENDS Integers, FiniteSets, Sequences

CONSTANTS Lens,     \* the lengths asked for
          POOL,     \* PAGESIZE, the length of the first run
          PAGE,     \* what cos_page_bump_alloc gives, 4096 bytes
          HEADER,   \* sizeof(struct run)
          MallocAt, \* bound on where malloc makes a block
          Data,     \* bound on what an owner writes into its block
          MaxMem    \* bound on the addresses

\* A block has room for the header of the run it becomes when it is given back.  That
\* what is left of a run has room for its header, nobody sees to.
Words == 1..MaxMem
ASSUME KallocAssumption ==
  /\ HEADER \in Nat \ {0}
  /\ MaxMem \in Nat
  /\ Lens \cup {POOL, PAGE} \subseteq HEADER..MaxMem
  /\ MallocAt \subseteq Words

VARIABLES
  lib,       \* which version this is: "pages" or "malloc"
  freelist,  \* the runs, in the order of the list
  blocks,    \* the blocks handed out
  memory,    \* the words the system has given
  intact     \* no header of a free run has been written over

kallocvars == <<lib, freelist, blocks, memory, intact>>

Piece(at, len) == [at |-> at, len |-> len]
End(r) == r.at + r.len
Cells(r) == r.at..(End(r) - 1)

-----------------------------------------------------------------------------
(* kfree *)

\* Where the walk along the list stops: at a run that starts at the end of the block
\* or after it, or that ends where the block starts.
Stops(fl, b, i) == i = Len(fl) + 1 \/ fl[i].at >= End(b) \/ End(fl[i]) = b.at
Stop(fl, b) ==
  CHOOSE i \in 1..(Len(fl) + 1) : Stops(fl, b, i) /\ \A j \in 1..(i - 1) : ~Stops(fl, b, j)

\* The list with the block b in it: joined to the run before it or to the run after
\* it, to both, or as a run of its own.
JoinsLast(fl, i, b) == i <= Len(fl) /\ End(fl[i]) = b.at
BugJoinsOne(fl, i, b) == i <= Len(fl) /\ fl[i].at = End(b) /\ (i > 1 => End(fl[i - 1]) # b.at)
JoinsNext(fl, i, b) == i <= Len(fl) /\ fl[i].at = End(b)
Freed(fl, b) ==
  LET i     == Stop(fl, b)
      n     == IF JoinsLast(fl, i, b) THEN i + 1 ELSE i
      start == IF JoinsLast(fl, i, b) THEN fl[i].at ELSE b.at
      end   == IF JoinsNext(fl, n, b) THEN End(fl[n]) ELSE End(b)
      rest  == IF JoinsNext(fl, n, b) THEN n + 1 ELSE n
  IN  SubSeq(fl, 1, i - 1) \o <<Piece(start, end - start)>> \o SubSeq(fl, rest, Len(fl))

KFree(at, len) ==
  /\ len <= POOL
  /\ freelist' = Freed(freelist, Piece(at, len))
  /\ blocks' = blocks \ {Piece(at, len)}
  /\ UNCHANGED <<lib, memory, intact>>

-----------------------------------------------------------------------------
(* kalloc *)

\* The first run that is long enough.
IsFit(fl, n, i) == fl[i].len >= n /\ \A j \in 1..(i - 1) : fl[j].len < n
HasFit(fl, n) == \E i \in DOMAIN fl : fl[i].len >= n
Fit(fl, n) == CHOOSE i \in DOMAIN fl : IsFit(fl, n, i)

\* A run gives its last words and leaves the list when it has no others.
BugFirstWords(fl, i, n) == Piece(fl[i].at, n)
Taken(fl, i, n) == Piece(End(fl[i]) - n, n)
Rest(fl, i, n) ==
  IF fl[i].len = n THEN SubSeq(fl, 1, i - 1) \o SubSeq(fl, i + 1, Len(fl))
  ELSE [fl EXCEPT ![i].len = @ - n]

\* A block of n words out of the list fl.
TakeFrom(fl, n) ==
  LET i == Fit(fl, n) IN
  /\ blocks' = blocks \cup {Taken(fl, i, n)}
  /\ freelist' = Rest(fl, i, n)

\* kalloc finds a run ...
AllocFit(n) ==
  /\ HasFit(freelist, n)
  /\ TakeFrom(freelist, n)
  /\ UNCHANGED <<lib, memory, intact>>

\* ... or gives one page after the other to kfree until it does ...
Top == CHOOSE t \in 1..MaxMem : memory = 0..(t - 1)
Pages(k) == Freed(freelist, Piece(Top, k * PAGE))
AllocPages(n, k) ==
  /\ lib = "pages"
  /\ ~HasFit(freelist, n)
  /\ HasFit(Pages(k), n)
  /\ k = 1 \/ ~HasFit(Pages(k - 1), n)
  /\ Top + k * PAGE <= MaxMem
  /\ TakeFrom(Pages(k), n)
  /\ memory' = memory \cup Cells(Piece(Top, k * PAGE))
  /\ UNCHANGED <<lib, intact>>

\* ... or has malloc make the block.  What malloc gives has its own header before it
\* and is never next to what it has given before.
AllocMalloc(n, at) ==
  /\ lib = "malloc"
  /\ ~HasFit(freelist, n)
  /\ (at - 1)..(at + n) \cap memory = {}
  /\ at + n <= MaxMem
  /\ blocks' = blocks \cup {Piece(at, n)}
  /\ memory' = memory \cup Cells(Piece(at, n))
  /\ UNCHANGED <<lib, freelist, intact>>

KAlloc(n) ==
  /\ n <= POOL
  /\ \/ AllocFit(n)
     \/ \E k \in 1..n : AllocPages(n, k)
     \/ \E at \in MallocAt : AllocMalloc(n, at)

-----------------------------------------------------------------------------
\* The owner of the block b fills it.  This matters here when the header of a run lies
\* in the block; what becomes of its len is followed.
Header(r) == r.at..(r.at + HEADER - 1)
Write(b) ==
  \E i \in DOMAIN freelist, v \in Data :
    /\ Header(freelist[i]) \cap Cells(b) # {}
    /\ freelist' = [freelist EXCEPT ![i].len = v]
    /\ intact' = FALSE
    /\ UNCHANGED <<lib, blocks, memory>>

-----------------------------------------------------------------------------
\* kinit: the pool is given to kfree.
KallocInit ==
  /\ lib \in {"pages", "malloc"}
  /\ freelist = Freed(<<>>, Piece(0, POOL))
  /\ blocks = {}
  /\ memory = 0..(POOL - 1)
  /\ intact = TRUE

KallocNext ==
  \/ \E n \in Lens : KAlloc(n)
  \/ \E b \in blocks : KFree(b.at, b.len) \/ Write(b)
KallocSpec == KallocInit /\ [][KallocNext]_kallocvars

-----------------------------------------------------------------------------
(* Properties *)

\* The free list is in address order, with no two runs that could be one.
FreeListOK ==
  \A i, j \in DOMAIN freelist : i < j => End(freelist[i]) < freelist[j].at

\* Memory is neither lost nor given twice: every word is in one run or in one block.
Apart(r, s) == End(r) <= s.at \/ End(s) <= r.at
Pieces == {freelist[i] : i \in DOMAIN freelist} \cup blocks
MemoryAccounted ==
  /\ \A b, d \in blocks : b # d => Apart(b, d)
  /\ \A i \in DOMAIN freelist, b \in blocks : Apart(freelist[i], b)
  /\ memory = UNION {Cells(r) : r \in Pieces}

\* The allocator's own state is in order.
Piecelike == [at : Nat, len : Nat \ {0}]
KallocOK ==
  /\ freelist \in Seq(Piecelike)
  /\ blocks \subseteq Piecelike
  /\ lib = "pages" => \E t \in 1..MaxMem : memory = 0..(t - 1)
  /\ FreeListOK
  /\ MemoryAccounted

\* kalloc and kfree keep it in order as long as no owner has written over a header.
KInv == intact => KallocOK

\* As long as that has not happened, they keep the abstract promise.
A == INSTANCE Allocator WITH memory <- memory, blocks <- blocks, Lens <- Lens
AllocatorPromise == A!Init /\ [][intact => A!Next]_(A!avars)

\* Two blocks that are handed out never have a word in common: "This function uses
\* malloc to allocate the memory for the channel" (lwt.c:281), and nothing less is
\* expected of kalloc by any of its callers.
BlocksApart == \A b, d \in blocks : b # d => Apart(b, d)
=============================================================================
