------------------------------ MODULE MCKalloc ------------------------------
(* Instance of Kalloc for TLC: real lengths in words of four bytes, of a       *)
(* group (12 bytes), a node (16 bytes) and an unbuffered channel (60 bytes).   *)
EXTENDS Kalloc
=============================================================================
