------------------------------ MODULE Allocator ------------------------------
(***************************************************************************)
(* What the callers of s16mem_alloc and s16mem_free may rely on: blocks of *)
(* a pool that are large enough behind their header, do not overlap, stay  *)
(* where they are and keep their size until they are given back.  Nothing  *)
(* is said of where a block is found.                                      *)
(* MemPool is shown to implement this specification.                       *)
(***************************************************************************)
EXTENDS Naturals

CONSTANTS
  PoolSize,    \* the length of the pool, in quanta of the size of a header
  HeaderSize,  \* that size, in bytes
  Sizes        \* what may be asked for, in bytes

VARIABLES
  blocks,  \* the blocks that are in use, with the bytes that were asked for
  failed   \* memory has run out, and the process with it

vars == <<blocks, failed>>

Span(b) == b.at .. (b.at + b.len - 1)

Init == blocks = {} /\ failed = FALSE

Alloc ==
  /\ ~failed
  /\ \E at \in 0 .. PoolSize - 1, len \in 1 .. PoolSize, bytes \in Sizes :
       LET b == [at |-> at, len |-> len, bytes |-> bytes] IN
         /\ at + len <= PoolSize
         /\ bytes <= (len - 1) * HeaderSize
         /\ \A c \in blocks : Span(b) \cap Span(c) = {}
         /\ blocks' = blocks \cup {b}
  /\ UNCHANGED failed

Free ==
  /\ ~failed
  /\ \E b \in blocks : blocks' = blocks \ {b}
  /\ UNCHANGED failed

Fail == ~failed /\ failed' = TRUE /\ UNCHANGED blocks

Next == Alloc \/ Free \/ Fail

Spec == Init /\ [][Next]_vars

=============================================================================
