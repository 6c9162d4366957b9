------------------------------- MODULE MemPool -------------------------------
(***************************************************************************)
(* The allocator of usr/src/lib/s16/mem.c, which serves s16mem_alloc from  *)
(* a static pool when malloc fails.  Requests that malloc serves, and      *)
(* their release, do not touch this state and are left out.                *)
(*                                                                         *)
(* An address is the index of a header-sized quantum of the pool.  A block *)
(* begins with its header; the header of a free block is linked into a     *)
(* circular list in address order that also holds the header "base", of    *)
(* size 0, which lies outside the pool.                                    *)
(***************************************************************************)
EXTENDS Integers, FiniteSets

CONSTANTS
  PoolSize,    \* POOL_SIZE, in quanta
  MinQuantas,  \* MIN_POOL_ALLOC_QUANTAS
  HeaderSize,  \* sizeof (mem_header_t)
  WordSize,    \* the number of values of an unsigned long
  Bases,       \* where the linker may place "base"
  Sizes,       \* the sizes, in bytes, that are asked for
  NULL         \* the pointer 0

\* base is not in the pool, nor right behind it (see README).
ASSUME PoolAssumption ==
  /\ PoolSize \in Nat \ {0} /\ MinQuantas \in Nat \ {0}
  /\ HeaderSize \in Nat \ {0} /\ WordSize \in Nat \ {0}
  /\ Bases \subseteq Int \ (0 .. PoolSize)
  /\ Sizes \subseteq Nat
  /\ NULL \notin Int

\* Neither the rounding up in s16mem_alloc nor the sums of get_mem_from_pool
\* wrap around, so that the latter can be in quanta (see README).
ASSUME WordAssumption ==
  /\ (PoolSize + MinQuantas) * HeaderSize < WordSize
  /\ \A nbytes \in Sizes : nbytes + 2 * HeaderSize + PoolSize * HeaderSize <= WordSize

Pool == 0 .. PoolSize - 1

VARIABLES
  base,           \* the address of the header "base"
  next,           \* header -> the header it is linked to
  size,           \* header -> the length of its block
  freep,          \* the header at which the next search begins
  pool_free_pos,  \* the first quantum that was never handed out
  owned,          \* the blocks that callers hold: header -> bytes asked for
  exited          \* the process has given up

vars == <<base, next, size, freep, pool_free_pos, owned, exited>>

Header == Pool \cup {base}

TypeOK ==
  /\ base \in Bases
  /\ next \in [Header -> Header \cup {NULL}]
  /\ size \in [Header -> 0 .. PoolSize]
  /\ freep \in Header \cup {NULL}
  /\ pool_free_pos \in 0 .. PoolSize
  /\ DOMAIN owned \subseteq Pool /\ \A b \in DOMAIN owned : owned[b] \in Sizes
  /\ exited \in BOOLEAN

-----------------------------------------------------------------------------
(* The list.  h is a state of it: a record of next, size and freep. *)

\* The header that is k links behind freep.
At(h) ==
  LET at[k \in 0 .. PoolSize + 1] == IF k = 0 THEN h.freep ELSE h.next[at[k - 1]]
  IN  at

\* The least element of a set of numbers.
Least(S) == CHOOSE k \in S : \A l \in S : k <= l

\* The condition at which the loop of s16mem_free stops: b belongs between p
\* and its successor, which at one place of the circle is a lower address.
Between(h, p, b) ==
  \/ b > p /\ b < h.next[p]
  \/ p >= h.next[p] /\ (b > p \/ b < h.next[p])

\* Mutant: a block is not combined with its neighbours.
uncombined(h, b) ==
  LET p == At(h)[Least({k \in DOMAIN At(h) : Between(h, At(h)[k], b)})]
  IN  [next  |-> [h.next EXCEPT ![b] = h.next[p], ![p] = b],
       size  |-> h.size,
       freep |-> p]

\* s16mem_free of a block of the pool: link it in address order and combine it
\* with the neighbours it touches.
s16mem_free(h, b) ==
  LET p      == At(h)[Least({k \in DOMAIN At(h) : Between(h, At(h)[k], b)})]
      up     == h.next[p]
      upper  == b + h.size[b] = up
      bsize  == IF upper THEN h.size[b] + h.size[up] ELSE h.size[b]
      bnext  == IF upper THEN h.next[up] ELSE up
      lower  == p + h.size[p] = b
  IN  IF lower
      THEN [next  |-> [h.next EXCEPT ![b] = bnext, ![p] = bnext],
            size  |-> [h.size EXCEPT ![b] = bsize, ![p] = @ + bsize],
            freep |-> p]
      ELSE [next  |-> [h.next EXCEPT ![b] = bnext, ![p] = b],
            size  |-> [h.size EXCEPT ![b] = bsize],
            freep |-> p]

\* The number of quanta for a request, with the header; unsigned arithmetic.
\* Mutant: the header is forgotten.
headerless(nbytes) == ((nbytes + HeaderSize - 1) % WordSize) \div HeaderSize
Quantas(nbytes)    == ((nbytes + HeaderSize - 1) % WordSize) \div HeaderSize + 1

\* The places of the list at which n quanta fit; the last one looked at is
\* freep itself.
Fits(h, n) ==
  LET end == Least({k \in DOMAIN At(h) : k > 0 /\ At(h)[k] = h.freep})
  IN  {k \in 1 .. end : h.size[At(h)[k]] >= n}

\* get_mem_from_pool takes this much from the pool.
Chunk(n) == IF n < MinQuantas THEN MinQuantas ELSE n

\* get_mem_from_pool: a fresh block is made and "freed" into the list.
get_mem_from_pool(h, n) ==
  s16mem_free([next  |-> h.next,
               size  |-> [h.size EXCEPT ![pool_free_pos] = Chunk(n)],
               freep |-> h.freep], pool_free_pos)

\* The block that the search of s16mem_alloc settles on: an exact fit leaves
\* the list, a larger one is cut and its tail is used.
\* Mutant: the head is used, and stays in the list.
take_head(h, n) ==
  LET k == Least(Fits(h, n)) p == At(h)[k] prev == At(h)[k - 1] IN
  [block |-> p,
   list |-> IF h.size[p] = n
            THEN [next |-> [h.next EXCEPT ![prev] = h.next[p]], size |-> h.size, freep |-> prev]
            ELSE [next |-> h.next, size |-> [h.size EXCEPT ![p] = @ - n], freep |-> prev]]

Take(h, n) ==
  LET k    == Least(Fits(h, n))
      p    == At(h)[k]
      prev == At(h)[k - 1]
      cut  == p + h.size[p] - n
  IN  IF h.size[p] = n
      THEN [block |-> p,
            list  |-> [next |-> [h.next EXCEPT ![prev] = h.next[p]], size |-> h.size, freep |-> prev]]
      ELSE [block |-> cut,
            list  |-> [next  |-> h.next,
                       size  |-> [h.size EXCEPT ![p] = @ - n, ![cut] = n],
                       freep |-> prev]]

-----------------------------------------------------------------------------
\* The first call links base to itself.
List ==
  IF freep = NULL
  THEN [next |-> [next EXCEPT ![base] = base], size |-> [size EXCEPT ![base] = 0], freep |-> base]
  ELSE [next |-> next, size |-> size, freep |-> freep]

\* The headers on the list.
LinkedIn(h) == IF h.freep = NULL THEN {} ELSE {At(h)[k] : k \in DOMAIN At(h)}

\* What is left of a header that has been swallowed by a merge, and the link
\* of a block in use, are never read again and are not kept.
SetList(h) ==
  /\ next' = [a \in Header |-> IF a \in LinkedIn(h) THEN h.next[a] ELSE NULL]
  /\ size' = [a \in Header |-> IF a \in LinkedIn(h) \cup DOMAIN owned' THEN h.size[a] ELSE 0]
  /\ freep' = h.freep

Hand(h, nbytes) ==
  LET t == Take(h, Quantas(nbytes)) IN
  /\ owned' = [b \in DOMAIN owned \cup {t.block} |-> IF b = t.block THEN nbytes ELSE owned[b]]
  /\ SetList(t.list)

\* s16mem_init
Init ==
  /\ base \in Bases
  /\ next = [h \in Header |-> NULL]
  /\ size = [h \in Header |-> 0]
  /\ freep = NULL
  /\ pool_free_pos = 0
  /\ owned = [b \in {} |-> 0]
  /\ exited = FALSE

\* s16mem_alloc, when malloc fails: from the list ...
AllocFromList(nbytes) ==
  /\ ~exited
  /\ Fits(List, Quantas(nbytes)) # {}
  /\ Hand(List, nbytes)
  /\ UNCHANGED <<base, pool_free_pos, exited>>

\* ... from a fresh part of the pool, after a full turn of the list ...
AllocFromPool(nbytes) ==
  LET n == Quantas(nbytes) IN
  /\ ~exited
  /\ Fits(List, n) = {}
  /\ pool_free_pos + Chunk(n) <= PoolSize
  /\ Hand(get_mem_from_pool(List, n), nbytes)
  /\ pool_free_pos' = pool_free_pos + Chunk(n)
  /\ UNCHANGED <<base, exited>>

\* ... or not at all: the process exits.
AllocFails(nbytes) ==
  LET n == Quantas(nbytes) IN
  /\ ~exited
  /\ Fits(List, n) = {}
  /\ pool_free_pos + Chunk(n) > PoolSize
  /\ exited' = TRUE
  /\ UNCHANGED <<base, pool_free_pos, owned>>
  /\ SetList(List)

\* s16mem_free of a block that a caller holds.
Free(b) ==
  /\ ~exited
  /\ owned' = [c \in DOMAIN owned \ {b} |-> owned[c]]
  /\ SetList(s16mem_free(List, b))
  /\ UNCHANGED <<base, pool_free_pos, exited>>

Next ==
  \/ \E nbytes \in Sizes : AllocFromList(nbytes) \/ AllocFromPool(nbytes) \/ AllocFails(nbytes)
  \/ \E b \in DOMAIN owned : Free(b)

Spec == Init /\ [][Next]_vars

-----------------------------------------------------------------------------
(* Properties. *)

Linked == LinkedIn([next |-> next, size |-> size, freep |-> freep])

Quanta(b) == b .. (b + size[b] - 1)

(* Every quantum that has been handed out by get_mem_from_pool is in exactly
   one block, which is either linked or held by a caller: no sequence of
   splits and merges loses memory, hands it out twice or links a block that
   is in use. *)
Tiled ==
  LET live == (Linked \ {base}) \cup DOMAIN owned IN
  /\ Linked \cap DOMAIN owned = {}
  /\ \A q \in Pool : Cardinality({b \in live : q \in Quanta(b)})
                       = IF q < pool_free_pos THEN 1 ELSE 0

(* The list is a circle through base in address order, on which exactly one
   link leads down, and no two of its blocks touch: the search for the place
   of a block ends, and a released block is combined with both neighbours. *)
Ordered ==
  Linked # {} =>
    /\ base \in Linked
    /\ Cardinality({h \in Linked : next[h] <= h}) = 1
    /\ \A h \in Linked \ {base} : h + size[h] # next[h] \/ next[h] = base

Pooled == INSTANCE Allocator WITH
  blocks <- {[at |-> b, len |-> size[b], bytes |-> owned[b]] : b \in DOMAIN owned},
  failed <- exited

(* The pool implements the specification its callers rely on: a block is in
   the pool, holds the bytes that were asked for behind its header, overlaps no
   other and stays as it is until it is released. *)
ImplementsAllocator == Pooled!Spec

(* The process gives up at a request (exit in s16mem_alloc) only when no gap
   between the blocks in use, below the part of the pool that is still
   untouched, is long enough for that request, and the rest of the pool is too
   short: nothing that has been given back is overlooked. *)
GivesUpOnlyWhenFull ==
  [][\A nbytes \in Sizes : AllocFails(nbytes) =>
       /\ \/ pool_free_pos + Quantas(nbytes) > PoolSize
          \/ pool_free_pos + MinQuantas > PoolSize
       /\ \A at \in 0 .. pool_free_pos - Quantas(nbytes) :
            \E b \in DOMAIN owned : (at .. at + Quantas(nbytes) - 1) \cap Quanta(b) # {}]_vars

=============================================================================
